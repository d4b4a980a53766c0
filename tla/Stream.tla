------------------------------- MODULE Stream -------------------------------
(***************************************************************************)
(* The streaming service of stream/stream.go: HTTP goroutines that call    *)
(* Next, Reset, Stop and Start of a Stream, the BacklogRunner goroutine    *)
(* that answers the calls waiting for data, the goroutine each             *)
(* Fetcher.Start forks to move messages from the Source to the ring, and   *)
(* the Source itself, which is external: it starts or fails to, yields a   *)
(* message or an error, and a closed one returns from Next.                *)
(*                                                                         *)
(* None of the Fetcher's fields is guarded, so a step is what runs between *)
(* two accesses another goroutine can fall between.  The ring is BufferOps *)
(* with Enqueue and Fetch atomic (they hold its mutex) and Empty in two    *)
(* steps; a message is its id, Zero is a Message never filled in.  Single  *)
(* operations of the session map and of the backlog list are taken as      *)
(* atomic here.                                                            *)
(***************************************************************************)
EXTENDS BufferOps, SequencesExt

CONSTANTS Workers,         \* HTTP goroutines, each serving one call at a time
          Clients,         \* browsers: each keeps one session cookie
          ClientOf,        \* the client each worker serves
          SIDs,            \* ids of stream sessions
          NoSID,           \* no (valid) id in the cookie
          Producers,       \* bound on the fetcher loops alive at once
          Ops,             \* the exposed methods each worker's client calls
          LazyStart,       \* configuration, see stream.go:213
          StopOnLonely,    \* configuration, see stream.go:214
          SessionTimeout,  \* DefaultSessionTimeout, in ticks
          Word,            \* 2^w, the modulus of unsigned Timestamps
          MaxTime,         \* bound on the ticks of the clock
          MaxCid           \* bound on the messages of one ring

ASSUME StreamAssumption ==
  /\ ClientOf \in [Workers -> Clients]
  /\ NoSID \notin SIDs
  /\ Ops \in [Workers -> SUBSET {"Next", "Reset", "Stop", "Start"}]
  /\ LazyStart \in BOOLEAN /\ StopOnLonely \in BOOLEAN
  /\ SessionTimeout \in Nat /\ MaxTime \in Nat /\ MaxCid \in Nat
  /\ Word \in Nat /\ Word > SessionTimeout + 1 + MaxTime

VARIABLES running,  \* Fetcher.running
          hasBuf,   \* Fetcher.buf was set
          cid, buf, \* the ring Fetcher.buf points to
          live,     \* keys of Fetcher.sessions
          sess,     \* StreamSession objects: cursor and last access
          backlog,  \* Fetcher.backlog: the workers that wait, in order
          old,      \* backlog entries there since the runner's select began
          runner,   \* the BacklogRunner: where it stands
          prod,     \* the fetcher loops
          job,      \* per worker: the call it serves
          ret,      \* per worker: the messages its Fetch returned
          cookie,   \* per client: the stream session id in its cookie
          clock     \* Now()

vars == <<running, hasBuf, cid, buf, live, sess, backlog, old, runner, prod,
          job, ret, cookie, clock>>

ring == <<hasBuf, cid, buf>>
sessions == <<live, sess>>
queue == <<backlog, old, runner>>

\* The last tick: the epoch is longer ago than a session may be idle.
Clocks == SessionTimeout + 1 + MaxTime

Zero == -1                        \* the zero Message, whose Id reads as 0
Id(m) == IF m = Zero THEN 0 ELSE m

Free == [pc |-> "free"]
Off(p) == prod[p].pc = "free"

Rest == [pc |-> "idle", op |-> "Next", ck |-> NoSID, sid |-> NoSID,
         rid |-> 0, now |-> 0, dirty |-> FALSE, sent |-> << >>]

\* Results: nil, messages in an array of their own, or a slice of the ring's
\* array, which is known by its slots.
NilRet == [nil |-> TRUE, ids |-> << >>, slots |-> << >>]

\* What Fetch(id) returns now.
Fetched(id) ==
  IF Rejected(cid, id) THEN NilRet
  ELSE LET n == cid - 1
           run == Run(n, id)
       IN [nil   |-> FALSE,
           ids   |-> IF Copied(n, id) THEN [i \in DOMAIN run |-> buf[run[i]]]
                     ELSE << >>,
           slots |-> IF Copied(n, id) THEN << >> ELSE run]

\* The messages of a result as its holder reads them now: those of a slice
\* are what the ring has in its slots by then.
Content(r) ==
  IF r.slots = << >> THEN r.ids ELSE [i \in DOMAIN r.slots |-> buf[r.slots[i]]]

\* A fresh array: results that share the old one keep its contents.
FreshSlots ==
  /\ buf' = [s \in Slots |-> Zero]
  /\ ret' = [w \in Workers |-> [nil   |-> ret[w].nil,
                                ids   |-> Content(ret[w]),
                                slots |-> << >>]]

\* A session object lives as long as the map or a call refers to it.
NoSession == [next |-> 0, last |-> 0]
Kept(f) == [s \in SIDs |->
             IF s \in live' \/ \E w \in Workers : job'[w].sid = s
             THEN f[s] ELSE NoSession]

At(w, pc) == job[w].pc = pc
Go(w, pc) == job' = [job EXCEPT ![w].pc = pc]

\* The call of w ends with nothing to keep: no new cookie, no cursor.
Leave(w) == job' = [job EXCEPT ![w] = Rest]

\* NewStream starts the source itself unless the start is lazy.
Init ==
  /\ running \in (IF LazyStart THEN {FALSE} ELSE BOOLEAN)
  /\ hasBuf = ~LazyStart
  /\ cid = 0
  /\ buf = [s \in Slots |-> Zero]
  /\ live = {}
  /\ sess = [s \in SIDs |-> NoSession]
  /\ backlog = << >>
  /\ old = 0
  /\ runner = [pc |-> "select", at |-> 0, now |-> 0]
  /\ \E p0 \in Producers :
       prod = [p \in Producers |->
                IF running /\ p = p0 THEN [pc |-> "loop"] ELSE Free]
  /\ job = [w \in Workers |-> Rest]
  /\ ret = [w \in Workers |-> NilRet]
  /\ cookie = [c \in Clients |-> NoSID]
  /\ clock = SessionTimeout + 1

-----------------------------------------------------------------------------
(* Calls.                                                                  *)

\* A request arrives, with the cookie its client holds now.  Next and Start
\* look at running first (lines 244, 279); Start returns if it is set.
Call(w, op) ==
  /\ At(w, "idle")
  /\ op = "Start" => ~running
  /\ job' = [job EXCEPT ![w] =
       [Rest EXCEPT
         !.op = op,
         !.ck = cookie[ClientOf[w]],
         !.pc = CASE op = "Start" -> "launch"
                  [] op = "Next"  -> IF LazyStart /\ ~running
                                     THEN "launch" ELSE "session"
                  [] op = "Reset" -> "session"
                  [] op = "Stop"  -> "stop"]]
  /\ UNCHANGED <<running, ring, sessions, queue, prod, ret, cookie, clock>>

\* Fetcher.Start: a new ring, a forked fetcher loop, and wait for its answer.  A
\* loop in the middle of Empty goes on with the old ring, which nobody sees.
Launch(w) ==
  /\ At(w, "launch")
  /\ \E p \in Producers :
       /\ Off(p)
       /\ prod' = [q \in Producers |->
                    CASE q = p -> [pc |-> "starting", by |-> w]
                      [] prod[q].pc = "emptybuf" -> Free
                      [] OTHER -> prod[q]]
  /\ hasBuf' = TRUE
  /\ cid' = 0
  /\ FreshSlots
  /\ Go(w, "starting")
  /\ UNCHANGED <<running, sessions, queue, cookie, clock>>

\* Whoever waits for Start goes on: Next with its session, Start to return.
Resume(w) == IF job[w].op = "Next" THEN Go(w, "session") ELSE Leave(w)

\* Session ids nobody else refers to: rand.Int63 does not repeat.  A client
\* that asks with a dead id and has no other call open may get it again, which
\* it cannot tell from a new one.
Fresh(w) ==
  LET others == Workers \ {w}
      alone == \A v \in others : ClientOf[v] # ClientOf[w]
  IN {s \in SIDs \ live :
        /\ \A v \in others : s \notin {job[v].sid, job[v].ck}
        /\ \A c \in Clients : cookie[c] = s => (alone /\ c = ClientOf[w])}

\* After session(): Next goes on to touch it, Reset to delete it.
Found(w) == IF job[w].op = "Next" THEN "touch" ELSE "delete"

\* session(): the cookie names no live session, so one is made, its cursor at
\* the next message.  Before the first Start there is no ring: a panic.
NewSession(w) ==
  /\ At(w, "session")
  /\ job[w].ck \notin live
  /\ IF hasBuf
     THEN \E s \in Fresh(w) :
            /\ sess' = [sess EXCEPT ![s] = [next |-> cid, last |-> 0]]
            /\ job' = [job EXCEPT ![w].sid = s, ![w].ck = NoSID,
                                  ![w].dirty = TRUE, ![w].pc = "enter"]
     ELSE Leave(w) /\ UNCHANGED sess
  /\ UNCHANGED <<running, ring, live, queue, prod, ret, cookie, clock>>

\* session(): the new session is put into the map.
EnterSession(w) ==
  /\ At(w, "enter")
  /\ live' = live \cup {job[w].sid}
  /\ Go(w, Found(w))
  /\ UNCHANGED <<running, ring, sess, queue, prod, ret, cookie, clock>>

\* session(): the cookie's session is live ...
OldSession(w) ==
  /\ At(w, "session")
  /\ job[w].ck \in live
  /\ Go(w, "reread")
  /\ UNCHANGED <<running, ring, sessions, queue, prod, ret, cookie, clock>>

\* ... and is looked up a second time; gone by then, it is nil: a panic.
Reread(w) ==
  /\ At(w, "reread")
  /\ IF job[w].ck \in live
     THEN job' = [job EXCEPT ![w].sid = job[w].ck, ![w].ck = NoSID,
                             ![w].pc = Found(w)]
     ELSE Leave(w)
  /\ UNCHANGED <<running, ring, sessions, queue, prod, ret, cookie, clock>>

\* Next notes the access and makes its fetch request.
Touch(w) ==
  /\ At(w, "touch")
  /\ sess' = [sess EXCEPT ![job[w].sid].last = clock]
  /\ job' = [job EXCEPT ![w].rid = sess[job[w].sid].next, ![w].pc = "fetch"]
  /\ UNCHANGED <<running, ring, live, queue, prod, ret, cookie, clock>>

\* Fetcher.Fetch decides: take what is there or wait for more ...
Decide(w) ==
  /\ At(w, "fetch")
  /\ Go(w, IF HasNext(cid, job[w].rid) THEN "take" ELSE "await")
  /\ UNCHANGED <<running, ring, sessions, queue, prod, ret, cookie, clock>>

\* ... unless the stream does not run: then the answer is nil.
Await(w) ==
  /\ At(w, "await")
  /\ Go(w, IF running THEN "mark" ELSE "got")
  /\ UNCHANGED <<running, ring, sessions, queue, prod, ret, cookie, clock>>

\* Fetcher.Fetch answers from the ring, as it is by now.
Take(w) ==
  /\ At(w, "take")
  /\ ret' = [ret EXCEPT ![w] = Fetched(job[w].rid)]
  /\ Go(w, "got")
  /\ UNCHANGED <<running, ring, sessions, queue, prod, cookie, clock>>

\* Mutant of Mark: the request is moved past two messages.
MarkTwice(w) ==
  /\ At(w, "mark")
  /\ job' = [job EXCEPT ![w].rid = cid + 2, ![w].pc = "push"]
  /\ UNCHANGED <<running, ring, sessions, queue, prod, ret, cookie, clock>>

\* Fetcher.Fetch moves the request past the next message (line 111) ...
Mark(w) ==
  /\ At(w, "mark")
  /\ job' = [job EXCEPT ![w].rid = cid + 1, ![w].pc = "push"]
  /\ UNCHANGED <<running, ring, sessions, queue, prod, ret, cookie, clock>>

\* ... and leaves it in the backlog, to wait for the runner.
Push(w) ==
  /\ At(w, "push")
  /\ backlog' = Append(backlog, w)
  /\ Go(w, "wait")
  /\ UNCHANGED <<running, ring, sessions, old, runner, prod, ret, cookie, clock>>

\* The call ends; its cookie goes out with the response if it was set.
Answer(w) ==
  /\ cookie' = IF job[w].dirty
               THEN [cookie EXCEPT ![ClientOf[w]] = job[w].sid] ELSE cookie
  /\ job' = [job EXCEPT ![w] = Rest]
  /\ ret' = [ret EXCEPT ![w] = NilRet]

\* Next has no result: nil is "no content", of an empty slice there is no
\* last message, a panic.
GotNothing(w) ==
  /\ At(w, "got")
  /\ Content(ret[w]) = << >>
  /\ live' = live
  /\ Answer(w)
  /\ sess' = Kept(sess)
  /\ UNCHANGED <<running, ring, queue, prod, clock>>

\* Mutant of Got: the cursor skips a message.
GotSkips(w) ==
  /\ At(w, "got")
  /\ Content(ret[w]) # << >>
  /\ sess' = [sess EXCEPT ![job[w].sid].next = Id(Last(Content(ret[w]))) + 2]
  /\ Go(w, "encode")
  /\ UNCHANGED <<running, ring, live, queue, prod, ret, cookie, clock>>

\* Next has a result: the cursor moves behind its last message.
Got(w) ==
  /\ At(w, "got")
  /\ Content(ret[w]) # << >>
  /\ sess' = [sess EXCEPT ![job[w].sid].next = Id(Last(Content(ret[w]))) + 1]
  /\ Go(w, "encode")
  /\ UNCHANGED <<running, ring, live, queue, prod, ret, cookie, clock>>

\* processCall encodes the result, message by message.
Encode(w) ==
  /\ At(w, "encode")
  /\ Len(job[w].sent) < Len(Content(ret[w]))
  /\ job' = [job EXCEPT ![w].sent =
               Append(@, Content(ret[w])[Len(@) + 1])]
  /\ UNCHANGED <<running, ring, sessions, queue, prod, ret, cookie, clock>>

\* All of it is encoded and goes out.
Deliver(w) ==
  /\ At(w, "encode")
  /\ Len(job[w].sent) = Len(Content(ret[w]))
  /\ live' = live
  /\ Answer(w)
  /\ sess' = Kept(sess)
  /\ UNCHANGED <<running, ring, queue, prod, clock>>

\* Reset deletes the session and returns.
Delete(w) ==
  /\ At(w, "delete")
  /\ live' = live \ {job[w].sid}
  /\ Answer(w)
  /\ sess' = Kept(sess)
  /\ UNCHANGED <<running, ring, queue, prod, clock>>

-----------------------------------------------------------------------------
(* cleanup, run by Stop with timeout 0 and by the runner.                  *)

\* The unsigned age of a session: an access after now wraps round.
Age(now, s) == (now - sess[s].last) % Word

\* The sessions left if cleanup reads the clock at now.
Survivors(now, timeout) == {s \in live : Age(now, s) <= timeout}

\* cleanup, begun at since, reads the clock once and deletes the too old.
DeleteOld(since, timeout) ==
  /\ \E now \in since .. clock : live' = Survivors(now, timeout)
  /\ sess' = Kept(sess)

\* Stream.Stop: the fetcher is stopped, its source closed; cleanup begins.
StopSource(w) ==
  /\ At(w, "stop")
  /\ running' = FALSE
  /\ job' = [job EXCEPT ![w].now = clock, ![w].pc = "sweep"]
  /\ UNCHANGED <<ring, sessions, queue, prod, ret, cookie, clock>>

StopSweep(w) ==
  /\ At(w, "sweep")
  /\ IF StopOnLonely
     THEN job' = [job EXCEPT ![w].now = 0, ![w].pc = "lonely"]
     ELSE Leave(w)
  /\ DeleteOld(job[w].now, 0)
  /\ UNCHANGED <<running, ring, queue, prod, ret, cookie, clock>>

\* No session is left: Stop stops the fetcher once more.
StopLonely(w) ==
  /\ At(w, "lonely")
  /\ IF live = {} THEN Go(w, "off") ELSE Leave(w)
  /\ UNCHANGED <<running, ring, sessions, queue, prod, ret, cookie, clock>>

StopAgain(w) ==
  /\ At(w, "off")
  /\ running' = FALSE
  /\ Leave(w)
  /\ UNCHANGED <<ring, sessions, queue, prod, ret, cookie, clock>>

-----------------------------------------------------------------------------
(* The BacklogRunner.                                                      *)

\* Mutant of Serve: the element stays in the list.
ServeNoRemove(i, r) ==
  LET w == backlog[i]
  IN /\ ret' = [ret EXCEPT ![w] = r]
     /\ Go(w, "got")
     /\ backlog' = backlog

\* The runner answers the i-th waiting call with r and drops it from the list.
Serve(i, r) ==
  LET w == backlog[i]
  IN /\ ret' = [ret EXCEPT ![w] = r]
     /\ Go(w, "got")
     /\ backlog' = RemoveAt(backlog, i)

\* A fetcher loop and the runner meet on the notify channel.
Notify(p) ==
  /\ prod[p].pc = "notify" /\ runner.pc = "select"
  /\ prod' = [prod EXCEPT ![p] = [pc |-> "loop"]]
  /\ runner' = [runner EXCEPT !.pc = "scan", !.at = 1]
  /\ UNCHANGED <<running, ring, sessions, backlog, old, job, ret, cookie, clock>>

\* The scan looks at one element; past the last, cleanup begins.
Scan ==
  /\ runner.pc = "scan"
  /\ runner' = IF runner.at > Len(backlog)
               THEN [pc |-> "sweep", at |-> 0, now |-> clock]
               ELSE IF HasNext(cid, job[backlog[runner.at]].rid)
               THEN [runner EXCEPT !.pc = "send"]
               ELSE [runner EXCEPT !.at = @ + 1]
  /\ UNCHANGED <<running, ring, sessions, backlog, old, prod, job, ret, cookie, clock>>

\* It fetches for that element, sends and removes it; a removed element has no
\* successor, so the scan ends there and cleanup begins.
Send ==
  /\ runner.pc = "send"
  /\ Serve(runner.at, Fetched(job[backlog[runner.at]].rid))
  /\ runner' = [pc |-> "sweep", at |-> 0, now |-> clock]
  /\ UNCHANGED <<running, ring, sessions, old, prod, cookie, clock>>

\* Back to select: whoever waits by now will have timed out when it fires.
Select == runner' = [pc |-> "select", at |-> 0, now |-> 0] /\ old' = Len(backlog')

Sweep ==
  /\ runner.pc = "sweep"
  /\ UNCHANGED <<running, ring, backlog, prod, job, ret, cookie, clock>>
  /\ DeleteOld(runner.now, SessionTimeout)
  /\ IF StopOnLonely
     THEN runner' = [pc |-> "lonely", at |-> 0, now |-> 0] /\ UNCHANGED old
     ELSE Select

\* No session is left: the runner stops the fetcher.
Lonely ==
  /\ runner.pc = "lonely"
  /\ UNCHANGED <<running, ring, sessions, backlog, prod, job, ret, cookie, clock>>
  /\ IF live = {}
     THEN runner' = [runner EXCEPT !.pc = "off"] /\ UNCHANGED old
     ELSE Select

StopStream ==
  /\ runner.pc = "off"
  /\ running' = FALSE
  /\ UNCHANGED <<ring, sessions, backlog, prod, job, ret, cookie, clock>>
  /\ Select

\* Mutant of Timeout: nothing is dropped from the backlog.
TimeoutKeeps ==
  /\ runner.pc = "select"
  /\ backlog # << >>
  /\ UNCHANGED backlog
  /\ Select
  /\ UNCHANGED <<running, ring, sessions, prod, job, ret, cookie, clock>>

\* The select's timer fires: the first request that timed out is answered nil,
\* and the loop ends with its removal.  One that was there when select began
\* has; a later one may have, if the runner is late.
Timeout ==
  /\ runner.pc = "select"
  /\ backlog # << >>
  /\ \/ \E i \in DOMAIN backlog :
          /\ old > 0 => i = 1
          /\ Serve(i, NilRet)
     \/ /\ old = 0
        /\ UNCHANGED <<backlog, job, ret>>
  /\ Select
  /\ UNCHANGED <<running, ring, sessions, prod, cookie, clock>>

-----------------------------------------------------------------------------
(* The fetcher loop.                                                       *)

\* source.Start succeeded: the stream runs, and Start returns to its caller.
SourceUp(p) ==
  /\ prod[p].pc = "starting"
  /\ running' = TRUE
  /\ prod' = [prod EXCEPT ![p] = [pc |-> "loop"]]
  /\ Resume(prod[p].by)
  /\ UNCHANGED <<ring, sessions, queue, ret, cookie, clock>>

\* Mutant of SourceDown: the error is not looked at.
SourceDownRuns(p) ==
  /\ prod[p].pc = "starting"
  /\ running' = TRUE
  /\ prod' = [prod EXCEPT ![p] = Free]
  /\ Resume(prod[p].by)
  /\ UNCHANGED <<ring, sessions, queue, ret, cookie, clock>>

\* Mutant of SourceDown: the goroutine returns without answering on ret.
SourceDownSilent(p) ==
  /\ prod[p].pc = "starting"
  /\ prod' = [prod EXCEPT ![p] = Free]
  /\ UNCHANGED <<running, ring, sessions, queue, job, ret, cookie, clock>>

\* source.Start failed: the goroutine ends, and Start returns the error, which
\* Stream.Start only logs.
SourceDown(p) ==
  /\ prod[p].pc = "starting"
  /\ prod' = [prod EXCEPT ![p] = Free]
  /\ Resume(prod[p].by)
  /\ UNCHANGED <<running, ring, sessions, queue, ret, cookie, clock>>

\* Mutant of Loop: the loop does not look at running.
LoopForever(p) ==
  /\ prod[p].pc = "loop"
  /\ prod' = [prod EXCEPT ![p] = [pc |-> "next"]]
  /\ UNCHANGED <<running, ring, sessions, queue, job, ret, cookie, clock>>

\* The loop condition, then into source.Next or out to Empty.
Loop(p) ==
  /\ prod[p].pc = "loop"
  /\ prod' = [prod EXCEPT ![p] = [pc |-> IF running THEN "next" ELSE "empty"]]
  /\ UNCHANGED <<running, ring, sessions, queue, job, ret, cookie, clock>>

\* source.Next returned a message: it is enqueued, whatever happened meanwhile.
Receive(p) ==
  /\ prod[p].pc = "next"
  /\ cid < MaxCid
  /\ buf' = [buf EXCEPT ![Slot(cid)] = cid]
  /\ cid' = cid + 1
  /\ prod' = [prod EXCEPT ![p] = [pc |-> "notify"]]
  /\ UNCHANGED <<running, hasBuf, sessions, queue, job, ret, cookie, clock>>

\* source.Next returned an error, which is logged.
ReceiveError(p) ==
  /\ prod[p].pc = "next"
  /\ prod' = [prod EXCEPT ![p] = [pc |-> "loop"]]
  /\ UNCHANGED <<running, ring, sessions, queue, job, ret, cookie, clock>>

\* The loop ended: Empty, in two assignments, on the ring that is current now.
EmptyCid(p) ==
  /\ prod[p].pc = "empty"
  /\ cid' = 0
  /\ prod' = [prod EXCEPT ![p] = [pc |-> "emptybuf"]]
  /\ UNCHANGED <<running, hasBuf, buf, sessions, queue, job, ret, cookie, clock>>

EmptyBuf(p) ==
  /\ prod[p].pc = "emptybuf"
  /\ FreshSlots
  /\ prod' = [prod EXCEPT ![p] = Free]
  /\ UNCHANGED <<running, hasBuf, cid, sessions, queue, job, cookie, clock>>

Tick ==
  /\ clock < Clocks
  /\ clock' = clock + 1
  /\ UNCHANGED <<running, ring, sessions, queue, prod, job, ret, cookie>>

-----------------------------------------------------------------------------
\* What a worker does once its call is in.
Work(w) ==
  \/ Launch(w)
  \/ NewSession(w)
  \/ EnterSession(w)
  \/ OldSession(w)
  \/ Reread(w)
  \/ Touch(w)
  \/ Decide(w)
  \/ Await(w)
  \/ Take(w)
  \/ Mark(w)
  \/ Push(w)
  \/ GotNothing(w)
  \/ Got(w)
  \/ Encode(w)
  \/ Deliver(w)
  \/ Delete(w)
  \/ StopSource(w)
  \/ StopSweep(w)
  \/ StopLonely(w)
  \/ StopAgain(w)

\* What the runner does by itself.
Run1 ==
  \/ Scan
  \/ Send
  \/ Sweep
  \/ Lonely
  \/ StopStream
  \/ Timeout

\* What a fetcher loop does by itself.
Produce(p) ==
  \/ SourceUp(p)
  \/ SourceDown(p)
  \/ Loop(p)
  \/ EmptyCid(p)
  \/ EmptyBuf(p)

Next ==
  \/ \E w \in Workers : Work(w) \/ \E op \in Ops[w] : Call(w, op)
  \/ Run1
  \/ \E p \in Producers :
       Produce(p) \/ Notify(p) \/ Receive(p) \/ ReceiveError(p)
  \/ Tick

Spec == Init /\ [][Next]_vars

(***************************************************************************)
(* Goroutines that can go on do; the Source answers Start, and Next once   *)
(* it was closed.  Calls, messages and time are not owed.                  *)
(***************************************************************************)
Fairness ==
  /\ \A w \in Workers : WF_vars(Work(w))
  /\ WF_vars(Run1)
  /\ \A p \in Producers :
       WF_vars(Produce(p) \/ Notify(p) \/ (~running /\ ReceiveError(p)))

FairSpec == Spec /\ Fairness

-----------------------------------------------------------------------------
Stored == 0 .. MaxCid \cup {Zero}

\* Types of all variables, with the control states of the three goroutines.
Jobs == [pc : {"idle", "launch", "starting", "session", "enter", "reread",
               "touch", "fetch", "take", "await", "mark", "push", "wait",
               "got", "encode", "delete", "stop", "sweep", "lonely", "off"},
         op : {"Next", "Reset", "Stop", "Start"},
         ck : SIDs \cup {NoSID}, sid : SIDs \cup {NoSID},
         rid : 0 .. MaxCid + 1, now : 0 .. Clocks, dirty : BOOLEAN,
         sent : Seq(Stored)]

Rets == [nil : BOOLEAN, ids : Seq(Stored), slots : Seq(Slots)]

StreamSessions == [next : 0 .. MaxCid + 1, last : 0 .. Clocks]

Loops == [pc : {"free", "loop", "next", "notify", "empty", "emptybuf"}]
           \cup [pc : {"starting"}, by : Workers]

\* Where a call has its session.
WithSession == {"enter", "touch", "fetch", "take", "await", "mark", "push",
                "wait", "got", "encode", "delete"}

RingOK ==
  /\ hasBuf \in BOOLEAN
  /\ cid \in 0 .. MaxCid
  /\ buf \in [Slots -> Stored]

SessionsOK == live \subseteq SIDs /\ sess \in [SIDs -> StreamSessions]

RunnerOK ==
  /\ runner \in [pc : {"select", "scan", "send", "sweep", "lonely", "off"},
                 at : Nat, now : 0 .. Clocks]
  /\ runner.pc = "scan" => runner.at > 0
  /\ runner.pc = "send" => runner.at \in DOMAIN backlog
  /\ old \in Nat

JobsOK ==
  /\ job \in [Workers -> Jobs]
  /\ \A w \in Workers : job[w].pc \in WithSession => job[w].sid \in SIDs

TypeOK ==
  /\ running \in BOOLEAN
  /\ RingOK
  /\ SessionsOK
  /\ backlog \in Seq(Workers)
  /\ RunnerOK
  /\ prod \in [Producers -> Loops]
  /\ JobsOK
  /\ ret \in [Workers -> Rets]
  /\ cookie \in [Clients -> SIDs \cup {NoSID}]
  /\ clock \in 0 .. Clocks

(***************************************************************************)
(* While the stream runs, a goroutine moves its messages: whatever Start,  *)
(* Stop and cleanup do to each other, running is never left set with every *)
(* fetcher loop gone, the state in which each call would wait for nothing  *)
(* and none would start the stream again (stream.go:182-194, 201-207).     *)
(***************************************************************************)
RunningHasProducer ==
  running => \E p \in Producers : prod[p].pc \in {"loop", "next", "notify"}

(***************************************************************************)
(* A goroutine forked by Start and the caller blocked on its ret channel   *)
(* belong to each other one to one, so neither blocks for ever on it       *)
(* (stream.go:160, 178, 183, 196).                                         *)
(***************************************************************************)
LaunchPaired ==
  /\ \A p \in Producers :
       prod[p].pc = "starting" => At(prod[p].by, "starting")
  /\ \A w \in Workers : At(w, "starting") =>
       \E p \in Producers : prod[p] = [pc |-> "starting", by |-> w]
  /\ \A p, q \in Producers :
       (prod[p].pc = "starting" /\ prod[p] = prod[q]) => p = q

(***************************************************************************)
(* The backlog lists each call blocked on its q channel once and no other: *)
(* the runner's send (stream.go:134, 149) never blocks the runner, and no  *)
(* blocked call is out of the runner's reach.                              *)
(***************************************************************************)
BacklogIsWaiters ==
  /\ \A w \in Workers :
       At(w, "wait") <=> \E i \in DOMAIN backlog : backlog[i] = w
  /\ \A i, j \in DOMAIN backlog : backlog[i] = backlog[j] => i = j

(***************************************************************************)
(* A call that does not get nil gets messages, as Next takes the last of   *)
(* them and panics if there is none (stream.go:255).  What is sent of them *)
(* was enqueued and comes in the order of the ring: from an array of its   *)
(* own without a gap; from a slice of the ring's own array (buffer.go:143) *)
(* with messages replaced, until they are encoded (frontend.go:1092), by   *)
(* ones whole turns of the ring newer, so that it may step back, but by    *)
(* less than a turn.  Holds on a stream that is not restarted.             *)
(***************************************************************************)
DeliversMessages ==
  \A w \in Workers :
    LET c == job[w].sent
    IN /\ ret[w].nil \/ Content(ret[w]) # << >>
       /\ \A i \in DOMAIN c : c[i] >= 0 /\ c[i] < cid
       /\ \A i \in DOMAIN c \ {1} :
            /\ Slot(c[i]) = Slot(c[i - 1] + 1)
            /\ c[i] > c[i - 1] - Size
            /\ ret[w].slots = << >> => c[i] = c[i - 1] + 1

(***************************************************************************)
(* A session's cursor only moves forward and never past the next message,  *)
(* although the last id is read from a slice the fetcher loop may be       *)
(* overwriting (stream.go:255, buffer.go:143): one call at a time per      *)
(* client, on a stream that is not restarted.                              *)
(***************************************************************************)
CursorAdvances ==
  [][\A s \in live \cap live' : /\ sess'[s].next >= sess[s].next
                                /\ sess'[s].next <= cid']_vars

(***************************************************************************)
(* The test buffer_test.go:140 calls it a leak when the first message of a *)
(* result is not the one the cursor asked for; here with a ring that did   *)
(* not overrun the cursor.                                                 *)
(***************************************************************************)
NoLeak ==
  \A w \in Workers : (At(w, "got") /\ ~ret[w].nil /\ cid <= Size) =>
    Content(ret[w])[1] = sess[job[w].sid].next

(***************************************************************************)
(* cleanup kills a session that "Timedout since %d seconds" (stream.go:94):*)
(* not one whose client came within the timeout.                           *)
(***************************************************************************)
KillsOnlyTimedOut ==
  [][runner.pc = "sweep" =>
       \A s \in live \ live' : clock - sess[s].last > SessionTimeout]_vars

\* A start that the bound on the fetcher loops keeps back.
KeptBack(w) == At(w, "launch") /\ \A p \in Producers : ~Off(p)

(***************************************************************************)
(* Every call ends: it is answered with data or runs into the request      *)
(* timeout (stream.go:25, 143-151), also if the stream is stopped or       *)
(* started under it; unless it is started again and again without an end,  *)
(* as the first message of each new ring puts the runner's timer off.      *)
(***************************************************************************)
EveryCallReturns ==
  <>[][\A w \in Workers : ~Launch(w)]_vars =>
    \A w \in Workers : ~At(w, "idle") ~> At(w, "idle") \/ KeptBack(w)

(***************************************************************************)
(* A stopped stream's fetcher loop ends (stream.go:184, 193), unless a new *)
(* start revives it.                                                       *)
(***************************************************************************)
StoppedLoopsEnd ==
  \A p \in Producers : (~Off(p) /\ ~running) ~> (Off(p) \/ running)
=============================================================================
