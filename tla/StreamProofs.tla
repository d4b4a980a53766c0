---------------------------- MODULE StreamProofs ----------------------------
(***************************************************************************)
(* Proofs about the streaming service, for every number of workers,        *)
(* clients, sessions and fetcher loops, every ring size and every          *)
(* configuration: types, that a running stream has a fetcher loop, that    *)
(* launches and callers are paired, that the backlog lists the waiters.    *)
(***************************************************************************)
EXTENDS Stream, BufferOpsProofs, SequenceTheorems

\* Taking one element out of a sequence keeps the others, in their order.
LEMMA RemoveAtProperties ==
  ASSUME NEW S, NEW q \in Seq(S), NEW i \in DOMAIN q
  PROVE  /\ RemoveAt(q, i) \in Seq(S)
         /\ Len(RemoveAt(q, i)) = Len(q) - 1
         /\ \A j \in 1 .. Len(q) - 1 :
              RemoveAt(q, i)[j] = IF j < i THEN q[j] ELSE q[j + 1]
<1> DEFINE a == SubSeq(q, 1, i - 1)
           b == SubSeq(q, i + 1, Len(q))
<1>1. i \in 1 .. Len(q) /\ Len(q) \in Nat
  OBVIOUS
<1>2. a \in Seq(S) /\ Len(a) = i - 1 /\ \A j \in 1 .. i - 1 : a[j] = q[j]
  <2>1. \A j \in 1 .. i - 1 : q[j] \in S
    BY <1>1
  <2> QED BY <1>1, <2>1
<1>3. /\ b \in Seq(S) /\ Len(b) = Len(q) - i
      /\ \A j \in 1 .. Len(q) - i : b[j] = q[i + j]
  <2>1. \A j \in i + 1 .. Len(q) : q[j] \in S
    BY <1>1
  <2>2. \A j \in 1 .. Len(q) - i : b[j] = q[(i + 1) + (j - 1)]
    BY <1>1
  <2> QED BY <1>1, <2>1, <2>2
<1> HIDE DEF a, b
<1>4. /\ a \o b \in Seq(S) /\ Len(a \o b) = Len(a) + Len(b)
      /\ \A j \in 1 .. Len(a) + Len(b) :
           (a \o b)[j] = IF j <= Len(a) THEN a[j] ELSE b[j - Len(a)]
  <2>1. a \in Seq(S) /\ b \in Seq(S)
    BY <1>2, <1>3
  <2> QED BY <2>1, ConcatProperties, Zenon
<1>5. RemoveAt(q, i) = a \o b
  BY DEF RemoveAt, a, b
<1>6. Len(a) + Len(b) = Len(q) - 1
  BY <1>1, <1>2, <1>3
<1>7. ASSUME NEW j \in 1 .. Len(q) - 1
      PROVE  (a \o b)[j] = IF j < i THEN q[j] ELSE q[j + 1]
  <2>1. CASE j < i
    BY <1>1, <1>2, <1>4, <1>6, <2>1
  <2>2. CASE ~(j < i)
    <3>1. (a \o b)[j] = b[j - (i - 1)] /\ j - (i - 1) \in 1 .. Len(q) - i
      <4>1. j \in Int /\ ~(j <= Len(a)) /\ Len(a) = i - 1 /\ i \in Int
        BY <1>1, <1>2, <2>2
      <4>2. j \in 1 .. Len(a) + Len(b)
        BY <1>6
      <4>3. (a \o b)[j] = b[j - Len(a)]
        BY <1>4, <4>1, <4>2
      <4> QED BY <1>1, <4>1, <4>3
    <3>2. b[j - (i - 1)] = q[i + (j - (i - 1))]
      BY <1>3, <3>1
    <3>3. i + (j - (i - 1)) = j + 1
      BY <1>1
    <3> QED BY <2>2, <3>1, <3>2, <3>3
  <2> QED BY <2>1, <2>2
<1> QED BY <1>4, <1>5, <1>6, <1>7

-----------------------------------------------------------------------------
(* A running stream has a fetcher loop.                                    *)

\* The states in which a fetcher loop still moves messages.
Moving(p) == prod[p].pc \in {"loop", "next", "notify"}

\* RunningHasProducer with what its induction needs of the types.
RunningInv == DOMAIN prod = Producers /\ RunningHasProducer

\* Only SourceUp sets running, and its loop moves messages from then on; a loop
\* leaves these states only when it finds running cleared.
LEMMA RunningStep ==
  RunningInv /\ [Next]_vars => RunningInv'
<1> SUFFICES ASSUME DOMAIN prod = Producers, RunningHasProducer, [Next]_vars
             PROVE  DOMAIN prod' = Producers /\ RunningHasProducer'
  BY DEF RunningInv
<1>1. CASE UNCHANGED prod /\ (running' => running)
  BY <1>1 DEF RunningHasProducer
<1>2. ASSUME NEW w \in Workers, Launch(w)
      PROVE  DOMAIN prod' = Producers /\ RunningHasProducer'
  <2>1. PICK p \in Producers :
          /\ Off(p)
          /\ prod' = [q \in Producers |->
                       CASE q = p -> [pc |-> "starting", by |-> w]
                         [] prod[q].pc = "emptybuf" -> Free
                         [] OTHER -> prod[q]]
    BY <1>2 DEF Launch
  <2>2. running' = running
    BY <1>2 DEF Launch
  <2>3. ASSUME NEW q \in Producers, Moving(q) PROVE prod'[q] = prod[q]
    <3>1. q # p /\ prod[q].pc # "emptybuf"
      BY <2>1, <2>3 DEF Off, Moving
    <3> QED BY <2>1, <3>1
  <2> QED BY <2>1, <2>2, <2>3 DEF RunningHasProducer, Moving
<1>3. ASSUME NEW p \in Producers, SourceUp(p)
      PROVE  DOMAIN prod' = Producers /\ RunningHasProducer'
  <2>1. prod' = [prod EXCEPT ![p] = [pc |-> "loop"]]
    BY <1>3 DEF SourceUp
  <2> QED BY <2>1 DEF RunningHasProducer
<1>4. ASSUME NEW p \in Producers, NEW x,
             prod' = [prod EXCEPT ![p] = x], running' = running,
             ~Moving(p) \/ ~running \/ x.pc \in {"loop", "next", "notify"}
      PROVE  DOMAIN prod' = Producers /\ RunningHasProducer'
  <2>1. \A q \in Producers : q # p => prod'[q] = prod[q]
    BY <1>4
  <2>2. prod'[p] = x
    BY <1>4
  <2> QED BY <1>4, <2>1, <2>2 DEF RunningHasProducer, Moving
<1>5. ASSUME NEW p \in Producers,
             \/ SourceDown(p) \/ Loop(p) \/ EmptyCid(p) \/ EmptyBuf(p)
             \/ Notify(p) \/ Receive(p) \/ ReceiveError(p)
      PROVE  DOMAIN prod' = Producers /\ RunningHasProducer'
  <2>1. \E x : /\ prod' = [prod EXCEPT ![p] = x] /\ running' = running
              /\ \/ ~Moving(p) \/ ~running
                 \/ x.pc \in {"loop", "next", "notify"}
    <3>1. CASE SourceDown(p)
      <4>1. prod' = [prod EXCEPT ![p] = Free] /\ running' = running /\ ~Moving(p)
        BY <3>1 DEF SourceDown, Moving
      <4> QED BY <4>1
    <3>2. CASE Loop(p)
      <4> DEFINE x == [pc |-> IF running THEN "next" ELSE "empty"]
      <4>1. prod' = [prod EXCEPT ![p] = x] /\ running' = running
        BY <3>2 DEF Loop
      <4>2. running => x.pc = "next"
        OBVIOUS
      <4> HIDE DEF x
      <4> QED BY <4>1, <4>2
    <3>3. CASE EmptyCid(p)
      <4>1. prod' = [prod EXCEPT ![p] = [pc |-> "emptybuf"]] /\ running' = running
            /\ ~Moving(p)
        BY <3>3 DEF EmptyCid, Moving
      <4> QED BY <4>1
    <3>4. CASE EmptyBuf(p)
      <4>1. prod' = [prod EXCEPT ![p] = Free] /\ running' = running /\ ~Moving(p)
        BY <3>4 DEF EmptyBuf, Moving
      <4> QED BY <4>1
    <3>5. CASE Notify(p) \/ ReceiveError(p)
      <4>1. prod' = [prod EXCEPT ![p] = [pc |-> "loop"]] /\ running' = running
        BY <3>5 DEF Notify, ReceiveError
      <4>2. [pc |-> "loop"].pc = "loop"
        OBVIOUS
      <4> QED BY <4>1, <4>2
    <3>6. CASE Receive(p)
      <4>1. prod' = [prod EXCEPT ![p] = [pc |-> "notify"]] /\ running' = running
        BY <3>6 DEF Receive
      <4>2. [pc |-> "notify"].pc = "notify"
        OBVIOUS
      <4> QED BY <4>1, <4>2
    <3> QED BY <1>5, <3>1, <3>2, <3>3, <3>4, <3>5, <3>6
  <2> QED BY <1>4, <2>1
<1>6. ASSUME NEW w \in Workers, Work(w), ~Launch(w)
      PROVE  UNCHANGED prod /\ (running' => running)
  <2>1. CASE NewSession(w)
    BY <2>1 DEF NewSession
  <2>2. CASE EnterSession(w) \/ OldSession(w) \/ Reread(w)
    BY <2>2 DEF EnterSession, OldSession, Reread
  <2>3. CASE Touch(w) \/ Decide(w) \/ Take(w)
    BY <2>3 DEF Touch, Decide, Take
  <2>4. CASE Await(w) \/ Mark(w) \/ Push(w)
    BY <2>4 DEF Await, Mark, Push
  <2>5. CASE GotNothing(w) \/ Got(w) \/ Encode(w) \/ Deliver(w) \/ Delete(w)
    BY <2>5 DEF GotNothing, Got, Encode, Deliver, Delete
  <2>6. CASE StopSource(w) \/ StopSweep(w) \/ StopLonely(w) \/ StopAgain(w)
    BY <2>6 DEF StopSource, StopSweep, StopLonely, StopAgain
  <2> QED BY <1>6, <2>1, <2>2, <2>3, <2>4, <2>5, <2>6 DEF Work
<1>7. ASSUME NEW w \in Workers, NEW op \in Ops[w], Call(w, op)
      PROVE  UNCHANGED prod /\ (running' => running)
  BY <1>7 DEF Call
<1>8. ASSUME Run1 PROVE UNCHANGED prod /\ (running' => running)
  <2>1. CASE Scan \/ Send \/ Timeout
    BY <2>1 DEF Scan, Send, Timeout
  <2>2. CASE Sweep
    BY <2>2 DEF Sweep
  <2>3. CASE Lonely \/ StopStream
    BY <2>3 DEF Lonely, StopStream
  <2> QED BY <1>8, <2>1, <2>2, <2>3 DEF Run1
<1>9. ASSUME Tick \/ UNCHANGED vars PROVE UNCHANGED prod /\ (running' => running)
  <2>1. CASE Tick
    BY <2>1 DEF Tick
  <2>2. CASE UNCHANGED vars
    BY <2>2 DEF vars
  <2> QED BY <1>9, <2>1, <2>2
<1> QED BY <1>1, <1>2, <1>3, <1>5, <1>6, <1>7, <1>8, <1>9 DEF Next, Produce

(***************************************************************************)
(* While running is set some fetcher loop moves messages, whatever Start,  *)
(* Stop and the two cleanups do to each other.                             *)
(***************************************************************************)
THEOREM RunningIsServed == Spec => []RunningHasProducer
<1>1. Init => RunningInv
  BY DEF Init, RunningInv, RunningHasProducer
<1>2. RunningInv => RunningHasProducer
  BY DEF RunningInv
<1> QED BY <1>1, <1>2, RunningStep, PTL DEF Spec

-----------------------------------------------------------------------------
(* Types, launches and the backlog.                                        *)

(***************************************************************************)
(* None of the three invariants is inductive alone: the runner answers the *)
(* call a list entry names, so its session is there (TypeOK) only if that  *)
(* call waits (BacklogIsWaiters); a loop's start resumes the call it was   *)
(* forked by, which must not be one that waits (LaunchPaired).             *)
(***************************************************************************)
IInv == TypeOK /\ BacklogIsWaiters /\ LaunchPaired

\* What a Fetch returns is a result.
LEMMA FetchedType ==
  ASSUME RingOK, NEW id \in Nat
  PROVE  Fetched(id) \in Rets
<1>1. cid \in Nat /\ buf \in [Slots -> Stored]
  BY StreamAssumption DEF RingOK
<1>2. NilRet \in Rets
  BY DEF NilRet, Rets
<1>3. ASSUME ~Rejected(cid, id) PROVE Fetched(id) \in Rets
  <2> DEFINE n == cid - 1
             run == Run(n, id)
             ids == [i \in DOMAIN run |-> buf[run[i]]]
             slots == IF Copied(n, id) THEN << >> ELSE run
  <2>1. run \in Seq(Slots)
    BY <1>1, <1>3, RunType DEF Rejected
  <2> HIDE DEF run
  <2>2. ids \in Seq(Stored)
    BY <1>1, <2>1
  <2>3. slots \in Seq(Slots) /\ << >> \in Seq(Stored)
    BY <2>1
  <2>4. Fetched(id) = [nil   |-> FALSE,
                       ids   |-> IF Copied(n, id) THEN ids ELSE << >>,
                       slots |-> slots]
    BY <1>3 DEF Fetched, run
  <2> HIDE DEF ids, slots
  <2> QED BY <2>2, <2>3, <2>4 DEF Rets
<1> QED BY <1>2, <1>3 DEF Fetched

\* The messages of a result are ones that can be stored.
LEMMA ContentType ==
  ASSUME RingOK, NEW r \in Rets
  PROVE  Content(r) \in Seq(Stored)
<1>1. buf \in [Slots -> Stored] /\ r.ids \in Seq(Stored) /\ r.slots \in Seq(Slots)
  BY DEF RingOK, Rets
<1>2. [i \in DOMAIN r.slots |-> buf[r.slots[i]]] \in Seq(Stored)
  <2> DEFINE q == r.slots
  <2>1. q \in Seq(Slots)
    BY <1>1
  <2> HIDE DEF q
  <2>2. [i \in DOMAIN q |-> buf[q[i]]] \in Seq(Stored)
    BY <1>1, <2>1
  <2> QED BY <2>2 DEF q
<1> QED BY <1>1, <1>2 DEF Content

\* A fresh array is one of the ring, and the results that shared the old one
\* are results still.
LEMMA FreshType ==
  ASSUME RingOK, ret \in [Workers -> Rets], FreshSlots
  PROVE  buf' \in [Slots -> Stored] /\ ret' \in [Workers -> Rets]
<1>1. buf' \in [Slots -> Stored]
  BY DEF FreshSlots, Stored
<1>2. ASSUME NEW w \in Workers
      PROVE  [nil |-> ret[w].nil, ids |-> Content(ret[w]), slots |-> << >>] \in Rets
  <2>1. ret[w] \in Rets
    OBVIOUS
  <2>2. Content(ret[w]) \in Seq(Stored) /\ ret[w].nil \in BOOLEAN
    BY <2>1, ContentType DEF Rets
  <2>3. << >> \in Seq(Slots)
    OBVIOUS
  <2> DEFINE c == Content(ret[w])
  <2> HIDE DEF c
  <2>4. [nil |-> ret[w].nil, ids |-> c, slots |-> << >>] \in Rets
    BY <2>2, <2>3 DEF Rets, c
  <2> QED BY <2>4 DEF c
<1>3. ret' \in [Workers -> Rets]
  BY <1>2 DEF FreshSlots
<1> QED BY <1>1, <1>3

\* Resetting the sessions nobody refers to keeps their type.
LEMMA KeptType ==
  ASSUME NEW f \in [SIDs -> StreamSessions]
  PROVE  Kept(f) \in [SIDs -> StreamSessions]
<1>1. NoSession \in StreamSessions
  BY StreamAssumption DEF NoSession, StreamSessions, Clocks
<1> QED BY <1>1 DEF Kept

\* A call blocked by another goroutine: it neither starts nor ends to be so by
\* itself, except when it launches a loop or enters the backlog.
Blocked == {"wait", "starting"}

\* What a worker does by itself, when it is not blocked and does not block,
\* concerns neither the backlog nor the launches.
LEMMA WorkerMoves ==
  ASSUME JobsOK, BacklogIsWaiters, LaunchPaired, prod \in [Producers -> Loops],
         NEW w \in Workers, NEW j \in Jobs,
         job' = [job EXCEPT ![w] = j],
         j.pc \in WithSession => j.sid \in SIDs,
         job[w].pc \notin Blocked, j.pc \notin Blocked,
         UNCHANGED <<backlog, prod>>
  PROVE  JobsOK' /\ BacklogIsWaiters' /\ LaunchPaired'
<1>1. job' \in [Workers -> Jobs] /\ \A v \in Workers : job'[v] = IF v = w THEN j ELSE job[v]
  BY DEF JobsOK
<1>2. JobsOK'
  BY <1>1 DEF JobsOK
<1>3. \A v \in Workers : /\ At(v, "wait")' <=> At(v, "wait")
                         /\ At(v, "starting")' <=> At(v, "starting")
  BY <1>1 DEF At, Blocked
<1>4. BacklogIsWaiters'
  BY <1>3 DEF BacklogIsWaiters
<1>5. LaunchPaired'
  <2>1. \A p \in Producers : prod[p].pc = "starting" => prod[p].by \in Workers
    BY DEF Loops
  <2> QED BY <1>3, <2>1 DEF LaunchPaired
<1> QED BY <1>2, <1>4, <1>5

\* The control states of a worker.
Controls == {"idle", "launch", "starting", "session", "enter", "reread",
             "touch", "fetch", "take", "await", "mark", "push", "wait",
             "got", "encode", "delete", "stop", "sweep", "lonely", "off"}

\* Setting the pc of a worker's job.
LEMMA GoType ==
  ASSUME JobsOK, NEW w \in Workers, NEW pc \in Controls, Go(w, pc)
  PROVE  \E j \in Jobs : /\ job' = [job EXCEPT ![w] = j]
                         /\ j.pc = pc /\ j.sid = job[w].sid
<1> DEFINE j == [job[w] EXCEPT !.pc = pc]
<1>1. job[w] \in Jobs
  BY DEF JobsOK
<1>2. j \in Jobs /\ j.pc = pc /\ j.sid = job[w].sid
  BY <1>1 DEF Jobs, Controls
<1>3. job' = [job EXCEPT ![w] = j]
  BY DEF Go
<1> QED BY <1>2, <1>3

LEMMA RestType == Rest \in Jobs
BY StreamAssumption DEF Rest, Jobs, Clocks

\* The runner answers the i-th entry of the backlog, a call that waits, and
\* takes it out: the others keep waiting, each still listed once.
LEMMA ServeStep ==
  ASSUME IInv, NEW i \in DOMAIN backlog, NEW r \in Rets, Serve(i, r),
         UNCHANGED prod
  PROVE  /\ backlog' \in Seq(Workers) /\ JobsOK' /\ ret' \in [Workers -> Rets]
         /\ BacklogIsWaiters' /\ LaunchPaired'
<1> DEFINE w == backlog[i]
<1>1. /\ backlog \in Seq(Workers) /\ JobsOK /\ ret \in [Workers -> Rets]
      /\ prod \in [Producers -> Loops]
      /\ BacklogIsWaiters /\ LaunchPaired
  BY DEF IInv, TypeOK
<1>2. w \in Workers /\ At(w, "wait")
  BY <1>1 DEF BacklogIsWaiters
<1>3. /\ Go(w, "got") /\ ret' = [ret EXCEPT ![w] = r]
      /\ backlog' = RemoveAt(backlog, i)
  BY DEF Serve
<1> HIDE DEF w
<1>4. PICK j \in Jobs : /\ job' = [job EXCEPT ![w] = j]
                        /\ j.pc = "got" /\ j.sid = job[w].sid
  BY <1>1, <1>2, <1>3, GoType DEF Controls
<1>5. job' \in [Workers -> Jobs] /\ \A v \in Workers : job'[v] = IF v = w THEN j ELSE job[v]
  BY <1>1, <1>4 DEF JobsOK
<1>6. JobsOK'
  BY <1>1, <1>2, <1>4, <1>5 DEF JobsOK, WithSession, At
<1>7. /\ backlog' \in Seq(Workers) /\ Len(backlog') = Len(backlog) - 1
      /\ \A k \in 1 .. Len(backlog) - 1 :
           backlog'[k] = IF k < i THEN backlog[k] ELSE backlog[k + 1]
  BY <1>1, <1>3, RemoveAtProperties
<1>8. BacklogIsWaiters'
  <2>1. /\ i \in 1 .. Len(backlog) /\ Len(backlog) \in Nat
        /\ DOMAIN backlog = 1 .. Len(backlog)
        /\ DOMAIN backlog' = 1 .. Len(backlog) - 1
    BY <1>1, <1>7
  <2>2. \A k, l \in 1 .. Len(backlog) : backlog[k] = backlog[l] => k = l
    BY <1>1, <2>1 DEF BacklogIsWaiters
  <2>3. \A k, l \in DOMAIN backlog' : backlog'[k] = backlog'[l] => k = l
    BY <1>7, <2>1, <2>2
  <2>4. ASSUME NEW v \in Workers
        PROVE  (\E k \in DOMAIN backlog' : backlog'[k] = v)
                 <=> (v # w /\ \E k \in DOMAIN backlog : backlog[k] = v)
    <3>1. ASSUME NEW k \in DOMAIN backlog', backlog'[k] = v
          PROVE  v # w /\ \E l \in DOMAIN backlog : backlog[l] = v
      BY <1>7, <2>1, <2>2, <3>1 DEF w
    <3>2. ASSUME v # w, NEW k \in DOMAIN backlog, backlog[k] = v
          PROVE  \E l \in DOMAIN backlog' : backlog'[l] = v
      <4>1. CASE k < i
        BY <1>7, <2>1, <3>2, <4>1
      <4>2. CASE k > i
        <5>1. k - 1 \in DOMAIN backlog' /\ backlog'[k - 1] = v
          BY <1>7, <2>1, <3>2, <4>2
        <5> QED BY <5>1
      <4>3. k # i
        BY <3>2 DEF w
      <4> QED BY <2>1, <4>1, <4>2, <4>3
    <3> QED BY <3>1, <3>2
  <2>5. \A v \in Workers : At(v, "wait")' <=> (v # w /\ At(v, "wait"))
    BY <1>4, <1>5 DEF At
  <2> QED BY <1>1, <2>3, <2>4, <2>5 DEF BacklogIsWaiters
<1>9. LaunchPaired'
  <2>1. \A v \in Workers : At(v, "starting")' <=> At(v, "starting")
    BY <1>2, <1>4, <1>5 DEF At
  <2>2. \A p \in Producers : prod[p].pc = "starting" => prod[p].by \in Workers
    BY <1>1 DEF Loops
  <2> QED BY <1>1, <2>1, <2>2 DEF LaunchPaired
<1> QED BY <1>1, <1>3, <1>6, <1>7, <1>8, <1>9

\* A step of a loop that is not a launch's answer concerns no launch.
LEMMA LoopMoves ==
  ASSUME LaunchPaired, prod \in [Producers -> Loops],
         NEW p \in Producers, NEW x \in Loops,
         prod' = [prod EXCEPT ![p] = x],
         prod[p].pc # "starting", x.pc # "starting", UNCHANGED job
  PROVE  prod' \in [Producers -> Loops] /\ LaunchPaired'
<1>1. \A q \in Producers : prod'[q] = IF q = p THEN x ELSE prod[q]
  OBVIOUS
<1>2. LaunchPaired'
  <2>1. ASSUME NEW q \in Producers, prod'[q].pc = "starting"
        PROVE  At(prod[q].by, "starting")'
    <3>1. prod'[q] = prod[q]
      BY <1>1, <2>1
    <3> QED BY <2>1, <3>1 DEF LaunchPaired, At
  <2>2. ASSUME NEW w \in Workers, At(w, "starting")'
        PROVE  \E q \in Producers : prod'[q] = [pc |-> "starting", by |-> w]
    <3>1. PICK q \in Producers : prod[q] = [pc |-> "starting", by |-> w]
      BY <2>2 DEF LaunchPaired, At
    <3>2. q # p
      BY <3>1
    <3> QED BY <1>1, <3>1, <3>2
  <2>3. (\A q, s \in Producers :
           (prod[q].pc = "starting" /\ prod[q] = prod[s]) => q = s)'
    BY <1>1 DEF LaunchPaired
  <2> QED BY <2>1, <2>2, <2>3 DEF LaunchPaired
<1> QED BY <1>2

\* A loop that answers its caller leaves the launch together with it.
LEMMA StartAnswered ==
  ASSUME IInv, NEW p \in Producers, NEW x \in Loops, prod[p].pc = "starting",
         x.pc # "starting", prod' = [prod EXCEPT ![p] = x],
         Resume(prod[p].by), UNCHANGED backlog
  PROVE  /\ prod' \in [Producers -> Loops] /\ JobsOK'
         /\ BacklogIsWaiters' /\ LaunchPaired'
<1> DEFINE w == prod[p].by
<1>1. /\ JobsOK /\ prod \in [Producers -> Loops] /\ BacklogIsWaiters /\ LaunchPaired
  BY DEF IInv, TypeOK
<1>2. w \in Workers /\ At(w, "starting") /\ prod[p] = [pc |-> "starting", by |-> w]
  BY <1>1 DEF LaunchPaired, Loops
<1>3. Resume(w)
  OBVIOUS
<1> HIDE DEF w
<1>4. PICK j \in Jobs : /\ job' = [job EXCEPT ![w] = j]
                        /\ j.pc \in {"session", "idle"}
  <2>1. CASE Go(w, "session")
    BY <1>1, <1>2, <2>1, GoType DEF Controls
  <2>2. CASE Leave(w)
    BY <2>2, RestType DEF Leave, Rest
  <2> QED BY <1>3, <2>1, <2>2 DEF Resume
<1>5. job' \in [Workers -> Jobs] /\ \A v \in Workers : job'[v] = IF v = w THEN j ELSE job[v]
  BY <1>1, <1>4 DEF JobsOK
<1>6. JobsOK'
  BY <1>1, <1>4, <1>5 DEF JobsOK, WithSession
<1>7. \A v \in Workers : At(v, "wait")' <=> At(v, "wait")
  BY <1>2, <1>4, <1>5 DEF At
<1>8. BacklogIsWaiters'
  BY <1>1, <1>7 DEF BacklogIsWaiters
<1>9. \A q \in Producers : prod'[q] = IF q = p THEN x ELSE prod[q]
  BY <1>1
<1>10. \A v \in Workers : At(v, "starting")' <=> (v # w /\ At(v, "starting"))
  BY <1>4, <1>5 DEF At
<1>11. ASSUME NEW q \in Producers, prod'[q].pc = "starting"
       PROVE  At(prod[q].by, "starting")'
  <2>1. q # p /\ prod'[q] = prod[q]
    BY <1>9, <1>11
  <2>2. prod[q] = [pc |-> "starting", by |-> prod[q].by] /\ prod[q].by \in Workers
    BY <1>1, <1>11, <2>1 DEF Loops
  <2>3. prod[q].by # w
    BY <1>1, <1>2, <2>1, <2>2 DEF LaunchPaired
  <2>4. At(prod[q].by, "starting")
    BY <1>1, <2>2 DEF LaunchPaired
  <2> QED BY <1>10, <2>1, <2>2, <2>3, <2>4 DEF At
<1>12. (\A v \in Workers : At(v, "starting") =>
          \E q \in Producers : prod[q] = [pc |-> "starting", by |-> v])'
  <2> SUFFICES ASSUME NEW v \in Workers, At(v, "starting")'
               PROVE  \E q \in Producers : prod'[q] = [pc |-> "starting", by |-> v]
    OBVIOUS
  <2>1. v # w /\ At(v, "starting")
    BY <1>10
  <2>2. PICK q \in Producers : prod[q] = [pc |-> "starting", by |-> v]
    BY <1>1, <2>1 DEF LaunchPaired
  <2>3. q # p
    BY <1>2, <2>1, <2>2
  <2> QED BY <1>9, <2>2, <2>3
<1>13. (\A q, s \in Producers :
          (prod[q].pc = "starting" /\ prod[q] = prod[s]) => q = s)'
  BY <1>1, <1>9 DEF LaunchPaired
<1> QED BY <1>1, <1>6, <1>8, <1>11, <1>12, <1>13 DEF LaunchPaired

\* A worker that moves its own job and none of what the loops and the runner
\* keep: what is left to show is the type of what else it changed.
LEMMA WorkerKeeps ==
  ASSUME IInv, NEW w \in Workers, NEW j \in Jobs,
         job' = [job EXCEPT ![w] = j],
         j.pc \in WithSession => j.sid \in SIDs,
         job[w].pc \notin Blocked, j.pc \notin Blocked,
         UNCHANGED <<ring, queue, prod, clock>>,
         running' \in BOOLEAN, SessionsOK', ret' \in [Workers -> Rets],
         cookie' \in [Clients -> SIDs \cup {NoSID}]
  PROVE  IInv'
<1>1. /\ TypeOK /\ BacklogIsWaiters /\ LaunchPaired
      /\ UNCHANGED <<hasBuf, cid, buf, backlog, old, runner, prod, clock>>
  BY DEF IInv, ring, queue
<1>2. JobsOK' /\ BacklogIsWaiters' /\ LaunchPaired'
  BY <1>1, WorkerMoves DEF TypeOK
<1>3. RingOK' /\ RunnerOK'
  BY <1>1 DEF TypeOK, RingOK, RunnerOK
<1> QED BY <1>1, <1>2, <1>3 DEF IInv, TypeOK

\* The same for a worker that only goes on to pc.
LEMMA WorkerGoes ==
  ASSUME IInv, NEW w \in Workers, NEW pc \in Controls, Go(w, pc),
         job[w].pc \notin Blocked, pc \notin Blocked,
         pc \in WithSession => job[w].pc \in WithSession,
         UNCHANGED <<ring, queue, prod, clock, cookie>>,
         running' \in BOOLEAN, SessionsOK', ret' \in [Workers -> Rets]
  PROVE  IInv'
<1>1. JobsOK /\ cookie \in [Clients -> SIDs \cup {NoSID}]
  BY DEF IInv, TypeOK
<1>2. PICK j \in Jobs : /\ job' = [job EXCEPT ![w] = j]
                        /\ j.pc = pc /\ j.sid = job[w].sid
  BY <1>1, GoType
<1>3. j.pc \in WithSession => j.sid \in SIDs
  BY <1>1, <1>2 DEF JobsOK
<1> QED BY <1>1, <1>2, <1>3, WorkerKeeps

\* And for one whose call ends.
LEMMA WorkerLeaves ==
  ASSUME IInv, NEW w \in Workers, job' = [job EXCEPT ![w] = Rest],
         job[w].pc \notin Blocked,
         UNCHANGED <<ring, queue, prod, clock>>,
         running' \in BOOLEAN, SessionsOK', ret' \in [Workers -> Rets],
         cookie' \in [Clients -> SIDs \cup {NoSID}]
  PROVE  IInv'
<1>1. Rest \in Jobs /\ Rest.pc = "idle"
  BY RestType DEF Rest
<1>2. Rest.pc \notin WithSession /\ Rest.pc \notin Blocked
  BY <1>1 DEF WithSession, Blocked
<1> QED BY <1>1, <1>2, WorkerKeeps

\* The results, sessions and cookies are as they were.
LEMMA Untouched ==
  ASSUME IInv
  PROVE  /\ UNCHANGED running => running' \in BOOLEAN
         /\ UNCHANGED sessions => SessionsOK'
         /\ UNCHANGED ret => ret' \in [Workers -> Rets]
         /\ UNCHANGED cookie => cookie' \in [Clients -> SIDs \cup {NoSID}]
BY DEF IInv, TypeOK, SessionsOK, sessions

\* A cleanup leaves sessions that are sessions.
LEMMA CleanupType ==
  ASSUME SessionsOK, NEW since, NEW timeout, DeleteOld(since, timeout)
  PROVE  SessionsOK'
<1>1. live' \subseteq SIDs
  BY DEF DeleteOld, Survivors, SessionsOK
<1>2. sess' \in [SIDs -> StreamSessions]
  BY KeptType DEF DeleteOld, SessionsOK
<1> QED BY <1>1, <1>2 DEF SessionsOK

\* A worker that is not blocked, does not block and launches nothing.
LEMMA WorkerStep ==
  ASSUME IInv, NEW w \in Workers, Work(w), ~Launch(w), ~Push(w)
  PROVE  IInv'
<1> DEFINE i == job[w]
<1>1. /\ JobsOK /\ SessionsOK /\ RingOK /\ ret \in [Workers -> Rets]
      /\ running \in BOOLEAN /\ clock \in 0 .. Clocks
      /\ cookie \in [Clients -> SIDs \cup {NoSID}]
  BY DEF IInv, TypeOK
<1>2. i \in Jobs
  BY <1>1 DEF JobsOK
<1>3. i.rid \in Nat /\ cid \in 0 .. MaxCid
  BY <1>1, <1>2, StreamAssumption DEF Jobs, RingOK
<1>4. CASE NewSession(w)
  <2>1. CASE hasBuf
    <3>1. PICK s \in SIDs :
            /\ sess' = [sess EXCEPT ![s] = [next |-> cid, last |-> 0]]
            /\ job' = [job EXCEPT ![w].sid = s, ![w].ck = NoSID,
                                  ![w].dirty = TRUE, ![w].pc = "enter"]
      BY <1>4, <2>1 DEF NewSession, Fresh
    <3> DEFINE j == [i EXCEPT !.sid = s, !.ck = NoSID, !.dirty = TRUE,
                              !.pc = "enter"]
    <3>2. j \in Jobs /\ j.pc = "enter" /\ j.sid = s
      BY <1>2 DEF Jobs
    <3>3. job' = [job EXCEPT ![w] = j]
      BY <1>1, <3>1 DEF JobsOK
    <3>4. [next |-> cid, last |-> 0] \in StreamSessions
      BY <1>3, StreamAssumption DEF StreamSessions, Clocks
    <3>5. SessionsOK'
      BY <1>1, <1>4, <3>1, <3>4 DEF SessionsOK, NewSession
    <3> HIDE DEF j
    <3>6. i.pc \notin Blocked /\ j.pc \notin Blocked
      BY <1>4, <3>2 DEF NewSession, At, Blocked
    <3>7. UNCHANGED <<running, ring, queue, prod, ret, cookie, clock>>
      BY <1>4 DEF NewSession
    <3> QED BY <1>1, <3>2, <3>3, <3>5, <3>6, <3>7, WorkerKeeps
  <2>2. CASE ~hasBuf
    <3>1. /\ job' = [job EXCEPT ![w] = Rest] /\ i.pc \notin Blocked
          /\ UNCHANGED <<running, ring, live, sess, queue, prod, ret, cookie, clock>>
      BY <1>4, <2>2 DEF NewSession, Leave, At, Blocked
    <3> QED BY <3>1, Untouched, WorkerLeaves DEF sessions
  <2> QED BY <2>1, <2>2
<1>5. CASE EnterSession(w)
  <2>1. /\ Go(w, Found(w)) /\ i.pc = "enter"
        /\ UNCHANGED <<running, ring, sess, queue, prod, ret, cookie, clock>>
        /\ live' = live \cup {i.sid}
    BY <1>5 DEF EnterSession, At
  <2>2. SessionsOK'
    BY <1>1, <2>1 DEF SessionsOK, JobsOK, WithSession
  <2>3. /\ Found(w) \in Controls /\ i.pc \notin Blocked /\ Found(w) \notin Blocked
        /\ i.pc \in WithSession
    BY <2>1 DEF Found, Controls, Blocked, WithSession
  <2> QED BY <2>1, <2>2, <2>3, Untouched, WorkerGoes
<1>6. CASE OldSession(w)
  <2>1. /\ Go(w, "reread") /\ i.pc = "session"
        /\ UNCHANGED <<running, ring, sessions, queue, prod, ret, cookie, clock>>
    BY <1>6 DEF OldSession, At
  <2>2. "reread" \in Controls /\ i.pc \notin Blocked /\ "reread" \notin Blocked
        /\ "reread" \notin WithSession
    BY <2>1 DEF Controls, Blocked, WithSession
  <2> QED BY <2>1, <2>2, Untouched, WorkerGoes
<1>7. CASE Reread(w)
  <2>1. i.pc = "reread"
        /\ UNCHANGED <<running, ring, sessions, queue, prod, ret, cookie, clock>>
    BY <1>7 DEF Reread, At
  <2>2. CASE i.ck \in live
    <3> DEFINE j == [i EXCEPT !.sid = i.ck, !.ck = NoSID, !.pc = Found(w)]
    <3>1. job' = [job EXCEPT ![w] = j]
      BY <1>1, <1>7, <2>2 DEF Reread, JobsOK
    <3>2. Found(w) \in {"touch", "delete"}
      BY DEF Found
    <3>3. i.ck \in SIDs
      BY <1>1, <2>2 DEF SessionsOK
    <3>4. j \in Jobs /\ j.pc = Found(w) /\ j.sid = i.ck
      BY <1>2, <3>2, <3>3 DEF Jobs
    <3> HIDE DEF j
    <3>5. i.pc \notin Blocked /\ j.pc \notin Blocked
      BY <2>1, <3>2, <3>4 DEF Blocked
    <3> QED BY <2>1, <3>1, <3>3, <3>4, <3>5, Untouched, WorkerKeeps
  <2>3. CASE i.ck \notin live
    <3>1. job' = [job EXCEPT ![w] = Rest] /\ i.pc \notin Blocked
      BY <1>7, <2>1, <2>3 DEF Reread, Leave, Blocked
    <3> QED BY <2>1, <3>1, Untouched, WorkerLeaves
  <2> QED BY <2>2, <2>3
<1>8. CASE Touch(w)
  <2> DEFINE s == sess[i.sid]
             j == [i EXCEPT !.rid = s.next, !.pc = "fetch"]
  <2>1. /\ i.pc = "touch"
        /\ sess' = [sess EXCEPT ![i.sid].last = clock]
        /\ UNCHANGED <<running, ring, live, queue, prod, ret, cookie, clock>>
    BY <1>8 DEF Touch, At
  <2>2. i.sid \in SIDs /\ s \in StreamSessions
    BY <1>1, <2>1 DEF JobsOK, WithSession, SessionsOK
  <2>3. job' = [job EXCEPT ![w] = j]
    BY <1>1, <1>8 DEF Touch, JobsOK
  <2>4. s.next \in 0 .. MaxCid + 1
    BY <2>2 DEF StreamSessions
  <2> HIDE DEF s
  <2>5. j \in Jobs /\ j.pc = "fetch" /\ j.sid = i.sid
    BY <1>2, <2>4 DEF Jobs
  <2> HIDE DEF j
  <2>6. [sess[i.sid] EXCEPT !.last = clock] \in StreamSessions
    BY <1>1, <2>2 DEF StreamSessions, s
  <2>7. sess' = [sess EXCEPT ![i.sid] = [sess[i.sid] EXCEPT !.last = clock]]
    BY <1>1, <2>1, <2>2 DEF SessionsOK
  <2>8. SessionsOK'
    BY <1>1, <2>1, <2>2, <2>6, <2>7 DEF SessionsOK
  <2>9. i.pc \notin Blocked /\ j.pc \notin Blocked
    BY <2>1, <2>5 DEF Blocked
  <2> QED BY <2>1, <2>2, <2>3, <2>5, <2>8, <2>9, Untouched, WorkerKeeps
<1>9. CASE Decide(w) \/ Await(w)
  <2>1. /\ \E pc \in {"take", "await", "mark", "got"} : Go(w, pc)
        /\ i.pc \in {"fetch", "await"}
        /\ UNCHANGED <<running, ring, sessions, queue, prod, ret, cookie, clock>>
    BY <1>9 DEF Decide, Await, At
  <2>2. PICK pc \in {"take", "await", "mark", "got"} : Go(w, pc)
    BY <2>1
  <2>3. pc \in Controls /\ i.pc \notin Blocked /\ pc \notin Blocked
        /\ i.pc \in WithSession
    BY <2>1, <2>2 DEF Controls, Blocked, WithSession
  <2> QED BY <2>1, <2>2, <2>3, Untouched, WorkerGoes
<1>10. CASE Take(w)
  <2>1. /\ Go(w, "got") /\ i.pc = "take"
        /\ ret' = [ret EXCEPT ![w] = Fetched(i.rid)]
        /\ UNCHANGED <<running, ring, sessions, queue, prod, cookie, clock>>
    BY <1>10 DEF Take, At
  <2>2. ret' \in [Workers -> Rets]
    BY <1>1, <1>3, <2>1, FetchedType
  <2>3. "got" \in Controls /\ i.pc \notin Blocked /\ "got" \notin Blocked
        /\ i.pc \in WithSession
    BY <2>1 DEF Controls, Blocked, WithSession
  <2> QED BY <2>1, <2>2, <2>3, Untouched, WorkerGoes
<1>11. CASE Mark(w)
  <2> DEFINE j == [i EXCEPT !.rid = cid + 1, !.pc = "push"]
  <2>1. /\ i.pc = "mark"
        /\ UNCHANGED <<running, ring, sessions, queue, prod, ret, cookie, clock>>
    BY <1>11 DEF Mark, At
  <2>2. job' = [job EXCEPT ![w] = j]
    BY <1>1, <1>11 DEF Mark, JobsOK
  <2>3. cid + 1 \in 0 .. MaxCid + 1
    BY <1>3, StreamAssumption
  <2>4. j \in Jobs /\ j.pc = "push" /\ j.sid = i.sid
    BY <1>2, <2>3 DEF Jobs
  <2> HIDE DEF j
  <2>5. i.sid \in SIDs /\ i.pc \notin Blocked /\ j.pc \notin Blocked
    BY <1>1, <2>1, <2>4 DEF JobsOK, WithSession, Blocked
  <2> QED BY <2>1, <2>2, <2>4, <2>5, Untouched, WorkerKeeps
<1>12. CASE GotNothing(w) \/ Deliver(w) \/ Delete(w)
  <2>1. /\ i.pc \in {"got", "encode", "delete"} /\ Answer(w)
        /\ sess' = Kept(sess)
        /\ UNCHANGED <<running, ring, queue, prod, clock>>
        /\ live' \subseteq live
    BY <1>12 DEF GotNothing, Deliver, Delete, At
  <2>2. i.sid \in SIDs
    BY <1>1, <2>1 DEF JobsOK, WithSession
  <2>3. /\ cookie' \in [Clients -> SIDs \cup {NoSID}] /\ ret' \in [Workers -> Rets]
        /\ job' = [job EXCEPT ![w] = Rest]
    <3>1. NilRet \in Rets
      BY DEF NilRet, Rets
    <3> QED BY <1>1, <2>1, <2>2, <3>1 DEF Answer
  <2>4. SessionsOK'
    BY <1>1, <2>1, KeptType DEF SessionsOK
  <2>5. i.pc \notin Blocked
    BY <2>1 DEF Blocked
  <2> QED BY <2>1, <2>3, <2>4, <2>5, Untouched, WorkerLeaves
<1>13. CASE Got(w)
  <2> DEFINE c == Content(ret[w])
             n == Id(Last(c)) + 1
             s == sess[i.sid]
             f == [sess EXCEPT ![i.sid].next = n]
  <2>1. /\ i.pc = "got" /\ c # << >> /\ sess' = f /\ Go(w, "encode")
        /\ UNCHANGED <<running, ring, live, queue, prod, ret, cookie, clock>>
    BY <1>13 DEF Got, At
  <2>2. i.sid \in SIDs
    BY <1>1, <2>1 DEF JobsOK, WithSession
  <2>3. c \in Seq(Stored)
    BY <1>1, ContentType
  <2> HIDE DEF c
  <2>4. Last(c) \in Stored
    BY <2>1, <2>3 DEF Last
  <2>5. n \in 0 .. MaxCid + 1
    BY <2>4, StreamAssumption DEF Id, Stored, Zero
  <2> HIDE DEF n
  <2>6. [s EXCEPT !.next = n] \in StreamSessions
    BY <1>1, <2>2, <2>5 DEF SessionsOK, StreamSessions
  <2>7. f = [sess EXCEPT ![i.sid] = [s EXCEPT !.next = n]]
    BY <1>1, <2>2 DEF SessionsOK
  <2>8. f \in [SIDs -> StreamSessions]
    BY <1>1, <2>2, <2>6, <2>7 DEF SessionsOK
  <2> HIDE DEF f
  <2>9. SessionsOK'
    BY <1>1, <2>1, <2>8 DEF SessionsOK
  <2>10. "encode" \in Controls /\ i.pc \notin Blocked /\ "encode" \notin Blocked
         /\ i.pc \in WithSession
    BY <2>1 DEF Controls, Blocked, WithSession
  <2> QED BY <2>1, <2>2, <2>9, <2>10, Untouched, WorkerGoes
<1>14. CASE Encode(w)
  <2> DEFINE c == Content(ret[w])
             m == Append(i.sent, c[Len(i.sent) + 1])
             j == [i EXCEPT !.sent = m]
  <2>1. /\ i.pc = "encode" /\ Len(i.sent) < Len(c)
        /\ job' = [job EXCEPT ![w].sent = m]
        /\ UNCHANGED <<running, ring, sessions, queue, prod, ret, cookie, clock>>
    BY <1>14 DEF Encode, At
  <2>2. job' = [job EXCEPT ![w] = j]
    BY <1>1, <2>1 DEF JobsOK
  <2>3. c \in Seq(Stored) /\ i.sent \in Seq(Stored)
    BY <1>1, <1>2, ContentType DEF Jobs
  <2> HIDE DEF c
  <2>4. m \in Seq(Stored)
    BY <2>1, <2>3
  <2> HIDE DEF m
  <2>5. j \in Jobs /\ j.pc = "encode" /\ j.sid = i.sid
    BY <1>2, <2>1, <2>4 DEF Jobs
  <2> HIDE DEF j
  <2>6. i.sid \in SIDs /\ i.pc \notin Blocked /\ j.pc \notin Blocked
    BY <1>1, <2>1, <2>5 DEF JobsOK, WithSession, Blocked
  <2> QED BY <2>1, <2>2, <2>5, <2>6, Untouched, WorkerKeeps
<1>15. CASE StopSource(w)
  <2> DEFINE j == [i EXCEPT !.now = clock, !.pc = "sweep"]
  <2>1. /\ i.pc = "stop" /\ running' = FALSE
        /\ UNCHANGED <<ring, sessions, queue, prod, ret, cookie, clock>>
    BY <1>15 DEF StopSource, At
  <2>2. job' = [job EXCEPT ![w] = j]
    BY <1>1, <1>15 DEF StopSource, JobsOK
  <2>3. j \in Jobs /\ j.pc = "sweep"
    BY <1>1, <1>2 DEF Jobs
  <2> HIDE DEF j
  <2>4. i.pc \notin Blocked /\ j.pc \notin Blocked /\ j.pc \notin WithSession
    BY <2>1, <2>3 DEF Blocked, WithSession
  <2> QED BY <2>1, <2>2, <2>3, <2>4, Untouched, WorkerKeeps
<1>16. CASE StopSweep(w)
  <2>1. /\ i.pc = "sweep" /\ DeleteOld(i.now, 0)
        /\ UNCHANGED <<running, ring, queue, prod, ret, cookie, clock>>
    BY <1>16 DEF StopSweep, At
  <2>2. SessionsOK'
    BY <1>1, <2>1, CleanupType
  <2>3. CASE StopOnLonely
    <3> DEFINE j == [i EXCEPT !.now = 0, !.pc = "lonely"]
    <3>1. job' = [job EXCEPT ![w] = j]
      BY <1>1, <1>16, <2>3 DEF StopSweep, JobsOK
    <3>2. j \in Jobs /\ j.pc = "lonely"
      <4>1. 0 \in 0 .. Clocks
        BY StreamAssumption DEF Clocks
      <4> QED BY <1>2, <4>1 DEF Jobs
    <3> HIDE DEF j
    <3>3. i.pc \notin Blocked /\ j.pc \notin Blocked /\ j.pc \notin WithSession
      BY <2>1, <3>2 DEF Blocked, WithSession
    <3> QED BY <2>1, <2>2, <3>1, <3>2, <3>3, Untouched, WorkerKeeps
  <2>4. CASE ~StopOnLonely
    <3>1. job' = [job EXCEPT ![w] = Rest] /\ i.pc \notin Blocked
      BY <1>16, <2>1, <2>4 DEF StopSweep, Leave, Blocked
    <3> QED BY <2>1, <2>2, <3>1, Untouched, WorkerLeaves
  <2> QED BY <2>3, <2>4
<1>17. CASE StopLonely(w) \/ StopAgain(w)
  <2>1. /\ i.pc \in {"lonely", "off"}
        /\ running' \in BOOLEAN
        /\ UNCHANGED <<ring, sessions, queue, prod, ret, cookie, clock>>
    BY <1>1, <1>17 DEF StopLonely, StopAgain, At
  <2>2. CASE Go(w, "off")
    <3>1. "off" \in Controls /\ i.pc \notin Blocked /\ "off" \notin Blocked
          /\ "off" \notin WithSession
      BY <2>1 DEF Controls, Blocked, WithSession
    <3> QED BY <2>1, <2>2, <3>1, Untouched, WorkerGoes
  <2>3. CASE Leave(w)
    <3>1. job' = [job EXCEPT ![w] = Rest] /\ i.pc \notin Blocked
      BY <2>1, <2>3 DEF Leave, Blocked
    <3> QED BY <2>1, <3>1, Untouched, WorkerLeaves
  <2> QED BY <1>17, <2>2, <2>3 DEF StopLonely, StopAgain
<1> QED BY <1>4, <1>5, <1>6, <1>7, <1>8, <1>9, <1>10, <1>11, <1>12, <1>13,
           <1>14, <1>15, <1>16, <1>17 DEF Work

\* A call that enters the backlog is one more that waits, listed once.
LEMMA PushStep ==
  ASSUME IInv, NEW w \in Workers, Push(w)
  PROVE  IInv'
<1> DEFINE n == Len(backlog)
<1>1. /\ JobsOK /\ backlog \in Seq(Workers) /\ RunnerOK /\ prod \in [Producers -> Loops]
      /\ TypeOK /\ BacklogIsWaiters /\ LaunchPaired
  BY DEF IInv, TypeOK
<1>2. /\ At(w, "push") /\ Go(w, "wait") /\ backlog' = Append(backlog, w)
      /\ UNCHANGED <<running, hasBuf, cid, buf, live, sess, old, runner, prod,
                     ret, cookie, clock>>
  BY DEF Push, ring, sessions
<1>3. PICK j \in Jobs : /\ job' = [job EXCEPT ![w] = j]
                        /\ j.pc = "wait" /\ j.sid = job[w].sid
  BY <1>1, <1>2, GoType DEF Controls
<1>4. job' \in [Workers -> Jobs] /\ \A v \in Workers : job'[v] = IF v = w THEN j ELSE job[v]
  BY <1>1, <1>3 DEF JobsOK
<1>5. JobsOK'
  BY <1>1, <1>2, <1>3, <1>4 DEF JobsOK, WithSession, At
<1>6. /\ backlog' \in Seq(Workers) /\ n \in Nat
      /\ DOMAIN backlog = 1 .. n /\ DOMAIN backlog' = 1 .. n + 1
      /\ \A k \in 1 .. n : backlog'[k] = backlog[k]
      /\ backlog'[n + 1] = w
  BY <1>1, <1>2
<1> HIDE DEF n
<1>7. RunnerOK'
  BY <1>1, <1>2, <1>6 DEF RunnerOK
<1>8. BacklogIsWaiters'
  <2>1. \A k \in 1 .. n : backlog[k] # w
    BY <1>1, <1>2, <1>6 DEF BacklogIsWaiters, At
  <2>2. \A v \in Workers : At(v, "wait")' <=> (v = w \/ At(v, "wait"))
    BY <1>3, <1>4 DEF At
  <2>3. \A v \in Workers :
          (\E k \in DOMAIN backlog' : backlog'[k] = v)
            <=> (v = w \/ \E k \in DOMAIN backlog : backlog[k] = v)
    BY <1>6
  <2>4. \A k, l \in DOMAIN backlog' : backlog'[k] = backlog'[l] => k = l
    <3> SUFFICES ASSUME NEW k \in 1 .. n + 1, NEW l \in 1 .. n + 1,
                        backlog'[k] = backlog'[l]
                 PROVE  k = l
      BY <1>6
    <3>1. (k \in 1 .. n \/ k = n + 1) /\ (l \in 1 .. n \/ l = n + 1)
      BY <1>6
    <3>2. CASE k \in 1 .. n /\ l \in 1 .. n
      BY <1>1, <1>6, <3>2 DEF BacklogIsWaiters
    <3> QED BY <1>6, <2>1, <3>1, <3>2
  <2> QED BY <1>1, <2>2, <2>3, <2>4 DEF BacklogIsWaiters
<1>9. LaunchPaired'
  <2>1. \A v \in Workers : At(v, "starting")' <=> At(v, "starting")
    BY <1>2, <1>3, <1>4 DEF At
  <2>2. \A p \in Producers : prod[p].pc = "starting" => prod[p].by \in Workers
    BY <1>1 DEF Loops
  <2> QED BY <1>1, <1>2, <2>1, <2>2 DEF LaunchPaired
<1>10. RingOK' /\ SessionsOK'
  BY <1>1, <1>2 DEF TypeOK, RingOK, SessionsOK
<1> QED BY <1>1, <1>2, <1>5, <1>6, <1>7, <1>8, <1>9, <1>10 DEF IInv, TypeOK

\* A launch: the new loop and the caller wait for each other, the other loops
\* at most drop out.
LEMMA LaunchStep ==
  ASSUME IInv, NEW w \in Workers, Launch(w)
  PROVE  IInv'
<1>1. /\ JobsOK /\ RingOK /\ prod \in [Producers -> Loops] /\ ret \in [Workers -> Rets]
      /\ TypeOK /\ BacklogIsWaiters /\ LaunchPaired
  BY DEF IInv, TypeOK
<1> DEFINE new == [pc |-> "starting", by |-> w]
<1>2. PICK p \in Producers :
        /\ Off(p)
        /\ prod' = [q \in Producers |->
                     CASE q = p -> new
                       [] prod[q].pc = "emptybuf" -> Free
                       [] OTHER -> prod[q]]
  BY DEF Launch
<1>3. /\ At(w, "launch") /\ Go(w, "starting") /\ hasBuf' = TRUE /\ cid' = 0
      /\ FreshSlots
      /\ UNCHANGED <<running, live, sess, backlog, old, runner, cookie, clock>>
  BY DEF Launch, sessions, queue
<1>4. PICK j \in Jobs : /\ job' = [job EXCEPT ![w] = j]
                        /\ j.pc = "starting" /\ j.sid = job[w].sid
  BY <1>1, <1>3, GoType DEF Controls
<1>5. job' \in [Workers -> Jobs] /\ \A v \in Workers : job'[v] = IF v = w THEN j ELSE job[v]
  BY <1>1, <1>4 DEF JobsOK
<1>6. JobsOK'
  BY <1>1, <1>4, <1>5 DEF JobsOK, WithSession
<1>7. buf' \in [Slots -> Stored] /\ ret' \in [Workers -> Rets]
  BY <1>1, <1>3, FreshType
<1>8. RingOK'
  <2>1. 0 \in 0 .. MaxCid
    BY StreamAssumption
  <2> QED BY <1>3, <1>7, <2>1 DEF RingOK
<1>9. BacklogIsWaiters'
  <2>1. \A v \in Workers : At(v, "wait")' <=> At(v, "wait")
    BY <1>3, <1>4, <1>5 DEF At
  <2> QED BY <1>1, <1>3, <2>1 DEF BacklogIsWaiters
<1>10. /\ new \in Loops /\ Free \in Loops /\ new.pc = "starting" /\ new.by = w
       /\ Free.pc = "free"
  BY DEF Loops, Free
<1> HIDE DEF new
<1>11. /\ prod' \in [Producers -> Loops]
       /\ prod'[p] = new
       /\ \A q \in Producers \ {p} :
            prod'[q] = IF prod[q].pc = "emptybuf" THEN Free ELSE prod[q]
  <2> DEFINE f(q) == CASE q = p -> new
                       [] prod[q].pc = "emptybuf" -> Free
                       [] OTHER -> prod[q]
  <2>1. prod' = [q \in Producers |-> f(q)] /\ \A q \in Producers : prod'[q] = f(q)
    <3>1. prod' = [q \in Producers |-> f(q)]
      BY <1>2
    <3> HIDE DEF f
    <3> QED BY <3>1
  <2>2. prod'[p] = new
    <3>1. prod[p].pc # "emptybuf"
      BY <1>2 DEF Off
    <3> QED BY <2>1, <3>1
  <2>3. \A q \in Producers \ {p} :
          prod'[q] = IF prod[q].pc = "emptybuf" THEN Free ELSE prod[q]
    BY <2>1
  <2>4. \A q \in Producers : prod'[q] \in Loops
    BY <1>1, <1>10, <2>2, <2>3
  <2> HIDE DEF f
  <2>5. prod' \in [Producers -> Loops]
    BY <2>1, <2>4
  <2> QED BY <2>2, <2>3, <2>5
<1>12. \A v \in Workers : At(v, "starting")' <=> (v = w \/ At(v, "starting"))
  BY <1>4, <1>5 DEF At
<1>13. \A q \in Producers : prod'[q].pc = "starting" =>
         q = p \/ (q # p /\ prod[q].pc = "starting" /\ prod'[q] = prod[q])
  BY <1>10, <1>11
<1>14. LaunchPaired'
  <2>1. ASSUME NEW q \in Producers, prod'[q].pc = "starting"
        PROVE  At(prod[q].by, "starting")'
    <3>1. CASE q = p
      BY <1>10, <1>11, <1>12, <3>1 DEF At
    <3>2. CASE q # p
      <4>1. prod[q].pc = "starting" /\ prod'[q] = prod[q]
        BY <1>13, <2>1, <3>2
      <4>2. prod[q].by \in Workers /\ At(prod[q].by, "starting")
        BY <1>1, <4>1 DEF LaunchPaired, Loops
      <4> QED BY <1>12, <4>1, <4>2 DEF At
    <3> QED BY <3>1, <3>2
  <2>2. ASSUME NEW v \in Workers, At(v, "starting")'
        PROVE  \E q \in Producers : prod'[q] = [pc |-> "starting", by |-> v]
    <3>1. CASE v = w
      BY <1>11, <3>1 DEF new
    <3>2. CASE v # w
      <4>1. PICK q \in Producers : prod[q] = [pc |-> "starting", by |-> v]
        BY <1>1, <1>12, <2>2, <3>2 DEF LaunchPaired
      <4>2. q # p /\ prod[q].pc # "emptybuf"
        BY <1>2, <4>1 DEF Off
      <4> QED BY <1>11, <4>1, <4>2
    <3> QED BY <3>1, <3>2
  <2>3. \A q \in Producers \ {p} : prod'[q].pc = "starting" => prod'[q] # new
    <3> SUFFICES ASSUME NEW q \in Producers \ {p}, prod'[q].pc = "starting",
                        prod'[q] = new
                 PROVE  FALSE
      OBVIOUS
    <3>1. prod[q].pc = "starting" /\ prod[q].by = w
      BY <1>10, <1>13
    <3>2. At(w, "starting")
      BY <1>1, <3>1 DEF LaunchPaired
    <3> QED BY <1>3, <3>2 DEF At
  <2>4. ASSUME NEW q \in Producers, NEW s \in Producers,
               prod'[q].pc = "starting", prod'[q] = prod'[s]
        PROVE  q = s
    <3>1. CASE q = p \/ s = p
      BY <1>11, <2>3, <2>4, <3>1
    <3>2. CASE q # p /\ s # p
      BY <1>1, <1>13, <2>4, <3>2 DEF LaunchPaired
    <3> QED BY <3>1, <3>2
  <2> QED BY <2>1, <2>2, <2>4 DEF LaunchPaired
<1>15. SessionsOK' /\ RunnerOK'
  BY <1>1, <1>3 DEF TypeOK, SessionsOK, RunnerOK
<1> QED BY <1>1, <1>3, <1>6, <1>7, <1>8, <1>9, <1>11, <1>14, <1>15 DEF IInv, TypeOK

\* A request that arrives: its job begins where the method it names does.
LEMMA CallStep ==
  ASSUME IInv, NEW w \in Workers, NEW op \in Ops[w], Call(w, op)
  PROVE  IInv'
<1> DEFINE pc == CASE op = "Start" -> "launch"
                   [] op = "Next"  -> IF LazyStart /\ ~running
                                      THEN "launch" ELSE "session"
                   [] op = "Reset" -> "session"
                   [] op = "Stop"  -> "stop"
           ck == cookie[ClientOf[w]]
           j == [Rest EXCEPT !.op = op, !.ck = ck, !.pc = pc]
<1>1. /\ job[w].pc = "idle" /\ job' = [job EXCEPT ![w] = j]
      /\ UNCHANGED <<running, ring, sessions, queue, prod, ret, cookie, clock>>
  BY DEF Call, At
<1>2. op \in {"Next", "Reset", "Stop", "Start"}
  BY StreamAssumption
<1>3. pc \in {"launch", "session", "stop"}
  BY <1>2
<1>4. ck \in SIDs \cup {NoSID}
  BY StreamAssumption DEF IInv, TypeOK
<1> HIDE DEF pc, ck
<1>5. j \in Jobs /\ j.pc = pc
  BY <1>2, <1>3, <1>4, RestType DEF Jobs
<1> HIDE DEF j
<1>6. job[w].pc \notin Blocked /\ j.pc \notin Blocked /\ j.pc \notin WithSession
  BY <1>1, <1>3, <1>5 DEF Blocked, WithSession
<1> QED BY <1>1, <1>5, <1>6, Untouched, WorkerKeeps

-----------------------------------------------------------------------------
\* The runner between two answers: what it moves is its own state, the
\* sessions it cleans up and running.
LEMMA RunnerKeeps ==
  ASSUME IInv, UNCHANGED <<ring, backlog, prod, job, ret, cookie, clock>>,
         running' \in BOOLEAN, SessionsOK', RunnerOK'
  PROVE  IInv'
<1>1. /\ TypeOK /\ BacklogIsWaiters /\ LaunchPaired
      /\ UNCHANGED <<hasBuf, cid, buf>>
  BY DEF IInv, ring
<1>2. RingOK' /\ JobsOK'
  BY <1>1 DEF TypeOK, RingOK, JobsOK
<1>3. BacklogIsWaiters' /\ LaunchPaired'
  BY <1>1 DEF BacklogIsWaiters, LaunchPaired, At
<1> QED BY <1>1, <1>2, <1>3 DEF IInv, TypeOK

\* The runner answers a call.
LEMMA RunnerServes ==
  ASSUME IInv, NEW i \in DOMAIN backlog, NEW r \in Rets, Serve(i, r),
         UNCHANGED <<running, ring, sessions, prod, cookie, clock>>, RunnerOK'
  PROVE  IInv'
<1>1. TypeOK /\ UNCHANGED <<hasBuf, cid, buf, live, sess>>
  BY DEF IInv, ring, sessions
<1>2. /\ backlog' \in Seq(Workers) /\ JobsOK' /\ ret' \in [Workers -> Rets]
      /\ BacklogIsWaiters' /\ LaunchPaired'
  BY ServeStep
<1>3. RingOK' /\ SessionsOK'
  BY <1>1 DEF TypeOK, RingOK, SessionsOK
<1> QED BY <1>1, <1>2, <1>3 DEF IInv, TypeOK

\* The states the runner goes to when a scan or a select is over.
LEMMA RunnerResets ==
  ASSUME IInv, NEW pc \in {"select", "sweep", "lonely", "off"},
         NEW now \in 0 .. Clocks, runner' = [pc |-> pc, at |-> 0, now |-> now],
         old' \in Nat
  PROVE  RunnerOK'
BY DEF RunnerOK

LEMMA SelectType ==
  ASSUME IInv, backlog' \in Seq(Workers), Select
  PROVE  RunnerOK'
<1>1. 0 \in 0 .. Clocks
  BY StreamAssumption DEF Clocks
<1>2. old' \in Nat /\ runner' = [pc |-> "select", at |-> 0, now |-> 0]
  BY DEF Select
<1> QED BY <1>1, <1>2, RunnerResets

\* What the runner does by itself.
LEMMA RunnerStep ==
  ASSUME IInv, Run1
  PROVE  IInv'
<1>1. /\ RunnerOK /\ SessionsOK /\ RingOK /\ JobsOK /\ backlog \in Seq(Workers)
      /\ running \in BOOLEAN /\ clock \in 0 .. Clocks /\ BacklogIsWaiters
      /\ old \in Nat
  BY DEF IInv, TypeOK, RunnerOK
<1>2. 0 \in 0 .. Clocks
  BY StreamAssumption DEF Clocks
<1>3. CASE Scan
  <2>1. /\ runner.pc = "scan" /\ runner.at \in Nat /\ runner.at > 0
        /\ UNCHANGED <<running, ring, sessions, backlog, old, prod, job, ret,
                       cookie, clock>>
    BY <1>1, <1>3 DEF Scan, RunnerOK
  <2>2. RunnerOK'
    <3>1. CASE runner' = [pc |-> "sweep", at |-> 0, now |-> clock]
      BY <1>1, <2>1, <3>1, RunnerResets
    <3>2. CASE runner' = [runner EXCEPT !.pc = "send"] /\ ~(runner.at > Len(backlog))
      <4>1. runner.at \in DOMAIN backlog
        BY <1>1, <2>1, <3>2
      <4> QED BY <1>1, <2>1, <3>2, <4>1 DEF RunnerOK
    <3>3. CASE runner' = [runner EXCEPT !.at = @ + 1]
      BY <1>1, <2>1, <3>3 DEF RunnerOK
    <3> QED BY <1>3, <3>1, <3>2, <3>3 DEF Scan
  <2> QED BY <2>1, <2>2, Untouched, RunnerKeeps
<1>4. CASE Send
  <2> DEFINE i == runner.at
             r == Fetched(job[backlog[i]].rid)
  <2>1. /\ i \in DOMAIN backlog /\ Serve(i, r)
        /\ runner' = [pc |-> "sweep", at |-> 0, now |-> clock]
        /\ UNCHANGED <<running, ring, sessions, old, prod, cookie, clock>>
    BY <1>1, <1>4 DEF Send, RunnerOK
  <2>2. job[backlog[i]].rid \in Nat
    BY <1>1, <2>1, StreamAssumption DEF JobsOK, Jobs
  <2>3. r \in Rets
    BY <1>1, <2>2, FetchedType
  <2>4. RunnerOK'
    BY <1>1, <2>1, RunnerResets
  <2> HIDE DEF i, r
  <2> QED BY <2>1, <2>3, <2>4, RunnerServes
<1>5. CASE Sweep
  <2>1. /\ DeleteOld(runner.now, SessionTimeout)
        /\ UNCHANGED <<running, ring, backlog, prod, job, ret, cookie, clock>>
    BY <1>5 DEF Sweep
  <2>2. SessionsOK'
    BY <1>1, <2>1, CleanupType
  <2>3. RunnerOK'
    <3>1. CASE runner' = [pc |-> "lonely", at |-> 0, now |-> 0] /\ UNCHANGED old
      BY <1>1, <1>2, <3>1, RunnerResets
    <3>2. CASE Select
      BY <1>1, <2>1, <3>2, SelectType
    <3> QED BY <1>5, <3>1, <3>2 DEF Sweep
  <2> QED BY <2>1, <2>2, <2>3, Untouched, RunnerKeeps
<1>6. CASE Lonely
  <2>1. UNCHANGED <<running, ring, sessions, backlog, prod, job, ret, cookie, clock>>
    BY <1>6 DEF Lonely
  <2>2. RunnerOK'
    <3>1. CASE runner' = [runner EXCEPT !.pc = "off"] /\ UNCHANGED old
      BY <1>1, <3>1 DEF RunnerOK
    <3>2. CASE Select
      BY <1>1, <2>1, <3>2, SelectType
    <3> QED BY <1>6, <3>1, <3>2 DEF Lonely
  <2> QED BY <2>1, <2>2, Untouched, RunnerKeeps
<1>7. CASE StopStream
  <2>1. /\ running' = FALSE /\ Select
        /\ UNCHANGED <<ring, sessions, backlog, prod, job, ret, cookie, clock>>
    BY <1>7 DEF StopStream
  <2>2. RunnerOK'
    BY <1>1, <2>1, SelectType
  <2> QED BY <2>1, <2>2, Untouched, RunnerKeeps
<1>8. CASE Timeout
  <2>1. Select /\ UNCHANGED <<running, ring, sessions, prod, cookie, clock>>
    BY <1>8 DEF Timeout
  <2>2. CASE \E i \in DOMAIN backlog : Serve(i, NilRet)
    <3>1. PICK i \in DOMAIN backlog : Serve(i, NilRet)
      BY <2>2
    <3>2. NilRet \in Rets
      BY DEF NilRet, Rets
    <3>3. backlog' \in Seq(Workers)
      BY <2>1, <3>1, <3>2, ServeStep
    <3>4. RunnerOK'
      BY <2>1, <3>3, SelectType
    <3> QED BY <2>1, <3>1, <3>2, <3>4, RunnerServes
  <2>3. CASE UNCHANGED <<backlog, job, ret>>
    <3>1. RunnerOK'
      BY <1>1, <2>1, <2>3, SelectType
    <3> QED BY <2>1, <2>3, <3>1, Untouched, RunnerKeeps
  <2> QED BY <1>8, <2>2, <2>3 DEF Timeout
<1> QED BY <1>3, <1>4, <1>5, <1>6, <1>7, <1>8 DEF Run1

-----------------------------------------------------------------------------
\* A fetcher loop that answers no launch: what is left to show is the type of
\* the ring, the results, the runner and running.
LEMMA LoopKeeps ==
  ASSUME IInv, NEW p \in Producers, NEW x \in Loops,
         prod' = [prod EXCEPT ![p] = x],
         prod[p].pc # "starting", x.pc # "starting",
         UNCHANGED <<running, sessions, backlog, job, cookie, clock>>,
         RingOK', RunnerOK', ret' \in [Workers -> Rets]
  PROVE  IInv'
<1>1. TypeOK /\ BacklogIsWaiters /\ LaunchPaired /\ UNCHANGED <<live, sess>>
  BY DEF IInv, sessions
<1>2. prod' \in [Producers -> Loops] /\ LaunchPaired'
  BY <1>1, LoopMoves DEF TypeOK
<1>3. BacklogIsWaiters'
  BY <1>1 DEF BacklogIsWaiters, At
<1>4. SessionsOK' /\ JobsOK'
  BY <1>1 DEF TypeOK, SessionsOK, JobsOK
<1> QED BY <1>1, <1>2, <1>3, <1>4 DEF IInv, TypeOK

\* The loop's own states.
LEMMA LoopType ==
  \A pc \in {"free", "loop", "next", "notify", "empty", "emptybuf"} :
    [pc |-> pc] \in Loops /\ [pc |-> pc].pc # "starting"
BY DEF Loops

\* What a fetcher loop does, with the Source and with the runner.
LEMMA ProducerStep ==
  ASSUME IInv, NEW p \in Producers,
         Produce(p) \/ Notify(p) \/ Receive(p) \/ ReceiveError(p)
  PROVE  IInv'
<1>1. /\ TypeOK /\ RingOK /\ RunnerOK /\ SessionsOK /\ ret \in [Workers -> Rets]
      /\ prod \in [Producers -> Loops]
  BY DEF IInv, TypeOK
<1>2. UNCHANGED ring => RingOK'
  BY <1>1 DEF RingOK, ring
<1>3. UNCHANGED queue => RunnerOK' /\ UNCHANGED backlog
  BY <1>1 DEF RunnerOK, queue
<1>4. cid \in 0 .. MaxCid /\ MaxCid \in Nat /\ buf \in [Slots -> Stored]
  BY <1>1, StreamAssumption DEF RingOK
<1>5. CASE SourceUp(p) \/ SourceDown(p)
  <2>1. PICK x \in Loops : x.pc # "starting" /\ prod' = [prod EXCEPT ![p] = x]
    <3>1. CASE SourceUp(p)
      BY <3>1, LoopType DEF SourceUp
    <3>2. CASE SourceDown(p)
      BY <3>2, LoopType DEF SourceDown, Free
    <3> QED BY <1>5, <3>1, <3>2
  <2>2. /\ prod[p].pc = "starting" /\ Resume(prod[p].by)
        /\ running' \in BOOLEAN
        /\ UNCHANGED <<ring, sessions, queue, ret, cookie, clock>>
    BY <1>1, <1>5 DEF SourceUp, SourceDown, TypeOK
  <2>3. /\ prod' \in [Producers -> Loops] /\ JobsOK'
        /\ BacklogIsWaiters' /\ LaunchPaired'
    BY <1>3, <2>1, <2>2, StartAnswered
  <2>4. SessionsOK'
    BY <2>2, Untouched
  <2> QED BY <1>1, <1>2, <1>3, <2>2, <2>3, <2>4 DEF IInv, TypeOK
<1>6. CASE Loop(p) \/ ReceiveError(p)
  <2>1. PICK pc \in {"loop", "next", "empty"} : prod' = [prod EXCEPT ![p] = [pc |-> pc]]
    BY <1>6 DEF Loop, ReceiveError
  <2>2. /\ prod[p].pc # "starting"
        /\ UNCHANGED <<running, ring, sessions, queue, job, ret, cookie, clock>>
    BY <1>6 DEF Loop, ReceiveError
  <2>3. [pc |-> pc] \in Loops /\ [pc |-> pc].pc # "starting"
    BY LoopType
  <2> DEFINE x == [pc |-> pc]
  <2>4. x \in Loops /\ x.pc # "starting" /\ prod' = [prod EXCEPT ![p] = x]
    BY <2>1, <2>3
  <2> HIDE DEF x
  <2> QED BY <1>1, <1>2, <1>3, <2>2, <2>4, LoopKeeps
<1>7. CASE Notify(p)
  <2> DEFINE x == [pc |-> "loop"]
  <2>1. /\ prod[p].pc # "starting" /\ prod' = [prod EXCEPT ![p] = x]
        /\ runner' = [runner EXCEPT !.pc = "scan", !.at = 1]
        /\ UNCHANGED <<running, ring, sessions, backlog, old, job, ret, cookie, clock>>
    BY <1>7 DEF Notify
  <2> HIDE DEF x
  <2>2. RunnerOK'
    <3>1. runner' \in [pc : {"select", "scan", "send", "sweep", "lonely", "off"},
                       at : Nat, now : 0 .. Clocks]
          /\ runner'.pc = "scan" /\ runner'.at = 1
      BY <1>1, <2>1 DEF RunnerOK
    <3> QED BY <1>1, <2>1, <3>1 DEF RunnerOK
  <2>3. x \in Loops /\ x.pc # "starting"
    BY LoopType DEF x
  <2> QED BY <1>1, <1>2, <2>1, <2>2, <2>3, LoopKeeps
<1>8. CASE Receive(p)
  <2> DEFINE x == [pc |-> "notify"]
  <2>1. /\ prod[p].pc # "starting" /\ prod' = [prod EXCEPT ![p] = x]
        /\ cid < MaxCid /\ buf' = [buf EXCEPT ![Slot(cid)] = cid] /\ cid' = cid + 1
        /\ UNCHANGED <<running, hasBuf, sessions, queue, job, ret, cookie, clock>>
    BY <1>8 DEF Receive
  <2>2. cid \in Stored /\ cid + 1 \in 0 .. MaxCid
    BY <1>4, <2>1 DEF Stored
  <2>3. RingOK'
    BY <1>1, <1>4, <2>1, <2>2 DEF RingOK
  <2>4. x \in Loops /\ x.pc # "starting"
    BY LoopType
  <2> HIDE DEF x
  <2> QED BY <1>1, <1>3, <2>1, <2>3, <2>4, LoopKeeps
<1>9. CASE EmptyCid(p)
  <2> DEFINE x == [pc |-> "emptybuf"]
  <2>1. /\ prod[p].pc # "starting" /\ prod' = [prod EXCEPT ![p] = x]
        /\ cid' = 0
        /\ UNCHANGED <<running, hasBuf, buf, sessions, queue, job, ret, cookie, clock>>
    BY <1>9 DEF EmptyCid
  <2>2. RingOK'
    BY <1>1, <1>4, <2>1 DEF RingOK
  <2>3. x \in Loops /\ x.pc # "starting"
    BY LoopType
  <2> HIDE DEF x
  <2> QED BY <1>1, <1>3, <2>1, <2>2, <2>3, LoopKeeps
<1>10. CASE EmptyBuf(p)
  <2>1. /\ prod[p].pc # "starting" /\ prod' = [prod EXCEPT ![p] = Free]
        /\ FreshSlots
        /\ UNCHANGED <<running, hasBuf, cid, sessions, queue, job, cookie, clock>>
    BY <1>10 DEF EmptyBuf
  <2>2. buf' \in [Slots -> Stored] /\ ret' \in [Workers -> Rets]
    BY <1>1, <2>1, FreshType
  <2>3. RingOK'
    BY <1>1, <2>1, <2>2 DEF RingOK
  <2>4. Free \in Loops /\ Free.pc # "starting"
    BY LoopType DEF Free
  <2> QED BY <1>1, <1>3, <2>1, <2>2, <2>3, <2>4, LoopKeeps
<1> QED BY <1>5, <1>6, <1>7, <1>8, <1>9, <1>10 DEF Produce

-----------------------------------------------------------------------------
\* Nobody works, waits or launches at first.
LEMMA IInvInit == Init => IInv
<1> SUFFICES ASSUME Init PROVE IInv
  OBVIOUS
<1>1. 0 \in 0 .. Clocks /\ SessionTimeout + 1 \in 0 .. Clocks /\ 0 \in 0 .. MaxCid
  BY StreamAssumption DEF Clocks
<1>2. \A w \in Workers : job[w] = Rest /\ At(w, "idle")
  BY DEF Init, Rest, At
<1>3. JobsOK
  <2>1. "idle" \notin WithSession
    BY DEF WithSession
  <2> QED BY <1>2, <2>1, RestType DEF Init, JobsOK, At
<1>4. RingOK
  BY <1>1, StreamAssumption DEF Init, RingOK, Stored
<1>5. SessionsOK
  <2>1. NoSession \in StreamSessions
    BY <1>1, StreamAssumption DEF NoSession, StreamSessions
  <2> QED BY <2>1 DEF Init, SessionsOK
<1>6. backlog = << >> /\ backlog \in Seq(Workers) /\ RunnerOK
  BY <1>1 DEF Init, RunnerOK
<1>7. prod \in [Producers -> Loops] /\ \A p \in Producers : prod[p].pc # "starting"
  <2>1. PICK p0 \in Producers :
          prod = [p \in Producers |-> IF running /\ p = p0 THEN [pc |-> "loop"] ELSE Free]
    BY DEF Init
  <2>2. Free \in Loops /\ Free.pc # "starting" /\ [pc |-> "loop"] \in Loops
        /\ [pc |-> "loop"].pc # "starting"
    BY LoopType DEF Free
  <2> QED BY <2>1, <2>2
<1>8. ret \in [Workers -> Rets]
  <2>1. NilRet \in Rets
    BY DEF NilRet, Rets
  <2> QED BY <2>1 DEF Init
<1>9. running \in BOOLEAN /\ cookie \in [Clients -> SIDs \cup {NoSID}] /\ clock \in 0 .. Clocks
  BY <1>1 DEF Init
<1>10. BacklogIsWaiters
  BY <1>2, <1>6 DEF BacklogIsWaiters, At
<1>11. LaunchPaired
  BY <1>2, <1>7 DEF LaunchPaired, At
<1> QED BY <1>3, <1>4, <1>5, <1>6, <1>7, <1>8, <1>9, <1>10, <1>11 DEF IInv, TypeOK

\* Every step of the service keeps the three.
LEMMA IInvStep == IInv /\ [Next]_vars => IInv'
<1> SUFFICES ASSUME IInv, [Next]_vars PROVE IInv'
  OBVIOUS
<1>1. ASSUME NEW w \in Workers, Work(w) PROVE IInv'
  BY <1>1, LaunchStep, PushStep, WorkerStep
<1>2. ASSUME NEW w \in Workers, NEW op \in Ops[w], Call(w, op) PROVE IInv'
  BY <1>2, CallStep
<1>3. CASE Run1
  BY <1>3, RunnerStep
<1>4. ASSUME NEW p \in Producers,
             Produce(p) \/ Notify(p) \/ Receive(p) \/ ReceiveError(p)
      PROVE  IInv'
  BY <1>4, ProducerStep
<1>5. CASE Tick
  <2>1. /\ clock < Clocks /\ clock' = clock + 1
        /\ UNCHANGED <<running, hasBuf, cid, buf, live, sess, backlog, old,
                       runner, prod, job, ret, cookie>>
    BY <1>5 DEF Tick, ring, sessions, queue
  <2>2. clock' \in 0 .. Clocks
    BY <2>1, StreamAssumption DEF IInv, TypeOK, Clocks
  <2>3. RingOK' /\ SessionsOK' /\ RunnerOK' /\ JobsOK'
    BY <2>1 DEF IInv, TypeOK, RingOK, SessionsOK, RunnerOK, JobsOK
  <2>4. BacklogIsWaiters' /\ LaunchPaired'
    BY <2>1 DEF IInv, BacklogIsWaiters, LaunchPaired, At
  <2> QED BY <2>1, <2>2, <2>3, <2>4 DEF IInv, TypeOK
<1>6. CASE UNCHANGED vars
  <2>1. UNCHANGED <<running, hasBuf, cid, buf, live, sess, backlog, old,
                    runner, prod, job, ret, cookie, clock>>
    BY <1>6 DEF vars
  <2>2. RingOK' /\ SessionsOK' /\ RunnerOK' /\ JobsOK'
    BY <2>1 DEF IInv, TypeOK, RingOK, SessionsOK, RunnerOK, JobsOK
  <2>3. BacklogIsWaiters' /\ LaunchPaired'
    BY <2>1 DEF IInv, BacklogIsWaiters, LaunchPaired, At
  <2> QED BY <2>1, <2>2, <2>3 DEF IInv, TypeOK
<1> QED BY <1>1, <1>2, <1>3, <1>4, <1>5, <1>6 DEF Next

\* The three hold together in every reachable state.
LEMMA IInvHolds == Spec => []IInv
BY IInvInit, IInvStep, PTL DEF Spec

(***************************************************************************)
(* Every variable keeps its type, so each goroutine is at one of its       *)
(* control points and a call past session() has its session.               *)
(***************************************************************************)
THEOREM StreamTypes == Spec => []TypeOK
<1>1. IInv => TypeOK
  BY DEF IInv
<1> QED BY <1>1, IInvHolds, PTL

(***************************************************************************)
(* The backlog lists each call blocked on its q channel once and no other: *)
(* the runner's sends never block it (stream.go:134, 149).                 *)
(***************************************************************************)
THEOREM BacklogIsExact == Spec => []BacklogIsWaiters
<1>1. IInv => BacklogIsWaiters
  BY DEF IInv
<1> QED BY <1>1, IInvHolds, PTL

(***************************************************************************)
(* Each goroutine forked by Start and the caller blocked on its ret        *)
(* channel belong to each other (stream.go:160, 178, 183, 196).            *)
(***************************************************************************)
THEOREM LaunchesArePaired == Spec => []LaunchPaired
<1>1. IInv => LaunchPaired
  BY DEF IInv
<1> QED BY <1>1, IInvHolds, PTL
=============================================================================
