------------------------------- MODULE Buffer -------------------------------
(***************************************************************************)
(* The ring buffer of stream/buffer.go with its mutex, one goroutine that  *)
(* enqueues and finally empties it (the fetcher loop of Start), and        *)
(* readers that fetch.  Enqueue and Fetch hold the mutex, Empty does not:  *)
(* its two assignments fall between the steps of a running Fetch.          *)
(***************************************************************************)
EXTENDS BufferOps

CONSTANTS Payloads,   \* what a message can carry
          NoPayload,  \* the payload of a zero Message
          Readers,    \* goroutines that call Fetch
          Nobody,     \* the mutex is free
          Limits,     \* second arguments of Fetch; 0 is "none given"
          MaxCid      \* bound on the messages between two Empty calls

ASSUME BufferAssumption ==
  /\ NoPayload \notin Payloads
  /\ Nobody \notin Readers
  /\ Limits \subseteq Nat
  /\ MaxCid \in Nat

VARIABLES cid,       \* next free id
          buf,       \* the slots
          clearing,  \* Empty reset cid and did not replace the slots yet
          holder,    \* who holds the mutex across steps
          call,      \* per reader: where its Fetch stands
          result     \* per reader: the result of its last Fetch

vars == <<cid, buf, clearing, holder, call, result>>

Messages == [id : Nat, m : Payloads \cup {NoPayload}]

Zero == [id |-> 0, m |-> NoPayload]

Calls == [pc : {"idle", "newest", "slice"}, id : 0 .. MaxCid,
          limit : Limits \cup {0}, newest : Int]

Idle == [pc |-> "idle", id |-> 0, limit |-> 0, newest |-> 0]

(***************************************************************************)
(* A result: the slots it was cut from, what they held at that time, and   *)
(* whether it still shares them with the ring.                             *)
(***************************************************************************)
Nil == [slots |-> << >>, seen |-> << >>, shared |-> FALSE, upto |-> 0]

\* What the holder of a result reads in it now.
View(r) == IF result[r].shared
           THEN [i \in DOMAIN result[r].slots |-> buf[result[r].slots[i]]]
           ELSE result[r].seen

Init ==
  /\ cid = 0
  /\ buf = [s \in Slots |-> Zero]
  /\ clearing = FALSE
  /\ holder = Nobody
  /\ call = [r \in Readers |-> Idle]
  /\ result = [r \in Readers |-> Nil]

\* Mutant of Enqueue: the id is taken after cid was advanced.
EnqueueLateId(m) ==
  /\ holder = Nobody /\ ~clearing /\ cid < MaxCid
  /\ cid' = cid + 1
  /\ buf' = [buf EXCEPT ![Slot(cid)] = [id |-> cid + 1, m |-> m]]
  /\ UNCHANGED <<clearing, holder, call, result>>

\* Mutant of Enqueue: the slot is taken after cid was advanced.
EnqueueLateSlot(m) ==
  /\ holder = Nobody /\ ~clearing /\ cid < MaxCid
  /\ cid' = cid + 1
  /\ buf' = [buf EXCEPT ![Slot(cid + 1)] = [id |-> cid, m |-> m]]
  /\ UNCHANGED <<clearing, holder, call, result>>

(***************************************************************************)
(* Enqueue, all of it under the mutex.  The goroutine that enqueues is the *)
(* one that empties, so it is not in the middle of Empty.                  *)
(***************************************************************************)
Enqueue(m) ==
  /\ holder = Nobody /\ ~clearing /\ cid < MaxCid
  /\ cid' = cid + 1
  /\ buf' = [buf EXCEPT ![Slot(cid)] = [id |-> cid, m |-> m]]
  /\ UNCHANGED <<clearing, holder, call, result>>

\* Empty, first assignment; it takes no lock.
EmptyCid ==
  /\ ~clearing
  /\ cid' = 0
  /\ clearing' = TRUE
  /\ UNCHANGED <<buf, holder, call, result>>

\* Mutant of EmptyBuf: the slots are zeroed in place.
EmptyBufInPlace ==
  /\ clearing
  /\ buf' = [s \in Slots |-> Zero]
  /\ clearing' = FALSE
  /\ UNCHANGED <<cid, holder, call, result>>

(***************************************************************************)
(* Empty, second assignment: a fresh array.  Results cut from the old one  *)
(* keep it to themselves, with what it holds now.                          *)
(***************************************************************************)
EmptyBuf ==
  /\ clearing
  /\ buf' = [s \in Slots |-> Zero]
  /\ clearing' = FALSE
  /\ result' = [r \in Readers |->
                  [result[r] EXCEPT !.seen = View(r), !.shared = FALSE]]
  /\ UNCHANGED <<cid, holder, call>>

\* Mutant of FetchCheck: the early return keeps the mutex.
FetchCheckKeepsLock(r, id, limit) ==
  /\ holder = Nobody /\ call[r].pc = "idle"
  /\ holder' = r
  /\ IF Rejected(cid, id)
     THEN result' = [result EXCEPT ![r] = Nil] /\ UNCHANGED call
     ELSE /\ call' = [call EXCEPT ![r] = [pc |-> "newest", id |-> id,
                                          limit |-> limit, newest |-> 0]]
          /\ UNCHANGED result
  /\ UNCHANGED <<cid, buf, clearing>>

\* Fetch up to its early return: lock, look at cid, unlock with nil or go on.
FetchCheck(r, id, limit) ==
  /\ holder = Nobody /\ call[r].pc = "idle"
  /\ IF Rejected(cid, id)
     THEN /\ result' = [result EXCEPT ![r] = Nil]
          /\ UNCHANGED <<holder, call>>
     ELSE /\ holder' = r
          /\ call' = [call EXCEPT ![r] = [pc |-> "newest", id |-> id,
                                          limit |-> limit, newest |-> 0]]
          /\ UNCHANGED result
  /\ UNCHANGED <<cid, buf, clearing>>

\* Fetch reads cid a second time and applies the limit.
FetchNewest(r) ==
  /\ call[r].pc = "newest"
  /\ call' = [call EXCEPT
       ![r].pc = "slice",
       ![r].newest = Newest(cid, call[r].id, call[r].limit)]
  /\ UNCHANGED <<cid, buf, clearing, holder, result>>

\* Fetch cuts or copies its result out of the slots and unlocks.
FetchSlice(r) ==
  LET c == call[r]
      run == Run(c.newest, c.id)
  IN /\ c.pc = "slice"
     /\ result' = [result EXCEPT ![r] =
          [slots  |-> run,
           seen   |-> [i \in DOMAIN run |-> buf[run[i]]],
           shared |-> ~Copied(c.newest, c.id),
           upto   |-> cid]]
     /\ call' = [call EXCEPT ![r] = Idle]
     /\ holder' = Nobody
     /\ UNCHANGED <<cid, buf, clearing>>

Next ==
  \/ \E m \in Payloads : Enqueue(m)
  \/ EmptyCid
  \/ EmptyBuf
  \/ \E r \in Readers :
       \/ \E id \in 0 .. MaxCid, limit \in Limits : FetchCheck(r, id, limit)
       \/ FetchNewest(r)
       \/ FetchSlice(r)

Spec == Init /\ [][Next]_vars

-----------------------------------------------------------------------------
\* Types of all variables; the mutex is held exactly while a Fetch is between
\* its lock and its unlock.
TypeOK ==
  /\ cid \in 0 .. MaxCid
  /\ buf \in [Slots -> Messages]
  /\ clearing \in BOOLEAN
  /\ clearing => cid = 0
  /\ holder \in Readers \cup {Nobody}
  /\ call \in [Readers -> Calls]
  /\ \A r \in Readers : call[r].pc # "idle" <=> holder = r
  /\ DOMAIN result = Readers

(***************************************************************************)
(* The ring holds the newest messages: the slot of each of the last Size   *)
(* ids holds the message with that id (the test of buffer_test.go:44, "Not *)
(* all available entries returned", rests on it).                          *)
(***************************************************************************)
WindowHolds ==
  \A k \in Oldest(cid) .. cid - 1 : buf[Slot(k)].id = k

(***************************************************************************)
(* A Fetch that Empty did not interrupt serves, in order and at the end of *)
(* its result, every message from the asked id on that the ring still      *)
(* holds, up to the newest one or the limit (buffer.go:92-94).             *)
(***************************************************************************)
Cut(r) == call[r].pc = "slice" /\ call'[r].pc = "idle"

ServesAll(r) ==
  LET newest == call[r].newest
      first == IF call[r].id < Oldest(cid) THEN Oldest(cid) ELSE call[r].id
      got == result'[r].seen
  IN (call[r].id < cid /\ Oldest(cid) <= newest) =>
       \A k \in first .. newest :
          LET i == Len(got) - (newest - k)
          IN i \in DOMAIN got /\ got[i].id = k

FetchServesAll == [][\A r \in Readers : Cut(r) => ServesAll(r)]_vars

(***************************************************************************)
(* "If one ID is given as parameter, all Messages starting from this ID    *)
(* will be returned" (buffer.go:93): without a limit, nothing older than   *)
(* the asked id is served.                                                 *)
(***************************************************************************)
StartsAtId(r) ==
  (call[r].id < cid /\ call[r].limit = 0) =>
     \A i \in DOMAIN result'[r].seen : result'[r].seen[i].id >= call[r].id

FetchStartsAtId == [][\A r \in Readers : Cut(r) => StartsAtId(r)]_vars

(***************************************************************************)
(* Fetch never slices out of the array's bounds, not even when Empty       *)
(* clears cid between its check and its arithmetic (buffer.go:109-143; the *)
(* subtraction of line 114 wraps below zero then).                         *)
(***************************************************************************)
FetchInBounds ==
  \A r \in Readers :
    call[r].pc = "slice" => InBounds(call[r].newest, call[r].id)

(***************************************************************************)
(* A result that is a slice of the ring (buffer.go:143) is overwritten     *)
(* under its reader only by messages newer than all it was given: what a   *)
(* reader sees at a position is what it fetched or something enqueued      *)
(* since.                                                                  *)
(***************************************************************************)
SharedOnlyAdvances ==
  \A r \in Readers : \A i \in DOMAIN result[r].seen :
    \/ View(r)[i] = result[r].seen[i]
    \/ View(r)[i].id >= result[r].upto

-----------------------------------------------------------------------------
\* The ring implements the window: the payload of an id is found in its slot.
Window == INSTANCE MessageWindow WITH
            next <- cid,
            window <- [k \in Oldest(cid) .. cid - 1 |-> buf[Slot(k)].m]

\* Every step of the ring is an append, a clear or no step of the window.
ImplementsWindow == Window!Spec
=============================================================================
