---------------------------- MODULE BufferProofs ----------------------------
(***************************************************************************)
(* Proofs about the ring buffer, for every Size, every set of readers and  *)
(* payloads and every bound: the invariants of Buffer, then what a Fetch   *)
(* returns, then the refinement of MessageWindow.                          *)
(***************************************************************************)
EXTENDS Buffer, BufferOpsProofs

-----------------------------------------------------------------------------
(* The buffer's invariants.                                                *)

(***************************************************************************)
(* TypeOK, with what ties a running Fetch to the state it looked at: Empty *)
(* may have reset cid since, nothing else can have changed it.             *)
(***************************************************************************)
FetchArguments(r) ==
  LET c == call[r]
  IN /\ c.pc = "newest" => (c.id <= cid \/ cid = 0)
     /\ (c.pc = "slice" /\ c.id < cid) => c.newest = Newest(cid, c.id, c.limit)
     /\ (c.pc = "slice" /\ c.newest = 0) => c.id <= 1

FetchInv == \A r \in Readers : FetchArguments(r)

\* The arguments of a running Fetch are numbers.
LEMMA CallTypes ==
  ASSUME NEW c \in Calls
  PROVE  c.id \in Nat /\ c.limit \in Nat /\ c.newest \in Int
<1>1. c.id \in 0 .. MaxCid /\ c.limit \in Limits \cup {0} /\ c.newest \in Int
  BY DEF Calls
<1>2. c.id \in Nat
  BY <1>1, BufferAssumption
<1>3. c.limit \in Nat
  <2>1. \A l \in Limits : l \in Nat
    BY BufferAssumption, Zenon
  <2> QED BY <1>1, <2>1, SMT
<1> QED BY <1>1, <1>2, <1>3

\* The bound of TypeOK on cid follows from the guard of Enqueue.
THEOREM TypeCorrect == Spec => []TypeOK
<1> USE BufferAssumption, SizeAssumption
<1>1. Init => TypeOK
  <2> SUFFICES ASSUME Init PROVE TypeOK
    OBVIOUS
  <2>1. Idle \in Calls /\ Zero \in Messages
    BY DEF Idle, Calls, Zero, Messages
  <2>2. buf \in [Slots -> Messages] /\ call \in [Readers -> Calls]
    BY <2>1 DEF Init
  <2>3. \A r \in Readers : call[r].pc = "idle" /\ holder # r
    BY DEF Init, Idle
  <2>4. DOMAIN result = Readers
    BY DEF Init
  <2>5. cid \in 0 .. MaxCid /\ clearing = FALSE /\ holder = Nobody
    BY DEF Init
  <2> QED BY <2>2, <2>3, <2>4, <2>5 DEF TypeOK
<1>2. TypeOK /\ [Next]_vars => TypeOK'
  <2> SUFFICES ASSUME TypeOK, [Next]_vars PROVE TypeOK'
    OBVIOUS
  <2> USE DEF TypeOK
  <2>1. ASSUME NEW m \in Payloads, Enqueue(m) PROVE TypeOK'
    <3>1. cid' \in 0 .. MaxCid /\ cid \in Int /\ [id |-> cid, m |-> m] \in Messages
      BY <2>1 DEF Enqueue, Messages
    <3>2. buf' \in [Slots -> Messages]
      BY <2>1, <3>1 DEF Enqueue
    <3> QED BY <2>1, <3>1, <3>2 DEF Enqueue
  <2>2. CASE EmptyCid
    BY <2>2 DEF EmptyCid
  <2>3. CASE EmptyBuf
    <3>1. buf' \in [Slots -> Messages]
      BY <2>3 DEF EmptyBuf, Messages, Zero
    <3> QED BY <2>3, <3>1 DEF EmptyBuf
  <2>4. ASSUME NEW r \in Readers, NEW id \in 0 .. MaxCid, NEW limit \in Limits,
               FetchCheck(r, id, limit)
        PROVE  TypeOK'
    <3>1. CASE Rejected(cid, id)
      BY <2>4, <3>1 DEF FetchCheck
    <3>2. CASE ~Rejected(cid, id)
      <4> DEFINE c == [pc |-> "newest", id |-> id, limit |-> limit, newest |-> 0]
      <4>1. c \in Calls
        BY DEF Calls
      <4>2. holder = Nobody /\ holder' = r /\ call' = [call EXCEPT ![r] = c]
            /\ UNCHANGED <<cid, buf, clearing, result>>
        BY <2>4, <3>2 DEF FetchCheck
      <4>3. c.pc = "newest"
        OBVIOUS
      <4> HIDE DEF c
      <4> QED BY <4>1, <4>2, <4>3
    <3> QED BY <3>1, <3>2
  <2>5. ASSUME NEW r \in Readers, FetchNewest(r) PROVE TypeOK'
    <3>1. call[r] \in Calls
      OBVIOUS
    <3>3. call[r].id \in Int /\ call[r].limit \in Int
      BY <3>1, CallTypes
    <3>2. Newest(cid, call[r].id, call[r].limit) \in Int
      BY <3>3 DEF Newest
    <3> QED BY <2>5, <3>1, <3>2 DEF FetchNewest, Calls
  <2>6. ASSUME NEW r \in Readers, FetchSlice(r) PROVE TypeOK'
    BY <2>6 DEF FetchSlice, Idle, Calls
  <2>7. CASE UNCHANGED vars
    BY <2>7 DEF vars
  <2> QED BY <2>1, <2>2, <2>3, <2>4, <2>5, <2>6, <2>7 DEF Next
<1>3. QED BY <1>1, <1>2, PTL DEF Spec

(***************************************************************************)
(* The slot of each of the newest Size ids holds that id: no later         *)
(* Enqueue lands in it before Size more have come.                         *)
(***************************************************************************)
LEMMA WindowStep == TypeOK /\ WindowHolds /\ [Next]_vars => WindowHolds'
<1> SUFFICES ASSUME TypeOK, WindowHolds, [Next]_vars PROVE WindowHolds'
  OBVIOUS
<1> USE SizeAssumption, BufferAssumption
<1>1. cid \in Nat /\ buf \in [Slots -> Messages]
  BY DEF TypeOK
<1>2. ASSUME NEW m \in Payloads, Enqueue(m) PROVE WindowHolds'
  <2>1. cid' = cid + 1 /\ buf' = [buf EXCEPT ![Slot(cid)] = [id |-> cid, m |-> m]]
    BY <1>2 DEF Enqueue
  <2> SUFFICES ASSUME NEW k \in Oldest(cid') .. cid' - 1 PROVE buf'[Slot(k)].id = k
    BY DEF WindowHolds
  <2>2. Slot(k) \in Slots /\ Slot(cid) \in Slots
    BY <1>1, <2>1, SlotType DEF Oldest
  <2>3. CASE k = cid
    BY <1>1, <2>1, <2>2, <2>3
  <2>4. CASE k # cid
    <3>1. k \in Int /\ k < cid /\ cid - k < Size /\ k \in Oldest(cid) .. cid - 1
      BY <1>1, <2>1, <2>4 DEF Oldest
    <3>2. Slot(k) # Slot(cid)
      BY <1>1, <3>1, SlotDistinct
    <3>3. buf[Slot(k)].id = k
      BY <3>1 DEF WindowHolds
    <3> QED BY <1>1, <2>1, <2>2, <3>2, <3>3
  <2> QED BY <2>3, <2>4
<1>3. CASE EmptyCid
  <2>1. cid' = 0
    BY <1>3 DEF EmptyCid
  <2> QED BY <2>1 DEF WindowHolds, Oldest
<1>4. CASE EmptyBuf
  <2>1. cid' = 0
    BY <1>4 DEF EmptyBuf, TypeOK
  <2> QED BY <2>1 DEF WindowHolds, Oldest
<1>5. CASE UNCHANGED <<cid, buf>>
  BY <1>5 DEF WindowHolds
<1>6. ASSUME NEW r \in Readers, NEW id \in 0 .. MaxCid, NEW limit \in Limits,
             FetchCheck(r, id, limit)
      PROVE  UNCHANGED <<cid, buf>>
  BY <1>6 DEF FetchCheck
<1>7. ASSUME NEW r \in Readers, FetchNewest(r) \/ FetchSlice(r)
      PROVE  UNCHANGED <<cid, buf>>
  BY <1>7 DEF FetchNewest, FetchSlice
<1> QED BY <1>2, <1>3, <1>4, <1>5, <1>6, <1>7 DEF Next, vars

\* The newest Size messages are in their slots in every state.
THEOREM RingHolds == Spec => []WindowHolds
<1>1. Init => WindowHolds
  BY SizeAssumption DEF Init, WindowHolds, Oldest
<1> QED BY <1>1, WindowStep, TypeCorrect, PTL DEF Spec

-----------------------------------------------------------------------------
(* A running Fetch.                                                        *)

\* While a Fetch holds the mutex only Empty can change cid, and only to 0.
LEMMA FetchInvStep == TypeOK /\ FetchInv /\ [Next]_vars => FetchInv'
<1> SUFFICES ASSUME TypeOK, FetchInv, [Next]_vars, NEW r \in Readers
             PROVE  FetchArguments(r)'
  BY DEF FetchInv
<1> USE SizeAssumption, BufferAssumption
<1>1. /\ cid \in Nat /\ call \in [Readers -> Calls] /\ call[r] \in Calls
      /\ holder # r <=> call[r].pc = "idle"
  BY DEF TypeOK
<1>2. call[r].id \in Nat /\ call[r].limit \in Nat /\ call[r].newest \in Int
  BY <1>1, CallTypes
<1>3. FetchArguments(r)
  BY DEF FetchInv
<1>4. ASSUME NEW m \in Payloads, Enqueue(m) PROVE FetchArguments(r)'
  <2>1. call[r].pc = "idle" /\ UNCHANGED call
    BY <1>4, <1>1 DEF Enqueue
  <2> QED BY <2>1 DEF FetchArguments
<1>5. CASE EmptyCid
  <2>1. cid' = 0 /\ UNCHANGED call
    BY <1>5 DEF EmptyCid
  <2> QED BY <1>2, <1>3, <2>1 DEF FetchArguments
<1>6. CASE EmptyBuf \/ UNCHANGED vars
  <2>1. UNCHANGED <<cid, call>>
    BY <1>6 DEF EmptyBuf, vars
  <2> QED BY <1>3, <2>1 DEF FetchArguments
<1>7. ASSUME NEW s \in Readers, NEW id \in 0 .. MaxCid, NEW limit \in Limits,
             FetchCheck(s, id, limit)
      PROVE  FetchArguments(r)'
  <2>1. CASE call'[r] = call[r]
    BY <1>3, <1>7, <2>1 DEF FetchCheck, FetchArguments
  <2>2. CASE call'[r] # call[r]
    <3>1. s = r /\ ~Rejected(cid, id) /\ cid' = cid
          /\ call'[r] = [pc |-> "newest", id |-> id, limit |-> limit, newest |-> 0]
      BY <1>1, <1>7, <2>2 DEF FetchCheck
    <3>2. id <= cid
      BY <1>1, <3>1 DEF Rejected
    <3> QED BY <3>1, <3>2 DEF FetchArguments
  <2> QED BY <2>1, <2>2
<1>8. ASSUME NEW s \in Readers, FetchNewest(s) PROVE FetchArguments(r)'
  <2>1. CASE s # r
    <3>1. call'[r] = call[r] /\ cid' = cid
      BY <1>1, <1>8, <2>1 DEF FetchNewest
    <3> QED BY <1>3, <3>1 DEF FetchArguments
  <2>2. CASE s = r
    <3>1. /\ call[r].pc = "newest" /\ cid' = cid
          /\ call'[r].pc = "slice" /\ call'[r].id = call[r].id
          /\ call'[r].limit = call[r].limit
          /\ call'[r].newest = Newest(cid, call[r].id, call[r].limit)
      BY <1>1, <1>8, <2>2 DEF FetchNewest, Calls
    <3>2. call[r].id <= cid \/ cid = 0
      BY <1>3, <3>1 DEF FetchArguments
    <3>3. Newest(cid, call[r].id, call[r].limit) = 0 => call[r].id <= 1
      BY <1>1, <1>2, <3>2 DEF Newest
    <3> QED BY <3>1, <3>3 DEF FetchArguments
  <2> QED BY <2>1, <2>2
<1>9. ASSUME NEW s \in Readers, FetchSlice(s) PROVE FetchArguments(r)'
  <2>1. cid' = cid /\ (call'[r] = call[r] \/ call'[r] = Idle)
    BY <1>1, <1>9 DEF FetchSlice
  <2> QED BY <1>3, <2>1 DEF FetchArguments, Idle
<1> QED BY <1>4, <1>5, <1>6, <1>7, <1>8, <1>9 DEF Next

LEMMA FetchInvHolds == Spec => []FetchInv
<1>1. Init => FetchInv
  BY DEF Init, FetchInv, FetchArguments, Idle
<1> QED BY <1>1, FetchInvStep, TypeCorrect, PTL DEF Spec

-----------------------------------------------------------------------------
(* What a Fetch serves.                                                    *)

(***************************************************************************)
(* Every message from the asked id on that the ring still holds is served, *)
(* in order, unless Empty interrupted the Fetch.                           *)
(***************************************************************************)
THEOREM FetchIsComplete == Spec => FetchServesAll
<1> USE SizeAssumption, BufferAssumption
<1>1. TypeOK /\ WindowHolds /\ FetchInv /\ [Next]_vars
        => [\A r \in Readers : Cut(r) => ServesAll(r)]_vars
  <2> SUFFICES ASSUME TypeOK, WindowHolds, FetchInv, Next,
                      NEW r \in Readers, Cut(r)
               PROVE  ServesAll(r)
    OBVIOUS
  <2>1. /\ cid \in Nat /\ buf \in [Slots -> Messages]
        /\ call \in [Readers -> Calls] /\ call[r] \in Calls
        /\ DOMAIN result = Readers
    BY DEF TypeOK
  <2>2. call[r].pc = "slice" /\ call'[r].pc = "idle" /\ call'[r] # call[r]
    BY DEF Cut
  <2>3. FetchSlice(r)
    <3>1. ~ \E m \in Payloads : Enqueue(m)
      BY <2>2 DEF Enqueue
    <3>2. ~EmptyCid /\ ~EmptyBuf
      BY <2>2 DEF EmptyCid, EmptyBuf
    <3>3. ASSUME NEW s \in Readers, NEW id \in 0 .. MaxCid, NEW limit \in Limits,
                 FetchCheck(s, id, limit)
          PROVE  FALSE
      <4>1. call'[r] = call[r] \/ (s = r /\ call[s].pc = "idle")
        BY <2>1, <3>3 DEF FetchCheck
      <4> QED BY <2>2, <4>1
    <3>4. ASSUME NEW s \in Readers, FetchNewest(s) PROVE FALSE
      <4>1. call[s].pc = "newest" /\ (s = r \/ call'[r] = call[r])
        BY <2>1, <3>4 DEF FetchNewest
      <4> QED BY <2>2, <4>1
    <3>5. ASSUME NEW s \in Readers, FetchSlice(s) PROVE s = r
      <4>1. s = r \/ call'[r] = call[r]
        BY <2>1, <3>5 DEF FetchSlice
      <4> QED BY <2>2, <4>1
    <3> QED BY <3>1, <3>2, <3>3, <3>4, <3>5 DEF Next
  <2> DEFINE id == call[r].id
             n == call[r].newest
             run == Run(n, id)
             got == result'[r].seen
  <2>4. id \in Nat /\ call[r].limit \in Nat /\ n \in Int
    BY <2>1, CallTypes
  <2>5. got = [i \in DOMAIN run |-> buf[run[i]]]
    BY <2>1, <2>3 DEF FetchSlice
  <2>6. ASSUME id < cid, Oldest(cid) <= n,
               NEW k \in Int, id <= k, Oldest(cid) <= k, k <= n
        PROVE  /\ Len(got) - (n - k) \in DOMAIN got
               /\ got[Len(got) - (n - k)].id = k
    <3>1. n = Newest(cid, id, call[r].limit)
      BY <2>2, <2>6 DEF FetchInv, FetchArguments
    <3>2. n <= cid - 1 /\ n \in Nat /\ id <= n
      BY <2>1, <2>4, <2>6, <3>1 DEF Newest
    <3>3. buf[Slot(k)].id = k
      BY <2>1, <2>4, <2>6, <3>2 DEF WindowHolds, Oldest
    <3>4. /\ Len(run) - (n - k) \in DOMAIN run
          /\ run[Len(run) - (n - k)] = Slot(k)
      <4> DEFINE lim == call[r].limit
                 m == Newest(cid, id, lim)
      <4>1. cid \in Nat /\ id \in Nat /\ lim \in Nat /\ m = n
        BY <2>1, <2>4, <3>1
      <4> HIDE DEF id, n, run, lim
      <4>2. id < cid /\ Oldest(cid) <= m /\ k \in Int /\ id <= k /\ Oldest(cid) <= k
            /\ k <= m
        BY <2>6, <4>1
      <4>3. /\ Len(Run(m, id)) - (m - k) \in DOMAIN Run(m, id)
            /\ Run(m, id)[Len(Run(m, id)) - (m - k)] = Slot(k)
        BY <4>1, <4>2, RunServes
      <4> QED BY <4>1, <4>3 DEF run
    <3>5. DOMAIN got = DOMAIN run /\ Len(got) = Len(run)
      <4>1. RunLength(n, id) \in Nat
        BY <2>4, <3>2, RunReaches
      <4>2. DOMAIN run = 1 .. RunLength(n, id)
        BY DEF Run
      <4>3. run = [i \in 1 .. RunLength(n, id) |-> run[i]]
        BY <4>2 DEF Run
      <4> HIDE DEF run, n, id
      <4>4. got = [i \in 1 .. RunLength(n, id) |-> buf[run[i]]]
        BY <2>5, <4>2
      <4> HIDE DEF got
      <4> QED BY <4>1, <4>3, <4>4
    <3> HIDE DEF run, n, id, got
    <3> QED BY <2>5, <3>3, <3>4, <3>5
  <2>7. DEFINE first == IF id < Oldest(cid) THEN Oldest(cid) ELSE id
  <2>8. ASSUME id < cid, Oldest(cid) <= n, NEW k \in first .. n
        PROVE  /\ Len(got) - (n - k) \in DOMAIN got
               /\ got[Len(got) - (n - k)].id = k
    <3>1. k \in Int /\ id <= k /\ Oldest(cid) <= k /\ k <= n
      BY <2>1, <2>4, <2>8 DEF Oldest
    <3> QED BY <2>6, <2>8, <3>1
  <2> QED BY <2>8 DEF ServesAll
<1> QED BY <1>1, TypeCorrect, RingHolds, FetchInvHolds, PTL
        DEF Spec, FetchServesAll

(***************************************************************************)
(* A Fetch never slices out of bounds, also when Empty interrupts it.      *)
(***************************************************************************)
THEOREM FetchNeverPanics == Spec => []FetchInBounds
<1>1. TypeOK /\ FetchInv => FetchInBounds
  <2> SUFFICES ASSUME TypeOK, FetchInv, NEW r \in Readers, call[r].pc = "slice"
               PROVE  InBounds(call[r].newest, call[r].id)
    BY DEF FetchInBounds
  <2>1. call[r].id \in Nat /\ call[r].newest \in Int
    BY CallTypes DEF TypeOK
  <2>2. call[r].newest = 0 => call[r].id <= 1
    BY DEF FetchInv, FetchArguments
  <2> QED BY <2>1, <2>2, RunType
<1> QED BY <1>1, TypeCorrect, FetchInvHolds, PTL

(***************************************************************************)
(* A result that shares the ring's slots is read where they are; as long   *)
(* as it does, what is enqueued has an id from upto on, unless Empty has   *)
(* cleared cid: then nothing is enqueued before the slots are replaced.    *)
(***************************************************************************)
SharedResult(q) ==
  /\ {"slots", "seen", "shared", "upto"} \subseteq DOMAIN q /\ q.upto \in Nat
  /\ q.shared =>
       /\ DOMAIN q.seen = DOMAIN q.slots
       /\ \A i \in DOMAIN q.slots :
            /\ q.slots[i] \in Slots
            /\ buf[q.slots[i]] = q.seen[i] \/ buf[q.slots[i]].id >= q.upto
       /\ clearing \/ cid >= q.upto

SharedInv == \A r \in Readers : SharedResult(result[r])

LEMMA RunInRing ==
  ASSUME NEW newest \in Int, NEW id \in Int, NEW i \in DOMAIN Run(newest, id)
  PROVE  Run(newest, id)[i] \in Slots
<1> USE SizeAssumption
<1>1. From(newest, id) \in Int
  BY SlotIs DEF From, Slot, Slots
<1>2. RunLength(newest, id) \in Int
  BY <1>1 DEF RunLength, Slot
<1>3. i \in Int /\ Run(newest, id)[i] = Slot(From(newest, id) + (i - 1))
  BY <1>2 DEF Run
<1> HIDE DEF From
<1> QED BY <1>1, <1>3 DEF Slot, Slots

LEMMA SharedInvStep == TypeOK /\ SharedInv /\ [Next]_vars => SharedInv'
<1> SUFFICES ASSUME TypeOK, SharedInv, [Next]_vars PROVE SharedInv'
  OBVIOUS
<1> USE SizeAssumption, BufferAssumption
<1>1. cid \in Nat /\ buf \in [Slots -> Messages] /\ DOMAIN result = Readers
  BY DEF TypeOK
<1>2. ASSUME NEW m \in Payloads, Enqueue(m) PROVE SharedInv'
  <2> SUFFICES ASSUME NEW r \in Readers PROVE SharedResult(result[r])'
    BY DEF SharedInv
  <2> DEFINE q == result[r]
  <2>1. /\ cid' = cid + 1 /\ buf' = [buf EXCEPT ![Slot(cid)] = [id |-> cid, m |-> m]]
        /\ ~clearing /\ clearing' = clearing /\ result' = result
    BY <1>2 DEF Enqueue
  <2>2. SharedResult(q)
    BY DEF SharedInv
  <2>3. ASSUME q.shared, NEW i \in DOMAIN q.slots
        PROVE  buf'[q.slots[i]] = q.seen[i] \/ buf'[q.slots[i]].id >= q.upto
    <3>1. q.slots[i] \in Slots /\ cid >= q.upto
      BY <2>1, <2>2, <2>3 DEF SharedResult
    <3>2. CASE q.slots[i] = Slot(cid)
      BY <1>1, <2>1, <3>1, <3>2
    <3>3. CASE q.slots[i] # Slot(cid)
      BY <1>1, <2>1, <2>2, <2>3, <3>1, <3>3 DEF SharedResult
    <3> QED BY <3>2, <3>3
  <2>4. q.shared => cid' >= q.upto
    BY <1>1, <2>1, <2>2 DEF SharedResult
  <2> QED BY <2>1, <2>2, <2>3, <2>4 DEF SharedResult
<1>3. CASE EmptyCid
  BY <1>3 DEF EmptyCid, SharedInv, SharedResult
<1>4. CASE EmptyBuf
  <2>1. \A r \in Readers :
         result'[r] = [result[r] EXCEPT !.seen = View(r), !.shared = FALSE]
    BY <1>4 DEF EmptyBuf
  <2> SUFFICES ASSUME NEW r \in Readers PROVE SharedResult(result[r])'
    BY DEF SharedInv
  <2>2. {"slots", "seen", "shared", "upto"} \subseteq DOMAIN result[r]
    BY DEF SharedInv, SharedResult
  <2>3. /\ DOMAIN result'[r] = DOMAIN result[r]
        /\ ~result'[r].shared /\ result'[r].upto = result[r].upto
    BY <2>1, <2>2
  <2>4. result[r].upto \in Nat
    BY DEF SharedInv, SharedResult
  <2> QED BY <2>2, <2>3, <2>4 DEF SharedResult
<1>5. ASSUME NEW r \in Readers, NEW id \in 0 .. MaxCid, NEW limit \in Limits,
             FetchCheck(r, id, limit)
      PROVE  SharedInv'
  <2>1. result' = [result EXCEPT ![r] = Nil] \/ result' = result
    BY <1>5 DEF FetchCheck
  <2>5. UNCHANGED <<cid, buf, clearing>>
    BY <1>5 DEF FetchCheck
  <2>2. SharedResult(Nil)
    BY DEF SharedResult, Nil
  <2>3. \A s \in Readers : result'[s] = Nil \/ result'[s] = result[s]
    BY <1>1, <2>1
  <2>4. \A s \in Readers : SharedResult(result'[s])
    BY <2>2, <2>3 DEF SharedInv
  <2> QED BY <2>4, <2>5 DEF SharedInv, SharedResult
<1>6. ASSUME NEW r \in Readers, FetchNewest(r) PROVE SharedInv'
  BY <1>6 DEF FetchNewest, SharedInv, SharedResult
<1>7. ASSUME NEW r \in Readers, FetchSlice(r) PROVE SharedInv'
  <2>1. call[r].newest \in Int /\ call[r].id \in Int
    BY CallTypes DEF TypeOK
  <2> DEFINE run == Run(call[r].newest, call[r].id)
             q == [slots |-> run, seen |-> [i \in DOMAIN run |-> buf[run[i]]],
                   shared |-> ~Copied(call[r].newest, call[r].id), upto |-> cid]
  <2>2. UNCHANGED <<cid, buf, clearing>> /\ result' = [result EXCEPT ![r] = q]
    BY <1>7 DEF FetchSlice
  <2>3. \A i \in DOMAIN run : run[i] \in Slots
    BY <2>1, RunInRing
  <2> HIDE DEF run
  <2>4. SharedResult(q)
    BY <1>1, <2>3 DEF SharedResult
  <2> HIDE DEF q
  <2>5. \A s \in Readers : SharedResult(result'[s])
    BY <1>1, <2>2, <2>4 DEF SharedInv
  <2> QED BY <2>2, <2>5 DEF SharedInv, SharedResult
<1>8. CASE UNCHANGED vars
  BY <1>8 DEF vars, SharedInv, SharedResult
<1> QED BY <1>2, <1>3, <1>4, <1>5, <1>6, <1>7, <1>8 DEF Next

\* For every ring size and any number of readers, a reader of a result that
\* aliases the ring sees at each position what it fetched or something that
\* was enqueued since, also while Empty runs.
THEOREM OnlyAdvances == Spec => []SharedOnlyAdvances
<1>1. Init => SharedInv
  BY DEF Init, Nil, SharedInv, SharedResult
<1>2. SharedInv => SharedOnlyAdvances
  <2> SUFFICES ASSUME SharedInv, NEW r \in Readers, NEW i \in DOMAIN result[r].seen
               PROVE  \/ View(r)[i] = result[r].seen[i]
                      \/ View(r)[i].id >= result[r].upto
    BY DEF SharedOnlyAdvances
  <2>1. SharedResult(result[r])
    BY DEF SharedInv
  <2>2. CASE result[r].shared
    BY <2>1, <2>2 DEF SharedResult, View
  <2>3. CASE ~result[r].shared
    BY <2>3 DEF View
  <2> QED BY <2>2, <2>3
<1>3. QED BY <1>1, <1>2, TypeCorrect, SharedInvStep, PTL DEF Spec

-----------------------------------------------------------------------------
(* The refinement.                                                         *)

\* What the abstract window is mapped to.
Mapped == [k \in Oldest(cid) .. cid - 1 |-> buf[Slot(k)].m]

\* An Enqueue appends to the window: the new message is in its slot and the
\* ids still held kept theirs.
LEMMA EnqueueAppends ==
  ASSUME TypeOK, NEW m \in Payloads, Enqueue(m)
  PROVE  Window!Append(m)
<1> USE SizeAssumption
<1>1. cid \in Nat /\ buf \in [Slots -> Messages]
  BY BufferAssumption DEF TypeOK
<1>2. cid' = cid + 1 /\ buf' = [buf EXCEPT ![Slot(cid)] = [id |-> cid, m |-> m]]
  BY DEF Enqueue
<1>3. Window!Held(cid + 1) = Oldest(cid') .. cid' - 1
  BY <1>1, <1>2 DEF Window!Held, Oldest
<1>4. ASSUME NEW k \in Oldest(cid') .. cid' - 1
      PROVE  buf'[Slot(k)].m = IF k = cid THEN m ELSE Mapped[k]
  <2>1. Slot(k) \in Slots /\ Slot(cid) \in Slots
    BY <1>1, <1>2, SlotType DEF Oldest
  <2>2. CASE k = cid
    BY <1>1, <1>2, <2>1, <2>2
  <2>3. CASE k # cid
    <3>1. k \in Int /\ k < cid /\ cid - k < Size /\ k \in Oldest(cid) .. cid - 1
      BY <1>1, <1>2, <2>3 DEF Oldest
    <3>2. Slot(k) # Slot(cid)
      BY <1>1, <3>1, SlotDistinct
    <3>3. buf'[Slot(k)] = buf[Slot(k)]
      BY <1>1, <1>2, <2>1, <3>2
    <3>4. Mapped[k] = buf[Slot(k)].m
      BY <3>1 DEF Mapped
    <3> QED BY <2>3, <3>3, <3>4
  <2> QED BY <2>2, <2>3
<1>5. [k \in Oldest(cid') .. cid' - 1 |-> buf'[Slot(k)].m]
        = [k \in Window!Held(cid + 1) |-> IF k = cid THEN m ELSE Mapped[k]]
  BY <1>3, <1>4
<1> QED BY <1>2, <1>5 DEF Window!Append, Mapped

\* The ring, with its mutex, its readers and Empty's two steps, is a window of
\* the newest Size messages.
THEOREM Refines == Spec => ImplementsWindow
<1> USE SizeAssumption
<1>1. ASSUME cid = 0 PROVE Mapped = [k \in {} |-> {}]
  <2>1. Oldest(cid) .. cid - 1 = {}
    BY <1>1 DEF Oldest
  <2> QED BY <2>1 DEF Mapped
<1>2. Init => Window!Init
  BY <1>1 DEF Init, Window!Init, Mapped
<1>3. TypeOK /\ TypeOK' /\ [Next]_vars => [Window!Next]_<<cid, Mapped>>
  <2> SUFFICES ASSUME TypeOK, TypeOK', [Next]_vars
               PROVE  Window!Next \/ UNCHANGED <<cid, Mapped>>
    OBVIOUS
  <2>1. ASSUME NEW m \in Payloads, Enqueue(m) PROVE Window!Next
    BY <2>1, EnqueueAppends DEF Window!Next
  <2>2. CASE EmptyCid
    <3>1. cid' = 0
      BY <2>2 DEF EmptyCid
    <3>2. Mapped' = [k \in {} |-> {}]
      <4>1. Oldest(cid') .. cid' - 1 = {}
        BY <3>1 DEF Oldest
      <4> QED BY <4>1 DEF Mapped
    <3> QED BY <3>1, <3>2 DEF Window!Next, Window!Clear, Mapped
  <2>3. CASE EmptyBuf
    <3>1. cid = 0 /\ cid' = 0
      BY <2>3 DEF EmptyBuf, TypeOK
    <3>2. Mapped' = [k \in {} |-> {}]
      <4>1. Oldest(cid') .. cid' - 1 = {}
        BY <3>1 DEF Oldest
      <4> QED BY <4>1 DEF Mapped
    <3> QED BY <1>1, <3>1, <3>2
  <2>4. CASE UNCHANGED <<cid, buf>>
    BY <2>4 DEF Mapped
  <2>5. ASSUME NEW r \in Readers, NEW id \in 0 .. MaxCid, NEW limit \in Limits,
               FetchCheck(r, id, limit)
        PROVE  UNCHANGED <<cid, buf>>
    BY <2>5 DEF FetchCheck
  <2>6. ASSUME NEW r \in Readers, FetchNewest(r) \/ FetchSlice(r)
        PROVE  UNCHANGED <<cid, buf>>
    BY <2>6 DEF FetchNewest, FetchSlice
  <2> QED BY <2>1, <2>2, <2>3, <2>4, <2>5, <2>6 DEF Next, vars
<1> QED BY <1>2, <1>3, TypeCorrect, PTL
        DEF Spec, ImplementsWindow, Window!Spec, Mapped
=============================================================================
