--------------------------- MODULE DeliveryProofs ---------------------------
(***************************************************************************)
(* What a stream delivers, for every configuration, ring size and number   *)
(* of clients, workers and fetcher loops, as long as no message is taken   *)
(* out of the ring before its time: the runs of messages calls get, and    *)
(* the cursors of the sessions.                                            *)
(***************************************************************************)
EXTENDS StreamProofs

(***************************************************************************)
(* No step takes the ring back: its next id does not fall and a slot that  *)
(* was filled stays filled.  A start replaces the ring and an ended loop   *)
(* empties it, so this holds from the first start to the first stop, or as *)
(* long as there is no message yet.                                        *)
(***************************************************************************)
KeepsRing ==
  /\ cid' >= cid
  /\ \A s \in Slots : buf[s] # Zero => buf'[s] # Zero

RingIsKept == [][KeepsRing]_vars

\* A ring with next id c and contents b holds its newest Size messages, each
\* in its slot, and no other.
Holds(c, b) ==
  /\ \A k \in Oldest(c) .. c - 1 : b[Slot(k)] = k
  /\ \A s \in Slots :
       b[s] # Zero => Oldest(c) <= b[s] /\ b[s] < c /\ Slot(b[s]) = s

Window == Holds(cid, buf)

\* The messages of a result r as they are read from a ring with contents b.
Reads(r, b) ==
  IF r.slots = << >> THEN r.ids ELSE [i \in DOMAIN r.slots |-> b[r.slots[i]]]

\* A result: nil, a gapless run of messages in an array of its own, or filled
\* slots of the ring, one behind the other.
GoodRet(r, c, b) ==
  \/ r = NilRet
  \/ /\ ~r.nil /\ r.slots = << >> /\ r.ids # << >>
     /\ \A i \in DOMAIN r.ids : 0 <= r.ids[i] /\ r.ids[i] < c
     /\ \A i \in DOMAIN r.ids \ {1} : r.ids[i] = r.ids[i - 1] + 1
  \/ /\ ~r.nil /\ r.slots # << >>
     /\ \A i \in DOMAIN r.slots : b[r.slots[i]] # Zero
     /\ \A i \in DOMAIN r.slots \ {1} : r.slots[i] = r.slots[i - 1] + 1

GoodResult(r) == GoodRet(r, cid, buf)

\* What was encoded, m, of a result that reads q by now: as many messages
\* that were in the same slots, and none a turn of the ring or more ahead of
\* the one it comes before.
SentOf(m, q) ==
  /\ Len(m) <= Len(q)
  /\ \A i \in DOMAIN m :
       /\ 0 <= m[i] /\ m[i] <= q[i] /\ Slot(m[i]) = Slot(q[i])
       /\ i < Len(q) => q[i + 1] > m[i] - Size
       /\ i > 1 => m[i] > m[i - 1] - Size

Sent(w) ==
  /\ job[w].pc # "encode" => job[w].sent = << >>
  /\ SentOf(job[w].sent, Content(ret[w]))
  /\ ret[w].slots = << >> =>
       \A i \in DOMAIN job[w].sent : job[w].sent[i] = ret[w].ids[i]

\* Whoever is about to fetch asks for a message that is there.
Fetches ==
  /\ \A w \in Workers : At(w, "take") => job[w].rid < cid
  /\ runner.pc = "send" => job[backlog[runner.at]].rid < cid

Cursors == \A s \in SIDs : sess[s].next <= cid
Results == \A w \in Workers : GoodResult(ret[w])
Answers == \A w \in Workers : Sent(w)

Delivery == Window /\ Cursors /\ Fetches /\ Results /\ Answers

-----------------------------------------------------------------------------
(* The ring and what a Fetch takes from it.                                *)

\* Where the types of the ring are needed.
LEMMA RingTypes ==
  ASSUME IInv
  PROVE  /\ cid \in Nat /\ buf \in [Slots -> Stored]
         /\ \A s \in Slots : buf[s] \in Int
         /\ sess \in [SIDs -> StreamSessions]
         /\ \A s \in SIDs : sess[s].next \in Nat
         /\ job \in [Workers -> Jobs]
         /\ \A w \in Workers : job[w].rid \in Nat /\ job[w].pc \in Controls
                              /\ job[w].sent \in Seq(Stored)
         /\ ret \in [Workers -> Rets]
         /\ backlog \in Seq(Workers)
<1>1. /\ cid \in 0 .. MaxCid /\ buf \in [Slots -> Stored]
      /\ sess \in [SIDs -> StreamSessions] /\ job \in [Workers -> Jobs]
      /\ ret \in [Workers -> Rets] /\ backlog \in Seq(Workers)
  BY DEF IInv, TypeOK, RingOK, SessionsOK, JobsOK
<1>2. \A m \in Stored : m \in Int
  BY StreamAssumption DEF Stored, Zero
<1>3. \A s \in SIDs : sess[s].next \in Nat
  BY <1>1, StreamAssumption DEF StreamSessions
<1>4. \A w \in Workers : job[w].rid \in Nat /\ job[w].pc \in Controls
                        /\ job[w].sent \in Seq(Stored)
  BY <1>1, StreamAssumption DEF Jobs, Controls
<1> QED BY <1>1, <1>2, <1>3, <1>4, StreamAssumption

\* A run goes back no further than to message 0.
LEMMA RunStartsInWindow ==
  ASSUME NEW id \in Nat, NEW n \in Nat, id <= n
  PROVE  /\ RunLength(n, id) \in Nat \ {0}
         /\ RunLength(n, id) <= n + 1
         /\ RunLength(n, id) <= Size
<1> USE SizeAssumption
<1> DEFINE L == RunLength(n, id)
<1>1. L \in Nat /\ (L = n - id + 1 \/ L = Size) /\ (n - id >= Size => L = Size)
  BY RunReaches
<1>2. ASSUME n >= Size PROVE L \in Nat \ {0} /\ L <= n + 1 /\ L <= Size
  <2> HIDE DEF L
  <2> QED BY <1>1, <1>2
<1>3. ASSUME n < Size PROVE L \in Nat \ {0} /\ L <= n + 1 /\ L <= Size
  <2>1. \A k \in Slots : k = Size * 0 + k /\ k \in Int
    BY DEF Slots
  <2>2. ASSUME NEW k \in Slots PROVE Slot(k) = k
    <3>1. k \in Int /\ 0 \in Int /\ k = Size * 0 + k
      BY <2>1
    <3> QED BY <3>1, SlotIs
  <2>3. Slot(n) = n /\ Slot(id) = id
    BY <1>3, <2>2 DEF Slots
  <2>4. From(n, id) = id
    BY <2>3 DEF From, Distance
  <2>5. L = (n + 1) - id
    BY <2>3, <2>4 DEF RunLength, Copied
  <2> HIDE DEF L
  <2> QED BY <1>3, <2>5
<1> QED BY <1>2, <1>3

\* Ids in the same slot stay together when both go on by one.
LEMMA SlotNext ==
  ASSUME NEW a \in Int, NEW b \in Int, Slot(a) = Slot(b)
  PROVE  Slot(a + 1) = Slot(b + 1)
<1>1. PICK p \in Int : a = Size * p + Slot(a)
  BY SlotRounds
<1>2. PICK q \in Int : b = Size * q + Slot(b)
  BY SlotRounds
<1>3. PICK t \in Int : a + 1 = Size * t + Slot(a + 1)
  BY SlotRounds
<1> USE SizeAssumption
<1>4. Slot(a + 1) \in Slots /\ Slot(a + 1) \in Int /\ Slot(a) \in Int
  BY SlotType
<1>5. b + 1 = Size * (q - p + t) + Slot(a + 1)
  <2>1. Size * (q - p + t) = Size * q - Size * p + Size * t
    BY SMT
  <2> QED BY <1>1, <1>2, <1>3, <1>4, <2>1
<1>6. PICK u \in Int : b + 1 = Size * u + Slot(a + 1)
  <2>1. q - p + t \in Int
    BY SMT
  <2> QED BY <1>5, <2>1
<1>7. b + 1 \in Int
  OBVIOUS
<1> QED BY <1>4, <1>6, <1>7, SlotIs

\* The id a turn of the ring before is in the same slot.
LEMMA SlotTurn ==
  ASSUME NEW a \in Int
  PROVE  Slot(a - Size) = Slot(a)
<1> USE SizeAssumption
<1>1. PICK p \in Int : a = Size * p + Slot(a)
  BY SlotRounds
<1>2. Slot(a) \in Slots /\ Slot(a) \in Int
  BY SlotType
<1>3. a - Size = Size * (p - 1) + Slot(a)
  <2>1. Size * (p - 1) = Size * p - Size
    BY SMT
  <2> QED BY <1>1, <1>2, <2>1
<1>4. PICK u \in Int : a - Size = Size * u + Slot(a)
  BY <1>3
<1>5. a - Size \in Int
  OBVIOUS
<1> QED BY <1>2, <1>4, <1>5, SlotIs

\* The ids of the first turn are their slots.
LEMMA SlotOwn ==
  ASSUME NEW s \in Slots
  PROVE  Slot(s) = s
<1>1. s \in Int /\ 0 \in Int /\ s = Size * 0 + s
  BY SizeAssumption DEF Slots
<1> QED BY <1>1, SlotIs

\* In a slot that is not the last the next id is in the next slot.
LEMMA SlotBehind ==
  ASSUME NEW a \in Int, Slot(a) + 1 \in Slots
  PROVE  Slot(a + 1) = Slot(a) + 1
<1>1. PICK p \in Int : a = Size * p + Slot(a)
  BY SlotRounds
<1>2. Slot(a) \in Int
  BY SlotType
<1>3. a + 1 = Size * p + (Slot(a) + 1)
  BY <1>1, <1>2, SizeAssumption
<1> QED BY <1>3, SlotIs

LEMMA ContentReads == \A r : Content(r) = Reads(r, buf)
BY DEF Content, Reads

\* What a good result reads: messages of the ring's time, each in the slot
\* behind the one before it.
LEMMA ReadsGood ==
  ASSUME NEW c \in Nat, NEW b \in [Slots -> Stored], Holds(c, b),
         NEW r \in Rets, GoodRet(r, c, b), ~r.nil
  PROVE  /\ Reads(r, b) \in Seq(Stored) /\ Reads(r, b) # << >>
         /\ \A i \in DOMAIN Reads(r, b) :
              Reads(r, b)[i] \in Nat /\ Reads(r, b)[i] < c
         /\ \A i \in DOMAIN Reads(r, b) \ {1} :
              /\ Slot(Reads(r, b)[i]) = Slot(Reads(r, b)[i - 1] + 1)
              /\ Reads(r, b)[i] > Reads(r, b)[i - 1] - Size
              /\ r.slots = << >> => Reads(r, b)[i] = Reads(r, b)[i - 1] + 1
<1> USE SizeAssumption
<1> DEFINE q == Reads(r, b)
<1>1. r.ids \in Seq(Stored) /\ r.slots \in Seq(Slots) /\ r # NilRet
  BY DEF Rets, NilRet
<1>2. \A m \in Stored : m \in Int /\ (m # Zero => m \in Nat)
  BY StreamAssumption DEF Stored, Zero
<1>3. CASE r.slots = << >>
  <2>1. q = r.ids /\ q \in Seq(Stored) /\ q # << >>
    BY <1>1, <1>3 DEF Reads, GoodRet
  <2>2. /\ \A i \in DOMAIN q : 0 <= q[i] /\ q[i] < c /\ q[i] \in Int
        /\ \A i \in DOMAIN q \ {1} : q[i] = q[i - 1] + 1
    BY <1>1, <1>2, <1>3, <2>1 DEF GoodRet
  <2> HIDE DEF q
  <2>3. \A i \in DOMAIN q \ {1} : i - 1 \in DOMAIN q
    BY <2>1
  <2>4. \A i \in DOMAIN q \ {1} : q[i] > q[i - 1] - Size
    BY <2>2, <2>3
  <2> QED BY <2>1, <2>2, <2>4 DEF q
<1>4. CASE r.slots # << >>
  <2> DEFINE t == r.slots
  <2>1. /\ t \in Seq(Slots) /\ t # << >> /\ q = [i \in DOMAIN t |-> b[t[i]]]
        /\ \A i \in DOMAIN t : b[t[i]] # Zero
        /\ \A i \in DOMAIN t \ {1} : t[i] = t[i - 1] + 1
    BY <1>1, <1>4 DEF Reads, GoodRet
  <2> HIDE DEF q, t
  <2>2. \A i \in DOMAIN t : t[i] \in Slots /\ b[t[i]] \in Stored
    BY <2>1
  <2>3. q \in Seq(Stored) /\ q # << >> /\ DOMAIN q = DOMAIN t
    BY <2>1, <2>2
  <2>4. \A i \in DOMAIN q : /\ q[i] \in Nat /\ q[i] < c /\ Oldest(c) <= q[i]
                            /\ Slot(q[i]) = t[i]
    BY <1>2, <2>1, <2>2, <2>3 DEF Holds
  <2>5. ASSUME NEW i \in DOMAIN q \ {1}
        PROVE  Slot(q[i]) = Slot(q[i - 1] + 1) /\ q[i] > q[i - 1] - Size
    <3>1. i \in DOMAIN q /\ i - 1 \in DOMAIN q
      BY <2>3
    <3>2. q[i - 1] \in Int /\ Slot(q[i - 1]) + 1 = t[i] /\ t[i] \in Slots
      BY <2>1, <2>2, <2>3, <2>4, <3>1
    <3>3. Slot(q[i - 1] + 1) = t[i]
      BY <3>2, SlotBehind
    <3>4. q[i] >= Oldest(c) /\ q[i - 1] < c /\ q[i] \in Nat /\ q[i - 1] \in Nat
      BY <2>4, <3>1
    <3> QED BY <2>4, <3>1, <3>3, <3>4 DEF Oldest
  <2> QED BY <1>4, <2>3, <2>4, <2>5 DEF q
<1> QED BY <1>3, <1>4

(***************************************************************************)
(* A Fetch of a message that is there returns a run of messages, the last  *)
(* of them the newest of the ring.                                         *)
(***************************************************************************)
LEMMA FetchedGood ==
  ASSUME IInv, Window, NEW id \in Nat, id < cid
  PROVE  /\ GoodResult(Fetched(id))
         /\ ~Fetched(id).nil
         /\ Last(Content(Fetched(id))) = cid - 1
<1> USE SizeAssumption
<1> DEFINE n == cid - 1
           L == RunLength(n, id)
           run == Run(n, id)
           ids == [i \in DOMAIN run |-> buf[run[i]]]
<1>1. cid \in Nat /\ n \in Nat /\ id <= n /\ ~Rejected(cid, id)
      /\ buf \in [Slots -> Stored]
  BY RingTypes DEF Rejected
<1>2. L \in Nat \ {0} /\ L <= n + 1 /\ L <= Size
  BY <1>1, RunStartsInWindow
<1>3. Fetched(id) = [nil   |-> FALSE,
                     ids   |-> IF Copied(n, id) THEN ids ELSE << >>,
                     slots |-> IF Copied(n, id) THEN << >> ELSE run]
  BY <1>1 DEF Fetched
<1>4. DOMAIN run = 1 .. L /\ run \in Seq(Slots) /\ Len(run) = L
  <2>1. n = 0 => id <= 1
    BY <1>1
  <2> QED BY <1>1, <2>1, RunType DEF Run
<1>5. ASSUME NEW i \in 1 .. L PROVE run[i] = Slot(n - (L - i)) /\ ids[i] = n - (L - i)
  <2>1. L - i \in Nat /\ L - i < L /\ L - (L - i) = i
    BY <1>2
  <2> HIDE DEF L
  <2>2. run[i] = Slot(n - (L - i))
    <3>1. run[L - (L - i)] = Slot(n - (L - i))
      BY <1>1, <2>1, RunEndsAt DEF L
    <3> QED BY <2>1, <3>1
  <2>3. n - (L - i) \in Oldest(cid) .. cid - 1
    <3> HIDE DEF run, ids
    <3> QED BY <1>1, <1>2 DEF Oldest
  <2>4. buf[Slot(n - (L - i))] = n - (L - i)
    BY <2>3 DEF Window, Holds
  <2> QED BY <1>4, <2>2, <2>4
<1>6. ASSUME ~Copied(n, id), NEW i \in 2 .. L PROVE run[i] = run[i - 1] + 1
  <2>1. L = (Slot(n) + 1) - From(n, id)
    BY <1>6 DEF RunLength
  <2>2. Slot(n) \in 0 .. Size - 1 /\ Slot(n) \in Int
    BY <1>1, SlotType DEF Slots
  <2> HIDE DEF L, run
  <2>3. ASSUME NEW j \in 1 .. L PROVE run[j] = Slot(n) - (L - j)
    <3>1. run[j] = Slot(n - (L - j)) /\ L - j \in Int
      <4>1. run[j] = Slot(n - (L - j))
        BY <1>5
      <4>2. L - j \in Int
        BY <1>2
      <4> QED BY <4>1, <4>2
    <3>2. Slot(n - (L - j)) = Slot(Slot(n) - (L - j))
      BY <1>1, <3>1, SlotOffset
    <3>3. From(n, id) \in Int /\ From(n, id) >= 0
      <4>1. Slot(n) \in Nat /\ Slot(id) \in Nat
        <5>1. \A k \in Nat : Slot(k) \in Nat
          BY SlotType DEF Slots
        <5> QED BY <1>1, <5>1
      <4>2. From(n, id) = Slot(n) + 1 \/ From(n, id) = Slot(id)
        BY DEF From
      <4> QED BY <4>1, <4>2
    <3>4. Slot(n) - (L - j) \in 0 .. Size - 1
      BY <1>2, <2>1, <2>2, <3>3
    <3>5. Slot(Slot(n) - (L - j)) = Slot(n) - (L - j)
      <4>1. \A s : s \in 0 .. Size - 1 => Slot(s) = s
        BY SlotOwn DEF Slots
      <4> QED BY <3>4, <4>1
    <3> QED BY <3>1, <3>2, <3>5
  <2>4. i \in 1 .. L /\ i - 1 \in 1 .. L
    BY <1>2
  <2>5. run[i] = Slot(n) - (L - i) /\ run[i - 1] = Slot(n) - (L - (i - 1))
    BY <2>3, <2>4
  <2> QED BY <1>2, <2>2, <2>5
<1> HIDE DEF run, L
<1>7. DOMAIN ids = 1 .. L
  BY <1>4
<1>8. ids \in Seq(Stored) /\ Len(ids) = L
  BY <1>1, <1>2, <1>4, <1>7
<1> HIDE DEF ids
<1>9. Content(Fetched(id)) = ids
  <2>1. run # << >>
    BY <1>2, <1>4
  <2> QED BY <1>3, <2>1 DEF Content, ids
<1>10. ids # << >> /\ Last(ids) = n
  <2>1. ids[L] = n
    BY <1>1, <1>2, <1>5
  <2> QED BY <1>2, <1>8, <2>1 DEF Last
<1>11. GoodResult(Fetched(id))
  <2>1. CASE Copied(n, id)
    <3>1. \A i \in DOMAIN ids : 0 <= ids[i] /\ ids[i] < cid
      BY <1>1, <1>2, <1>5, <1>7
    <3>2. \A i \in DOMAIN ids \ {1} : ids[i] = ids[i - 1] + 1
      <4>1. ASSUME NEW i \in DOMAIN ids \ {1} PROVE ids[i] = ids[i - 1] + 1
        <5>1. i \in 1 .. L /\ i - 1 \in 1 .. L
          BY <1>2, <1>7
        <5>2. ids[i] = n - (L - i) /\ ids[i - 1] = n - (L - (i - 1))
          BY <1>5, <5>1
        <5> QED BY <1>1, <1>2, <5>1, <5>2
      <4> QED BY <4>1
    <3> HIDE DEF n
    <3> QED BY <1>3, <1>10, <2>1, <3>1, <3>2 DEF GoodResult, GoodRet
  <2>2. CASE ~Copied(n, id)
    <3>1. run # << >> /\ \A i \in DOMAIN run : buf[run[i]] # Zero
      <4>1. ASSUME NEW i \in 1 .. L PROVE buf[run[i]] # Zero
        <5>1. buf[run[i]] = n - (L - i)
          BY <1>4, <1>5 DEF ids
        <5> QED BY <1>1, <1>2, <5>1 DEF Zero
      <4> QED BY <1>2, <1>4, <4>1
    <3>2. \A i \in DOMAIN run \ {1} : run[i] = run[i - 1] + 1
      <4>1. \A i \in DOMAIN run \ {1} : i \in 2 .. L
        BY <1>2, <1>4
      <4> QED BY <1>6, <2>2, <4>1
    <3> HIDE DEF n
    <3> QED BY <1>3, <2>2, <3>1, <3>2 DEF GoodResult, GoodRet
  <2> QED BY <2>1, <2>2
<1> QED BY <1>3, <1>9, <1>10, <1>11

(***************************************************************************)
(* The ring may go on under a result: its slots are filled with messages   *)
(* of later turns.                                                         *)
(***************************************************************************)
GoesOn(b, b2) ==
  \A s \in Slots : b[s] # Zero => b2[s] >= b[s] /\ Slot(b2[s]) = Slot(b[s])

\* A good result stays one, and reads as much, from the same slots.
LEMMA ReadsLater ==
  ASSUME NEW c \in Nat, NEW b \in [Slots -> Stored],
         NEW c2 \in Nat, NEW b2 \in [Slots -> Stored], c2 >= c, GoesOn(b, b2),
         NEW r \in Rets, GoodRet(r, c, b)
  PROVE  /\ GoodRet(r, c2, b2)
         /\ Len(Reads(r, b2)) = Len(Reads(r, b))
         /\ \A i \in DOMAIN Reads(r, b) :
              /\ Reads(r, b2)[i] >= Reads(r, b)[i]
              /\ Slot(Reads(r, b2)[i]) = Slot(Reads(r, b)[i])
<1>1. r.ids \in Seq(Stored) /\ r.slots \in Seq(Slots)
  BY DEF Rets
<1>2. \A m \in Stored : m \in Int /\ (m # Zero <=> m >= 0)
  BY StreamAssumption DEF Stored, Zero
<1>3. CASE r.slots = << >>
  <2>1. Reads(r, b2) = r.ids /\ Reads(r, b) = r.ids
    BY <1>3 DEF Reads
  <2>2. \A i \in DOMAIN r.ids : r.ids[i] \in Int
    BY <1>1, <1>2
  <2>3. GoodRet(r, c2, b2)
    BY <1>3, <2>2 DEF GoodRet
  <2> QED BY <2>1, <2>2, <2>3
<1>4. CASE r.slots # << >>
  <2> DEFINE t == r.slots
             q == [i \in DOMAIN t |-> b[t[i]]]
             q2 == [i \in DOMAIN t |-> b2[t[i]]]
  <2>1. /\ t \in Seq(Slots) /\ t # << >>
        /\ \A i \in DOMAIN t : b[t[i]] # Zero /\ t[i] \in Slots
        /\ \A i \in DOMAIN t \ {1} : t[i] = t[i - 1] + 1
    BY <1>1, <1>4 DEF GoodRet, NilRet
  <2>2. Reads(r, b2) = q2 /\ Reads(r, b) = q /\ ~r.nil
    BY <1>4 DEF Reads, GoodRet, NilRet
  <2> HIDE DEF t
  <2>3. \A i \in DOMAIN t : /\ b2[t[i]] >= b[t[i]] /\ b2[t[i]] # Zero
                            /\ Slot(b2[t[i]]) = Slot(b[t[i]])
    BY <1>2, <2>1 DEF GoesOn
  <2>4. Len(q2) = Len(q)
    BY <2>1
  <2>5. GoodRet(r, c2, b2)
    BY <2>1, <2>2, <2>3 DEF GoodRet, t
  <2> QED BY <2>2, <2>3, <2>4, <2>5
<1> QED BY <1>3, <1>4

\* What was encoded fits what the result reads later ...
LEMMA SentLater ==
  ASSUME NEW m \in Seq(Stored), NEW q \in Seq(Stored), NEW q2 \in Seq(Stored),
         SentOf(m, q), Len(q2) = Len(q),
         \A i \in DOMAIN q : q2[i] >= q[i] /\ Slot(q2[i]) = Slot(q[i])
  PROVE  SentOf(m, q2)
<1>1. \A x \in Stored : x \in Int
  BY StreamAssumption DEF Stored, Zero
<1>2. /\ \A i \in DOMAIN m : m[i] \in Int /\ i \in DOMAIN q
      /\ \A i \in DOMAIN q : q[i] \in Int /\ q2[i] \in Int
  BY <1>1 DEF SentOf
<1>3. ASSUME NEW i \in DOMAIN m, i < Len(q) PROVE q2[i + 1] > m[i] - Size
  <2>1. i + 1 \in DOMAIN q /\ q[i + 1] > m[i] - Size
    BY <1>3 DEF SentOf
  <2> QED BY <1>2, <2>1, SizeAssumption
<1>4. \A i \in DOMAIN m : m[i] <= q2[i] /\ Slot(m[i]) = Slot(q2[i])
  BY <1>2 DEF SentOf
<1> QED BY <1>3, <1>4 DEF SentOf

\* ... and with the next message it reads.
LEMMA SentMore ==
  ASSUME NEW m \in Seq(Stored), NEW q \in Seq(Stored), SentOf(m, q),
         Len(m) < Len(q),
         \A i \in DOMAIN q : q[i] \in Nat,
         \A i \in DOMAIN q \ {1} : q[i] > q[i - 1] - Size
  PROVE  SentOf(Append(m, q[Len(m) + 1]), q)
<1> DEFINE k == Len(m) + 1
           a == Append(m, q[k])
<1>1. k \in DOMAIN q /\ k \in Nat /\ k <= Len(q) /\ q[k] \in Nat
  BY DEF SentOf
<1>2. Len(a) = k /\ DOMAIN a = 1 .. k /\ a[k] = q[k]
      /\ \A i \in DOMAIN m : a[i] = m[i] /\ i < k /\ i \in Nat \ {0}
  OBVIOUS
<1>3. \A i \in 1 .. k : i = k \/ i \in DOMAIN m
  OBVIOUS
<1> HIDE DEF a, k
<1>4. ASSUME NEW i \in DOMAIN m
      PROVE  /\ 0 <= a[i] /\ a[i] <= q[i] /\ Slot(a[i]) = Slot(q[i])
             /\ i < Len(q) => q[i + 1] > a[i] - Size
             /\ i > 1 => a[i] > a[i - 1] - Size
  <2>1. i > 1 => i - 1 \in DOMAIN m
    OBVIOUS
  <2> QED BY <1>2, <2>1 DEF SentOf
<1>5. k < Len(q) => q[k + 1] > q[k] - Size
  <2>1. k < Len(q) => k + 1 \in DOMAIN q \ {1} /\ (k + 1) - 1 = k
    BY <1>1
  <2> QED BY <2>1
<1>6. k > 1 => a[k] > a[k - 1] - Size
  <2> SUFFICES ASSUME k > 1 PROVE a[k] > a[k - 1] - Size
    OBVIOUS
  <2>1. k - 1 \in DOMAIN m /\ k - 1 < Len(q) /\ (k - 1) + 1 = k
    BY <1>1 DEF k
  <2>2. q[(k - 1) + 1] > m[k - 1] - Size
    BY <2>1 DEF SentOf
  <2> QED BY <1>2, <2>1, <2>2
<1>7. ASSUME NEW i \in DOMAIN a
      PROVE  /\ 0 <= a[i] /\ a[i] <= q[i] /\ Slot(a[i]) = Slot(q[i])
             /\ i < Len(q) => q[i + 1] > a[i] - Size
             /\ i > 1 => a[i] > a[i - 1] - Size
  <2>1. CASE i = k
    BY <1>1, <1>2, <1>5, <1>6, <2>1
  <2> QED BY <1>2, <1>3, <1>4, <2>1
<1> QED BY <1>1, <1>2, <1>7 DEF SentOf, a, k

-----------------------------------------------------------------------------
(* Each part of Delivery, for the kinds of steps there are.                *)

\* What a worker's result reads, if it has one.
LEMMA ContentGood ==
  ASSUME IInv, Delivery, NEW w \in Workers, ret[w] # NilRet
  PROVE  LET q == Content(ret[w])
         IN /\ q \in Seq(Stored) /\ q # << >> /\ ~ret[w].nil
            /\ \A i \in DOMAIN q : q[i] \in Nat /\ q[i] < cid
            /\ \A i \in DOMAIN q \ {1} :
                 /\ Slot(q[i]) = Slot(q[i - 1] + 1) /\ q[i] > q[i - 1] - Size
                 /\ ret[w].slots = << >> => q[i] = q[i - 1] + 1
            /\ Last(q) \in Nat /\ Last(q) < cid
<1> DEFINE q == Content(ret[w])
<1>1. /\ cid \in Nat /\ buf \in [Slots -> Stored] /\ ret[w] \in Rets
      /\ Holds(cid, buf) /\ GoodRet(ret[w], cid, buf)
  BY RingTypes DEF Delivery, Window, Results, GoodResult
<1>2. ~ret[w].nil /\ q = Reads(ret[w], buf)
  BY <1>1, ContentReads DEF GoodRet
<1>3. /\ q \in Seq(Stored) /\ q # << >>
      /\ \A i \in DOMAIN q : q[i] \in Nat /\ q[i] < cid
      /\ \A i \in DOMAIN q \ {1} :
           /\ Slot(q[i]) = Slot(q[i - 1] + 1) /\ q[i] > q[i - 1] - Size
           /\ ret[w].slots = << >> => q[i] = q[i - 1] + 1
  BY <1>1, <1>2, ReadsGood
<1> HIDE DEF q
<1>4. Last(q) \in Nat /\ Last(q) < cid
  BY <1>3 DEF Last
<1> QED BY <1>2, <1>3, <1>4 DEF q

\* While the ring is empty nobody has anything.
LEMMA EmptyRing ==
  ASSUME IInv, Delivery, cid = 0
  PROVE  \A w \in Workers : ret[w] = NilRet
<1> SUFFICES ASSUME NEW w \in Workers, ret[w] # NilRet PROVE FALSE
  OBVIOUS
<1> QED BY ContentGood

\* Then a fresh array changes nothing for those who fetch.
LEMMA FreshRing ==
  ASSUME IInv, Delivery, cid = 0, cid' = 0, FreshSlots
  PROVE  Window' /\ Results' /\ UNCHANGED ret
<1>1. \A w \in Workers : ret[w] = NilRet
  BY EmptyRing
<1>2. ret \in [Workers -> Rets]
  BY RingTypes
<1>3. ret' = ret
  <2>1. Content(NilRet) = << >>
    BY DEF Content, NilRet
  <2>2. ret' = [w \in Workers |-> NilRet]
    BY <1>1, <2>1 DEF FreshSlots, NilRet
  <2> QED BY <1>1, <1>2, <2>2
<1>4. Window'
  BY SizeAssumption DEF Window, Holds, FreshSlots, Oldest, Zero
<1>5. Results'
  BY <1>1, <1>3 DEF Results, GoodResult, GoodRet
<1> QED BY <1>3, <1>4, <1>5

\* A step that leaves the calls which wait alone, and sends nobody to take
\* what is not there.
LEMMA FetchesKept ==
  ASSUME IInv, Delivery, cid' \in Nat, cid' >= cid, UNCHANGED runner,
         \A i \in DOMAIN backlog : i \in DOMAIN backlog' /\ backlog'[i] = backlog[i],
         \A v \in Workers :
           \/ job'[v] = job[v]
           \/ job[v].pc # "wait" /\ (job'[v].pc = "take" => job'[v].rid < cid')
  PROVE  Fetches'
<1>1. cid \in Nat /\ \A v \in Workers : job[v].rid \in Nat
  BY RingTypes
<1>2. ASSUME NEW v \in Workers, At(v, "take")' PROVE job'[v].rid < cid'
  BY <1>1, <1>2 DEF Delivery, Fetches, At
<1>3. ASSUME runner'.pc = "send" PROVE job'[backlog'[runner'.at]].rid < cid'
  <2> DEFINE v == backlog[runner.at]
  <2>1. runner.at \in DOMAIN backlog /\ v \in Workers /\ job[v].rid < cid
    BY <1>3 DEF IInv, TypeOK, RunnerOK, Delivery, Fetches
  <2>2. backlog'[runner'.at] = v /\ job[v].pc = "wait"
    BY <2>1 DEF IInv, BacklogIsWaiters, At
  <2>3. job'[v] = job[v]
    BY <2>1, <2>2
  <2> QED BY <1>1, <2>1, <2>2, <2>3
<1> QED BY <1>2, <1>3 DEF Fetches

\* The same where one worker's job changes.
LEMMA FetchesOfOthers ==
  ASSUME IInv, Delivery, UNCHANGED <<cid, runner, backlog>>,
         NEW w \in Workers, job[w].pc # "wait",
         \A v \in Workers : v # w => job'[v] = job[v],
         job'[w].pc = "take" => job'[w].rid < cid
  PROVE  Fetches'
<1>1. cid' \in Nat /\ cid' >= cid
  BY RingTypes
<1>2. \A i \in DOMAIN backlog : i \in DOMAIN backlog' /\ backlog'[i] = backlog[i]
  OBVIOUS
<1>3. \A v \in Workers :
        \/ job'[v] = job[v]
        \/ job[v].pc # "wait" /\ (job'[v].pc = "take" => job'[v].rid < cid')
  OBVIOUS
<1> QED BY <1>1, <1>2, <1>3, FetchesKept

\* Sessions dropped by a cleanup or a call's end have cursor 0.
LEMMA KeptCursors ==
  ASSUME NEW f, NEW c \in Nat, \A s \in SIDs : f[s].next <= c, sess' = Kept(f)
  PROVE  \A s \in SIDs : sess'[s].next <= c
<1> SUFFICES ASSUME NEW s \in SIDs PROVE sess'[s].next <= c
  OBVIOUS
<1>1. sess'[s] = f[s] \/ sess'[s] = NoSession
  BY DEF Kept
<1> QED BY <1>1 DEF NoSession

\* A worker that is given a good result.
LEMMA AnswerResults ==
  ASSUME IInv, Delivery, UNCHANGED <<cid, buf>>, NEW w \in Workers, NEW r \in Rets,
         ret' = [ret EXCEPT ![w] = r], GoodResult(r)
  PROVE  Results'
<1>1. ret \in [Workers -> Rets]
  BY RingTypes
<1>2. \A v \in Workers : ret'[v] = IF v = w THEN r ELSE ret[v]
  BY <1>1
<1>3. \A v \in Workers : GoodRet(ret'[v], cid, buf)
  BY <1>2 DEF Delivery, Results, GoodResult
<1> QED BY <1>3 DEF Results, GoodResult

\* What the ring and the results keep, they keep if nothing there changes.
LEMMA SameRing ==
  ASSUME Delivery, UNCHANGED <<cid, buf>>
  PROVE  /\ Window'
         /\ UNCHANGED ret => Results'
         /\ UNCHANGED sess => Cursors'
BY DEF Delivery, Window, Results, GoodResult, Cursors

LEMMA NilRetGood == NilRet \in Rets /\ GoodResult(NilRet)
<1>1. NilRet \in Rets
  <2>1. << >> \in Seq(Stored) /\ << >> \in Seq(Slots)
    OBVIOUS
  <2> QED BY <2>1 DEF NilRet, Rets
<1> QED BY <1>1 DEF GoodResult, GoodRet

\* Nothing was sent of a result by one who does not encode it.
LEMMA SentNothing ==
  ASSUME NEW q \in Seq(Stored)
  PROVE  SentOf(<< >>, q)
BY DEF SentOf

\* A worker whose job and result change while it encodes nothing before and
\* nothing after; those of the others do not.
LEMMA AnswersKept ==
  ASSUME IInv, IInv', Delivery, UNCHANGED buf, NEW w \in Workers,
         \A v \in Workers : v # w => job'[v] = job[v] /\ ret'[v] = ret[v],
         job'[w].sent = << >>
  PROVE  Answers'
<1> SUFFICES ASSUME NEW v \in Workers PROVE Sent(v)'
  BY DEF Answers
<1>1. CASE v # w
  <2>1. job'[v] = job[v] /\ Content(ret[v])' = Content(ret[v]) /\ ret'[v] = ret[v]
    BY <1>1 DEF Content
  <2> QED BY <2>1 DEF Delivery, Answers, Sent
<1>2. CASE v = w
  <2>1. Content(ret[w])' \in Seq(Stored)
    <3>1. RingOK' /\ ret'[w] \in Rets
      BY DEF IInv, TypeOK
    <3>2. /\ buf' \in [Slots -> Stored]
          /\ ret'[w].ids \in Seq(Stored) /\ ret'[w].slots \in Seq(Slots)
      BY <3>1 DEF RingOK, Rets
    <3> DEFINE t == ret'[w].slots
    <3> HIDE DEF t
    <3>3. t \in Seq(Slots) => [i \in DOMAIN t |-> buf'[t[i]]] \in Seq(Stored)
      BY <3>2
    <3> QED BY <3>2, <3>3 DEF Content, t
  <2>2. SentOf(<< >>, Content(ret[w])')
    BY <2>1, SentNothing
  <2> QED BY <1>2, <2>2 DEF Sent
<1> QED BY <1>1, <1>2

\* Who does not encode has sent nothing.
LEMMA NothingSent ==
  ASSUME Delivery, NEW w \in Workers, job[w].pc # "encode"
  PROVE  job[w].sent = << >>
BY DEF Delivery, Answers, Sent

\* Where neither jobs nor results nor the ring change, nor what was sent.
LEMMA AnswersSame ==
  ASSUME Delivery, UNCHANGED <<buf, job, ret>>
  PROVE  Answers'
<1> SUFFICES ASSUME NEW v \in Workers PROVE Sent(v)'
  BY DEF Answers
<1>1. Content(ret[v])' = Content(ret[v])
  BY DEF Content
<1> QED BY <1>1 DEF Delivery, Answers, Sent

-----------------------------------------------------------------------------
(* The steps.                                                              *)

\* Where only jobs, or what is not the ring's, the sessions' or the runner's,
\* changes.
LEMMA JobDelivery ==
  ASSUME IInv, IInv', Delivery, UNCHANGED <<cid, buf, sess, ret, runner, backlog>>,
         NEW w \in Workers, job[w].pc # "wait",
         \A v \in Workers : v # w => job'[v] = job[v],
         job'[w].pc = "take" => job'[w].rid < cid, job'[w].sent = << >>
  PROVE  Delivery'
<1>1. Fetches'
  BY FetchesOfOthers
<1>2. Answers'
  BY AnswersKept
<1> QED BY <1>1, <1>2, SameRing DEF Delivery

\* What a worker's Go and Leave do to the jobs.
LEMMA JobMoves ==
  ASSUME IInv, NEW w \in Workers
  PROVE  /\ \A pc : Go(w, pc) =>
              /\ \A v \in Workers : v # w => job'[v] = job[v]
              /\ job'[w].pc = pc /\ job'[w].rid = job[w].rid
              /\ job'[w].sid = job[w].sid /\ job'[w].ck = job[w].ck
              /\ job'[w].sent = job[w].sent
         /\ Leave(w) =>
              /\ \A v \in Workers : v # w => job'[v] = job[v]
              /\ job'[w] = Rest
<1>1. job \in [Workers -> Jobs] /\ job[w] \in Jobs
  BY RingTypes
<1>2. ASSUME NEW pc, Go(w, pc)
      PROVE  /\ \A v \in Workers : v # w => job'[v] = job[v]
             /\ job'[w].pc = pc /\ job'[w].rid = job[w].rid
             /\ job'[w].sid = job[w].sid /\ job'[w].ck = job[w].ck
             /\ job'[w].sent = job[w].sent
  BY <1>1, <1>2 DEF Go, Jobs
<1>3. ASSUME Leave(w)
      PROVE  /\ \A v \in Workers : v # w => job'[v] = job[v]
             /\ job'[w] = Rest
  BY <1>1, <1>3 DEF Leave
<1> QED BY <1>2, <1>3

\* A worker's step that touches neither ring, cursors nor results.
LEMMA PlainWorkerDelivery ==
  ASSUME IInv, IInv', Delivery, NEW w \in Workers,
         \/ EnterSession(w) \/ OldSession(w) \/ Reread(w) \/ Decide(w)
         \/ Await(w) \/ Mark(w) \/ StopSource(w) \/ StopLonely(w) \/ StopAgain(w)
         \/ \E op \in Ops[w] : Call(w, op)
  PROVE  Delivery'
<1>1. /\ UNCHANGED <<cid, buf, sess, ret, runner, backlog>>
      /\ job[w].pc \notin {"wait", "encode"}
  BY DEF EnterSession, OldSession, Reread, Decide, Await, Mark, StopSource,
         StopLonely, StopAgain, Call, At, ring, sessions, queue
<1>2. job \in [Workers -> Jobs] /\ job[w] \in Jobs
  BY RingTypes
<1>3. /\ \A v \in Workers : v # w => job'[v] = job[v]
      /\ job'[w].sent = << >>
  <2> job[w].sent = << >> /\ Rest.sent = << >>
    BY <1>1, NothingSent DEF Rest
  <2>1. CASE Decide(w) \/ Await(w) \/ EnterSession(w) \/ OldSession(w)
    BY <2>1, JobMoves DEF Decide, Await, EnterSession, OldSession
  <2>2. CASE Reread(w) \/ Mark(w) \/ StopSource(w)
    BY <1>2, <2>2 DEF Reread, Mark, StopSource, Leave, Jobs
  <2>3. CASE StopLonely(w) \/ StopAgain(w)
    BY <2>3, JobMoves DEF StopLonely, StopAgain
  <2>4. CASE \E op \in Ops[w] : Call(w, op)
    BY <1>2, <2>4 DEF Call, Rest
  <2> QED BY <2>1, <2>2, <2>3, <2>4
<1>4. job'[w].pc = "take" => job'[w].rid < cid
  <2>1. CASE Decide(w)
    <3>1. Go(w, IF HasNext(cid, job[w].rid) THEN "take" ELSE "await")
      BY <2>1 DEF Decide
    <3>2. CASE HasNext(cid, job[w].rid)
      <4>1. job[w].rid < cid /\ job'[w].rid = job[w].rid
        BY <3>1, <3>2, JobMoves, RingTypes DEF HasNext
      <4> QED BY <4>1
    <3>3. CASE ~HasNext(cid, job[w].rid)
      BY <3>1, <3>3, JobMoves
    <3> QED BY <3>2, <3>3
  <2>2. CASE Await(w)
    BY <2>2, JobMoves DEF Await
  <2>3. CASE EnterSession(w) \/ OldSession(w)
    BY <2>3, JobMoves DEF EnterSession, OldSession, Found
  <2>4. CASE Reread(w) \/ Mark(w) \/ StopSource(w)
    BY <1>2, <2>4 DEF Reread, Mark, StopSource, Leave, Rest, Found, Jobs
  <2>5. CASE StopLonely(w) \/ StopAgain(w)
    BY <2>5, JobMoves DEF StopLonely, StopAgain, Rest
  <2>6. CASE \E op \in Ops[w] : Call(w, op)
    <3>1. PICK op \in Ops[w] : Call(w, op)
      BY <2>6
    <3>2. op \in {"Next", "Reset", "Stop", "Start"}
      BY StreamAssumption
    <3>3. job'[w].pc = CASE op = "Start" -> "launch"
                         [] op = "Next"  -> IF LazyStart /\ ~running
                                            THEN "launch" ELSE "session"
                         [] op = "Reset" -> "session"
                         [] op = "Stop"  -> "stop"
      BY <1>2, <3>1 DEF Call, Rest
    <3> QED BY <3>2, <3>3
  <2> QED BY <2>1, <2>2, <2>3, <2>4, <2>5, <2>6
<1> QED BY <1>1, <1>3, <1>4, JobDelivery

\* A call enters the backlog behind the others.
LEMMA PushDelivery ==
  ASSUME IInv, IInv', Delivery, NEW w \in Workers, Push(w)
  PROVE  Delivery'
<1>1. /\ UNCHANGED <<cid, buf, sess, ret, runner>> /\ At(w, "push")
      /\ backlog' = Append(backlog, w) /\ Go(w, "wait")
  BY DEF Push, ring, sessions
<1>2. cid \in Nat /\ backlog \in Seq(Workers)
  BY RingTypes
<1>3. \A i \in DOMAIN backlog : i \in DOMAIN backlog' /\ backlog'[i] = backlog[i]
  BY <1>1, <1>2
<1>4. \A v \in Workers :
        \/ job'[v] = job[v]
        \/ job[v].pc # "wait" /\ (job'[v].pc = "take" => job'[v].rid < cid')
  BY <1>1, JobMoves DEF At
<1>5. Fetches'
  BY <1>1, <1>2, <1>3, <1>4, FetchesKept
<1>6. Answers'
  <2>1. job[w].sent = << >>
    BY <1>1, NothingSent DEF At
  <2> QED BY <1>1, <2>1, JobMoves, AnswersKept
<1> QED BY <1>1, <1>5, <1>6, SameRing DEF Delivery

\* A new session starts at the next message.
LEMMA NewSessionDelivery ==
  ASSUME IInv, IInv', Delivery, NEW w \in Workers, NewSession(w)
  PROVE  Delivery'
<1>1. /\ UNCHANGED <<cid, buf, ret, runner, backlog>> /\ job[w].pc # "wait"
      /\ job[w].sent = << >>
  BY NothingSent DEF NewSession, At, ring, queue
<1>2. job \in [Workers -> Jobs] /\ job[w] \in Jobs /\ sess \in [SIDs -> StreamSessions]
      /\ cid \in Nat
  BY RingTypes
<1>3. /\ \A v \in Workers : v # w => job'[v] = job[v]
      /\ job'[w].pc # "take" /\ job'[w].sent = << >>
  <2>1. CASE hasBuf
    <3>1. PICK s \in SIDs :
            job' = [job EXCEPT ![w].sid = s, ![w].ck = NoSID,
                               ![w].dirty = TRUE, ![w].pc = "enter"]
      BY <2>1 DEF NewSession, Fresh
    <3> QED BY <1>1, <1>2, <3>1 DEF Jobs
  <2>2. CASE ~hasBuf
    BY <2>2, JobMoves DEF NewSession, Rest
  <2> QED BY <2>1, <2>2
<1>4. Cursors'
  <2>1. CASE UNCHANGED sess
    BY <1>1, <2>1, SameRing
  <2>2. CASE ~UNCHANGED sess
    <3>1. PICK s \in SIDs : sess' = [sess EXCEPT ![s] = [next |-> cid, last |-> 0]]
      BY <2>2 DEF NewSession, Fresh
    <3>2. \A t \in SIDs : sess'[t].next = IF t = s THEN cid ELSE sess[t].next
      BY <1>2, <3>1
    <3> QED BY <1>1, <1>2, <3>2 DEF Delivery, Cursors
  <2> QED BY <2>1, <2>2
<1>5. Fetches'
  BY <1>1, <1>3, FetchesOfOthers
<1>6. Answers'
  BY <1>1, <1>3, AnswersKept
<1> QED BY <1>1, <1>4, <1>5, <1>6, SameRing DEF Delivery

\* An access changes no cursor.
LEMMA TouchDelivery ==
  ASSUME IInv, IInv', Delivery, NEW w \in Workers, Touch(w)
  PROVE  Delivery'
<1>1. /\ UNCHANGED <<cid, buf, ret, runner, backlog>> /\ job[w].pc # "wait"
      /\ job[w].sent = << >>
  BY NothingSent DEF Touch, At, ring, queue
<1>2. job \in [Workers -> Jobs] /\ job[w] \in Jobs /\ sess \in [SIDs -> StreamSessions]
  BY RingTypes
<1>3. /\ \A v \in Workers : v # w => job'[v] = job[v]
      /\ job'[w].pc # "take" /\ job'[w].sent = << >>
  BY <1>1, <1>2 DEF Touch, Jobs
<1>4. \A s \in SIDs : sess'[s].next = sess[s].next
  BY <1>2 DEF Touch, StreamSessions
<1>5. Fetches'
  BY <1>1, <1>3, FetchesOfOthers
<1>6. Answers'
  BY <1>1, <1>3, AnswersKept
<1> QED BY <1>1, <1>4, <1>5, <1>6, SameRing DEF Delivery, Cursors

\* A call takes a run of messages from the ring.
LEMMA TakeDelivery ==
  ASSUME IInv, IInv', Delivery, NEW w \in Workers, Take(w)
  PROVE  Delivery'
<1>1. /\ UNCHANGED <<cid, buf, sess, runner, backlog>> /\ job[w].pc = "take"
      /\ ret' = [ret EXCEPT ![w] = Fetched(job[w].rid)] /\ Go(w, "got")
  BY DEF Take, At, ring, queue, sessions
<1>2. job[w].rid \in Nat /\ job[w].rid < cid
  BY <1>1, RingTypes DEF Delivery, Fetches, At
<1>3. GoodResult(Fetched(job[w].rid)) /\ Fetched(job[w].rid) \in Rets
  BY <1>2, FetchedGood, FetchedType DEF Delivery, IInv, TypeOK
<1>4. Results'
  BY <1>1, <1>3, AnswerResults
<1>5. Fetches'
  BY <1>1, JobMoves, FetchesOfOthers
<1>6. Answers'
  <2>1. job[w].sent = << >> /\ ret \in [Workers -> Rets]
    BY <1>1, NothingSent, RingTypes
  <2> QED BY <1>1, <2>1, JobMoves, AnswersKept
<1> QED BY <1>1, <1>4, <1>5, <1>6, SameRing DEF Delivery

\* Next moves its cursor behind what its result ends with by now.
LEMMA GotDelivery ==
  ASSUME IInv, IInv', Delivery, NEW w \in Workers, Got(w)
  PROVE  Delivery'
<1> DEFINE q == Content(ret[w])
<1>1. /\ UNCHANGED <<cid, buf, ret, runner, backlog>> /\ job[w].pc = "got"
      /\ sess' = [sess EXCEPT ![job[w].sid].next = Id(Last(q)) + 1]
      /\ Go(w, "encode") /\ q # << >>
  BY DEF Got, At, ring, queue
<1>2. sess \in [SIDs -> StreamSessions] /\ cid \in Nat
  BY RingTypes
<1>3. Last(q) \in Nat /\ Last(q) < cid
  <2>1. ret[w] # NilRet
    BY <1>1 DEF Content, NilRet
  <2> QED BY <2>1, ContentGood
<1> DEFINE last == Id(Last(q))
<1>4. last \in Nat /\ last < cid
  BY <1>2, <1>3 DEF Id
<1>5. sess' = [sess EXCEPT ![job[w].sid].next = last + 1]
  BY <1>1
<1> HIDE DEF last, q
<1>6. \A s \in SIDs : sess'[s].next = last + 1 \/ sess'[s].next = sess[s].next
  BY <1>2, <1>5 DEF StreamSessions
<1>7. Cursors'
  BY <1>1, <1>2, <1>4, <1>6 DEF Delivery, Cursors
<1>8. Fetches'
  BY <1>1, JobMoves, FetchesOfOthers
<1>9. Answers'
  <2>1. job[w].sent = << >>
    BY <1>1, NothingSent
  <2> QED BY <1>1, <2>1, JobMoves, AnswersKept
<1> QED BY <1>1, <1>7, <1>8, <1>9, SameRing DEF Delivery

\* processCall encodes what the next position of the result reads now.
LEMMA EncodeDelivery ==
  ASSUME IInv, Delivery, NEW w \in Workers, Encode(w)
  PROVE  Delivery'
<1> DEFINE q == Content(ret[w])
           m == job[w].sent
<1>1. /\ UNCHANGED <<cid, buf, sess, ret, runner, backlog>> /\ job[w].pc = "encode"
      /\ Len(m) < Len(q)
      /\ job' = [job EXCEPT ![w].sent = Append(m, q[Len(m) + 1])]
  BY DEF Encode, At, ring, queue, sessions
<1>2. /\ job \in [Workers -> Jobs] /\ job[w] \in Jobs /\ m \in Seq(Stored)
  BY RingTypes
<1>3. /\ \A v \in Workers : v # w => job'[v] = job[v]
      /\ job'[w].pc = "encode" /\ job'[w].sent = Append(m, q[Len(m) + 1])
  BY <1>1, <1>2 DEF Jobs
<1>4. ret[w] # NilRet
  <2>1. ret[w] = NilRet => q = << >>
    BY DEF Content, NilRet
  <2> HIDE DEF q
  <2> QED BY <1>1, <1>2, <2>1
<1>5. /\ q \in Seq(Stored)
      /\ \A i \in DOMAIN q : q[i] \in Nat
      /\ \A i \in DOMAIN q \ {1} : q[i] > q[i - 1] - Size
  BY <1>4, ContentGood
<1>6. SentOf(m, q) /\ (ret[w].slots = << >> =>
                         q = ret[w].ids /\ \A i \in DOMAIN m : m[i] = q[i])
  BY DEF Delivery, Answers, Sent, Content
<1> DEFINE a == Append(m, q[Len(m) + 1])
<1> HIDE DEF q, m
<1>7. SentOf(a, q)
  BY <1>1, <1>2, <1>5, <1>6, SentMore
<1>8. ret[w].slots = << >> => \A i \in DOMAIN a : a[i] = ret[w].ids[i]
  <2> SUFFICES ASSUME ret[w].slots = << >>, NEW i \in DOMAIN a
               PROVE  a[i] = q[i]
    BY <1>6
  <2>1. i \in DOMAIN m \/ i = Len(m) + 1
    BY <1>2
  <2>2. i \in DOMAIN m => a[i] = m[i] /\ m[i] = q[i]
    BY <1>2, <1>6
  <2>3. i = Len(m) + 1 => a[i] = q[i]
    BY <1>2
  <2> QED BY <2>1, <2>2, <2>3
<1> HIDE DEF a
<1>9. Answers'
  <2>1. ASSUME NEW v \in Workers PROVE Sent(v)'
    <3>1. Content(ret[v])' = Content(ret[v]) /\ ret'[v] = ret[v]
      BY <1>1 DEF Content
    <3>2. CASE v # w
      BY <1>3, <3>1, <3>2 DEF Delivery, Answers, Sent
    <3>3. CASE v = w
      BY <1>3, <1>7, <1>8, <3>1, <3>3 DEF Sent, a, q
    <3> QED BY <3>2, <3>3
  <2> QED BY <2>1 DEF Answers
<1>10. Fetches'
  BY <1>1, <1>3, FetchesOfOthers
<1> QED BY <1>1, <1>9, <1>10, SameRing DEF Delivery

\* A call that ends.
LEMMA EndDelivery ==
  ASSUME IInv, IInv', Delivery, NEW w \in Workers,
         GotNothing(w) \/ Deliver(w) \/ Delete(w)
  PROVE  Delivery'
<1>1. /\ UNCHANGED <<cid, buf, runner, backlog>> /\ job[w].pc # "wait"
      /\ job' = [job EXCEPT ![w] = Rest] /\ ret' = [ret EXCEPT ![w] = NilRet]
      /\ sess' = Kept(sess)
  BY DEF GotNothing, Deliver, Delete, Answer, At, ring, queue
<1>2. job \in [Workers -> Jobs] /\ ret \in [Workers -> Rets] /\ cid \in Nat
  BY RingTypes
<1>3. Cursors'
  BY <1>1, <1>2, KeptCursors DEF Delivery, Cursors
<1>4. Results'
  BY <1>1, NilRetGood, AnswerResults
<1>5. Fetches'
  BY <1>1, <1>2, FetchesOfOthers DEF Rest
<1>6. Answers'
  <2>1. /\ \A v \in Workers : v # w => job'[v] = job[v] /\ ret'[v] = ret[v]
        /\ job'[w].sent = << >>
    BY <1>1, <1>2 DEF Rest
  <2> QED BY <1>1, <2>1, AnswersKept
<1> QED BY <1>1, <1>3, <1>4, <1>5, <1>6, SameRing DEF Delivery

\* Stop's cleanup drops sessions.
LEMMA DropDelivery ==
  ASSUME IInv, IInv', Delivery, NEW w \in Workers, StopSweep(w)
  PROVE  Delivery'
<1>1. job \in [Workers -> Jobs] /\ job[w] \in Jobs /\ cid \in Nat
  BY RingTypes
<1>2. /\ UNCHANGED <<cid, buf, ret, runner, backlog>> /\ job[w].pc # "wait"
      /\ sess' = Kept(sess) /\ job[w].sent = << >>
  BY NothingSent DEF StopSweep, DeleteOld, At, ring, queue
<1>3. /\ \A v \in Workers : v # w => job'[v] = job[v]
      /\ job'[w].pc # "take" /\ job'[w].sent = << >>
  BY <1>1, <1>2 DEF StopSweep, Leave, Rest, Jobs
<1>4. Cursors'
  BY <1>1, <1>2, KeptCursors DEF Delivery, Cursors
<1>5. Fetches'
  BY <1>2, <1>3, FetchesOfOthers
<1>6. Answers'
  BY <1>2, <1>3, AnswersKept
<1> QED BY <1>2, <1>4, <1>5, <1>6, SameRing DEF Delivery

\* While the ring is empty nothing was sent of what nobody has.
LEMMA NothingHeld ==
  ASSUME IInv, Delivery, cid = 0, UNCHANGED ret,
         \A v \in Workers : job'[v].sent = job[v].sent
  PROVE  Answers'
<1> SUFFICES ASSUME NEW v \in Workers PROVE Sent(v)'
  BY DEF Answers
<1>1. ret[v] = NilRet /\ Content(NilRet) = << >> /\ Content(NilRet)' = << >>
  BY EmptyRing DEF Content, NilRet
<1>2. job[v].sent = << >>
  <2>1. SentOf(job[v].sent, << >>) /\ job[v].sent \in Seq(Stored)
    BY <1>1, RingTypes DEF Delivery, Answers, Sent
  <2> QED BY <2>1 DEF SentOf
<1>3. SentOf(<< >>, << >>)
  BY DEF SentOf
<1>4. job'[v].sent = << >> /\ Content(ret[v])' = << >>
  BY <1>1, <1>2 DEF Content, NilRet
<1> QED BY <1>3, <1>4 DEF Sent

\* A new ring, where the old one was empty.
LEMMA LaunchDelivery ==
  ASSUME IInv, IInv', Delivery, KeepsRing, NEW w \in Workers, Launch(w)
  PROVE  Delivery'
<1>1. /\ cid' = 0 /\ FreshSlots /\ Go(w, "starting") /\ At(w, "launch")
      /\ UNCHANGED <<live, sess, runner, backlog>>
  BY DEF Launch, sessions, queue
<1>2. cid = 0
  BY <1>1, RingTypes DEF KeepsRing
<1>3. Window' /\ Results' /\ UNCHANGED ret
  BY <1>1, <1>2, FreshRing
<1>4. Fetches'
  BY <1>1, <1>2, JobMoves, FetchesOfOthers DEF At
<1>5. Answers'
  BY <1>1, <1>2, <1>3, JobMoves, NothingHeld
<1> QED BY <1>1, <1>2, <1>3, <1>4, <1>5 DEF Delivery, Cursors

\* When the runner does not go on to send, only what takes matters.
LEMMA FetchesUnsent ==
  ASSUME IInv, Delivery, UNCHANGED cid, runner'.pc # "send",
         \A v \in Workers : job'[v] = job[v] \/ job'[v].pc = "got"
  PROVE  Fetches'
BY DEF Delivery, Fetches, At

\* The runner answers a call.
LEMMA ServeDelivery ==
  ASSUME IInv, IInv', Delivery, NEW i \in DOMAIN backlog, NEW r \in Rets,
         Serve(i, r), GoodResult(r), UNCHANGED <<cid, buf, sess>>,
         runner'.pc # "send"
  PROVE  Delivery'
<1> DEFINE w == backlog[i]
<1>1. w \in Workers /\ job[w].pc = "wait" /\ ret \in [Workers -> Rets]
  BY RingTypes DEF IInv, BacklogIsWaiters, At
<1>2. ret' = [ret EXCEPT ![w] = r] /\ Go(w, "got")
  BY DEF Serve
<1> HIDE DEF w
<1>3. Results'
  BY <1>1, <1>2, AnswerResults
<1>4. Fetches'
  BY <1>1, <1>2, JobMoves, FetchesUnsent
<1>5. Answers'
  <2>1. job[w].sent = << >>
    BY <1>1, NothingSent
  <2> QED BY <1>1, <1>2, <2>1, JobMoves, AnswersKept
<1> QED BY <1>3, <1>4, <1>5, SameRing DEF Delivery

\* What the runner does by itself.
LEMMA RunnerDelivery ==
  ASSUME IInv, IInv', Delivery, Run1
  PROVE  Delivery'
<1>1. /\ cid \in Nat /\ backlog \in Seq(Workers)
      /\ \A v \in Workers : job[v].rid \in Nat
  BY RingTypes
<1>2. UNCHANGED <<cid, buf>>
  BY DEF Run1, Scan, Send, Sweep, Lonely, StopStream, Timeout, ring
<1>3. CASE Scan
  <2>1. UNCHANGED <<sess, backlog, job, ret>>
    BY <1>3 DEF Scan, sessions
  <2>2. ASSUME runner'.pc = "send" PROVE job[backlog[runner'.at]].rid < cid
    <3>1. runner' = [runner EXCEPT !.pc = "send"] /\ runner.at <= Len(backlog)
          /\ HasNext(cid, job[backlog[runner.at]].rid)
      BY <1>1, <1>3, <2>2 DEF Scan, IInv, TypeOK, RunnerOK
    <3>2. runner'.at = runner.at /\ runner.at \in DOMAIN backlog
      BY <1>1, <1>3, <3>1 DEF Scan, IInv, TypeOK, RunnerOK
    <3>3. backlog[runner.at] \in Workers
      BY <1>1, <3>2
    <3> QED BY <1>1, <3>1, <3>2, <3>3 DEF HasNext
  <2>3. Fetches'
    BY <1>2, <2>1, <2>2 DEF Delivery, Fetches, At
  <2> QED BY <1>2, <2>1, <2>3, SameRing, AnswersSame DEF Delivery
<1>4. CASE Send
  <2> DEFINE i == runner.at
             rid == job[backlog[i]].rid
             r == Fetched(rid)
  <2>1. i \in DOMAIN backlog /\ rid < cid
    BY <1>4 DEF Send, IInv, TypeOK, RunnerOK, Delivery, Fetches
  <2>2. rid \in Nat
    BY <1>1, <2>1
  <2>3. r \in Rets /\ GoodResult(r)
    BY <2>1, <2>2, FetchedType, FetchedGood DEF Delivery, IInv, TypeOK
  <2>4. Serve(i, r) /\ UNCHANGED sess /\ runner'.pc = "sweep"
    BY <1>4 DEF Send, sessions
  <2> HIDE DEF i, r
  <2> QED BY <1>2, <2>1, <2>3, <2>4, ServeDelivery
<1>5. CASE Timeout
  <2>1. UNCHANGED sess /\ runner'.pc = "select"
    BY <1>5 DEF Timeout, Select, sessions
  <2>2. CASE \E i \in DOMAIN backlog : Serve(i, NilRet)
    BY <1>2, <2>1, <2>2, NilRetGood, ServeDelivery
  <2>3. CASE UNCHANGED <<backlog, job, ret>>
    <3>1. UNCHANGED ret
      BY <2>3
    <3> QED BY <1>2, <2>1, <2>3, <3>1, SameRing, FetchesUnsent, AnswersSame DEF Delivery
  <2> QED BY <1>5, <2>2, <2>3 DEF Timeout
<1>6. CASE Sweep
  <2>1. sess' = Kept(sess) /\ UNCHANGED <<job, ret>> /\ runner'.pc # "send"
    BY <1>6 DEF Sweep, DeleteOld, Select
  <2>2. Cursors'
    BY <1>1, <1>2, <2>1, KeptCursors DEF Delivery, Cursors
  <2> QED BY <1>2, <2>1, <2>2, SameRing, FetchesUnsent, AnswersSame DEF Delivery
<1>7. CASE Lonely \/ StopStream
  <2>1. UNCHANGED <<sess, job, ret>> /\ runner'.pc # "send"
    BY <1>7 DEF Lonely, StopStream, Select, sessions, IInv, TypeOK, RunnerOK
  <2> QED BY <1>2, <2>1, SameRing, FetchesUnsent, AnswersSame DEF Delivery
<1> QED BY <1>3, <1>4, <1>5, <1>6, <1>7 DEF Run1

\* A message enters the ring: it lands in the slot of the one that leaves
\* the window, and a result that shares that slot reads it from then on.
LEMMA ReceiveRing ==
  ASSUME IInv, Delivery, NEW p \in Producers, Receive(p)
  PROVE  Window' /\ GoesOn(buf, buf')
<1> USE SizeAssumption
<1>1. buf' = [buf EXCEPT ![Slot(cid)] = cid] /\ cid' = cid + 1
  BY DEF Receive
<1>2. /\ cid \in Nat /\ buf \in [Slots -> Stored]
      /\ \A s \in Slots : buf[s] \in Int
  BY RingTypes
<1>3. Slot(cid) \in Slots /\ Holds(cid, buf)
  BY <1>2, SlotType DEF Delivery, Window
<1>4. \A s \in Slots : buf'[s] = IF s = Slot(cid) THEN cid ELSE buf[s]
  BY <1>1, <1>2
<1>5. Oldest(cid) \in Nat /\ Oldest(cid') \in Nat /\ Oldest(cid') <= cid
      /\ Oldest(cid') \in {Oldest(cid), cid + 1 - Size}
  BY <1>1, <1>2 DEF Oldest
<1>6. ASSUME NEW k \in Oldest(cid') .. cid' - 1 PROVE buf'[Slot(k)] = k
  <2>1. k \in Int /\ Slot(k) \in Slots
    BY <1>1, <1>2, <1>6, SlotType DEF Oldest
  <2>2. CASE k = cid
    BY <1>3, <1>4, <2>2
  <2>3. CASE k # cid
    <3>1. k < cid /\ cid - k < Size /\ k \in Oldest(cid) .. cid - 1
      BY <1>1, <1>2, <1>6, <2>3 DEF Oldest
    <3>2. Slot(k) # Slot(cid) /\ buf[Slot(k)] = k
      BY <1>2, <1>3, <2>1, <3>1, SlotDistinct DEF Holds
    <3> QED BY <1>4, <2>1, <3>2
  <2> QED BY <2>2, <2>3
<1>7. ASSUME NEW s \in Slots, buf'[s] # Zero
      PROVE  Oldest(cid') <= buf'[s] /\ buf'[s] < cid' /\ Slot(buf'[s]) = s
  <2>1. CASE s = Slot(cid)
    BY <1>1, <1>2, <1>4, <1>5, <2>1
  <2>2. CASE s # Slot(cid)
    <3>1. buf'[s] = buf[s] /\ buf[s] \in Int
          /\ Oldest(cid) <= buf[s] /\ buf[s] < cid /\ Slot(buf[s]) = s
      BY <1>2, <1>3, <1>4, <1>7, <2>2 DEF Holds
    <3>2. buf[s] # cid - Size
      BY <1>2, <2>2, <3>1, SlotTurn
    <3> QED BY <1>1, <1>2, <1>5, <3>1, <3>2 DEF Oldest
  <2> QED BY <2>1, <2>2
<1>8. GoesOn(buf, buf')
  <2> SUFFICES ASSUME NEW s \in Slots, buf[s] # Zero
               PROVE  buf'[s] >= buf[s] /\ Slot(buf'[s]) = Slot(buf[s])
    BY DEF GoesOn
  <2>1. buf[s] < cid /\ Slot(buf[s]) = s /\ buf[s] \in Int
    BY <1>2, <1>3 DEF Holds
  <2> QED BY <1>2, <1>4, <2>1
<1> QED BY <1>6, <1>7, <1>8 DEF Window, Holds

LEMMA ReceiveDelivery ==
  ASSUME IInv, IInv', Delivery, NEW p \in Producers, Receive(p)
  PROVE  Delivery'
<1>1. /\ cid' = cid + 1
      /\ UNCHANGED <<sess, backlog, runner, job, ret>>
  BY DEF Receive, sessions, queue
<1>2. /\ cid \in Nat /\ buf \in [Slots -> Stored]
      /\ \A s \in SIDs : sess[s].next \in Nat
      /\ \A w \in Workers : ret[w] \in Rets /\ job[w].sent \in Seq(Stored)
  BY RingTypes
<1>3. /\ cid' \in Nat /\ cid' >= cid
      /\ buf' \in [Slots -> Stored] /\ RingOK /\ RingOK'
  BY <1>1, <1>2 DEF IInv, TypeOK, RingOK
<1>4. Window' /\ GoesOn(buf, buf')
  BY ReceiveRing
<1>5. ASSUME NEW w \in Workers
      PROVE  /\ GoodRet(ret[w], cid', buf')
             /\ Len(Reads(ret[w], buf')) = Len(Reads(ret[w], buf))
             /\ \A i \in DOMAIN Reads(ret[w], buf) :
                  /\ Reads(ret[w], buf')[i] >= Reads(ret[w], buf)[i]
                  /\ Slot(Reads(ret[w], buf')[i]) = Slot(Reads(ret[w], buf)[i])
  <2>1. GoodRet(ret[w], cid, buf)
    BY DEF Delivery, Results, GoodResult
  <2> QED BY <1>2, <1>3, <1>4, <2>1, ReadsLater
<1>6. Cursors'
  BY <1>1, <1>2 DEF Delivery, Cursors
<1>7. Results'
  BY <1>1, <1>5 DEF Results, GoodResult
<1>8. Fetches'
  BY <1>1, <1>3, FetchesKept
<1>9. Answers'
  <2> SUFFICES ASSUME NEW w \in Workers PROVE Sent(w)'
    BY DEF Answers
  <2> DEFINE m == job[w].sent
             q == Reads(ret[w], buf)
             q2 == Reads(ret[w], buf')
  <2>1. m \in Seq(Stored) /\ q \in Seq(Stored) /\ q2 \in Seq(Stored)
    <3>1. Content(ret[w]) \in Seq(Stored)
      BY <1>2, <1>3, ContentType
    <3>2. Content(ret[w])' \in Seq(Stored)
      <4> DEFINE t == ret[w].slots
      <4>1. t \in Seq(Slots) /\ ret[w].ids \in Seq(Stored)
        BY <1>2 DEF Rets
      <4> HIDE DEF t
      <4>2. [i \in DOMAIN t |-> buf'[t[i]]] \in Seq(Stored)
        BY <1>3, <4>1
      <4> QED BY <1>1, <4>1, <4>2 DEF Content, t
    <3> QED BY <1>1, <1>2, <3>1, <3>2 DEF Content, Reads
  <2>2. SentOf(m, q)
    BY ContentReads DEF Delivery, Answers, Sent
  <2>3. Len(q2) = Len(q) /\ \A i \in DOMAIN q : q2[i] >= q[i] /\ Slot(q2[i]) = Slot(q[i])
    BY <1>5
  <2> HIDE DEF m, q, q2
  <2>4. SentOf(m, q2)
    BY <2>1, <2>2, <2>3, SentLater
  <2>5. Content(ret[w])' = q2
    BY <1>1 DEF Content, Reads, q2
  <2>6. Sent(w)
    BY DEF Delivery, Answers
  <2> QED BY <1>1, <2>4, <2>5, <2>6 DEF Sent, m
<1> QED BY <1>4, <1>6, <1>7, <1>8, <1>9 DEF Delivery

\* The end of a loop empties a ring that is empty.
LEMMA EmptyOfNothing ==
  ASSUME IInv, Delivery, KeepsRing, NEW p \in Producers,
         EmptyCid(p) \/ EmptyBuf(p)
  PROVE  cid = 0
<1>1. cid \in Nat
  BY RingTypes
<1>2. CASE EmptyCid(p)
  BY <1>1, <1>2 DEF EmptyCid, KeepsRing
<1>3. ASSUME EmptyBuf(p), cid # 0 PROVE FALSE
  <2> DEFINE k == cid - 1
  <2>1. k \in Oldest(cid) .. cid - 1 /\ Slot(k) \in Slots
    BY <1>1, <1>3, SizeAssumption, SlotType DEF Oldest
  <2>2. buf[Slot(k)] = k /\ k # Zero
    BY <1>1, <1>3, <2>1 DEF Delivery, Window, Holds, Zero
  <2>3. buf'[Slot(k)] = Zero
    BY <1>3, <2>1 DEF EmptyBuf, FreshSlots
  <2> QED BY <2>1, <2>2, <2>3 DEF KeepsRing
<1> QED BY <1>2, <1>3

LEMMA EmptyDelivery ==
  ASSUME IInv, Delivery, KeepsRing, NEW p \in Producers,
         EmptyCid(p) \/ EmptyBuf(p)
  PROVE  Delivery'
<1>1. UNCHANGED <<sess, backlog, runner, job>>
  BY DEF EmptyCid, EmptyBuf, sessions, queue
<1>2. cid \in Nat /\ cid' \in {0, cid}
  BY RingTypes DEF EmptyCid, EmptyBuf
<1>3. cid = 0
  BY EmptyOfNothing
<1>4. Fetches'
  BY <1>1, <1>2, <1>3 DEF Delivery, Fetches, At
<1>5. Window' /\ Results' /\ UNCHANGED ret
  <2>1. CASE EmptyCid(p)
    BY <1>2, <1>3, <2>1, SameRing DEF EmptyCid
  <2>2. CASE EmptyBuf(p)
    BY <1>2, <1>3, <2>2, FreshRing DEF EmptyBuf
  <2> QED BY <2>1, <2>2
<1>6. Answers'
  BY <1>1, <1>3, <1>5, NothingHeld
<1> QED BY <1>1, <1>2, <1>3, <1>4, <1>5, <1>6 DEF Delivery, Cursors

\* What else a fetcher loop does.
LEMMA LoopDelivery ==
  ASSUME IInv, IInv', Delivery, NEW p \in Producers,
         \/ SourceUp(p) \/ SourceDown(p) \/ Loop(p) \/ ReceiveError(p)
         \/ Notify(p)
  PROVE  Delivery'
<1>1. CASE SourceUp(p) \/ SourceDown(p)
  <2> DEFINE w == prod[p].by
  <2>1. prod[p].pc = "starting" /\ Resume(w)
        /\ UNCHANGED <<cid, buf, sess, ret, runner, backlog>>
    BY <1>1 DEF SourceUp, SourceDown, ring, sessions, queue
  <2>2. w \in Workers /\ job[w].pc = "starting"
    <3>1. prod[p] \in Loops
      BY DEF IInv, TypeOK
    <3> QED BY <2>1, <3>1 DEF IInv, LaunchPaired, At, Loops
  <2> HIDE DEF w
  <2>3. /\ \A v \in Workers : v # w => job'[v] = job[v]
        /\ job'[w].pc # "take" /\ job'[w].sent = << >>
    BY <2>1, <2>2, JobMoves, NothingSent DEF Resume, Rest
  <2> QED BY <2>1, <2>2, <2>3, JobDelivery
<1>2. CASE Loop(p) \/ ReceiveError(p)
  <2>1. UNCHANGED <<cid, buf, sess, ret, runner, backlog, job>>
    BY <1>2 DEF Loop, ReceiveError, ring, sessions, queue
  <2> QED BY <2>1, SameRing, AnswersSame DEF Delivery, Fetches, At
<1>3. CASE Notify(p)
  <2>1. UNCHANGED <<cid, buf, sess, ret, job>> /\ runner'.pc = "scan"
    BY <1>3 DEF Notify, ring, sessions, IInv, TypeOK, RunnerOK
  <2> QED BY <2>1, SameRing, FetchesUnsent, AnswersSame DEF Delivery
<1> QED BY <1>1, <1>2, <1>3

LEMMA DeliveryInit == Init => Delivery
<1> SUFFICES ASSUME Init PROVE Delivery
  OBVIOUS
<1>1. Window
  BY SizeAssumption DEF Init, Window, Holds, Oldest, Zero
<1>2. Cursors
  BY DEF Init, Cursors, NoSession
<1>3. Fetches
  BY DEF Init, Fetches, At, Rest
<1>4. Results
  BY NilRetGood DEF Init, Results
<1>5. Answers
  <2>1. Content(NilRet) = << >> /\ SentOf(<< >>, << >>)
    BY DEF SentOf, Content, NilRet
  <2> QED BY <2>1 DEF Init, Answers, Sent, Rest, NilRet
<1> QED BY <1>1, <1>2, <1>3, <1>4, <1>5 DEF Delivery

LEMMA DeliveryStep ==
  IInv /\ IInv' /\ Delivery /\ [Next]_vars /\ [KeepsRing]_vars => Delivery'
<1> SUFFICES ASSUME IInv, IInv', Delivery, [Next]_vars, [KeepsRing]_vars
             PROVE  Delivery'
  OBVIOUS
<1>1. CASE Tick \/ UNCHANGED vars
  <2>1. UNCHANGED <<cid, buf, sess, ret, runner, backlog, job>>
    BY <1>1 DEF Tick, vars, ring, sessions, queue
  <2> QED BY <2>1, SameRing, AnswersSame DEF Delivery, Fetches, At
<1>2. ASSUME NEW w \in Workers, Work(w), KeepsRing PROVE Delivery'
  BY <1>2, LaunchDelivery, NewSessionDelivery, PlainWorkerDelivery,
     TouchDelivery, TakeDelivery, PushDelivery, GotDelivery, EncodeDelivery,
     EndDelivery, DropDelivery DEF Work
<1>3. ASSUME NEW w \in Workers, NEW op \in Ops[w], Call(w, op) PROVE Delivery'
  BY <1>3, PlainWorkerDelivery
<1>4. CASE Run1
  BY <1>4, RunnerDelivery
<1>5. ASSUME NEW p \in Producers, KeepsRing,
             Produce(p) \/ Notify(p) \/ Receive(p) \/ ReceiveError(p)
      PROVE  Delivery'
  BY <1>5, LoopDelivery, ReceiveDelivery, EmptyDelivery DEF Produce
<1> QED BY <1>1, <1>2, <1>3, <1>4, <1>5 DEF Next

LEMMA DeliveryHolds == Spec /\ RingIsKept => []Delivery
BY DeliveryInit, DeliveryStep, IInvHolds, PTL DEF Spec, RingIsKept

(***************************************************************************)
(* As long as the ring is kept, whatever else starts, stops and runs, no   *)
(* call has an empty result, on which Next would panic, and a client is    *)
(* sent messages of the ring, from one slot after the other; a             *)
(* slice the ring goes on under (buffer.go:143) may step back by less than *)
(* a turn until it is encoded, a result with an array of its own is a      *)
(* gapless run (stream.go:106-107, 133-134, 255, frontend.go:1092).        *)
(***************************************************************************)
THEOREM DeliversRuns == Spec /\ RingIsKept => []DeliversMessages
<1>1. IInv /\ Delivery => DeliversMessages
  <2> SUFFICES ASSUME IInv, Delivery, NEW w \in Workers
               PROVE  LET c == job[w].sent
                      IN /\ ret[w].nil \/ Content(ret[w]) # << >>
                         /\ \A i \in DOMAIN c : c[i] >= 0 /\ c[i] < cid
                         /\ \A i \in DOMAIN c \ {1} :
                              /\ Slot(c[i]) = Slot(c[i - 1] + 1)
                              /\ c[i] > c[i - 1] - Size
                              /\ ret[w].slots = << >> => c[i] = c[i - 1] + 1
    BY DEF DeliversMessages
  <2> DEFINE c == job[w].sent
             q == Content(ret[w])
  <2>1. /\ SentOf(c, q) /\ c \in Seq(Stored) /\ cid \in Nat
        /\ ret[w].slots = << >> => q = ret[w].ids /\ \A i \in DOMAIN c : c[i] = q[i]
    BY RingTypes DEF Delivery, Answers, Sent, Content
  <2>2. CASE ret[w] = NilRet
    <3>1. q = << >> /\ ret[w].nil
      BY <2>2 DEF Content, NilRet
    <3> HIDE DEF c, q
    <3>2. c = << >>
      BY <2>1, <3>1 DEF SentOf
    <3> QED BY <3>1, <3>2 DEF c
  <2>3. CASE ret[w] # NilRet
    <3>1. /\ q \in Seq(Stored) /\ q # << >>
          /\ \A i \in DOMAIN q : q[i] \in Nat /\ q[i] < cid
          /\ \A i \in DOMAIN q \ {1} :
               /\ Slot(q[i]) = Slot(q[i - 1] + 1)
               /\ ret[w].slots = << >> => q[i] = q[i - 1] + 1
      BY <2>3, ContentGood
    <3> HIDE DEF c, q
    <3>2. ASSUME NEW i \in DOMAIN c
          PROVE  /\ i \in DOMAIN q /\ c[i] \in Int /\ c[i] >= 0 /\ c[i] < cid
                 /\ Slot(c[i]) = Slot(q[i])
      <4>1. i \in DOMAIN q /\ 0 <= c[i] /\ c[i] <= q[i] /\ Slot(c[i]) = Slot(q[i])
        BY <2>1, <3>1 DEF SentOf
      <4>2. c[i] \in Int
        BY <2>1, StreamAssumption DEF Stored, Zero
      <4> QED BY <2>1, <3>1, <4>1, <4>2
    <3>3. ASSUME NEW i \in DOMAIN c \ {1}
          PROVE  /\ Slot(c[i]) = Slot(c[i - 1] + 1)
                 /\ c[i] > c[i - 1] - Size
                 /\ ret[w].slots = << >> => c[i] = c[i - 1] + 1
      <4>1. i \in DOMAIN c /\ i - 1 \in DOMAIN c /\ i > 1
        BY <2>1
      <4>2. i \in DOMAIN q \ {1} /\ i - 1 \in DOMAIN q
        BY <3>2, <4>1
      <4>3. q[i - 1] \in Int /\ c[i - 1] \in Int /\ Slot(c[i - 1]) = Slot(q[i - 1])
        BY <3>1, <3>2, <4>1, <4>2
      <4>4. Slot(c[i - 1] + 1) = Slot(q[i - 1] + 1)
        BY <4>3, SlotNext
      <4>5. Slot(c[i]) = Slot(q[i]) /\ Slot(q[i]) = Slot(q[i - 1] + 1)
        BY <3>1, <3>2, <4>1, <4>2
      <4>6. c[i] > c[i - 1] - Size
        BY <2>1, <4>1 DEF SentOf
      <4>7. ret[w].slots = << >> => c[i] = c[i - 1] + 1
        BY <2>1, <3>1, <4>1, <4>2
      <4> QED BY <4>4, <4>5, <4>6, <4>7
    <3> QED BY <3>1, <3>2, <3>3 DEF c, q
  <2> QED BY <2>2, <2>3
<1> QED BY <1>1, IInvHolds, DeliveryHolds, PTL

-----------------------------------------------------------------------------
(* A stream that is not restarted keeps its ring.                          *)

\* It starts at once, is never stopped, and its clients only read and reset.
NotRestarted ==
  /\ ~LazyStart /\ ~StopOnLonely
  /\ \A w \in Workers : Ops[w] \subseteq {"Next", "Reset"}

\* So no goroutine is where it launches, stops or ends a loop.
Steady ==
  /\ \A w \in Workers :
       /\ job[w].pc \notin {"launch", "starting", "stop", "sweep", "lonely", "off"}
       /\ job[w].op \in {"Next", "Reset"}
  /\ runner.pc \notin {"lonely", "off"}
  /\ \A p \in Producers :
       /\ prod[p].pc \in {"free", "loop", "next", "notify"}
       /\ ~Off(p) => running

LEMMA SteadyInit == NotRestarted /\ Init => Steady
<1> SUFFICES ASSUME NotRestarted, Init PROVE Steady
  OBVIOUS
<1>1. \A w \in Workers : job[w] = Rest
  BY DEF Init
<1>2. \A p \in Producers : prod[p].pc = "free" \/ (running /\ prod[p].pc = "loop")
  BY DEF Init, Free
<1>3. runner.pc = "select"
  BY DEF Init
<1> QED BY <1>1, <1>2, <1>3 DEF Steady, Rest, Off

\* A step that keeps all but one worker's job.
LEMMA SteadyJob ==
  ASSUME Steady, NEW w \in Workers, UNCHANGED <<running, prod>>,
         runner'.pc \notin {"lonely", "off"},
         \A v \in Workers : v # w => job'[v] = job[v],
         job'[w].pc \notin {"launch", "starting", "stop", "sweep", "lonely", "off"},
         job'[w].op \in {"Next", "Reset"}
  PROVE  Steady'
BY DEF Steady, Off

LEMMA SteadyWorker ==
  ASSUME IInv, NotRestarted, Steady, NEW w \in Workers,
         Work(w) \/ \E op \in Ops[w] : Call(w, op)
  PROVE  Steady' /\ UNCHANGED <<cid, buf>>
<1>1. job \in [Workers -> Jobs] /\ job[w] \in Jobs /\ job[w].op \in {"Next", "Reset"}
      /\ job[w].pc \notin {"launch", "stop", "sweep", "lonely", "off"}
      /\ runner.pc \notin {"lonely", "off"}
  BY RingTypes DEF Steady
<1> DEFINE Quiet == {"session", "enter", "reread", "touch", "fetch", "take",
                     "await", "mark", "push", "wait", "got", "encode", "delete"}
<1>2. ASSUME NEW pc \in Quiet, Go(w, pc), UNCHANGED <<running, prod, runner>>
      PROVE  Steady'
  <2>1. job'[w].pc = pc /\ job'[w].op = job[w].op
        /\ \A v \in Workers : v # w => job'[v] = job[v]
    BY <1>1, <1>2 DEF Go, Jobs
  <2> QED BY <1>1, <1>2, <2>1, SteadyJob
<1>3. ASSUME job' = [job EXCEPT ![w] = Rest], UNCHANGED <<running, prod, runner>>
      PROVE  Steady'
  <2>1. job'[w] = Rest /\ \A v \in Workers : v # w => job'[v] = job[v]
    BY <1>1, <1>3
  <2>2. Rest.pc = "idle" /\ Rest.op = "Next"
    BY DEF Rest
  <2> QED BY <1>1, <1>3, <2>1, <2>2, SteadyJob
<1>4. CASE NewSession(w)
  <2>1. UNCHANGED <<cid, buf, running, prod, runner>>
    BY <1>4 DEF NewSession, ring, queue
  <2>2. CASE hasBuf
    <3>1. PICK s \in SIDs :
            job' = [job EXCEPT ![w].sid = s, ![w].ck = NoSID,
                               ![w].dirty = TRUE, ![w].pc = "enter"]
      BY <1>4, <2>2 DEF NewSession, Fresh
    <3>2. job'[w].pc = "enter" /\ job'[w].op = job[w].op
          /\ \A v \in Workers : v # w => job'[v] = job[v]
      BY <1>1, <3>1 DEF Jobs
    <3> QED BY <1>1, <2>1, <3>2, SteadyJob
  <2>3. CASE ~hasBuf
    BY <1>3, <1>4, <2>1, <2>3 DEF NewSession, Leave
  <2> QED BY <2>1, <2>2, <2>3
<1>5. CASE \/ EnterSession(w) \/ OldSession(w) \/ Decide(w) \/ Await(w)
           \/ Take(w) \/ Push(w) \/ Got(w)
  <2>1. UNCHANGED <<cid, buf, running, prod, runner>>
    BY <1>5 DEF EnterSession, OldSession, Decide, Await, Take, Push, Got, ring, queue
  <2>2. \E pc \in Quiet : Go(w, pc)
    BY <1>5 DEF EnterSession, OldSession, Decide, Await, Take, Push, Got, Found
  <2> QED BY <1>2, <2>1, <2>2
<1>6. CASE Reread(w)
  <2>1. UNCHANGED <<cid, buf, running, prod, runner>>
    BY <1>6 DEF Reread, ring, queue
  <2>2. CASE job[w].ck \in live
    <3>1. job' = [job EXCEPT ![w].sid = job[w].ck, ![w].ck = NoSID,
                             ![w].pc = Found(w)]
      BY <1>6, <2>2 DEF Reread
    <3>2. job'[w].pc = Found(w) /\ job'[w].op = job[w].op
          /\ \A v \in Workers : v # w => job'[v] = job[v]
      BY <1>1, <3>1 DEF Jobs
    <3>3. Found(w) \in {"touch", "delete"}
      BY DEF Found
    <3> QED BY <1>1, <2>1, <3>2, <3>3, SteadyJob
  <2>3. CASE job[w].ck \notin live
    BY <1>3, <1>6, <2>1, <2>3 DEF Reread, Leave
  <2> QED BY <2>1, <2>2, <2>3
<1>7. CASE Touch(w) \/ Mark(w)
  <2>1. UNCHANGED <<cid, buf, running, prod, runner>>
    BY <1>7 DEF Touch, Mark, ring, queue
  <2>2. job'[w].pc \in {"fetch", "push"} /\ job'[w].op = job[w].op
        /\ \A v \in Workers : v # w => job'[v] = job[v]
    BY <1>1, <1>7 DEF Touch, Mark, Jobs
  <2> QED BY <1>1, <2>1, <2>2, SteadyJob
<1>8. CASE GotNothing(w) \/ Deliver(w) \/ Delete(w)
  <2>1. UNCHANGED <<cid, buf, running, prod, runner>> /\ job' = [job EXCEPT ![w] = Rest]
    BY <1>8 DEF GotNothing, Deliver, Delete, Answer, ring, queue
  <2> QED BY <1>3, <2>1
<1>9. CASE Launch(w) \/ StopSource(w) \/ StopSweep(w) \/ StopLonely(w) \/ StopAgain(w)
  BY <1>1, <1>9 DEF Launch, StopSource, StopSweep, StopLonely, StopAgain, At
<1>10. CASE \E op \in Ops[w] : Call(w, op)
  <2>1. PICK op \in {"Next", "Reset"} : Call(w, op)
    BY <1>10 DEF NotRestarted
  <2>2. UNCHANGED <<cid, buf, running, prod, runner>>
    BY <2>1 DEF Call, ring, queue
  <2>3. job'[w].op = op /\ job'[w].pc = "session"
        /\ \A v \in Workers : v # w => job'[v] = job[v]
    BY <1>1, <2>1 DEF Call, Rest, NotRestarted
  <2> QED BY <1>1, <2>2, <2>3, SteadyJob
<1>11. CASE Encode(w)
  <2>1. UNCHANGED <<cid, buf, running, prod, runner>> /\ job[w].pc = "encode"
    BY <1>11 DEF Encode, At, ring, queue
  <2>2. job'[w].pc = "encode" /\ job'[w].op = job[w].op
        /\ \A v \in Workers : v # w => job'[v] = job[v]
    BY <1>1, <1>11, <2>1 DEF Encode, Jobs
  <2> QED BY <1>1, <2>1, <2>2, SteadyJob
<1> QED BY <1>4, <1>5, <1>6, <1>7, <1>8, <1>9, <1>10, <1>11 DEF Work

LEMMA SteadyRunner ==
  ASSUME IInv, NotRestarted, Steady, Run1
  PROVE  Steady' /\ UNCHANGED <<cid, buf>>
<1>1. job \in [Workers -> Jobs] /\ runner.pc \notin {"lonely", "off"}
      /\ backlog \in Seq(Workers)
  BY RingTypes DEF Steady
<1>2. UNCHANGED <<cid, buf, running, prod>> /\ runner'.pc \notin {"lonely", "off"}
  <2>1. CASE Scan
    BY <1>1, <2>1 DEF Scan, IInv, TypeOK, RunnerOK, ring
  <2>2. CASE Send \/ Timeout
    BY <2>2 DEF Send, Timeout, Select, ring
  <2>3. CASE Sweep
    BY <2>3 DEF Sweep, Select, NotRestarted, ring
  <2>4. ~Lonely /\ ~StopStream
    BY <1>1 DEF Lonely, StopStream
  <2> QED BY <2>1, <2>2, <2>3, <2>4 DEF Run1
<1>3. \A v \in Workers : job'[v].pc \in {job[v].pc, "got"} /\ job'[v].op = job[v].op
  <2>1. CASE UNCHANGED job
    BY <2>1
  <2>2. CASE \E i \in DOMAIN backlog : \E r : Serve(i, r)
    <3>1. PICK w \in Workers : Go(w, "got")
      BY <1>1, <2>2 DEF Serve
    <3> QED BY <1>1, <3>1 DEF Go, Jobs
  <2>3. UNCHANGED job \/ \E i \in DOMAIN backlog : \E r : Serve(i, r)
    <3>1. CASE Send
      <4>1. runner.at \in DOMAIN backlog
        BY <3>1 DEF Send, IInv, TypeOK, RunnerOK
      <4> QED BY <3>1, <4>1 DEF Send
    <3>2. CASE Timeout
      BY <3>2 DEF Timeout
    <3>3. CASE Scan \/ Sweep \/ Lonely \/ StopStream
      BY <3>3 DEF Scan, Sweep, Lonely, StopStream
    <3> QED BY <3>1, <3>2, <3>3 DEF Run1
  <2> QED BY <2>1, <2>2, <2>3
<1> QED BY <1>2, <1>3 DEF Steady, Off

LEMMA SteadyLoop ==
  ASSUME IInv, Steady, NEW p \in Producers,
         Produce(p) \/ Notify(p) \/ Receive(p) \/ ReceiveError(p)
  PROVE  Steady' /\ KeepsRing
<1>1. /\ cid \in Nat /\ buf \in [Slots -> Stored] /\ prod \in [Producers -> Loops]
      /\ Slot(cid) \in Slots
  <2>1. cid \in Nat /\ buf \in [Slots -> Stored]
    BY RingTypes
  <2>2. prod \in [Producers -> Loops]
    BY DEF IInv, TypeOK
  <2> QED BY <2>1, <2>2, SlotType
<1>2. prod[p].pc \in {"free", "loop", "next", "notify"} /\ (~Off(p) => running)
  BY DEF Steady
<1>3. ASSUME NEW pc \in {"loop", "next", "notify"},
             prod' = [prod EXCEPT ![p] = [pc |-> pc]], ~Off(p),
             UNCHANGED <<running, job>>, runner'.pc \notin {"lonely", "off"}
      PROVE  Steady'
  <2>1. \A q \in Producers : prod'[q] = IF q = p THEN [pc |-> pc] ELSE prod[q]
    BY <1>1, <1>3
  <2>2. running
    BY <1>2, <1>3
  <2> QED BY <1>3, <2>1, <2>2 DEF Steady, Off
<1>4. UNCHANGED <<cid, buf>> => KeepsRing
  BY <1>1 DEF KeepsRing
<1>5. CASE Loop(p)
  <2>1. prod' = [prod EXCEPT ![p] = [pc |-> "next"]] /\ ~Off(p)
    BY <1>2, <1>5 DEF Loop, Off
  <2>2. UNCHANGED <<cid, buf, running, job, runner>>
    BY <1>5 DEF Loop, ring, queue
  <2> QED BY <1>3, <1>4, <2>1, <2>2 DEF Steady
<1>6. CASE ReceiveError(p) \/ Notify(p)
  <2>1. prod' = [prod EXCEPT ![p] = [pc |-> "loop"]] /\ ~Off(p)
        /\ UNCHANGED <<cid, buf, running, job>>
    BY <1>6 DEF ReceiveError, Notify, Off, ring
  <2>2. runner'.pc \notin {"lonely", "off"}
    BY <1>6 DEF ReceiveError, Notify, queue, Steady, IInv, TypeOK, RunnerOK
  <2> QED BY <1>3, <1>4, <2>1, <2>2
<1>7. CASE Receive(p)
  <2>1. prod' = [prod EXCEPT ![p] = [pc |-> "notify"]] /\ ~Off(p)
        /\ UNCHANGED <<running, job, runner>>
        /\ buf' = [buf EXCEPT ![Slot(cid)] = cid] /\ cid' = cid + 1
    BY <1>7 DEF Receive, Off, queue
  <2>2. KeepsRing
    BY <1>1, <2>1 DEF KeepsRing, Zero
  <2> QED BY <1>3, <2>1, <2>2 DEF Steady
<1>8. CASE SourceUp(p) \/ SourceDown(p) \/ EmptyCid(p) \/ EmptyBuf(p)
  BY <1>2, <1>8 DEF SourceUp, SourceDown, EmptyCid, EmptyBuf
<1> QED BY <1>5, <1>6, <1>7, <1>8 DEF Produce

LEMMA SteadyStep ==
  IInv /\ NotRestarted /\ Steady /\ [Next]_vars => Steady' /\ [KeepsRing]_vars
<1> SUFFICES ASSUME IInv, NotRestarted, Steady, [Next]_vars
             PROVE  Steady' /\ KeepsRing
  OBVIOUS
<1>1. UNCHANGED <<cid, buf>> => KeepsRing
  BY RingTypes DEF KeepsRing
<1>2. CASE Tick \/ UNCHANGED vars
  <2>1. UNCHANGED <<cid, buf, running, runner, prod, job>>
    BY <1>2 DEF Tick, vars, ring, queue
  <2> QED BY <1>1, <2>1 DEF Steady, Off
<1>3. ASSUME NEW w \in Workers, Work(w) \/ \E op \in Ops[w] : Call(w, op)
      PROVE  Steady' /\ KeepsRing
  BY <1>1, <1>3, SteadyWorker
<1>4. CASE Run1
  BY <1>1, <1>4, SteadyRunner
<1>5. ASSUME NEW p \in Producers,
             Produce(p) \/ Notify(p) \/ Receive(p) \/ ReceiveError(p)
      PROVE  Steady' /\ KeepsRing
  BY <1>5, SteadyLoop
<1> QED BY <1>2, <1>3, <1>4, <1>5 DEF Next

LEMMA SteadyKeepsRing ==
  ASSUME NotRestarted
  PROVE  Spec => RingIsKept
<1>1. NotRestarted
  OBVIOUS
<1>2. Init => Steady
  BY SteadyInit
<1>3. IInv /\ Steady /\ [Next]_vars => Steady' /\ [KeepsRing]_vars
  BY SteadyStep
<1> QED BY <1>2, <1>3, IInvHolds, PTL DEF Spec, RingIsKept

(***************************************************************************)
(* A stream that starts at once and is never stopped keeps its ring, so    *)
(* the same holds of it whatever its clients do (stream.go:159-198).       *)
(***************************************************************************)
THEOREM SteadyDelivers ==
  ASSUME NotRestarted
  PROVE  Spec => []DeliversMessages
BY SteadyKeepsRing, DeliversRuns, PTL

-----------------------------------------------------------------------------
(* Cursors.                                                                *)

\* The sessions a call may use: the one it has and the one it asks for.
Refers(w) == {job[w].sid, job[w].ck} \ {NoSID}

\* No two clients have a session in common.
Owned ==
  /\ \A v, w \in Workers :
       ClientOf[v] # ClientOf[w] => Refers(v) \cap Refers(w) = {}
  /\ \A w \in Workers, c \in Clients :
       c # ClientOf[w] => cookie[c] \notin Refers(w)
  /\ \A c, d \in Clients : (c # d /\ cookie[c] = cookie[d]) => cookie[c] = NoSID

\* A step after which no call refers to more sessions.
LEMMA OwnedKept ==
  ASSUME Owned, UNCHANGED cookie, \A w \in Workers : Refers(w)' \subseteq Refers(w)
  PROVE  Owned'
BY DEF Owned

\* A job that only goes on, or ends, refers to no more.
LEMMA RefersLess ==
  ASSUME IInv, NEW w \in Workers,
         (\E pc : Go(w, pc)) \/ Leave(w) \/ Resume(w) \/ job' = [job EXCEPT ![w] = Rest]
  PROVE  \A v \in Workers : Refers(v)' \subseteq Refers(v)
<1>1. job \in [Workers -> Jobs] /\ job[w] \in Jobs
  BY RingTypes
<1>2. ASSUME NEW pc, Go(w, pc)
      PROVE  \A v \in Workers : job'[v].sid = job[v].sid /\ job'[v].ck = job[v].ck
  BY <1>1, <1>2 DEF Go, Jobs
<1>3. ASSUME Leave(w) \/ job' = [job EXCEPT ![w] = Rest]
      PROVE  \A v \in Workers : job'[v] = job[v] \/ job'[v] = Rest
  BY <1>1, <1>3 DEF Leave
<1>4. Rest.sid = NoSID /\ Rest.ck = NoSID
  BY DEF Rest
<1> QED BY <1>2, <1>3, <1>4 DEF Refers, Resume

\* A call arrives with its client's cookie.
LEMMA CallOwned ==
  ASSUME IInv, Owned, NEW w \in Workers, NEW op \in Ops[w], Call(w, op)
  PROVE  Owned'
<1>1. job \in [Workers -> Jobs] /\ UNCHANGED cookie
      /\ ClientOf \in [Workers -> Clients]
  BY RingTypes, StreamAssumption DEF Call
<1>2. /\ job'[w].ck = cookie[ClientOf[w]] /\ job'[w].sid = NoSID
      /\ \A v \in Workers : v # w => job'[v] = job[v]
  BY <1>1 DEF Call, Rest
<1>3. /\ Refers(w)' \subseteq {cookie[ClientOf[w]]} \ {NoSID}
      /\ \A v \in Workers : v # w => Refers(v)' = Refers(v)
  BY <1>2 DEF Refers
<1>4. ASSUME NEW v \in Workers, NEW u \in Workers, ClientOf[v] # ClientOf[u]
      PROVE  Refers(v)' \cap Refers(u)' = {}
  <2>1. CASE v # w /\ u # w
    BY <1>3, <1>4, <2>1 DEF Owned
  <2>2. CASE v = w
    <3>1. u # w /\ cookie[ClientOf[w]] \notin Refers(u)
      BY <1>1, <1>4, <2>2 DEF Owned
    <3> QED BY <1>3, <2>2, <3>1
  <2>3. CASE u = w
    <3>1. v # w /\ cookie[ClientOf[w]] \notin Refers(v)
      BY <1>1, <1>4, <2>3 DEF Owned
    <3> QED BY <1>3, <2>3, <3>1
  <2> QED BY <2>1, <2>2, <2>3
<1>5. ASSUME NEW v \in Workers, NEW c \in Clients, c # ClientOf[v]
      PROVE  cookie[c] \notin Refers(v)'
  <2>1. CASE v # w
    BY <1>3, <1>5, <2>1 DEF Owned
  <2>2. CASE v = w
    BY <1>1, <1>3, <1>5, <2>2 DEF Owned
  <2> QED BY <2>1, <2>2
<1> QED BY <1>1, <1>4, <1>5 DEF Owned

\* A new session is one nobody else refers to.
LEMMA NewSessionOwned ==
  ASSUME IInv, Owned, NEW w \in Workers, NewSession(w)
  PROVE  Owned'
<1>1. job \in [Workers -> Jobs] /\ job[w] \in Jobs /\ UNCHANGED cookie
  BY RingTypes DEF NewSession
<1>2. CASE ~hasBuf
  BY <1>1, <1>2, RefersLess, OwnedKept DEF NewSession
<1>3. CASE hasBuf
  <2>1. PICK s \in Fresh(w) :
          job' = [job EXCEPT ![w].sid = s, ![w].ck = NoSID,
                             ![w].dirty = TRUE, ![w].pc = "enter"]
    BY <1>3 DEF NewSession
  <2>2. /\ \A v \in Workers : v # w => s \notin Refers(v)
        /\ \A c \in Clients : c # ClientOf[w] => cookie[c] # s
    BY DEF Fresh, Refers
  <2>3. /\ job'[w].sid = s /\ job'[w].ck = NoSID
        /\ \A v \in Workers : v # w => job'[v] = job[v]
    BY <1>1, <2>1 DEF Jobs
  <2>4. /\ Refers(w)' \subseteq {s}
        /\ \A v \in Workers : v # w => Refers(v)' = Refers(v)
    BY <2>3 DEF Refers
  <2>5. ASSUME NEW v \in Workers, NEW u \in Workers, ClientOf[v] # ClientOf[u]
        PROVE  Refers(v)' \cap Refers(u)' = {}
    <3>1. CASE v # w /\ u # w
      BY <2>4, <2>5, <3>1 DEF Owned
    <3>2. CASE v = w
      BY <2>2, <2>4, <2>5, <3>2
    <3>3. CASE u = w
      BY <2>2, <2>4, <2>5, <3>3
    <3> QED BY <3>1, <3>2, <3>3
  <2>6. ASSUME NEW v \in Workers, NEW c \in Clients, c # ClientOf[v]
        PROVE  cookie[c] \notin Refers(v)'
    <3>1. CASE v # w
      BY <2>4, <2>6, <3>1 DEF Owned
    <3>2. CASE v = w
      BY <2>2, <2>4, <2>6, <3>2
    <3> QED BY <3>1, <3>2
  <2> QED BY <1>1, <2>5, <2>6 DEF Owned
<1> QED BY <1>2, <1>3

\* The response takes the session's id to its client.
LEMMA AnswerOwned ==
  ASSUME IInv, Owned, NEW w \in Workers, Answer(w)
  PROVE  Owned'
<1>1. /\ job \in [Workers -> Jobs] /\ ClientOf \in [Workers -> Clients]
      /\ cookie \in [Clients -> SIDs \cup {NoSID}] /\ job' = [job EXCEPT ![w] = Rest]
  BY RingTypes, StreamAssumption DEF Answer, IInv, TypeOK
<1>2. \A v \in Workers : Refers(v)' \subseteq Refers(v)
  BY <1>1, RefersLess
<1>3. CASE UNCHANGED cookie
  BY <1>2, <1>3, OwnedKept
<1>4. CASE ~UNCHANGED cookie
  <2> DEFINE s == job[w].sid
             d == ClientOf[w]
  <2>1. cookie' = [cookie EXCEPT ![d] = s] /\ d \in Clients
    BY <1>1, <1>4 DEF Answer
  <2>2. \A c \in Clients : cookie'[c] = IF c = d THEN s ELSE cookie[c]
    BY <1>1, <2>1
  <2>3. s = NoSID \/ s \in Refers(w)
    BY DEF Refers
  <2>4. Refers(w)' = {}
    BY <1>1 DEF Refers, Rest
  <2>5. \A v \in Workers : NoSID \notin Refers(v)
    BY DEF Refers
  <2> HIDE DEF s, d
  <2>6. ASSUME NEW v \in Workers, NEW c \in Clients, c # ClientOf[v]
        PROVE  cookie'[c] \notin Refers(v)'
    <3>1. CASE c # d
      BY <1>2, <2>2, <2>6, <3>1 DEF Owned
    <3>2. CASE c = d
      <4>1. v = w \/ s \notin Refers(v)
        BY <2>3, <2>5, <2>6, <3>2 DEF Owned, d
      <4> QED BY <1>2, <2>2, <2>4, <3>2, <4>1
    <3> QED BY <3>1, <3>2
  <2>7. ASSUME NEW c \in Clients, NEW e \in Clients, c # e, cookie'[c] = cookie'[e]
        PROVE  cookie'[c] = NoSID
    <3>1. \A b \in Clients : b # d => (cookie[b] # s \/ s = NoSID)
      BY <2>3 DEF Owned, d
    <3> QED BY <2>2, <2>7, <3>1 DEF Owned
  <2> QED BY <1>2, <2>6, <2>7 DEF Owned
<1> QED BY <1>3, <1>4

\* Every step of a worker.
LEMMA WorkerOwned ==
  ASSUME IInv, Owned, NEW w \in Workers, Work(w)
  PROVE  Owned'
<1>1. job \in [Workers -> Jobs] /\ job[w] \in Jobs
  BY RingTypes
<1>2. CASE Launch(w) \/ EnterSession(w) \/ OldSession(w) \/ Decide(w) \/ Await(w)
           \/ Take(w) \/ Push(w) \/ Got(w) \/ StopLonely(w) \/ StopAgain(w)
  <2>1. (\E pc : Go(w, pc)) \/ Leave(w)
    BY <1>2 DEF Launch, EnterSession, OldSession, Decide, Await, Take, Push,
                Got, StopLonely, StopAgain
  <2>2. UNCHANGED cookie
    BY <1>2 DEF Launch, EnterSession, OldSession, Decide, Await, Take, Push,
                Got, StopLonely, StopAgain
  <2> QED BY <2>1, <2>2, RefersLess, OwnedKept
<1>3. CASE \/ Reread(w) \/ Touch(w) \/ Mark(w) \/ Encode(w)
           \/ StopSource(w) \/ StopSweep(w)
  <2>1. UNCHANGED cookie
    BY <1>3 DEF Reread, Touch, Mark, Encode, StopSource, StopSweep
  <2>2. /\ \A v \in Workers : v # w => job'[v] = job[v]
        /\ {job'[w].sid, job'[w].ck} \subseteq {job[w].sid, job[w].ck, NoSID}
    BY <1>1, <1>3 DEF Reread, Touch, Mark, Encode, StopSource, StopSweep, Leave,
                      Rest, Jobs
  <2>3. \A v \in Workers : Refers(v)' \subseteq Refers(v)
    BY <2>2 DEF Refers
  <2> QED BY <2>1, <2>3, OwnedKept
<1>4. CASE NewSession(w)
  BY <1>4, NewSessionOwned
<1>5. CASE GotNothing(w) \/ Deliver(w) \/ Delete(w)
  BY <1>5, AnswerOwned DEF GotNothing, Deliver, Delete
<1> QED BY <1>2, <1>3, <1>4, <1>5 DEF Work

LEMMA OwnedInit == Init => Owned
<1> SUFFICES ASSUME Init PROVE Owned
  OBVIOUS
<1>1. \A w \in Workers : Refers(w) = {}
  BY DEF Init, Refers, Rest
<1>2. \A c \in Clients : cookie[c] = NoSID
  BY DEF Init
<1> QED BY <1>1, <1>2 DEF Owned

LEMMA OwnedStep == IInv /\ Owned /\ [Next]_vars => Owned'
<1> SUFFICES ASSUME IInv, Owned, [Next]_vars PROVE Owned'
  OBVIOUS
<1>1. UNCHANGED <<job, cookie>> => Owned'
  BY OwnedKept DEF Refers
<1>2. ASSUME NEW w \in Workers, Work(w) PROVE Owned'
  BY <1>2, WorkerOwned
<1>3. ASSUME NEW w \in Workers, NEW op \in Ops[w], Call(w, op) PROVE Owned'
  BY <1>3, CallOwned
<1>4. ASSUME NEW w \in Workers, UNCHANGED cookie,
             (\E pc : Go(w, pc)) \/ Resume(w)
      PROVE  Owned'
  BY <1>4, RefersLess, OwnedKept
<1>5. CASE Run1
  <2>1. UNCHANGED cookie
    BY <1>5 DEF Run1, Scan, Send, Sweep, Lonely, StopStream, Timeout
  <2>2. UNCHANGED job \/ \E i \in DOMAIN backlog : \E r : Serve(i, r)
    <3>1. CASE Send
      <4>1. runner.at \in DOMAIN backlog
        BY <3>1 DEF Send, IInv, TypeOK, RunnerOK
      <4> QED BY <3>1, <4>1 DEF Send
    <3>2. CASE Timeout
      BY <3>2 DEF Timeout
    <3>3. CASE Scan \/ Sweep \/ Lonely \/ StopStream
      BY <3>3 DEF Scan, Sweep, Lonely, StopStream
    <3> QED BY <1>5, <3>1, <3>2, <3>3 DEF Run1
  <2>3. CASE \E i \in DOMAIN backlog : \E r : Serve(i, r)
    <3>1. \E w \in Workers : Go(w, "got")
      BY <2>3, RingTypes DEF Serve
    <3> QED BY <1>4, <2>1, <3>1
  <2> QED BY <1>1, <2>1, <2>2, <2>3
<1>6. ASSUME NEW p \in Producers,
             Produce(p) \/ Notify(p) \/ Receive(p) \/ ReceiveError(p)
      PROVE  Owned'
  <2>1. CASE SourceUp(p) \/ SourceDown(p)
    <3>1. prod[p] \in Loops /\ prod[p].pc = "starting"
      BY <2>1 DEF SourceUp, SourceDown, IInv, TypeOK
    <3>2. prod[p].by \in Workers /\ Resume(prod[p].by) /\ UNCHANGED cookie
      BY <2>1, <3>1 DEF SourceUp, SourceDown, Loops
    <3> QED BY <1>4, <3>2
  <2>2. CASE ~(SourceUp(p) \/ SourceDown(p))
    <3>1. UNCHANGED <<job, cookie>>
      BY <1>6, <2>2 DEF Produce, Notify, Receive, ReceiveError, Loop, EmptyCid,
                        EmptyBuf
    <3> QED BY <1>1, <3>1
  <2> QED BY <2>1, <2>2
<1>7. CASE Tick \/ UNCHANGED vars
  BY <1>1, <1>7 DEF Tick, vars
<1> QED BY <1>2, <1>3, <1>5, <1>6, <1>7 DEF Next

LEMMA OwnedHolds == Spec => []Owned
BY OwnedInit, OwnedStep, IInvHolds, PTL DEF Spec

\* Each client waits for an answer before it calls again.
OneCallPerClient ==
  \A v, w \in Workers : ClientOf[v] = ClientOf[w] => v = w

\* A result r, read from a ring with contents b, ends where cursor n may be.
Covers(r, b, n) == Reads(r, b) # << >> /\ n <= Last(Reads(r, b)) + 1

\* Only a call about to return holds a result, and before it moves its
\* session's cursor that is not beyond what the result ends with.
Behind ==
  \A w \in Workers : ret[w] # NilRet =>
    /\ job[w].pc \in {"got", "encode"}
    /\ At(w, "got") => Covers(ret[w], buf, sess[job[w].sid].next)

\* Results that are held while jobs go on and cursors are not advanced.
LEMMA BehindKept ==
  ASSUME IInv, Delivery, Behind, UNCHANGED <<buf, ret>>,
         \A v \in Workers :
           \/ ret[v] = NilRet
           \/ /\ job'[v].pc \in {job[v].pc, "encode"} /\ job'[v].sid = job[v].sid
              /\ At(v, "got") =>
                   sess'[job[v].sid].next \in {0, sess[job[v].sid].next}
  PROVE  Behind'
<1> SUFFICES ASSUME NEW v \in Workers, ret[v] # NilRet
             PROVE  /\ job'[v].pc \in {"got", "encode"}
                    /\ job'[v].pc = "got" =>
                         Covers(ret[v], buf, sess'[job'[v].sid].next)
  BY DEF Behind, At
<1>1. job[v].pc \in {"got", "encode"}
  BY DEF Behind
<1>2. ASSUME job[v].pc = "got"
      PROVE  Covers(ret[v], buf, sess'[job[v].sid].next)
  <2>1. Covers(ret[v], buf, sess[job[v].sid].next)
    BY <1>2 DEF Behind, At
  <2>2. Last(Reads(ret[v], buf)) \in Nat
    BY ContentGood, ContentReads
  <2>3. Covers(ret[v], buf, 0)
    BY <2>1, <2>2 DEF Covers
  <2>4. sess'[job[v].sid].next \in {0, sess[job[v].sid].next}
    BY <1>2 DEF At
  <2> QED BY <2>1, <2>3, <2>4
<1> QED BY <1>1, <1>2

\* A Fetch of a message that is there returns messages.
LEMMA FetchedReads ==
  ASSUME IInv, Delivery, NEW id \in Nat, id < cid
  PROVE  Content(Fetched(id)) # << >> /\ Last(Content(Fetched(id))) = cid - 1
<1> DEFINE r == Fetched(id)
<1>1. GoodRet(r, cid, buf) /\ ~r.nil /\ Last(Content(r)) = cid - 1
  BY FetchedGood DEF Delivery, GoodResult
<1>2. r \in Rets
  BY FetchedType DEF IInv, TypeOK
<1>3. cid \in Nat /\ buf \in [Slots -> Stored] /\ Holds(cid, buf)
  BY RingTypes DEF Delivery, Window
<1> HIDE DEF r
<1>4. Reads(r, buf) # << >>
  BY <1>1, <1>2, <1>3, ReadsGood
<1> QED BY <1>1, <1>4, ContentReads DEF r

\* A call that is answered with what the ring ends with now.
LEMMA BehindAnswered ==
  ASSUME IInv, Delivery, Behind, NEW w \in Workers, NEW r \in Rets, Go(w, "got"),
         ret' = [ret EXCEPT ![w] = r], UNCHANGED <<buf, sess>>,
         job[w].pc \in WithSession,
         r = NilRet \/ (Content(r) # << >> /\ Last(Content(r)) = cid - 1)
  PROVE  Behind'
<1>1. /\ job \in [Workers -> Jobs] /\ ret \in [Workers -> Rets] /\ cid \in Nat
      /\ job[w].sid \in SIDs
  BY RingTypes DEF IInv, TypeOK, JobsOK
<1>2. sess[job[w].sid].next \in Nat /\ sess[job[w].sid].next <= cid
  BY <1>1, RingTypes DEF Delivery, Cursors
<1>3. /\ \A v \in Workers : v # w => job'[v] = job[v] /\ ret'[v] = ret[v]
      /\ job'[w].pc = "got" /\ job'[w].sid = job[w].sid /\ ret'[w] = r
  BY <1>1, JobMoves
<1>4. r # NilRet => Covers(r, buf, sess[job[w].sid].next)
  BY <1>1, <1>2, ContentReads DEF Covers
<1>5. ASSUME NEW v \in Workers, ret'[v] # NilRet
      PROVE  /\ job'[v].pc \in {"got", "encode"}
             /\ job'[v].pc = "got" => Covers(ret'[v], buf, sess[job'[v].sid].next)
  <2>1. CASE v # w
    BY <1>3, <1>5, <2>1 DEF Behind, At
  <2>2. CASE v = w
    BY <1>3, <1>4, <1>5, <2>2
  <2> QED BY <2>1, <2>2
<1> QED BY <1>5 DEF Behind, At

\* Whoever does not return from a call holds no result.
LEMMA HoldsNothing ==
  ASSUME Behind, NEW w \in Workers, job[w].pc \notin {"got", "encode"}
  PROVE  ret[w] = NilRet
BY DEF Behind

\* A step of one worker that advances no cursor a result refers to.
LEMMA WorkerBehind ==
  ASSUME IInv, Delivery, Behind, UNCHANGED <<buf, ret>>, NEW w \in Workers,
         job[w].pc \notin {"got", "encode"},
         \A v \in Workers : v # w => job'[v] = job[v],
         \A v \in Workers \ {w} : At(v, "got") =>
           sess'[job[v].sid].next \in {0, sess[job[v].sid].next}
  PROVE  Behind'
BY HoldsNothing, BehindKept

\* Sessions that are dropped lose their cursor, the others keep it.
LEMMA KeptNext ==
  ASSUME NEW f, sess' = Kept(f)
  PROVE  \A s \in SIDs : sess'[s].next \in {0, f[s].next}
BY DEF Kept, NoSession

\* The call of one client moves its own session's cursor only.
LEMMA OwnSession ==
  ASSUME IInv, Owned, OneCallPerClient, NEW w \in Workers, NEW v \in Workers,
         v # w, job[w].sid \in SIDs, job[v].sid \in SIDs
  PROVE  job[v].sid # job[w].sid
<1>1. ClientOf[v] # ClientOf[w]
  BY DEF OneCallPerClient
<1>2. Refers(v) \cap Refers(w) = {}
  BY <1>1 DEF Owned
<1>3. job[w].sid # NoSID /\ job[v].sid # NoSID
  BY StreamAssumption
<1> QED BY <1>2, <1>3 DEF Refers

LEMMA GotBehind ==
  ASSUME IInv, Delivery, Owned, OneCallPerClient, Behind,
         NEW w \in Workers, Got(w)
  PROVE  Behind'
<1>1. /\ job \in [Workers -> Jobs] /\ sess \in [SIDs -> StreamSessions]
      /\ \A v \in Workers : job[v].pc = "got" => job[v].sid \in SIDs
  BY RingTypes DEF IInv, TypeOK, JobsOK, WithSession
<1>2. /\ job[w].pc = "got" /\ Go(w, "encode") /\ UNCHANGED <<buf, ret>>
      /\ \A s \in SIDs : s # job[w].sid => sess'[s] = sess[s]
  BY <1>1 DEF Got, At, ring
<1>3. /\ \A v \in Workers : v # w => job'[v] = job[v]
      /\ job'[w].pc = "encode" /\ job'[w].sid = job[w].sid
  BY <1>2, JobMoves
<1>4. ASSUME NEW v \in Workers
      PROVE  /\ job'[v].pc \in {job[v].pc, "encode"} /\ job'[v].sid = job[v].sid
             /\ v # w /\ At(v, "got") => sess'[job[v].sid].next = sess[job[v].sid].next
  <2>1. v # w /\ At(v, "got") => sess'[job[v].sid] = sess[job[v].sid]
    BY <1>1, <1>2, OwnSession DEF At
  <2> QED BY <1>3, <2>1
<1> SUFFICES ASSUME NEW v \in Workers, ret[v] # NilRet
             PROVE  /\ job'[v].pc \in {"got", "encode"}
                    /\ job'[v].pc = "got" =>
                         Covers(ret[v], buf, sess'[job'[v].sid].next)
  BY <1>2 DEF Behind, At
<1>5. CASE v = w
  BY <1>3, <1>5
<1>6. CASE v # w
  BY <1>3, <1>4, <1>6 DEF Behind, At
<1> QED BY <1>5, <1>6

\* So does its end.
LEMMA EndBehind ==
  ASSUME IInv, Delivery, Behind,
         NEW w \in Workers, GotNothing(w) \/ Deliver(w) \/ Delete(w)
  PROVE  Behind'
<1>1. /\ job \in [Workers -> Jobs] /\ ret \in [Workers -> Rets]
      /\ \A v \in Workers : job[v].pc = "got" => job[v].sid \in SIDs
  BY RingTypes DEF IInv, TypeOK, JobsOK, WithSession
<1>2. /\ ret' = [ret EXCEPT ![w] = NilRet] /\ UNCHANGED buf
      /\ job' = [job EXCEPT ![w] = Rest] /\ sess' = Kept(sess)
  BY DEF GotNothing, Deliver, Delete, Answer, ring
<1> SUFFICES ASSUME NEW v \in Workers, ret'[v] # NilRet
             PROVE  /\ job'[v].pc \in {"got", "encode"}
                    /\ job'[v].pc = "got" =>
                         Covers(ret'[v], buf, sess'[job'[v].sid].next)
  BY <1>2 DEF Behind, At
<1>3. v # w /\ ret'[v] = ret[v] /\ job'[v] = job[v]
  BY <1>1, <1>2
<1>4. job[v].pc \in {"got", "encode"}
  BY <1>3 DEF Behind
<1>5. ASSUME job[v].pc = "got" PROVE Covers(ret[v], buf, sess'[job[v].sid].next)
  <2>1. Covers(ret[v], buf, sess[job[v].sid].next)
    BY <1>3, <1>5 DEF Behind, At
  <2>2. Last(Reads(ret[v], buf)) \in Nat
    BY <1>3, ContentGood, ContentReads
  <2>3. Covers(ret[v], buf, 0)
    BY <2>1, <2>2 DEF Covers
  <2>4. sess'[job[v].sid].next \in {0, sess[job[v].sid].next}
    BY <1>1, <1>2, <1>5, KeptNext
  <2> QED BY <2>1, <2>3, <2>4
<1> QED BY <1>3, <1>4, <1>5

\* Encoding moves no cursor.
LEMMA EncodeBehind ==
  ASSUME IInv, Delivery, Behind, NEW w \in Workers, Encode(w)
  PROVE  Behind'
<1>1. job \in [Workers -> Jobs] /\ job[w] \in Jobs
  BY RingTypes
<1>2. UNCHANGED <<buf, ret, sess>>
  BY DEF Encode, ring, sessions
<1>3. \A v \in Workers : job'[v].pc = job[v].pc /\ job'[v].sid = job[v].sid
  BY <1>1 DEF Encode, Jobs
<1> QED BY <1>2, <1>3, BehindKept

\* While the ring is empty there is no result to compare with.
LEMMA FreshBehind ==
  ASSUME IInv, Delivery, cid = 0, cid' = 0, FreshSlots
  PROVE  Behind'
<1>1. \A v \in Workers : ret'[v] = NilRet
  BY EmptyRing, FreshRing
<1> QED BY <1>1 DEF Behind

\* The other steps of a worker.
LEMMA CallBehind ==
  ASSUME IInv, Delivery, KeepsRing, Behind, NEW w \in Workers,
         Work(w) \/ (\E op \in Ops[w] : Call(w, op)),
         ~Got(w), ~Encode(w), ~GotNothing(w), ~Deliver(w), ~Delete(w)
  PROVE  Behind'
<1>1. /\ job \in [Workers -> Jobs] /\ job[w] \in Jobs
      /\ sess \in [SIDs -> StreamSessions] /\ ret \in [Workers -> Rets]
      /\ \A v \in Workers : job[v].pc = "got" => job[v].sid \in SIDs
  BY RingTypes DEF IInv, TypeOK, JobsOK, WithSession
<1>2. CASE Take(w)
  <2>1. /\ UNCHANGED <<buf, sess>> /\ job[w].pc = "take"
        /\ ret' = [ret EXCEPT ![w] = Fetched(job[w].rid)] /\ Go(w, "got")
    BY <1>2 DEF Take, At, ring, sessions
  <2>2. job[w].rid \in Nat /\ job[w].rid < cid
    BY <2>1, RingTypes DEF Delivery, Fetches, At
  <2>3. /\ Fetched(job[w].rid) \in Rets
        /\ Content(Fetched(job[w].rid)) # << >>
        /\ Last(Content(Fetched(job[w].rid))) = cid - 1
    BY <2>2, FetchedReads, FetchedType DEF IInv, TypeOK
  <2>4. job[w].pc \in WithSession
    BY <2>1 DEF WithSession
  <2> QED BY <2>1, <2>3, <2>4, BehindAnswered
<1>3. CASE Launch(w)
  <2>1. /\ cid' = 0 /\ FreshSlots /\ Go(w, "starting") /\ job[w].pc = "launch"
        /\ UNCHANGED sess
    BY <1>3 DEF Launch, At, sessions
  <2>2. cid = 0
    BY <2>1, RingTypes DEF KeepsRing
  <2> QED BY <2>1, <2>2, FreshBehind
<1>4. CASE NewSession(w)
  <2>1. UNCHANGED <<buf, ret>> /\ job[w].pc = "session"
    BY <1>4 DEF NewSession, At, ring
  <2>2. CASE ~hasBuf
    <3>1. UNCHANGED sess /\ \A v \in Workers : v # w => job'[v] = job[v]
      BY <1>4, <2>2, JobMoves DEF NewSession
    <3> QED BY <2>1, <3>1, WorkerBehind
  <2>3. CASE hasBuf
    <3>1. PICK s \in Fresh(w) :
            /\ sess' = [sess EXCEPT ![s] = [next |-> cid, last |-> 0]]
            /\ job' = [job EXCEPT ![w].sid = s, ![w].ck = NoSID,
                                  ![w].dirty = TRUE, ![w].pc = "enter"]
      BY <1>4, <2>3 DEF NewSession
    <3>2. \A v \in Workers \ {w} : s # job[v].sid /\ job'[v] = job[v]
      BY <1>1, <3>1 DEF Fresh
    <3>3. ASSUME NEW v \in Workers \ {w}, At(v, "got")
          PROVE  sess'[job[v].sid].next = sess[job[v].sid].next
      <4>1. job[v].sid \in SIDs
        BY <1>1, <3>3 DEF At
      <4> QED BY <1>1, <3>1, <3>2, <4>1
    <3> QED BY <2>1, <3>2, <3>3, WorkerBehind
  <2> QED BY <2>2, <2>3
<1>5. CASE Touch(w)
  <2>1. UNCHANGED <<buf, ret>> /\ job[w].pc = "touch"
        /\ \A v \in Workers : v # w => job'[v] = job[v]
    BY <1>1, <1>5 DEF Touch, At, ring
  <2>2. \A s \in SIDs : sess'[s].next = sess[s].next
    BY <1>1, <1>5 DEF Touch, StreamSessions
  <2>3. \A v \in Workers \ {w} : At(v, "got") => job[v].sid \in SIDs
    BY <1>1 DEF At
  <2> QED BY <2>1, <2>2, <2>3, WorkerBehind
<1>6. CASE StopSweep(w)
  <2>1. UNCHANGED <<buf, ret>> /\ job[w].pc = "sweep" /\ sess' = Kept(sess)
        /\ \A v \in Workers : v # w => job'[v] = job[v]
    BY <1>1, <1>6 DEF StopSweep, DeleteOld, At, Leave, ring
  <2>2. \A v \in Workers \ {w} : At(v, "got") => job[v].sid \in SIDs
    BY <1>1 DEF At
  <2> QED BY <2>1, <2>2, KeptNext, WorkerBehind
<1>7. CASE EnterSession(w) \/ OldSession(w) \/ Decide(w) \/ Await(w) \/ Push(w)
           \/ StopLonely(w) \/ StopAgain(w)
  <2>1. UNCHANGED <<buf, sess, ret>> /\ job[w].pc \notin {"got", "encode"}
    BY <1>7 DEF EnterSession, OldSession, Decide, Await, Push, StopLonely,
                StopAgain, At, ring, sessions
  <2>2. \A v \in Workers : v # w => job'[v] = job[v]
    BY <1>7, JobMoves DEF EnterSession, OldSession, Decide, Await, Push,
                          StopLonely, StopAgain
  <2> QED BY <2>1, <2>2, WorkerBehind
<1>8. CASE Reread(w) \/ Mark(w) \/ StopSource(w) \/ \E op \in Ops[w] : Call(w, op)
  <2>1. UNCHANGED <<buf, sess, ret>> /\ job[w].pc \notin {"got", "encode"}
    BY <1>8 DEF Reread, Mark, StopSource, Call, At, ring, sessions
  <2>2. \A v \in Workers : v # w => job'[v] = job[v]
    BY <1>1, <1>8 DEF Reread, Mark, StopSource, Call, Leave
  <2> QED BY <2>1, <2>2, WorkerBehind
<1> QED BY <1>2, <1>3, <1>4, <1>5, <1>6, <1>7, <1>8 DEF Work

\* The runner's steps.
LEMMA RunnerBehind ==
  ASSUME IInv, Delivery, Behind, Run1
  PROVE  Behind'
<1>1. /\ backlog \in Seq(Workers) /\ \A v \in Workers : job[v].rid \in Nat
      /\ \A v \in Workers : job[v].pc = "got" => job[v].sid \in SIDs
      /\ \A i \in DOMAIN backlog : job[backlog[i]].pc \in WithSession
  <2>1. \A i \in DOMAIN backlog : backlog[i] \in Workers /\ job[backlog[i]].pc = "wait"
    BY RingTypes DEF IInv, BacklogIsWaiters, At
  <2> QED BY <2>1, RingTypes DEF IInv, TypeOK, JobsOK, WithSession
<1> UNCHANGED buf
  BY DEF Run1, Scan, Send, Sweep, Lonely, StopStream, Timeout, ring
<1>2. CASE Send
  <2> DEFINE i == runner.at
             rid == job[backlog[i]].rid
             r == Fetched(rid)
  <2>1. i \in DOMAIN backlog /\ rid < cid /\ rid \in Nat
    BY <1>1, <1>2 DEF Send, IInv, TypeOK, RunnerOK, Delivery, Fetches
  <2>2. r \in Rets /\ Content(r) # << >> /\ Last(Content(r)) = cid - 1
    BY <2>1, FetchedType, FetchedReads DEF IInv, TypeOK
  <2>3. /\ Go(backlog[i], "got") /\ UNCHANGED sess
        /\ ret' = [ret EXCEPT ![backlog[i]] = r]
    BY <1>2 DEF Send, Serve, sessions
  <2>4. backlog[i] \in Workers /\ job[backlog[i]].pc \in WithSession
    BY <1>1, <2>1
  <2> HIDE DEF i, r
  <2> QED BY <2>2, <2>3, <2>4, BehindAnswered
<1>3. ASSUME NEW i \in DOMAIN backlog, Serve(i, NilRet), UNCHANGED sess
      PROVE  Behind'
  <2>1. /\ Go(backlog[i], "got") /\ ret' = [ret EXCEPT ![backlog[i]] = NilRet]
        /\ backlog[i] \in Workers /\ job[backlog[i]].pc \in WithSession
    BY <1>1, <1>3 DEF Serve
  <2> QED BY <1>3, <2>1, NilRetGood, BehindAnswered
<1>4. CASE UNCHANGED <<job, ret>>
  <2>1. UNCHANGED sess \/ sess' = Kept(sess)
    BY <1>1 DEF Run1, Scan, Send, Sweep, DeleteOld, Lonely, StopStream, Timeout, sessions
  <2>2. \A v \in Workers : At(v, "got") => job[v].sid \in SIDs
    BY <1>1 DEF At
  <2> QED BY <1>4, <2>1, <2>2, KeptNext, BehindKept
<1>5. CASE Timeout
  BY <1>3, <1>4, <1>5 DEF Timeout, sessions
<1>6. CASE Scan \/ Sweep \/ Lonely \/ StopStream
  BY <1>4, <1>6 DEF Scan, Sweep, Lonely, StopStream
<1> QED BY <1>2, <1>5, <1>6 DEF Run1

\* As the ring goes on, what a result reads grows, and so its last message.
LEMMA ReceiveBehind ==
  ASSUME IInv, IInv', Delivery, Behind, NEW p \in Producers, Receive(p)
  PROVE  Behind'
<1>1. cid' = cid + 1 /\ UNCHANGED <<sess, job, ret>>
  BY DEF Receive, sessions
<1>2. /\ cid \in Nat /\ cid' \in Nat /\ cid' >= cid
      /\ buf \in [Slots -> Stored] /\ buf' \in [Slots -> Stored]
      /\ ret \in [Workers -> Rets]
  BY <1>1, RingTypes DEF IInv, TypeOK, RingOK
<1>3. GoesOn(buf, buf') /\ Holds(cid, buf) /\ Holds(cid', buf')
  BY ReceiveRing DEF Delivery, Window
<1> SUFFICES ASSUME NEW v \in Workers, ret[v] # NilRet, At(v, "got")
             PROVE  Covers(ret[v], buf', sess[job[v].sid].next)
  BY <1>1 DEF Behind, At
<1> DEFINE r == ret[v]
           n == sess[job[v].sid].next
           q == Reads(r, buf)
           q2 == Reads(r, buf')
<1>4. r \in Rets /\ GoodRet(r, cid, buf) /\ ~r.nil
  BY <1>2, ContentGood DEF Delivery, Results, GoodResult
<1>5. Covers(r, buf, n) /\ n \in Nat
  <2>1. job[v].sid \in SIDs
    BY DEF At, IInv, TypeOK, JobsOK, WithSession
  <2> QED BY <2>1, RingTypes DEF Behind
<1> HIDE DEF r, n
<1>6. /\ GoodRet(r, cid', buf') /\ Len(q2) = Len(q)
      /\ \A i \in DOMAIN q : q2[i] >= q[i]
  BY <1>2, <1>3, <1>4, ReadsLater
<1>7. q \in Seq(Stored) /\ q # << >> /\ \A i \in DOMAIN q : q[i] \in Nat
  BY <1>2, <1>3, <1>4, ReadsGood
<1>8. q2 \in Seq(Stored) /\ q2 # << >> /\ \A i \in DOMAIN q2 : q2[i] \in Nat
  BY <1>2, <1>3, <1>4, <1>6, ReadsGood
<1>9. Covers(r, buf, n) <=> n <= Last(q) + 1
  BY <1>7 DEF Covers
<1> HIDE DEF q, q2
<1>10. Last(q2) >= Last(q) /\ Last(q2) \in Nat /\ Last(q) \in Nat
  BY <1>6, <1>7, <1>8 DEF Last
<1>11. n <= Last(q2) + 1
  BY <1>5, <1>9, <1>10
<1> QED BY <1>8, <1>11 DEF Covers, q2, r, n

\* A fetcher loop's steps.
LEMMA LoopBehind ==
  ASSUME IInv, IInv', Delivery, KeepsRing, Behind, NEW p \in Producers,
         Produce(p) \/ Notify(p) \/ Receive(p) \/ ReceiveError(p)
  PROVE  Behind'
<1>1. CASE SourceUp(p) \/ SourceDown(p)
  <2> DEFINE w == prod[p].by
  <2>1. prod[p].pc = "starting" /\ Resume(w) /\ UNCHANGED <<buf, sess, ret>>
    BY <1>1 DEF SourceUp, SourceDown, ring, sessions
  <2>2. w \in Workers /\ job[w].pc = "starting"
    <3>1. prod[p] \in Loops
      BY DEF IInv, TypeOK
    <3> QED BY <2>1, <3>1 DEF IInv, LaunchPaired, At, Loops
  <2> HIDE DEF w
  <2>3. \A v \in Workers : v # w => job'[v] = job[v]
    BY <2>1, <2>2, JobMoves DEF Resume
  <2> QED BY <2>1, <2>2, <2>3, WorkerBehind
<1>2. CASE EmptyBuf(p)
  <2>1. FreshSlots /\ UNCHANGED cid
    BY <1>2 DEF EmptyBuf
  <2>2. cid = 0
    BY <1>2, EmptyOfNothing
  <2> QED BY <2>1, <2>2, FreshBehind
<1>3. CASE Loop(p) \/ ReceiveError(p) \/ Notify(p) \/ EmptyCid(p)
  <2>1. UNCHANGED <<buf, sess, ret, job>>
    BY <1>3 DEF Loop, ReceiveError, Notify, EmptyCid, ring, sessions
  <2> QED BY <2>1, BehindKept
<1>4. CASE Receive(p)
  BY <1>4, ReceiveBehind
<1> QED BY <1>1, <1>2, <1>3, <1>4 DEF Produce

LEMMA BehindStep ==
  /\ OneCallPerClient /\ IInv /\ IInv' /\ Delivery /\ Owned /\ Behind
  /\ [Next]_vars /\ [KeepsRing]_vars
  => Behind'
<1> SUFFICES ASSUME OneCallPerClient, IInv, IInv', Delivery, Owned, Behind,
                    [Next]_vars, [KeepsRing]_vars
             PROVE  Behind'
  OBVIOUS
<1>1. UNCHANGED <<buf, job, sess, ret>> => Behind'
  BY BehindKept
<1>2. ASSUME NEW w \in Workers, Work(w) \/ (\E op \in Ops[w] : Call(w, op)), KeepsRing
      PROVE  Behind'
  BY <1>2, GotBehind, EncodeBehind, EndBehind, CallBehind
<1>3. CASE Run1
  BY <1>3, RunnerBehind
<1>4. ASSUME NEW p \in Producers, KeepsRing,
             Produce(p) \/ Notify(p) \/ Receive(p) \/ ReceiveError(p)
      PROVE  Behind'
  BY <1>4, LoopBehind
<1>5. CASE Tick \/ UNCHANGED vars
  BY <1>1, <1>5 DEF Tick, vars, ring, sessions
<1> QED BY <1>1, <1>2, <1>3, <1>4, <1>5 DEF Next, vars

LEMMA BehindInit == Init => Behind
<1> SUFFICES ASSUME Init PROVE Behind
  OBVIOUS
<1>1. \A w \in Workers : ret[w] = NilRet
  BY DEF Init
<1> QED BY <1>1 DEF Behind

\* The cursor a call moves its session to is not behind the one it has.
LEMMA ReadsForward ==
  ASSUME IInv, Delivery, Behind, NEW w \in Workers, Got(w)
  PROVE  /\ Id(Last(Content(ret[w]))) \in Nat
         /\ Id(Last(Content(ret[w]))) + 1 >= sess[job[w].sid].next
<1>1. At(w, "got") /\ Content(ret[w]) # << >>
  BY DEF Got
<1>2. ret[w] # NilRet
  BY <1>1 DEF Content, NilRet
<1>3. Last(Content(ret[w])) \in Nat
  BY <1>2, ContentGood
<1>4. sess[job[w].sid].next <= Last(Content(ret[w])) + 1
  BY <1>1, <1>2, ContentReads DEF Behind, Covers
<1>5. sess[job[w].sid].next \in Nat
  <2>1. job[w].sid \in SIDs
    BY <1>1 DEF At, IInv, TypeOK, JobsOK, WithSession
  <2> QED BY <2>1, RingTypes
<1> QED BY <1>3, <1>4, <1>5 DEF Id, Zero

\* A step moves no cursor of a session that stays live back.
LEMMA CursorsForward ==
  ASSUME IInv, IInv', Delivery, Behind, [Next]_vars, NEW s \in live \cap live'
  PROVE  sess'[s].next >= sess[s].next
<1>1. /\ sess \in [SIDs -> StreamSessions] /\ s \in SIDs
      /\ sess[s].next \in Nat
  BY RingTypes DEF IInv, TypeOK, SessionsOK
<1>2. ASSUME NEW f, sess' = Kept(f) PROVE sess'[s] = f[s]
  BY <1>1, <1>2 DEF Kept
<1>3. sess'[s].next = sess[s].next => sess'[s].next >= sess[s].next
  BY <1>1
<1>4. ASSUME NEW w \in Workers, Got(w) PROVE sess'[s].next >= sess[s].next
  <2> DEFINE n == Id(Last(Content(ret[w]))) + 1
  <2>1. sess' = [sess EXCEPT ![job[w].sid].next = n]
    BY <1>4 DEF Got
  <2>2. n \in Nat /\ n >= sess[job[w].sid].next
    BY <1>4, ReadsForward
  <2> HIDE DEF n
  <2>3. CASE s = job[w].sid
    <3>1. sess'[s].next = n
      BY <1>1, <2>1, <2>3 DEF StreamSessions
    <3> QED BY <2>2, <2>3, <3>1
  <2>4. CASE s # job[w].sid
    BY <1>1, <1>3, <2>1, <2>4
  <2> QED BY <2>3, <2>4
<1>5. ASSUME NEW w \in Workers, Work(w), ~Got(w) PROVE sess'[s].next = sess[s].next
  <2>1. CASE NewSession(w)
    <3>1. CASE hasBuf
      <4>1. PICK t \in Fresh(w) : sess' = [sess EXCEPT ![t] = [next |-> cid, last |-> 0]]
        BY <2>1, <3>1 DEF NewSession
      <4>2. t # s
        BY <4>1 DEF Fresh
      <4> QED BY <1>1, <4>1, <4>2
    <3>2. CASE ~hasBuf
      BY <2>1, <3>2 DEF NewSession
    <3> QED BY <3>1, <3>2
  <2>2. CASE Touch(w)
    BY <1>1, <2>2 DEF Touch, StreamSessions
  <2>3. CASE GotNothing(w) \/ Deliver(w) \/ Delete(w) \/ StopSweep(w)
    BY <1>2, <2>3 DEF GotNothing, Deliver, Delete, StopSweep, DeleteOld
  <2>4. CASE \/ Launch(w) \/ EnterSession(w) \/ OldSession(w) \/ Reread(w)
             \/ Decide(w) \/ Await(w) \/ Take(w) \/ Mark(w) \/ Push(w)
             \/ Encode(w) \/ StopSource(w) \/ StopLonely(w) \/ StopAgain(w)
    BY <2>4 DEF Launch, EnterSession, OldSession, Reread, Decide,
       Await, Take, Mark, Push, Encode, StopSource, StopLonely, StopAgain, sessions
  <2> QED BY <1>5, <2>1, <2>2, <2>3, <2>4 DEF Work
<1>6. CASE Run1
  BY <1>2, <1>3, <1>6 DEF Run1, Scan, Send, Sweep, DeleteOld, Lonely, StopStream,
                          Timeout, sessions
<1>7. CASE UNCHANGED sess
  BY <1>1, <1>7
<1>8. ASSUME NEW w \in Workers, NEW op \in Ops[w], Call(w, op) PROVE UNCHANGED sess
  BY <1>8 DEF Call, sessions
<1>9. ASSUME NEW p \in Producers,
             Produce(p) \/ Notify(p) \/ Receive(p) \/ ReceiveError(p)
      PROVE  UNCHANGED sess
  BY <1>9 DEF Produce, SourceUp, SourceDown, Loop, EmptyCid, EmptyBuf, Notify,
              Receive, ReceiveError, sessions
<1>10. CASE Tick \/ UNCHANGED vars
  BY <1>7, <1>10 DEF Tick, vars, sessions
<1> QED BY <1>3, <1>4, <1>5, <1>6, <1>7, <1>8, <1>9, <1>10 DEF Next

(***************************************************************************)
(* As long as the ring is kept and each client waits for an answer before  *)
(* it calls again, a session's cursor only moves forward and never past    *)
(* the next message, although Next reads the last id of its result from a  *)
(* slot the fetcher loop may have overwritten by then (stream.go:255,      *)
(* buffer.go:143).                                                         *)
(***************************************************************************)
THEOREM CursorsAdvance ==
  ASSUME OneCallPerClient
  PROVE  Spec /\ RingIsKept => CursorAdvances
<1>1. OneCallPerClient
  OBVIOUS
<1>2. Init => Behind
  BY BehindInit
<1>3. IInv /\ IInv' /\ Delivery /\ Owned /\ Behind /\ [Next]_vars /\ [KeepsRing]_vars
      => Behind'
  BY <1>1, BehindStep
<1>4. Spec /\ RingIsKept => []Behind
  BY <1>2, <1>3, IInvHolds, DeliveryHolds, OwnedHolds, PTL DEF Spec, RingIsKept
<1> DEFINE A == \A s \in live \cap live' : /\ sess'[s].next >= sess[s].next
                                           /\ sess'[s].next <= cid'
<1>5. IInv /\ IInv' /\ Delivery /\ Delivery' /\ Behind /\ [Next]_vars => [A]_vars
  <2> SUFFICES ASSUME IInv, IInv', Delivery, Delivery', Behind, [Next]_vars,
                      NEW s \in live \cap live'
               PROVE  sess'[s].next >= sess[s].next /\ sess'[s].next <= cid'
    OBVIOUS
  <2>1. s \in SIDs
    BY DEF IInv, TypeOK, SessionsOK
  <2>2. sess'[s].next <= cid'
    BY <2>1 DEF Delivery, Cursors
  <2> QED BY <2>2, CursorsForward
<1> QED BY <1>4, <1>5, IInvHolds, DeliveryHolds, PTL DEF Spec, CursorAdvances

\* The same of a stream that starts at once and is never stopped.
THEOREM SteadyAdvances ==
  ASSUME NotRestarted, OneCallPerClient
  PROVE  Spec => CursorAdvances
BY SteadyKeepsRing, CursorsAdvance, PTL
=============================================================================
