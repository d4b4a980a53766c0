-------------------------- MODULE BufferOpsProofs --------------------------
(***************************************************************************)
(* The arithmetic of the ring, for every Size: which slot an id has, how   *)
(* far a run reaches and what it serves.  Used by BufferProofs and         *)
(* StreamProofs.                                                           *)
(***************************************************************************)
EXTENDS BufferOps, TLAPS

-----------------------------------------------------------------------------
(* Slots.                                                                  *)

\* Slot lands in the ring.
LEMMA SlotType == \A id \in Int : Slot(id) \in Slots /\ Slot(id) \in Int
BY SizeAssumption, SMT DEF Slot, Slots

\* An id is a whole number of rounds plus its slot.
LEMMA SlotRounds ==
  ASSUME NEW id \in Int
  PROVE  \E q \in Int : id = Size * q + Slot(id)
<1>1. id = Size * (id \div Size) + (id % Size)
  BY SizeAssumption, SMT
<1>2. id \div Size \in Int
  BY SizeAssumption, SMT
<1> QED BY <1>1, <1>2 DEF Slot

\* A whole number of rounds plus an offset inside the ring: the offset is
\* unique.
LEMMA RoundsUnique ==
  ASSUME NEW q1 \in Int, NEW q2 \in Int, NEW a \in Slots, NEW b \in Slots,
         Size * q1 + a = Size * q2 + b
  PROVE  a = b
<1> USE SizeAssumption DEF Slots
<1>1. Size * (q2 - q1) = a - b
  BY SMT
<1>2. CASE q2 - q1 >= 1
  <2>1. Size * (q2 - q1) >= Size BY <1>2, SMT
  <2> QED BY <1>1, <2>1, SMT
<1>3. CASE q2 - q1 =< -1
  <2>1. Size * (q2 - q1) =< -Size BY <1>3, SMT
  <2> QED BY <1>1, <2>1, SMT
<1>4. CASE q2 - q1 = 0
  BY <1>1, <1>4, SMT
<1> QED BY <1>2, <1>3, <1>4, SMT

\* A number that is some rounds plus an offset inside the ring has that slot.
LEMMA SlotIs ==
  ASSUME NEW id \in Int, NEW q \in Int, NEW a \in Slots, id = Size * q + a
  PROVE  Slot(id) = a
<1>1. PICK p \in Int : id = Size * p + Slot(id)
  BY SlotRounds
<1> QED BY <1>1, SlotType, RoundsUnique

\* Two ids less than a round apart share no slot.
LEMMA SlotDistinct ==
  ASSUME NEW a \in Int, NEW b \in Int, a < b, b - a < Size
  PROVE  Slot(a) # Slot(b)
<1> SUFFICES ASSUME Slot(a) = Slot(b) PROVE FALSE
  OBVIOUS
<1>1. PICK p \in Int : a = Size * p + Slot(a)
  BY SlotRounds
<1>2. PICK q \in Int : b = Size * q + Slot(b)
  BY SlotRounds
<1>3. b - a = Size * (q - p)
  BY <1>1, <1>2, SlotType, SizeAssumption, SMT
<1>4. CASE q - p >= 1
  <2>1. Size * (q - p) >= Size BY <1>4, SizeAssumption, SMT
  <2> QED BY <1>3, <2>1, SizeAssumption, SMT
<1>5. CASE q - p =< 0
  <2>1. Size * (q - p) =< 0 BY <1>5, SizeAssumption, SMT
  <2> QED BY <1>3, <2>1, SMT
<1> QED BY <1>4, <1>5, SMT

\* Reducing a number to its slot first changes no slot computed from it.
LEMMA SlotOffset ==
  ASSUME NEW n \in Int, NEW j \in Int
  PROVE  /\ Slot(Slot(n) - j) = Slot(n - j)
         /\ Slot((Size + Slot(n)) - j) = Slot(n - j)
<1> DEFINE t == Slot(n - j)
<1>1. t \in Slots /\ t \in Int /\ Slot(n) \in Int
  BY SlotType
<1>2. PICK p \in Int : n = Size * p + Slot(n)
  BY SlotRounds
<1>3. PICK q \in Int : n - j = Size * q + t
  BY SlotRounds
<1> HIDE DEF t
<1>4. Slot(n) - j = Size * (q - p) + t
  BY <1>1, <1>2, <1>3, SizeAssumption, SMT
<1>5. (Size + Slot(n)) - j = Size * ((q - p) + 1) + t
  <2>1. Size * ((q - p) + 1) = Size * (q - p) + Size
    BY SizeAssumption, SMT
  <2> DEFINE w == Size * (q - p)
  <2>2. w \in Int
    BY SizeAssumption, SMT
  <2>3. Slot(n) - j = w + t
    BY <1>4
  <2> HIDE DEF w
  <2>4. (Size + Slot(n)) - j = (w + Size) + t
    BY <2>2, <2>3, <1>1, SizeAssumption, SMT
  <2> QED BY <2>1, <2>4 DEF w
<1>6. Slot(Slot(n) - j) = t
  BY <1>1, <1>4, SlotIs
<1>7. (Size + Slot(n)) - j \in Int /\ (q - p) + 1 \in Int
  BY <1>1, SizeAssumption
<1>8. Slot((Size + Slot(n)) - j) = t
  BY <1>1, <1>5, <1>7, SlotIs
<1> QED BY <1>6, <1>8 DEF t

-----------------------------------------------------------------------------
(* What a Fetch serves.                                                    *)

\* How far a run reaches: it is as long as the ids asked for, or as the ring.
LEMMA RunReaches ==
  ASSUME NEW id \in Nat, NEW n \in Nat, id <= n
  PROVE  /\ RunLength(n, id) \in Nat
         /\ RunLength(n, id) = n - id + 1 \/ RunLength(n, id) = Size
         /\ n - id >= Size => RunLength(n, id) = Size
<1> USE SizeAssumption
<1> DEFINE from == Slot(id)
           to == Slot(n)
<1>1. from \in 0 .. Size - 1 /\ to \in 0 .. Size - 1
  BY SlotType DEF Slots
<1>0. id \in Int /\ n \in Int
  OBVIOUS
<1>2. PICK p \in Int : id = Size * p + Slot(id)
  BY <1>0, SlotRounds, Zenon
<1>3. PICK q \in Int : n = Size * q + Slot(n)
  BY <1>0, SlotRounds, Zenon
<1>4. n - id = Size * (q - p) + (to - from)
  <2>1. Size * (q - p) = Size * q - Size * p
    BY SMT
  <2> DEFINE sp == Size * p
             sq == Size * q
  <2>2. sp \in Int /\ sq \in Int
    BY SMT
  <2>3. id = sp + from /\ n = sq + to
    BY <1>2, <1>3
  <2> HIDE DEF sp, sq, from, to
  <2>4. n - id = (sq - sp) + (to - from)
    BY <1>1, <2>2, <2>3, SMT
  <2> QED BY <2>1, <2>4 DEF sp, sq
<1>5. n = 0 => (id = 0 /\ from = to)
  BY SMT
<1> HIDE DEF from, to
<1>6. CASE n - id > Distance(from, to)
  <2>1. From(n, id) = to + 1
    BY <1>6 DEF From, from, to
  <2>2. n # 0
    BY <1>1, <1>5, <1>6 DEF Distance
  <2>3. RunLength(n, id) = Size
    BY <1>1, <2>1, <2>2 DEF RunLength, Copied, to
  <2> QED BY <2>3
<1>7. CASE ~(n - id > Distance(from, to))
  <2>1. From(n, id) = from
    BY <1>7 DEF From, from, to
  <2>2. n - id < Size
    BY <1>1, <1>7 DEF Distance
  <2>3. CASE from > to
    <3>1. RunLength(n, id) = (Size - from) + to + 1
      BY <1>1, <1>5, <2>1, <2>3 DEF RunLength, Copied, to
    <3>2. q - p = 1
      <4>1. CASE q - p >= 2
        <5>1. Size * (q - p) >= Size + Size
          BY <4>1, SMT
        <5> QED BY <1>1, <1>4, <2>2, <5>1, SMT
      <4>2. CASE q - p <= 0
        <5>1. Size * (q - p) <= 0
          BY <4>2, SMT
        <5> QED BY <1>1, <1>4, <2>3, <5>1, SMT
      <4> QED BY <4>1, <4>2, SMT
    <3>3. Size * (q - p) = Size
      BY <3>2, SMT
    <3> QED BY <1>1, <1>4, <2>2, <2>3, <3>1, <3>3, SMT
  <2>4. CASE ~(from > to)
    <3>1. RunLength(n, id) = (to + 1) - from
      BY <1>1, <2>1, <2>4 DEF RunLength, Copied, to
    <3>2. q - p = 0
      <4>1. CASE q - p >= 1
        <5>1. Size * (q - p) >= Size
          BY <4>1, SMT
        <5> QED BY <1>1, <1>4, <2>2, <2>4, <5>1, SMT
      <4>2. CASE q - p <= -1
        <5>1. Size * (q - p) <= -Size
          BY <4>2, SMT
        <5> QED BY <1>1, <1>4, <5>1, SMT
      <4> QED BY <4>1, <4>2, SMT
    <3>3. Size * (q - p) = 0
      BY <3>2, SMT
    <3> QED BY <1>1, <1>4, <2>2, <2>4, <3>1, <3>3, SMT
  <2> QED BY <2>3, <2>4
<1> QED BY <1>6, <1>7

\* Counted from its end, a run serves the slots of n, n - 1, n - 2, ...
LEMMA RunEndsAt ==
  ASSUME NEW id \in Nat, NEW n \in Nat, id <= n,
         NEW j \in Nat, j < RunLength(n, id)
  PROVE  /\ Len(Run(n, id)) = RunLength(n, id)
         /\ RunLength(n, id) - j \in DOMAIN Run(n, id)
         /\ Run(n, id)[RunLength(n, id) - j] = Slot(n - j)
<1> USE SizeAssumption
<1> DEFINE L == RunLength(n, id)
           f == From(n, id)
           t == Slot(n)
<1>1. L \in Nat
  BY RunReaches
<1>2. f \in Int /\ t \in Int
  BY SlotType DEF From
<1>3. L - j \in 1 .. L
  BY <1>1
<1>4. Len(Run(n, id)) = L /\ DOMAIN Run(n, id) = 1 .. L
  BY <1>1 DEF Run
<1>5. Run(n, id)[L - j] = Slot(f + ((L - j) - 1))
  BY <1>3 DEF Run
<1>6. f + ((L - j) - 1) = (Size + t) - j \/ f + ((L - j) - 1) = t - j
  <2>1. L = (Size - f) + t + 1 \/ L = (t + 1) - f
    BY DEF RunLength
  <2> HIDE DEF L, f, t
  <2> QED BY <1>1, <1>2, <2>1
<1>7. Slot(t - j) = Slot(n - j) /\ Slot((Size + t) - j) = Slot(n - j)
  BY SlotOffset
<1> HIDE DEF L, f, t
<1>8. Slot(f + ((L - j) - 1)) = Slot(n - j)
  BY <1>6, <1>7
<1> QED BY <1>3, <1>4, <1>5, <1>8 DEF L

\* An uninterrupted Fetch serves all the ids from the one asked for to the
\* newest, as far back as the ring still holds them.
LEMMA RunServes ==
  ASSUME NEW c \in Nat, NEW id \in Nat, NEW limit \in Nat, id < c,
         Oldest(c) <= Newest(c, id, limit),
         NEW k \in Int, id <= k, Oldest(c) <= k, k <= Newest(c, id, limit)
  PROVE  LET n == Newest(c, id, limit)
             run == Run(n, id)
         IN /\ Len(run) - (n - k) \in DOMAIN run
            /\ run[Len(run) - (n - k)] = Slot(k)
<1> USE SizeAssumption
<1> DEFINE n == Newest(c, id, limit)
<1>1. n \in Nat /\ id <= n /\ n <= c - 1
  BY DEF Newest
<1>2. n - k \in Nat /\ n - (n - k) = k /\ n - k < Size
  BY <1>1 DEF Oldest
<1>3. n - k < RunLength(n, id)
  <2>1. RunLength(n, id) = n - id + 1 \/ RunLength(n, id) = Size
    BY <1>1, RunReaches
  <2> HIDE DEF n
  <2> QED BY <1>1, <1>2, <2>1
<1> HIDE DEF n
<1>4. /\ Len(Run(n, id)) = RunLength(n, id)
      /\ RunLength(n, id) - (n - k) \in DOMAIN Run(n, id)
      /\ Run(n, id)[RunLength(n, id) - (n - k)] = Slot(n - (n - k))
  BY <1>1, <1>2, <1>3, RunEndsAt
<1> QED BY <1>2, <1>4 DEF n

(***************************************************************************)
(* A run is a sequence of slots whenever the asked id is at most one ahead *)
(* of the newest, which Rejected sees to; the slice is never out of bounds.*)
(***************************************************************************)
LEMMA RunType ==
  ASSUME NEW id \in Nat, NEW n \in Int, n = 0 => id <= 1
  PROVE  /\ InBounds(n, id)
         /\ RunLength(n, id) \in Nat
         /\ Run(n, id) \in Seq(Slots)
         /\ Len(Run(n, id)) = RunLength(n, id)
<1> USE SizeAssumption
<1>1. Slot(id) \in 0 .. Size - 1 /\ Slot(n) \in 0 .. Size - 1
  BY SlotType DEF Slots
<1>2. n = 0 => Slot(id) <= Slot(n) + 1
  <2>1. CASE Size = 1
    BY <1>1, <2>1
  <2>2. CASE Size > 1
    BY <2>2 DEF Slot
  <2> QED BY <2>1, <2>2
<1>3. From(n, id) \in Int
  BY <1>1 DEF From
<1>4. InBounds(n, id)
  BY <1>1, <1>2 DEF InBounds, Copied, From
<1>5. RunLength(n, id) \in Nat
  BY <1>1, <1>4 DEF RunLength, InBounds, Copied, From
<1>6. \A i \in 1 .. RunLength(n, id) : Slot(From(n, id) + (i - 1)) \in Slots
  BY <1>3, <1>5, SlotType
<1>7. Run(n, id) \in [1 .. RunLength(n, id) -> Slots]
  BY <1>6 DEF Run
<1> HIDE DEF Run
<1> QED BY <1>4, <1>5, <1>7
=============================================================================
