--------------------------- MODULE TwitterProofs ---------------------------
(***************************************************************************)
(* Proofs about Twitter, for any number of loops, tweets and any room in   *)
(* the transcoder: no tweet is lost or returned twice, and not all loops   *)
(* are ever kept waiting by a full transcoder, or by an empty one.         *)
(***************************************************************************)
EXTENDS Twitter, FiniteSetTheorems, TLAPS

Placed == Hands \cup queue \cup results \cup returned \cup ignored

\* No tweet is in two places.
Apart ==
  /\ Hands \cap (queue \cup results \cup returned \cup ignored) = {}
  /\ queue \cap (results \cup returned \cup ignored) = {}
  /\ results \cap (returned \cup ignored) = {}
  /\ returned \cap ignored = {}

\* A loop that is about to push holds a tweet of its own.
HandsOK ==
  /\ hand \in [Loops -> Nat]
  /\ \A l \in Loops : hand[l] # 0 <=> pc[l] = "push"
  /\ \A l, m \in Loops : hand[l] # 0 /\ hand[l] = hand[m] => l = m

\* The inductive invariant: TypeOK with the places apart instead of counted.
IInv ==
  /\ conn \in {"nil", "open", "closed"}
  /\ pc \in [Loops -> {"idle", "loop", "get", "read", "push"}]
  /\ read \in 0 .. MaxTweets
  /\ HandsOK
  /\ Placed = 1 .. read
  /\ Apart

\* What a loop holds is a tweet that was read.
LEMMA HandRead ==
  ASSUME IInv, NEW l \in Loops, hand[l] # 0
  PROVE  hand[l] \in Hands /\ hand[l] \in 1 .. read
  BY DEF IInv, Placed, Hands, HandsOK

\* A loop without a tweet picks up a new one.
LEMMA TakeHand ==
  ASSUME HandsOK, NEW l \in Loops, NEW t \in Nat \ {0}, hand[l] = 0,
         hand' = [hand EXCEPT ![l] = t]
  PROVE  Hands' = Hands \cup {t}
<1>1. \A m \in Loops : hand'[m] = IF m = l THEN t ELSE hand[m]
  BY DEF HandsOK
<1>2. Hands' = {hand'[m] : m \in Loops} \ {0}
  BY DEF Hands
<1> QED BY <1>1, <1>2 DEF Hands

\* A loop lets go of its tweet, which no other loop holds.
LEMMA DropHand ==
  ASSUME HandsOK, NEW l \in Loops, hand[l] # 0,
         hand' = [hand EXCEPT ![l] = 0]
  PROVE  Hands' = Hands \ {hand[l]}
<1>1. \A m \in Loops : hand'[m] = IF m = l THEN 0 ELSE hand[m]
  BY DEF HandsOK
<1>2. Hands' = {hand'[m] : m \in Loops} \ {0}
  BY DEF Hands
<1>3. \A m \in Loops : hand[m] = hand[l] => m = l
  BY DEF HandsOK
<1> QED BY <1>1, <1>2, <1>3 DEF Hands

LEMMA InitIInv == Init => IInv
<1> SUFFICES ASSUME Init PROVE IInv
  OBVIOUS
<1>1. Hands = {}
  BY DEF Init, Hands
<1>2. 1 .. 0 = {}
  OBVIOUS
<1>3. 0 \in 0 .. MaxTweets
  BY TwitterAssumption DEF TwitterAssumption
<1> QED BY <1>1, <1>2, <1>3 DEF Init, IInv, HandsOK, Placed, Apart

LEMMA NextIInv == IInv /\ [Next]_vars => IInv'
<1> SUFFICES ASSUME IInv, [Next]_vars PROVE IInv'
  OBVIOUS
<1> USE DEF IInv
<1>1. CASE UNCHANGED vars
  BY <1>1 DEF vars, HandsOK, Placed, Apart, Hands
<1>2. ASSUME NEW l \in Loops, Begin(l) PROVE IInv'
  BY <1>2 DEF Begin, To, HandsOK, Placed, Apart, Hands
<1>3. ASSUME NEW l \in Loops, Poll(l) PROVE IInv'
  BY <1>3 DEF Poll, To, HandsOK, Placed, Apart, Hands
<1>4. ASSUME NEW l \in Loops, Get(l) PROVE IInv'
  <2>1. Hands' = Hands /\ HandsOK'
    BY <1>4 DEF Get, To, HandsOK, Hands
  <2>2. PICK t \in results : returned' = returned \cup {t}
                               /\ results' = results \ {t}
    BY <1>4 DEF Get
  <2>3. Placed' = 1 .. read /\ Apart'
    BY <1>4, <2>1, <2>2 DEF Get, Placed, Apart
  <2> QED BY <1>4, <2>1, <2>3 DEF Get, To
<1>5. ASSUME NEW l \in Loops, Read(l) PROVE IInv'
  <2>1. /\ read \in Nat /\ read' = read + 1 /\ read' \in 0 .. MaxTweets
        /\ 1 .. read' = (1 .. read) \cup {read + 1}
        /\ read + 1 \notin Placed
    BY <1>5, TwitterAssumption DEF Read, TwitterAssumption
  <2>2. hand[l] = 0
    BY <1>5 DEF Read, HandsOK
  <2>3. CASE \E s \in {"loop", "idle"} : To(l, s)
    <3>1. CASE ignored' = ignored \cup {read + 1} /\ UNCHANGED <<hand, returned>>
      <4>1. HandsOK' /\ Hands' = Hands
        BY <1>5, <2>3, <3>1 DEF Read, To, HandsOK, Hands
      <4>2. Placed' = 1 .. read' /\ Apart'
        BY <1>5, <2>1, <3>1, <4>1 DEF Read, Placed, Apart
      <4> QED BY <1>5, <2>1, <2>3, <4>1, <4>2 DEF Read, To
    <3>2. CASE returned' = returned \cup {read + 1} /\ UNCHANGED <<hand, ignored>>
      <4>1. HandsOK' /\ Hands' = Hands
        BY <1>5, <2>3, <3>2 DEF Read, To, HandsOK, Hands
      <4>2. Placed' = 1 .. read' /\ Apart'
        BY <1>5, <2>1, <3>2, <4>1 DEF Read, Placed, Apart
      <4> QED BY <1>5, <2>1, <2>3, <4>1, <4>2 DEF Read, To
    <3> QED BY <1>5, <2>3, <3>1, <3>2 DEF Read, To
  <2>4. CASE /\ To(l, "push")
             /\ hand' = [hand EXCEPT ![l] = read + 1]
             /\ UNCHANGED <<returned, ignored>>
    <3>1. Hands' = Hands \cup {read + 1}
      <4>1. read + 1 \in Nat \ {0}
        BY <2>1
      <4> QED BY <2>2, <2>4, <4>1, TakeHand
    <3>2. \A m \in Loops : hand[m] # read + 1
      BY <2>1, HandRead DEF Placed
    <3>3. HandsOK'
      BY <1>5, <2>1, <2>4, <3>2 DEF Read, To, HandsOK
    <3>4. Placed' = 1 .. read' /\ Apart'
      BY <1>5, <2>1, <2>4, <3>1 DEF Read, Placed, Apart
    <3> QED BY <1>5, <2>1, <2>4, <3>3, <3>4 DEF Read, To
  <2> QED BY <1>5, <2>3, <2>4 DEF Read
<1>6. ASSUME NEW l \in Loops, ReadError(l) PROVE IInv'
  BY <1>6 DEF ReadError, To, HandsOK, Placed, Apart, Hands
<1>7. ASSUME NEW l \in Loops, Push(l) PROVE IInv'
  <2>1. hand[l] # 0 /\ hand[l] \in Hands
    BY <1>7, HandRead DEF Push, HandsOK
  <2>2. Hands' = Hands \ {hand[l]}
    BY <1>7, <2>1, DropHand DEF Push
  <2>3. HandsOK'
    BY <1>7 DEF Push, To, HandsOK
  <2>4. Placed' = 1 .. read' /\ Apart'
    BY <1>7, <2>1, <2>2 DEF Push, Placed, Apart
  <2> QED BY <1>7, <2>3, <2>4 DEF Push, To
<1>8. CASE Transcode
  <2>1. Hands' = Hands /\ HandsOK'
    BY <1>8 DEF Transcode, HandsOK, Hands
  <2>2. PICK t \in queue : queue' = queue \ {t} /\ results' = results \cup {t}
    BY <1>8 DEF Transcode
  <2>3. Placed' = 1 .. read' /\ Apart'
    BY <1>8, <2>1, <2>2 DEF Transcode, Placed, Apart
  <2> QED BY <1>8, <2>1, <2>3 DEF Transcode
<1>9. CASE Start \/ Close
  BY <1>9 DEF Start, Close, HandsOK, Placed, Apart, Hands
<1> QED BY <1>1, <1>2, <1>3, <1>4, <1>5, <1>6, <1>7, <1>8, <1>9
        DEF Next, NextCall

\* Two finite sets that are apart.
LEMMA CardApart ==
  ASSUME NEW S, NEW T, IsFiniteSet(S), IsFiniteSet(T), S \cap T = {}
  PROVE  /\ IsFiniteSet(S \cup T)
         /\ Cardinality(S \cup T) = Cardinality(S) + Cardinality(T)
<1>1. Cardinality(S) \in Nat /\ Cardinality(T) \in Nat
  BY FS_CardinalityType
<1> QED BY <1>1, FS_Union, FS_EmptySet

LEMMA PlacesFinite ==
  ASSUME IInv
  PROVE  /\ IsFiniteSet(1 .. read) /\ Cardinality(1 .. read) = read
         /\ IsFiniteSet(Hands) /\ IsFiniteSet(queue) /\ IsFiniteSet(results)
         /\ IsFiniteSet(returned) /\ IsFiniteSet(ignored)
<1>1. read \in Nat
  BY TwitterAssumption DEF IInv, TwitterAssumption
<1>2. IsFiniteSet(1 .. read) /\ Cardinality(1 .. read) = read
  BY <1>1, FS_Interval
<1>3. \A S \in SUBSET (1 .. read) : IsFiniteSet(S)
  BY <1>2, FS_Subset
<1>4. /\ Hands \in SUBSET (1 .. read) /\ queue \in SUBSET (1 .. read)
      /\ results \in SUBSET (1 .. read) /\ returned \in SUBSET (1 .. read)
      /\ ignored \in SUBSET (1 .. read)
  BY DEF IInv, Placed
<1> QED BY <1>2, <1>3, <1>4

LEMMA IInvTypes == IInv => TypeOK
<1> SUFFICES ASSUME IInv PROVE TypeOK
  OBVIOUS
<1> DEFINE A == returned \cup ignored
           B == results \cup A
           C == queue \cup B
<1>1. /\ IsFiniteSet(1 .. read) /\ Cardinality(1 .. read) = read
      /\ IsFiniteSet(Hands) /\ IsFiniteSet(queue) /\ IsFiniteSet(results)
      /\ IsFiniteSet(returned) /\ IsFiniteSet(ignored)
  BY PlacesFinite
<1>2. /\ Hands \cap C = {} /\ queue \cap B = {} /\ results \cap A = {}
      /\ returned \cap ignored = {} /\ Hands \cup C = 1 .. read
  BY DEF IInv, Apart, Placed
<1>3. IsFiniteSet(A)
        /\ Cardinality(A) = Cardinality(returned) + Cardinality(ignored)
  BY <1>1, <1>2, CardApart
<1> HIDE DEF A
<1>4. IsFiniteSet(B) /\ Cardinality(B) = Cardinality(results) + Cardinality(A)
  BY <1>1, <1>2, <1>3, CardApart
<1> HIDE DEF B
<1>5. IsFiniteSet(C) /\ Cardinality(C) = Cardinality(queue) + Cardinality(B)
  BY <1>1, <1>2, <1>4, CardApart
<1> HIDE DEF C
<1>6. Cardinality(Hands \cup C) = Cardinality(Hands) + Cardinality(C)
  BY <1>1, <1>2, <1>5, CardApart
<1>7. /\ Cardinality(Hands) \in Nat /\ Cardinality(queue) \in Nat
      /\ Cardinality(results) \in Nat /\ Cardinality(returned) \in Nat
      /\ Cardinality(ignored) \in Nat
  BY <1>1, FS_CardinalityType
<1>8. Cardinality(Hands) + Cardinality(queue) + Cardinality(results)
        + Cardinality(returned) + Cardinality(ignored) = read
  <2>1. Cardinality(Hands) + Cardinality(C) = read
    BY <1>1, <1>2, <1>6
  <2> QED BY <1>3, <1>4, <1>5, <1>7, <2>1
<1>9. /\ \A l \in Loops : hand[l] # 0 <=> l \in Pushers
      /\ \A l, m \in Pushers : hand[l] = hand[m] => l = m
  BY DEF IInv, HandsOK, Pushers
<1> QED BY <1>8, <1>9 DEF TypeOK, IInv, Placed

\* Every tweet that was read is in one place - held by a loop, with the
\* transcoder, returned or ignored - whatever loops and workers do at once.
THEOREM TypeCorrect == Spec => []TypeOK
<1>1. Spec => []IInv
  BY InitIInv, NextIInv, PTL DEF Spec
<1> QED BY <1>1, IInvTypes, PTL

-----------------------------------------------------------------------------
(* Who waits in Push.                                                      *)

LEMMA BelowFinite ==
  ASSUME NEW n \in Nat, NEW S \in SUBSET (1 .. n)
  PROVE  IsFiniteSet(S) /\ Cardinality(S) \in Nat
<1>1. IsFiniteSet(1 .. n)
  BY FS_Interval
<1>2. IsFiniteSet(S)
  BY <1>1, FS_Subset
<1> QED BY <1>2, FS_CardinalityType

LEMMA OfLoops ==
  ASSUME NEW S \in SUBSET Loops
  PROVE  /\ IsFiniteSet(S) /\ Cardinality(S) \in Nat
         /\ Cardinality(Loops) \in Nat /\ Cardinality(Loops) # 0
         /\ Cardinality(S) <= Cardinality(Loops)
<1>1. IsFiniteSet(Loops) /\ Loops # {}
  BY TwitterAssumption DEF TwitterAssumption
<1>2. IsFiniteSet(S) /\ Cardinality(S) <= Cardinality(Loops)
  BY <1>1, FS_Subset
<1>3. Cardinality(S) \in Nat /\ Cardinality(Loops) \in Nat
  BY <1>1, <1>2, FS_CardinalityType
<1>4. Cardinality(Loops) # 0
  BY <1>1, FS_EmptySet
<1> QED BY <1>2, <1>3, <1>4

LEMMA InitPushers == Init => PushersBounded
<1> SUFFICES ASSUME Init PROVE PushersBounded
  OBVIOUS
<1>1. Pushers = {} /\ queue = {}
  BY DEF Init, Pushers
<1>2. Cardinality(Pushers) = 0 /\ Cardinality(queue) = 0
  BY <1>1, FS_EmptySet
<1>3. Cardinality(Loops) \in Nat /\ Cardinality(Loops) # 0
  BY OfLoops
<1> QED BY <1>2, <1>3, TwitterAssumption DEF PushersBounded, TwitterAssumption

LEMMA NextPushers ==
  IInv /\ IInv' /\ PushersBounded /\ [Next]_vars => PushersBounded'
<1> SUFFICES ASSUME IInv, IInv', PushersBounded, [Next]_vars
             PROVE  PushersBounded'
  OBVIOUS
<1>1. /\ IsFiniteSet(queue) /\ Cardinality(queue) \in Nat
      /\ IsFiniteSet(queue') /\ Cardinality(queue') \in Nat
  <2>1. /\ read \in Nat /\ queue \in SUBSET (1 .. read)
        /\ read' \in Nat /\ queue' \in SUBSET (1 .. read')
    BY TwitterAssumption DEF TwitterAssumption, IInv, Placed
  <2> QED BY <2>1, BelowFinite
<1>2. /\ IsFiniteSet(Pushers) /\ Cardinality(Pushers) \in Nat
      /\ Cardinality(Loops) \in Nat /\ Cardinality(Loops) # 0
      /\ Cardinality(Pushers') \in Nat
      /\ Cardinality(Pushers') <= Cardinality(Loops)
      /\ Buffer \in Nat
  <2>1. Pushers \in SUBSET Loops /\ Pushers' \in SUBSET Loops
    BY DEF Pushers
  <2> QED BY <2>1, OfLoops, TwitterAssumption DEF TwitterAssumption
<1>3. ASSUME queue' \subseteq queue, Pushers' \subseteq Pushers
      PROVE  PushersBounded'
  <2>1. Cardinality(queue') <= Cardinality(queue)
    BY <1>1, <1>3, FS_Subset
  <2>2. Cardinality(Pushers') <= Cardinality(Pushers)
    BY <1>2, <1>3, FS_Subset
  <2> QED BY <1>1, <1>2, <2>1, <2>2 DEF PushersBounded
<1>4. pc \in [Loops -> {"idle", "loop", "get", "read", "push"}]
  BY DEF IInv
<1>5. CASE UNCHANGED vars
  BY <1>3, <1>5 DEF vars, Pushers
<1>6. ASSUME NEW l \in Loops, Begin(l) \/ Poll(l) \/ Get(l) \/ ReadError(l)
      PROVE  PushersBounded'
  BY <1>3, <1>4, <1>6 DEF Begin, Poll, Get, ReadError, To, Pushers
\* Only a loop that saw room in the transcoder comes to Push, so even if all
\* the others are there already the bound holds.
<1>7. ASSUME NEW l \in Loops, Read(l) PROVE PushersBounded'
  <2>1. CASE \E s \in {"loop", "idle"} : To(l, s)
    BY <1>3, <1>4, <1>7, <2>1 DEF Read, To, Pushers
  <2>2. CASE ~Full
    BY <1>1, <1>2, <1>7, <2>2 DEF Read, Full, PushersBounded
  <2> QED BY <1>7, <2>1, <2>2 DEF Read
<1>8. ASSUME NEW l \in Loops, Push(l) PROVE PushersBounded'
  <2>1. Pushers' = Pushers \ {l} /\ l \in Pushers
    BY <1>4, <1>8 DEF Push, To, Pushers
  <2>2. Cardinality(Pushers') = Cardinality(Pushers) - 1
    BY <1>2, <2>1, FS_RemoveElement
  <2>3. queue' = queue \cup {hand[l]}
    BY <1>8 DEF Push
  <2>4. Cardinality(queue') <= Cardinality(queue) + 1
    BY <1>1, <2>3, FS_AddElement
  <2> QED BY <1>1, <1>2, <2>2, <2>4 DEF PushersBounded
<1>9. CASE Transcode \/ Start \/ Close
  BY <1>3, <1>9 DEF Transcode, Start, Close, Pushers
<1> QED BY <1>5, <1>6, <1>7, <1>8, <1>9 DEF Next, NextCall

Bounded == IInv /\ PushersBounded

\* A full transcoder keeps at most all loops but one waiting, for every
\* number of loops and every size of its queue: a lone loop never blocks.
THEOREM PushersStayBounded == Spec => []PushersBounded
<1>1. Init => Bounded
  BY InitIInv, InitPushers DEF Bounded
<1>2. Bounded /\ [Next]_vars => Bounded'
  BY NextIInv, NextPushers DEF Bounded
<1>3. Bounded => PushersBounded
  BY DEF Bounded
<1> QED BY <1>1, <1>2, <1>3, PTL DEF Spec

-----------------------------------------------------------------------------
(* Who waits in Get.                                                       *)

LEMMA InitGetters == Init => GettersBounded
<1> SUFFICES ASSUME Init PROVE GettersBounded
  OBVIOUS
<1>1. Getters = {} /\ results = {}
  BY DEF Init, Getters
<1>2. Cardinality(Getters) = 0 /\ Cardinality(results) = 0
  BY <1>1, FS_EmptySet
<1>3. Cardinality(Loops) \in Nat /\ Cardinality(Loops) # 0
  BY OfLoops
<1> QED BY <1>2, <1>3 DEF GettersBounded

LEMMA NextGetters ==
  IInv /\ IInv' /\ GettersBounded /\ [Next]_vars => GettersBounded'
<1> SUFFICES ASSUME IInv, IInv', GettersBounded, [Next]_vars
             PROVE  GettersBounded'
  OBVIOUS
<1>1. /\ IsFiniteSet(results) /\ Cardinality(results) \in Nat
      /\ IsFiniteSet(results') /\ Cardinality(results') \in Nat
  <2>1. /\ read \in Nat /\ results \in SUBSET (1 .. read)
        /\ read' \in Nat /\ results' \in SUBSET (1 .. read')
    BY TwitterAssumption DEF TwitterAssumption, IInv, Placed
  <2> QED BY <2>1, BelowFinite
<1>2. /\ IsFiniteSet(Getters) /\ Cardinality(Getters) \in Nat
      /\ Cardinality(Loops) \in Nat /\ Cardinality(Loops) # 0
      /\ Cardinality(Getters') \in Nat
      /\ Cardinality(Getters') <= Cardinality(Loops)
  <2>1. Getters \in SUBSET Loops /\ Getters' \in SUBSET Loops
    BY DEF Getters
  <2> QED BY <2>1, OfLoops
<1>3. ASSUME results \subseteq results', Getters' \subseteq Getters
      PROVE  GettersBounded'
  <2>1. Cardinality(results) <= Cardinality(results')
    BY <1>1, <1>3, FS_Subset
  <2>2. Cardinality(Getters') <= Cardinality(Getters)
    BY <1>2, <1>3, FS_Subset
  <2> QED BY <1>1, <1>2, <2>1, <2>2 DEF GettersBounded
<1>4. pc \in [Loops -> {"idle", "loop", "get", "read", "push"}]
  BY DEF IInv
<1>5. CASE UNCHANGED vars
  BY <1>3, <1>5 DEF vars, Getters
<1>6. ASSUME NEW l \in Loops, Begin(l) \/ Read(l) \/ ReadError(l) \/ Push(l)
      PROVE  GettersBounded'
  BY <1>3, <1>4, <1>6 DEF Begin, Read, ReadError, Push, To, Getters
\* Only a loop that saw a result comes to Get, so even if all the others are
\* there already one of them can have it.
<1>7. ASSUME NEW l \in Loops, Poll(l) PROVE GettersBounded'
  <2>1. CASE results = {}
    BY <1>3, <1>4, <1>7, <2>1 DEF Poll, To, Getters
  <2>2. CASE results # {}
    <3>1. Cardinality(results) # 0
      BY <1>1, <2>2, FS_EmptySet
    <3>2. results' = results
      BY <1>7 DEF Poll
    <3> QED BY <1>1, <1>2, <3>1, <3>2 DEF GettersBounded
  <2> QED BY <2>1, <2>2
<1>8. ASSUME NEW l \in Loops, Get(l) PROVE GettersBounded'
  <2>1. Getters' = Getters \ {l} /\ l \in Getters
    BY <1>4, <1>8 DEF Get, To, Getters
  <2>2. Cardinality(Getters') = Cardinality(Getters) - 1
    BY <1>2, <2>1, FS_RemoveElement
  <2>3. PICK t \in results : results' = results \ {t}
    BY <1>8 DEF Get
  <2>4. Cardinality(results') = Cardinality(results) - 1
    BY <1>1, <2>3, FS_RemoveElement
  <2> QED BY <1>1, <1>2, <2>2, <2>4 DEF GettersBounded
<1>9. CASE Transcode \/ Start \/ Close
  BY <1>3, <1>9 DEF Transcode, Start, Close, Getters
<1> QED BY <1>5, <1>6, <1>7, <1>8, <1>9 DEF Next, NextCall

\* If all the loops there are wait for a result, there is one to take, for
\* every number of loops: a lone loop never blocks between Ready and Get.
THEOREM GettersStayBounded == Spec => []GettersBounded
<1> DEFINE Inv == IInv /\ GettersBounded
<1>1. Init => Inv
  BY InitIInv, InitGetters
<1>2. Inv /\ [Next]_vars => Inv'
  BY NextIInv, NextGetters
<1>3. Inv => GettersBounded
  OBVIOUS
<1> HIDE DEF Inv
<1> QED BY <1>1, <1>2, <1>3, PTL DEF Spec
=============================================================================
