-------------------------- MODULE CallQueueProofs --------------------------
(***************************************************************************)
(* Proofs about CallQueue, for every limit and any number of calls: no     *)
(* call is lost or in two places, the limit holds, no slot is free while a *)
(* call waits, and no call overtakes another.                              *)
(***************************************************************************)
EXTENDS CallQueue, SequenceTheorems, FiniteSetTheorems, TLAPS

Elems(w) == {w[i] : i \in 1 .. Len(w)}
Rng(o) == {o[k] : k \in DOMAIN o}

\* The calls 1 .. n are each in one place: they wait in w, are open at one key
\* of o, ended (e) or dropped (d); w is in the order of the calls.
Consistent(n, w, o, e, d, s) ==
  /\ n \in 0 .. MaxCalls
  /\ w \in Seq(1 .. n)
  /\ \A i, j \in 1 .. Len(w) : i < j => w[i] < w[j]
  /\ DOMAIN o \subseteq 1 .. n
  /\ o = [k \in DOMAIN o |-> o[k]]
  /\ \A j, k \in DOMAIN o : o[j] = o[k] => j = k
  /\ Elems(w) \cup Rng(o) \cup e \cup d = 1 .. n
  /\ Elems(w) \cap Rng(o) = {} /\ (Elems(w) \cup Rng(o)) \cap (e \cup d) = {}
  /\ e \cap d = {}
  /\ s \subseteq Rng(o)

\* The inductive invariant: also, the call whose callback runs has not failed.
IInv ==
  /\ Consistent(made, backlog, open, ended, dropped, stuck)
  /\ sync \subseteq 1 .. made
  /\ running \in DOMAIN open \cup {None}
  /\ running # None => open[running] \notin stuck

-----------------------------------------------------------------------------
(* The open calls and the backlog.                                         *)

LEMMA PutRange ==
  ASSUME NEW o, NEW k, NEW c, k \notin DOMAIN o
  PROVE  /\ DOMAIN Put(k, c, o) = DOMAIN o \cup {k}
         /\ Put(k, c, o)[k] = c
         /\ \A x \in DOMAIN o : Put(k, c, o)[x] = o[x]
         /\ Rng(Put(k, c, o)) = Rng(o) \cup {c}
<1>1. /\ DOMAIN Put(k, c, o) = DOMAIN o \cup {k}
      /\ Put(k, c, o)[k] = c
      /\ \A x \in DOMAIN o : Put(k, c, o)[x] = o[x]
  BY DEF Put
<1> QED BY <1>1 DEF Rng

LEMMA WithoutRange ==
  ASSUME NEW o, NEW k \in DOMAIN o,
         \A i, j \in DOMAIN o : o[i] = o[j] => i = j
  PROVE  /\ DOMAIN Without(k, o) = DOMAIN o \ {k}
         /\ \A x \in DOMAIN o \ {k} : Without(k, o)[x] = o[x]
         /\ Rng(Without(k, o)) = Rng(o) \ {o[k]}
<1>1. /\ DOMAIN Without(k, o) = DOMAIN o \ {k}
      /\ \A x \in DOMAIN o \ {k} : Without(k, o)[x] = o[x]
  BY DEF Without
<1> QED BY <1>1 DEF Rng

\* What is left of the backlog when p calls were taken and then another.
LEMMA RestProps ==
  ASSUME NEW S, backlog \in Seq(S), NEW p \in Nat, p < Len(backlog)
  PROVE  /\ Rest(p) \in Seq(S) /\ Len(Rest(p)) = Len(backlog) - (p + 1)
         /\ \A i \in 1 .. Len(Rest(p)) : Rest(p)[i] = backlog[p + 1 + i]
<1>1. Len(backlog) \in Nat /\ \A i \in 1 .. Len(backlog) : backlog[i] \in S
  BY LenProperties, ElementOfSeq
<1>2. \A i \in p + 2 .. Len(backlog) : backlog[i] \in S
  BY <1>1
<1>3. p + 2 \in Int /\ Len(backlog) \in Int
  BY <1>1
<1>4. /\ Rest(p) \in Seq(S)
      /\ Len(Rest(p)) = IF p + 2 <= Len(backlog)
                        THEN Len(backlog) - (p + 2) + 1 ELSE 0
      /\ \A i \in 1 .. Len(backlog) - (p + 2) + 1 :
           Rest(p)[i] = backlog[p + 2 + i - 1]
  BY <1>2, <1>3, SubSeqProperties DEF Rest
<1>5. Len(Rest(p)) = Len(backlog) - (p + 1)
  BY <1>1, <1>4
<1>6. ASSUME NEW i \in 1 .. Len(Rest(p)) PROVE Rest(p)[i] = backlog[p + 1 + i]
  <2>1. i \in 1 .. Len(backlog) - (p + 2) + 1 /\ p + 2 + i - 1 = p + 1 + i
    BY <1>1, <1>5
  <2> QED BY <1>4, <2>1
<1> QED BY <1>4, <1>5, <1>6

LEMMA RestElems ==
  ASSUME NEW n \in Nat, backlog \in Seq(1 .. n), NEW p \in Nat, p < Len(backlog),
         \A i, j \in 1 .. Len(backlog) : i < j => backlog[i] < backlog[j]
  PROVE  /\ Elems(Rest(p)) = (Elems(backlog) \ {backlog[i] : i \in 1 .. p})
                                \ {backlog[p + 1]}
         /\ backlog[p + 1] \in Elems(backlog)
         /\ backlog[p + 1] \notin {backlog[i] : i \in 1 .. p}
         /\ {backlog[i] : i \in 1 .. p} \subseteq Elems(backlog)
         /\ \A i, j \in 1 .. Len(Rest(p)) : i < j => Rest(p)[i] < Rest(p)[j]
<1>1. Len(backlog) \in Nat /\ \A i \in 1 .. Len(backlog) : backlog[i] \in Nat
  <2>1. Len(backlog) \in Nat /\ \A i \in 1 .. Len(backlog) : backlog[i] \in 1 .. n
    BY LenProperties, ElementOfSeq
  <2> QED BY <2>1
<1>2. /\ Len(Rest(p)) = Len(backlog) - (p + 1)
      /\ \A i \in 1 .. Len(Rest(p)) : Rest(p)[i] = backlog[p + 1 + i]
  BY RestProps
<1>3. \A i, j \in 1 .. Len(backlog) : backlog[i] = backlog[j] => i = j
  BY <1>1
<1>4. Elems(Rest(p)) = {backlog[i] : i \in p + 2 .. Len(backlog)}
  <2>1. ASSUME NEW i \in p + 2 .. Len(backlog)
        PROVE  backlog[i] \in Elems(Rest(p))
    <3>1. i - (p + 1) \in 1 .. Len(Rest(p)) /\ p + 1 + (i - (p + 1)) = i
      BY <1>1, <1>2
    <3> QED BY <1>2, <3>1 DEF Elems
  <2>2. ASSUME NEW i \in 1 .. Len(Rest(p))
        PROVE  Rest(p)[i] \in {backlog[j] : j \in p + 2 .. Len(backlog)}
    BY <1>1, <1>2
  <2> QED BY <2>1, <2>2 DEF Elems
<1>5. 1 .. Len(backlog) = (1 .. p) \cup {p + 1} \cup (p + 2 .. Len(backlog))
  BY <1>1
<1>6. /\ backlog[p + 1] \in Elems(backlog)
      /\ {backlog[i] : i \in 1 .. p} \subseteq Elems(backlog)
  BY <1>5 DEF Elems
<1>7. backlog[p + 1] \notin {backlog[i] : i \in 1 .. p}
  BY <1>3, <1>5
<1>8. \A i \in p + 2 .. Len(backlog) :
        backlog[i] # backlog[p + 1] /\ \A j \in 1 .. p : backlog[i] # backlog[j]
  BY <1>3, <1>5
<1>9. Elems(Rest(p)) = (Elems(backlog) \ {backlog[i] : i \in 1 .. p})
                         \ {backlog[p + 1]}
  BY <1>4, <1>5, <1>8 DEF Elems
<1>10. ASSUME NEW i \in 1 .. Len(Rest(p)), NEW j \in 1 .. Len(Rest(p)), i < j
       PROVE  Rest(p)[i] < Rest(p)[j]
  BY <1>1, <1>2, <1>10
<1> QED BY <1>6, <1>7, <1>9, <1>10

\* The hand-over keeps every call in one place, and of the open calls that it
\* leaves alone none moves or fails.
LEMMA DrainConsistent ==
  ASSUME NEW n, NEW c, NEW o, NEW k \in 1 .. n, k \notin DOMAIN o,
         Consistent(n, backlog, o, ended \cup {c}, dropped, stuck),
         Drain(k, c, o)
  PROVE  /\ Consistent(n, backlog', open', ended', dropped', stuck')
         /\ \A x \in DOMAIN o : /\ x \in DOMAIN open' /\ open'[x] = o[x]
                                /\ o[x] \in stuck' => o[x] \in stuck
<1>1. /\ backlog \in Seq(1 .. n) /\ Len(backlog) \in Nat /\ n \in Nat
      /\ \A i, j \in 1 .. Len(backlog) : i < j => backlog[i] < backlog[j]
  BY LenProperties DEF Consistent
<1>2. PICK p \in 0 .. Len(backlog) :
        /\ ended' = ended \cup {c} \cup {backlog[i] : i \in 1 .. p}
        /\ \/ /\ p = Len(backlog)
              /\ backlog' = << >> /\ open' = o
              /\ UNCHANGED <<stuck, dropped>>
           \/ /\ p < Len(backlog)
              /\ backlog' = Rest(p) /\ open' = Put(k, backlog[p + 1], o)
              /\ stuck' \in {stuck, stuck \cup {backlog[p + 1]}}
              /\ UNCHANGED dropped
           \/ /\ p < Len(backlog)
              /\ backlog' = Rest(p) /\ open' = o
              /\ dropped' = dropped \cup {backlog[p + 1]}
              /\ UNCHANGED stuck
  BY DEF Drain
<1> DEFINE done == {backlog[i] : i \in 1 .. p}
<1>3. CASE p = Len(backlog) /\ backlog' = << >>
  <2>1. done = Elems(backlog) /\ Elems(backlog') = {}
    BY <1>3 DEF Elems
  <2>2. open' = o /\ UNCHANGED <<stuck, dropped>> /\ ended' = ended \cup {c} \cup done
    BY <1>1, <1>2, <1>3
  <2>3. backlog' \in Seq(1 .. n) /\ Len(backlog') = 0
    BY <1>3, EmptySeq
  <2> HIDE DEF done
  <2> QED BY <2>1, <2>2, <2>3 DEF Consistent
<1>4. CASE p < Len(backlog)
  <2>1. /\ Elems(Rest(p)) = (Elems(backlog) \ done) \ {backlog[p + 1]}
        /\ backlog[p + 1] \in Elems(backlog) /\ backlog[p + 1] \notin done
        /\ done \subseteq Elems(backlog)
        /\ \A i, j \in 1 .. Len(Rest(p)) : i < j => Rest(p)[i] < Rest(p)[j]
    <3>1. p \in Nat
      OBVIOUS
    <3> QED BY <1>1, <1>4, <3>1, RestElems
  <2>2. Rest(p) \in Seq(1 .. n)
    BY <1>1, <1>4, RestProps
  <2>3. ended' = ended \cup {c} \cup done /\ backlog' = Rest(p)
    BY <1>1, <1>2, <1>4
  <2> HIDE DEF done
  <2>4. CASE /\ open' = Put(k, backlog[p + 1], o)
             /\ stuck' \in {stuck, stuck \cup {backlog[p + 1]}}
             /\ UNCHANGED dropped
    <3>1. /\ DOMAIN open' = DOMAIN o \cup {k} /\ open'[k] = backlog[p + 1]
          /\ \A x \in DOMAIN o : open'[x] = o[x]
          /\ Rng(open') = Rng(o) \cup {backlog[p + 1]}
      <4> DEFINE b == backlog[p + 1]
                 P == Put(k, b, o)
      <4>1. /\ DOMAIN P = DOMAIN o \cup {k} /\ P[k] = b
            /\ \A x \in DOMAIN o : P[x] = o[x]
            /\ Rng(P) = Rng(o) \cup {b}
        BY DEF Put, Rng
      <4>2. open' = P
        BY <2>4
      <4> QED BY <4>1, <4>2
    <3>2. open' = [x \in DOMAIN open' |-> open'[x]]
      BY <2>4 DEF Put
    <3>3. \A x \in DOMAIN o : o[x] \in Rng(o) /\ o[x] # backlog[p + 1]
      BY <2>1 DEF Consistent, Rng
    <3>4. \A x, y \in DOMAIN open' : open'[x] = open'[y] => x = y
      BY <3>1, <3>3 DEF Consistent
    <3>5. DOMAIN open' \subseteq 1 .. n
      BY <3>1 DEF Consistent
    <3>6. /\ Elems(backlog') \cup Rng(open') \cup ended' \cup dropped' = 1 .. n
          /\ Elems(backlog') \cap Rng(open') = {}
          /\ (Elems(backlog') \cup Rng(open')) \cap (ended' \cup dropped') = {}
          /\ ended' \cap dropped' = {}
          /\ stuck' \subseteq Rng(open')
      BY <2>1, <2>3, <2>4, <3>1 DEF Consistent
    <3>7. Consistent(n, backlog', open', ended', dropped', stuck')
      BY <2>1, <2>2, <2>3, <3>2, <3>4, <3>5, <3>6 DEF Consistent
    <3> QED BY <2>4, <3>1, <3>3, <3>7
  <2>5. CASE /\ open' = o
             /\ dropped' = dropped \cup {backlog[p + 1]}
             /\ UNCHANGED stuck
    <3>1. /\ Elems(backlog') \cup Rng(open') \cup ended' \cup dropped' = 1 .. n
          /\ Elems(backlog') \cap Rng(open') = {}
          /\ (Elems(backlog') \cup Rng(open')) \cap (ended' \cup dropped') = {}
          /\ ended' \cap dropped' = {}
      BY <2>1, <2>3, <2>5 DEF Consistent
    <3> QED BY <2>1, <2>2, <2>3, <2>5, <3>1 DEF Consistent
  <2> QED BY <1>1, <1>2, <1>4, <2>4, <2>5
<1>5. CASE p = Len(backlog) /\ p < Len(backlog)
  BY <1>1, <1>5
<1> QED BY <1>1, <1>2, <1>3, <1>4

-----------------------------------------------------------------------------
(* Every call is in one place.                                             *)

LEMMA InitIInv == Init => IInv
<1> SUFFICES ASSUME Init PROVE IInv
  OBVIOUS
<1>1. Elems(<< >>) = {} /\ Rng(<< >>) = {} /\ DOMAIN << >> = {} /\ 1 .. 0 = {}
  BY DEF Elems, Rng
<1>2. 0 \in 0 .. MaxCalls
  BY QueueAssumption DEF QueueAssumption
<1>3. << >> \in Seq(1 .. 0) /\ Len(<< >>) = 0
  BY EmptySeq
<1>4. << >> = [k \in DOMAIN << >> |-> << >>[k]]
  OBVIOUS
<1>5. Consistent(0, << >>, << >>, {}, {}, {})
  BY <1>1, <1>2, <1>3, <1>4 DEF Consistent
<1> QED BY <1>5 DEF Init, IInv

\* One call more, in whatever place.
LEMMA MakeProps ==
  ASSUME IInv, NEW s \in BOOLEAN, Make(s)
  PROVE  /\ made \in Nat /\ made' = made + 1 /\ made' \in 0 .. MaxCalls
         /\ 1 .. made' = (1 .. made) \cup {made + 1}
         /\ made + 1 \notin 1 .. made /\ made + 1 \in 1 .. made'
         /\ sync' \subseteq 1 .. made'
         /\ backlog \in Seq(1 .. made')
         /\ made + 1 \notin DOMAIN open
<1>1. /\ made \in Nat /\ made' = made + 1 /\ made' \in 0 .. MaxCalls
      /\ 1 .. made' = (1 .. made) \cup {made + 1}
      /\ made + 1 \notin 1 .. made /\ made + 1 \in 1 .. made'
  BY QueueAssumption DEF QueueAssumption, IInv, Consistent, Make
<1>2. sync' \subseteq 1 .. made'
  BY <1>1 DEF Make, IInv
<1>3. backlog \in Seq(1 .. made')
  BY <1>1 DEF IInv, Consistent
<1>4. made + 1 \notin DOMAIN open
  BY <1>1 DEF IInv, Consistent
<1> QED BY <1>1, <1>2, <1>3, <1>4

LEMMA AsyncIInv ==
  ASSUME IInv, CallAsync \/ CallSyncRefused
  PROVE  IInv'
<1>1. PICK s \in BOOLEAN : Make(s)
  BY DEF CallAsync, CallSyncRefused
<1>2. /\ open' = Put(made + 1, made + 1, open)
      /\ stuck' \in {stuck, stuck \cup {made + 1}}
      /\ UNCHANGED <<backlog, running, ended, dropped>>
  BY DEF CallAsync, CallSyncRefused
<1>3. /\ made' \in 0 .. MaxCalls
      /\ 1 .. made' = (1 .. made) \cup {made + 1}
      /\ made + 1 \notin 1 .. made /\ made + 1 \in 1 .. made'
      /\ sync' \subseteq 1 .. made' /\ backlog \in Seq(1 .. made')
      /\ made + 1 \notin DOMAIN open
  BY <1>1, MakeProps
<1>4. /\ DOMAIN open' = DOMAIN open \cup {made + 1}
      /\ open'[made + 1] = made + 1
      /\ \A x \in DOMAIN open : open'[x] = open[x]
      /\ Rng(open') = Rng(open) \cup {made + 1}
  <2> DEFINE k == made + 1
             P == Put(k, k, open)
  <2>1. k \notin DOMAIN open
    BY <1>3
  <2>2. /\ DOMAIN P = DOMAIN open \cup {k} /\ P[k] = k
        /\ \A x \in DOMAIN open : P[x] = open[x]
        /\ Rng(P) = Rng(open) \cup {k}
    BY <2>1 DEF Put, Rng
  <2>3. open' = P
    BY <1>2
  <2> QED BY <2>2, <2>3
<1>5. open' = [k \in DOMAIN open' |-> open'[k]]
  BY <1>2 DEF Put
<1>6. \A k \in DOMAIN open : open[k] \in Rng(open) /\ open[k] # made + 1
  BY <1>3 DEF IInv, Consistent, Rng
<1>7. \A j, k \in DOMAIN open' : open'[j] = open'[k] => j = k
  BY <1>4, <1>6 DEF IInv, Consistent
<1>8. /\ Elems(backlog) \cup Rng(open') \cup ended \cup dropped = 1 .. made'
      /\ Elems(backlog) \cap Rng(open') = {}
      /\ (Elems(backlog) \cup Rng(open')) \cap (ended \cup dropped) = {}
      /\ ended \cap dropped = {} /\ stuck' \subseteq Rng(open')
  BY <1>2, <1>3, <1>4 DEF IInv, Consistent
<1>9. Consistent(made', backlog', open', ended', dropped', stuck')
  BY <1>2, <1>3, <1>4, <1>5, <1>7, <1>8 DEF IInv, Consistent
<1>10. /\ running' \in DOMAIN open' \cup {None}
       /\ running' # None => open'[running'] \notin stuck'
  BY <1>2, <1>4, <1>6 DEF IInv
<1> QED BY <1>3, <1>9, <1>10 DEF IInv

LEMMA QueuedIInv ==
  ASSUME IInv, NEW s \in BOOLEAN, Queued(s)
  PROVE  IInv'
<1>1. /\ backlog' = Append(backlog, made + 1)
      /\ UNCHANGED <<open, running, ended, stuck, dropped>>
  BY DEF Queued
<1>2. /\ made' \in 0 .. MaxCalls /\ made \in Nat
      /\ 1 .. made' = (1 .. made) \cup {made + 1}
      /\ made + 1 \notin 1 .. made /\ made + 1 \in 1 .. made'
      /\ sync' \subseteq 1 .. made' /\ backlog \in Seq(1 .. made')
  BY MakeProps DEF Queued
<1>3. /\ backlog' \in Seq(1 .. made') /\ Len(backlog') = Len(backlog) + 1
      /\ \A i \in 1 .. Len(backlog) : backlog'[i] = backlog[i]
      /\ backlog'[Len(backlog) + 1] = made + 1
  BY <1>1, <1>2, AppendProperties
<1>4. /\ Len(backlog) \in Nat
      /\ \A i \in 1 .. Len(backlog) : backlog[i] \in 1 .. made
  BY LenProperties, ElementOfSeq DEF IInv, Consistent
<1>5. Elems(backlog') = Elems(backlog) \cup {made + 1}
  <2>1. 1 .. Len(backlog') = (1 .. Len(backlog)) \cup {Len(backlog) + 1}
    BY <1>3, <1>4
  <2> QED BY <1>3, <2>1 DEF Elems
<1>6. \A i, j \in 1 .. Len(backlog') : i < j => backlog'[i] < backlog'[j]
  <2>1. \A i, j \in 1 .. Len(backlog) : i < j => backlog[i] < backlog[j]
    BY DEF IInv, Consistent
  <2>2. ASSUME NEW i \in 1 .. Len(backlog'), NEW j \in 1 .. Len(backlog'), i < j
        PROVE  backlog'[i] < backlog'[j]
    <3>1. i \in 1 .. Len(backlog) /\ backlog'[i] = backlog[i]
            /\ backlog[i] \in 1 .. made
      BY <1>3, <1>4, <2>2
    <3>2. CASE j = Len(backlog) + 1
      BY <1>2, <1>3, <3>1, <3>2
    <3>3. CASE j \in 1 .. Len(backlog)
      BY <1>3, <2>1, <2>2, <3>1, <3>3
    <3> QED BY <1>3, <1>4, <3>2, <3>3
  <2> QED BY <2>2
<1>7. /\ Elems(backlog') \cup Rng(open) \cup ended \cup dropped = 1 .. made'
      /\ Elems(backlog') \cap Rng(open) = {}
      /\ (Elems(backlog') \cup Rng(open)) \cap (ended \cup dropped) = {}
  BY <1>2, <1>5 DEF IInv, Consistent
<1>8. DOMAIN open \subseteq 1 .. made'
  BY <1>2 DEF IInv, Consistent
<1>9. Consistent(made', backlog', open, ended, dropped, stuck)
  <2>1. /\ open = [k \in DOMAIN open |-> open[k]]
        /\ \A j, k \in DOMAIN open : open[j] = open[k] => j = k
        /\ ended \cap dropped = {} /\ stuck \subseteq Rng(open)
    BY DEF IInv, Consistent
  <2> QED BY <1>2, <1>3, <1>6, <1>7, <1>8, <2>1 DEF Consistent
<1> QED BY <1>1, <1>2, <1>9 DEF IInv

LEMMA SyncConsistent ==
  ASSUME IInv, NEW n, n \in 0 .. MaxCalls,
         1 .. n = (1 .. made) \cup {made + 1}, made + 1 \notin 1 .. made,
         backlog \in Seq(1 .. n)
  PROVE  /\ Consistent(n, backlog, open, ended \cup {made + 1}, dropped, stuck)
         /\ Consistent(n, backlog, open, ended, dropped \cup {made + 1}, stuck)
  BY DEF IInv, Consistent

LEMMA SyncIInv ==
  ASSUME IInv, CallSync
  PROVE  IInv'
<1>1. /\ made' \in 0 .. MaxCalls
      /\ 1 .. made' = (1 .. made) \cup {made + 1}
      /\ made + 1 \notin 1 .. made /\ made + 1 \in 1 .. made'
      /\ sync' \subseteq 1 .. made' /\ backlog \in Seq(1 .. made')
      /\ made + 1 \notin DOMAIN open
  BY MakeProps DEF CallSync
<1>2. Consistent(made', backlog, open, ended \cup {made + 1}, dropped, stuck)
  BY <1>1, SyncConsistent
<1>3. Drain(made + 1, made + 1, open) /\ UNCHANGED running
  BY DEF CallSync
<1>4. /\ Consistent(made', backlog', open', ended', dropped', stuck')
      /\ \A x \in DOMAIN open : /\ x \in DOMAIN open' /\ open'[x] = open[x]
                                /\ open[x] \in stuck' => open[x] \in stuck
  BY <1>1, <1>2, <1>3, DrainConsistent
<1> QED BY <1>1, <1>3, <1>4 DEF IInv

LEMMA ThrowsIInv ==
  ASSUME IInv, CallSyncThrows
  PROVE  IInv'
<1>1. /\ made' \in 0 .. MaxCalls
      /\ 1 .. made' = (1 .. made) \cup {made + 1}
      /\ made + 1 \notin 1 .. made
      /\ sync' \subseteq 1 .. made' /\ backlog \in Seq(1 .. made')
  BY MakeProps DEF CallSyncThrows
<1>2. Consistent(made', backlog, open, ended, dropped \cup {made + 1}, stuck)
  BY <1>1, SyncConsistent
<1> QED BY <1>1, <1>2 DEF CallSyncThrows, IInv

LEMMA CompleteIInv ==
  ASSUME IInv, Complete
  PROVE  IInv'
<1> DEFINE o == Without(running, open)
           c == open[running]
<1>1. /\ running \in DOMAIN open /\ c \notin stuck /\ c \in Rng(open)
      /\ \A i, j \in DOMAIN open : open[i] = open[j] => i = j
  BY DEF IInv, Complete, Consistent, Rng
<1>2. /\ DOMAIN o = DOMAIN open \ {running}
      /\ \A x \in DOMAIN open \ {running} : o[x] = open[x]
      /\ Rng(o) = Rng(open) \ {c}
  BY <1>1, WithoutRange
<1>3. o = [k \in DOMAIN o |-> o[k]]
  BY DEF Without
<1>4. Drain(running, c, o) /\ running' = None /\ UNCHANGED <<made, sync>>
  BY DEF Complete
<1> HIDE DEF o, c
<1>5. \A j, k \in DOMAIN o : o[j] = o[k] => j = k
  BY <1>1, <1>2
<1>6. /\ Elems(backlog) \cup Rng(o) \cup (ended \cup {c}) \cup dropped = 1 .. made
      /\ Elems(backlog) \cap Rng(o) = {}
      /\ (Elems(backlog) \cup Rng(o)) \cap (ended \cup {c} \cup dropped) = {}
      /\ (ended \cup {c}) \cap dropped = {} /\ stuck \subseteq Rng(o)
  BY <1>1, <1>2 DEF IInv, Consistent
<1>7. Consistent(made, backlog, o, ended \cup {c}, dropped, stuck)
  BY <1>2, <1>3, <1>5, <1>6 DEF IInv, Consistent
<1>8. running \in 1 .. made /\ running \notin DOMAIN o
  BY <1>1, <1>2 DEF IInv, Consistent
<1>9. Consistent(made, backlog', open', ended', dropped', stuck')
  BY <1>4, <1>7, <1>8, DrainConsistent
<1> QED BY <1>4, <1>9 DEF IInv

LEMMA NextIInv == IInv /\ [Next]_vars => IInv'
<1> SUFFICES ASSUME IInv, [Next]_vars PROVE IInv'
  OBVIOUS
<1>1. CASE UNCHANGED vars
  BY <1>1 DEF vars, IInv, Consistent
<1>2. CASE Calls
  BY <1>2, QueuedIInv, AsyncIInv, SyncIInv, ThrowsIInv DEF Calls
<1>3. ASSUME NEW k \in CallIds, Succeed(k) PROVE IInv'
  BY <1>3 DEF Succeed, IInv
<1>4. ASSUME NEW k \in CallIds, Error(k) PROVE IInv'
  <2>1. open[k] \in Rng(open)
    BY <1>4 DEF Error, Rng
  <2>2. Consistent(made, backlog, open, ended, dropped, stuck \cup {open[k]})
    BY <2>1 DEF IInv, Consistent
  <2> QED BY <1>4, <2>2 DEF Error, IInv
<1>5. CASE Complete
  BY <1>5, CompleteIInv
<1>6. CASE CallbackThrows
  <2>1. open[running] \in Rng(open)
    BY <1>6 DEF CallbackThrows, Rng, IInv
  <2>2. Consistent(made, backlog, open, ended, dropped, stuck \cup {open[running]})
    BY <2>1 DEF IInv, Consistent
  <2> QED BY <1>6, <2>2 DEF CallbackThrows, IInv
<1> QED BY <1>1, <1>2, <1>3, <1>4, <1>5, <1>6 DEF Next, Answer

LEMMA IInvTypes == IInv => TypeOK
<1> SUFFICES ASSUME IInv PROVE TypeOK
  OBVIOUS
<1>1. Waiting = Elems(backlog) /\ Opened = Rng(open)
  BY DEF Waiting, Opened, Elems, Rng
<1>2. \A i, j \in 1 .. Len(backlog) : backlog[i] = backlog[j] => i = j
  <2>1. /\ Len(backlog) \in Nat
        /\ \A i \in 1 .. Len(backlog) : backlog[i] \in 1 .. made
    BY LenProperties, ElementOfSeq DEF IInv, Consistent
  <2>2. \A i, j \in 1 .. Len(backlog) : i < j => backlog[i] < backlog[j]
    BY DEF IInv, Consistent
  <2> QED BY <2>1, <2>2
<1> QED BY <1>1, <1>2 DEF TypeOK, IInv, Consistent

\* Every call that was made waits, is open, has ended or was dropped, in one
\* place only: the hand-over of a slot loses none and sends none twice.
THEOREM TypeCorrect == Spec => []TypeOK
<1>1. Spec => []IInv
  BY InitIInv, NextIInv, PTL DEF Spec
<1> QED BY <1>1, IInvTypes, PTL

-----------------------------------------------------------------------------
(* The limit, the backlog and the order.                                   *)

Keys == DOMAIN open

LEMMA KeysFinite ==
  ASSUME IInv, NEW K \in SUBSET Keys, NEW k
  PROVE  /\ IsFiniteSet(Keys) /\ Cardinality(Keys) \in Nat
         /\ Cardinality(Keys \cup {k}) <= Cardinality(Keys) + 1
         /\ Cardinality(K) \in Nat /\ Cardinality(K) <= Cardinality(Keys)
<1>1. made \in Nat /\ Keys \in SUBSET (1 .. made)
  BY QueueAssumption DEF QueueAssumption, IInv, Consistent, Keys
<1>2. IsFiniteSet(1 .. made)
  BY <1>1, FS_Interval
<1>3. IsFiniteSet(Keys)
  BY <1>1, <1>2, FS_Subset
<1>4. IsFiniteSet(K) /\ Cardinality(K) <= Cardinality(Keys)
  BY <1>3, FS_Subset
<1>5. Cardinality(Keys) \in Nat /\ Cardinality(K) \in Nat
  BY <1>3, <1>4, FS_CardinalityType
<1>6. Cardinality(Keys \cup {k}) <= Cardinality(Keys) + 1
  <2>1. Cardinality(Keys \cup {k}) =
          IF k \in Keys THEN Cardinality(Keys) ELSE Cardinality(Keys) + 1
    BY <1>3, FS_AddElement
  <2> QED BY <1>5, <2>1
<1> QED BY <1>3, <1>4, <1>5, <1>6

\* The hand-over takes up the key it was given as long as a call waits.
LEMMA DrainKeys ==
  ASSUME NEW n, NEW c, NEW o, NEW k \in 1 .. n, k \notin DOMAIN o,
         Consistent(n, backlog, o, ended \cup {c}, dropped, stuck),
         Drain(k, c, o)
  PROVE  /\ DOMAIN open' \in {DOMAIN o, DOMAIN o \cup {k}}
         /\ dropped' = {} =>
              /\ dropped = {}
              /\ backlog' # << >> => DOMAIN open' = DOMAIN o \cup {k}
              /\ backlog = << >> => backlog' = << >>
<1>1. Len(backlog) \in Nat /\ (backlog = << >> => Len(backlog) = 0)
  BY LenProperties, EmptySeq DEF Consistent
<1>2. \A x : DOMAIN Put(k, x, o) = DOMAIN o \cup {k}
  BY DEF Put
<1>3. PICK p \in 0 .. Len(backlog) :
        \/ p = Len(backlog) /\ backlog' = << >> /\ open' = o /\ dropped' = dropped
        \/ p < Len(backlog) /\ open' = Put(k, backlog[p + 1], o)
              /\ dropped' = dropped
        \/ p < Len(backlog) /\ open' = o /\ dropped' = dropped \cup {backlog[p + 1]}
  BY DEF Drain
<1>4. CASE p = Len(backlog) /\ backlog' = << >> /\ open' = o /\ dropped' = dropped
  BY <1>4
<1>5. CASE p < Len(backlog) /\ open' = Put(k, backlog[p + 1], o)
             /\ dropped' = dropped
  <2>1. DOMAIN open' = DOMAIN o \cup {k}
    BY <1>2, <1>5
  <2>2. backlog # << >>
    BY <1>1, <1>5
  <2> QED BY <1>5, <2>1, <2>2
<1>6. CASE p < Len(backlog) /\ open' = o /\ dropped' = dropped \cup {backlog[p + 1]}
  <2>1. dropped' # {}
    BY <1>6
  <2> QED BY <1>6, <2>1
<1> QED BY <1>3, <1>4, <1>5, <1>6

\* What waits afterwards came after all that the hand-over sent.
LEMMA DrainOrder ==
  ASSUME NEW n, NEW c, NEW o, NEW k \in 1 .. n, k \notin DOMAIN o,
         Consistent(n, backlog, o, ended \cup {c}, dropped, stuck),
         Drain(k, c, o),
         \A i \in Elems(backlog), j \in Rng(o) \cup ended \cup {c} : j < i
  PROVE  \A i \in Elems(backlog'), j \in Rng(open') \cup ended' : j < i
<1>1. /\ n \in Nat /\ backlog \in Seq(1 .. n) /\ Len(backlog) \in Nat
      /\ \A i, j \in 1 .. Len(backlog) : i < j => backlog[i] < backlog[j]
  BY LenProperties DEF Consistent
<1>2. PICK p \in 0 .. Len(backlog) :
        /\ ended' = ended \cup {c} \cup {backlog[i] : i \in 1 .. p}
        /\ \/ p = Len(backlog) /\ backlog' = << >>
           \/ p < Len(backlog) /\ backlog' = Rest(p)
                /\ open' = Put(k, backlog[p + 1], o)
           \/ p < Len(backlog) /\ backlog' = Rest(p) /\ open' = o
  BY DEF Drain
<1>3. CASE backlog' = << >>
  BY <1>3 DEF Elems
<1>4. CASE p < Len(backlog) /\ backlog' = Rest(p)
  <2>1. Rng(open') \subseteq Rng(o) \cup {backlog[p + 1]}
    <3>1. Rng(Put(k, backlog[p + 1], o)) \subseteq Rng(o) \cup {backlog[p + 1]}
      BY DEF Put, Rng
    <3> QED BY <1>1, <1>2, <1>4, <3>1
  <2>2. p \in Nat
    OBVIOUS
  <2>3. /\ Len(Rest(p)) = Len(backlog) - (p + 1)
        /\ \A i \in 1 .. Len(Rest(p)) : Rest(p)[i] = backlog[p + 1 + i]
    BY <1>1, <1>4, <2>2, RestProps
  <2>4. ASSUME NEW i \in 1 .. Len(Rest(p)),
               NEW j \in Rng(open') \cup ended'
        PROVE  j < Rest(p)[i]
    <3>1. p + 1 + i \in 1 .. Len(backlog) /\ Rest(p)[i] = backlog[p + 1 + i]
      BY <1>1, <1>4, <2>2, <2>3
    <3>2. CASE j \in Rng(o) \cup ended \cup {c}
      BY <3>1, <3>2 DEF Elems
    <3>3. CASE j \in {backlog[m] : m \in 1 .. p + 1}
      <4>1. PICK m \in 1 .. p + 1 : j = backlog[m]
        BY <3>3
      <4>2. m \in 1 .. Len(backlog) /\ m < p + 1 + i
        BY <1>1, <1>4, <2>2, <2>3, <4>1
      <4> QED BY <1>1, <3>1, <4>1, <4>2
    <3>4. {backlog[m] : m \in 1 .. p} \cup {backlog[p + 1]}
            \subseteq {backlog[m] : m \in 1 .. p + 1}
      BY <2>2
    <3> QED BY <1>2, <2>1, <3>2, <3>3, <3>4
  <2> QED BY <1>4, <2>4 DEF Elems
<1> QED BY <1>2, <1>3, <1>4

Serves == IInv /\ WithinLimit /\ WorkConserving /\ InOrder

LEMMA InitServes == Init => Serves
<1> SUFFICES ASSUME Init PROVE Serves
  OBVIOUS
<1>1. IInv
  BY InitIInv
<1>2. Cardinality(DOMAIN open) = 0
  <2>1. DOMAIN open = {}
    BY DEF Init
  <2> QED BY <2>1, FS_EmptySet
<1>3. Waiting = {}
  BY DEF Init, Waiting
<1> QED BY <1>1, <1>2, <1>3, QueueAssumption
        DEF Serves, WithinLimit, WorkConserving, InOrder, Init, QueueAssumption

LEMMA Ranges == Waiting = Elems(backlog) /\ Opened = Rng(open)
  BY DEF Waiting, Opened, Elems, Rng

\* A call that opens finds no call waiting.
LEMMA NoneWaits ==
  ASSUME Serves, ~Full, dropped = {}
  PROVE  backlog = << >> /\ Waiting = {}
<1>1. backlog = << >>
  BY DEF Serves, WorkConserving
<1> QED BY <1>1 DEF Waiting

\* A call that opens takes one slot of those that are free.
LEMMA OpenLimit ==
  ASSUME Serves, ~Full, NEW k, NEW K, K \in {Keys, Keys \cup {k}}
  PROVE  Cardinality(K) <= Max
<1>1. /\ Cardinality(Keys) \in Nat
      /\ Cardinality(Keys \cup {k}) <= Cardinality(Keys) + 1
      /\ IsFiniteSet(Keys)
  BY KeysFinite DEF Serves
<1>2. Cardinality(Keys \cup {k}) \in Nat
  BY <1>1, FS_AddElement, FS_CardinalityType
<1>3. Max \in Nat /\ ~(Cardinality(Keys) >= Max)
  BY QueueAssumption DEF QueueAssumption, Full, Keys
<1> QED BY <1>1, <1>2, <1>3

LEMMA NextServes == Serves /\ [Next]_vars => Serves'
<1> SUFFICES ASSUME Serves, [Next]_vars PROVE Serves'
  OBVIOUS
<1>1. IInv /\ IInv'
  BY NextIInv DEF Serves
<1>2. WithinLimit /\ WorkConserving /\ InOrder
  BY DEF Serves
<1>3. Waiting' = Elems(backlog') /\ Opened' = Rng(open')
  BY DEF Waiting, Opened, Elems, Rng
<1>4. ASSUME UNCHANGED <<backlog, open, ended>>, dropped \subseteq dropped'
      PROVE  Serves'
  BY <1>1, <1>2, <1>4
     DEF Serves, WithinLimit, WorkConserving, InOrder, Waiting, Opened, Full
<1>5. CASE UNCHANGED vars
  BY <1>4, <1>5 DEF vars
<1>6. ASSUME NEW s \in BOOLEAN, Queued(s) PROVE Serves'
  <2>1. Full' /\ WithinLimit'
    BY <1>2, <1>6 DEF Queued, Full, WithinLimit
  <2>2. InOrder'
    <3>1. /\ made \in Nat /\ backlog' = Append(backlog, made + 1)
          /\ backlog \in Seq(1 .. made) /\ Len(backlog) \in Nat
          /\ Opened \cup ended \subseteq 1 .. made
          /\ UNCHANGED <<open, ended, dropped>>
      BY <1>1, <1>6, Ranges, LenProperties, QueueAssumption
         DEF Queued, IInv, Consistent, QueueAssumption
    <3>2. Elems(backlog') \subseteq Elems(backlog) \cup {made + 1}
      BY <3>1 DEF Elems
    <3>3. UNCHANGED Opened
      BY <3>1 DEF Opened
    <3> QED BY <1>2, <1>3, <3>1, <3>2, <3>3, Ranges DEF InOrder
  <2> QED BY <1>1, <2>1, <2>2 DEF Serves, WorkConserving
<1>7. CASE CallAsync \/ CallSyncRefused
  <2>1. /\ ~Full /\ open' = Put(made + 1, made + 1, open)
        /\ UNCHANGED <<backlog, dropped, ended>>
    BY <1>7 DEF CallAsync, CallSyncRefused
  <2>2. DOMAIN open' = Keys \cup {made + 1}
    BY <2>1 DEF Put, Keys
  <2>3. WithinLimit'
    BY <2>1, <2>2, OpenLimit DEF WithinLimit
  <2>4. dropped' = {} => backlog' = << >> /\ Waiting' = {}
    BY <2>1, NoneWaits DEF Waiting
  <2> QED BY <1>1, <2>3, <2>4 DEF Serves, WorkConserving, InOrder
<1>8. CASE CallSync
  <2> DEFINE k == made + 1
  <2>1. /\ made' \in 0 .. MaxCalls
        /\ 1 .. made' = (1 .. made) \cup {k}
        /\ k \notin 1 .. made /\ k \in 1 .. made'
        /\ backlog \in Seq(1 .. made') /\ k \notin DOMAIN open
    BY <1>1, <1>8, MakeProps DEF CallSync
  <2>2. Consistent(made', backlog, open, ended \cup {k}, dropped, stuck)
    BY <1>1, <2>1, SyncConsistent
  <2>3. ~Full /\ Drain(k, k, open)
    BY <1>8 DEF CallSync
  <2> HIDE DEF k
  <2>4. /\ DOMAIN open' \in {DOMAIN open, DOMAIN open \cup {k}}
        /\ dropped' = {} => dropped = {} /\ (backlog = << >> => backlog' = << >>)
    BY <2>1, <2>2, <2>3, DrainKeys
  <2>5. WithinLimit'
    BY <2>3, <2>4, OpenLimit DEF WithinLimit, Keys
  <2>6. dropped' = {} => backlog' = << >> /\ Waiting' = {}
    BY <2>3, <2>4, NoneWaits DEF Waiting
  <2> QED BY <1>1, <2>5, <2>6 DEF Serves, WorkConserving, InOrder
<1>9. CASE CallSyncThrows
  BY <1>4, <1>9 DEF CallSyncThrows
<1>10. ASSUME NEW k \in CallIds, Answer(k) PROVE Serves'
  BY <1>4, <1>10 DEF Answer, Succeed, Error
<1>11. CASE Complete
  <2> DEFINE o == Without(running, open)
             c == open[running]
  <2>1. /\ running \in DOMAIN open /\ c \notin stuck /\ c \in Rng(open)
        /\ \A i, j \in DOMAIN open : open[i] = open[j] => i = j
    BY <1>1, <1>11 DEF IInv, Complete, Consistent, Rng
  <2>2. DOMAIN o = DOMAIN open \ {running} /\ Rng(o) = Rng(open) \ {c}
    BY <2>1, WithoutRange
  <2>3. Consistent(made, backlog, o, ended \cup {c}, dropped, stuck)
    <3>1. /\ o = [k \in DOMAIN o |-> o[k]]
          /\ \A j, k \in DOMAIN o : o[j] = o[k] => j = k
      BY <2>1 DEF Without
    <3> HIDE DEF o, c
    <3>2. /\ Elems(backlog) \cup Rng(o) \cup (ended \cup {c}) \cup dropped = 1 .. made
          /\ Elems(backlog) \cap Rng(o) = {}
          /\ (Elems(backlog) \cup Rng(o)) \cap (ended \cup {c} \cup dropped) = {}
          /\ (ended \cup {c}) \cap dropped = {} /\ stuck \subseteq Rng(o)
      BY <1>1, <2>1, <2>2 DEF IInv, Consistent
    <3> QED BY <1>1, <2>2, <3>1, <3>2 DEF IInv, Consistent
  <2>4. Drain(running, c, o)
    BY <1>11 DEF Complete
  <2>5. running \in 1 .. made /\ running \notin DOMAIN o
    BY <1>1, <2>1, <2>2 DEF IInv, Consistent
  <2> HIDE DEF o, c
  <2>6. /\ DOMAIN open' \in {DOMAIN o, DOMAIN o \cup {running}}
        /\ dropped' = {} =>
             /\ dropped = {}
             /\ backlog' # << >> => DOMAIN open' = DOMAIN o \cup {running}
             /\ backlog = << >> => backlog' = << >>
    BY <2>3, <2>4, <2>5, DrainKeys
  <2>7. DOMAIN o \cup {running} = Keys /\ DOMAIN open' \in SUBSET Keys
    BY <2>1, <2>2, <2>6 DEF Keys
  <2>8. /\ Cardinality(DOMAIN open') \in Nat /\ Cardinality(Keys) \in Nat
        /\ Cardinality(DOMAIN open') <= Cardinality(Keys)
    BY <1>1, <2>7, KeysFinite
  <2>9. WithinLimit'
    BY <1>2, <2>8, QueueAssumption DEF WithinLimit, Keys, QueueAssumption
  <2>10. WorkConserving'
    <3>1. ASSUME dropped' = {}, backlog' # << >> PROVE Full'
      <4>1. DOMAIN open' = DOMAIN open /\ Full
        BY <1>2, <2>6, <2>7, <3>1 DEF WorkConserving, Keys
      <4> QED BY <4>1 DEF Full
    <3> QED BY <3>1 DEF WorkConserving
  <2>11. InOrder'
    <3>1. ASSUME dropped' = {}
          PROVE  \A i \in Elems(backlog'), j \in Rng(open') \cup ended' : j < i
      <4>1. \A i \in Elems(backlog), j \in Rng(open) \cup ended : j < i
        BY <1>2, <2>6, <3>1, Ranges DEF InOrder
      <4>2. \A i \in Elems(backlog), j \in Rng(o) \cup ended \cup {c} : j < i
        BY <2>1, <2>2, <4>1
      <4> QED BY <2>3, <2>4, <2>5, <4>2, DrainOrder
    <3> QED BY <1>3, <3>1 DEF InOrder
  <2> QED BY <1>1, <2>9, <2>10, <2>11 DEF Serves
<1>12. CASE CallbackThrows
  BY <1>4, <1>12 DEF CallbackThrows
<1> QED BY <1>5, <1>6, <1>7, <1>8, <1>9, <1>10, <1>11, <1>12 DEF Next, Calls

LEMMA SpecServes == Spec => []Serves
  BY InitServes, NextServes, PTL DEF Spec

\* Never are more calls open than the limit, for every limit, though nested
\* and synchronous calls take slots in the middle of a hand-over.
THEOREM LimitHolds == Spec => []WithinLimit
<1>1. Serves => WithinLimit
  BY DEF Serves
<1> QED BY <1>1, SpecServes, PTL

\* As long as $.ajax does not throw, a call waits only if every slot is taken.
THEOREM SlotsAreUsed == Spec => []WorkConserving
<1>1. Serves => WorkConserving
  BY DEF Serves
<1> QED BY <1>1, SpecServes, PTL

\* As long as $.ajax does not throw, calls are sent in the order they were
\* made: that none waits beside a free slot is what keeps a new call from
\* overtaking the backlog.
THEOREM OrderKept == Spec => []InOrder
<1>1. Serves => InOrder
  BY DEF Serves
<1> QED BY <1>1, SpecServes, PTL
=============================================================================
