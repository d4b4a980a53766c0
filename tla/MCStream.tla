------------------------------ MODULE MCStream ------------------------------
(***************************************************************************)
(* Instances of Stream for TLC: two clients with one call at a time each,  *)
(* and the symmetry between them.                                          *)
(***************************************************************************)
EXTENDS Stream, TLC

CONSTANTS w1, w2, c1, c2

OneEach == (w1 :> c1) @@ (w2 :> c2)

\* Both only read the stream.
Readers == [w \in {w1, w2} |-> {"Next"}]

\* One reads, resets its session and stops the stream, the other starts it;
\* reading starts it as well if the start is lazy.
StopperAndStarter ==
  (w1 :> {"Next", "Reset", "Stop"}) @@ (w2 :> {"Start"})

\* Readers are alike: each with its client may be taken for the other.
Swapped == (w1 :> w2) @@ (w2 :> w1) @@ (c1 :> c2) @@ (c2 :> c1)

Symmetry ==
  {ids @@ who : ids \in Permutations(SIDs),
                who \in {Swapped, [x \in DOMAIN Swapped |-> x]}}
=============================================================================
