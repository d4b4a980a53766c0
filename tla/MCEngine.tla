------------------------------ MODULE MCEngine ------------------------------
(***************************************************************************)
(* An instance of Engine for TLC: nodejs clients of two hosts.             *)
(***************************************************************************)
EXTENDS Engine, TLC

CONSTANTS h1, h2

Client(h) == [plat |-> "nodejs", host |-> h, query |-> None]
Clients == {Client(h1), Client(h2)}

Symmetry == Permutations(Requests) \cup Permutations(Names)
              \cup Permutations({h1, h2})
=============================================================================
