------------------------------ MODULE MCBuffer ------------------------------
(***************************************************************************)
(* Buffer on a small ring, and the check that masking an id with           *)
(* size - 1, as the code does, is the remainder BufferOps takes.           *)
(***************************************************************************)
EXTENDS Buffer, Bitwise, TLC

ASSUME MaskIsModulo == \A id \in 0 .. 4 * Size : (id & (Size - 1)) = Slot(id)

Symmetry == Permutations(Payloads)
=============================================================================
