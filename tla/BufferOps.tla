----------------------------- MODULE BufferOps -----------------------------
(***************************************************************************)
(* The index arithmetic of stream/buffer.go: which slots of the ring       *)
(* Buffer.Fetch hands out.  Everything here is a pure operator; Buffer and *)
(* Stream give it state.                                                   *)
(*                                                                         *)
(* A message id is the number of messages enqueued before it.  The code    *)
(* masks ids with size - 1, a power of two minus one, which is the         *)
(* remainder modulo Size; nothing below needs more than Size > 0.          *)
(***************************************************************************)
EXTENDS Integers, Sequences

CONSTANT Size  \* number of slots of the ring: 1 << BufferBitSize

ASSUME SizeAssumption == Size \in Nat \ {0}

Slots == 0 .. Size - 1

\* The slot an id lives in (id & mask).
Slot(id) == id % Size

\* The oldest id a ring with next free id cid can still hold.
Oldest(cid) == IF cid > Size THEN cid - Size ELSE 0

\* Mutant of HasNext: the next free id counts as there.
HasNextOrFree(cid, id) == cid >= id

\* HasNext: is there a message with this id or a later one.
HasNext(cid, id) == cid > id

\* Mutant of Rejected: only the empty buffer is turned away.
RejectedEmptyOnly(cid, id) == cid = 0

\* Fetch returns nil at once.
Rejected(cid, id) == cid = 0 \/ id > cid

(***************************************************************************)
(* The newest id a Fetch serves; limit 0 is no limit.  cid is read again   *)
(* here, after Rejected saw it: when Empty cleared it in between,          *)
(* cid - 1 is -1 (all ones in the unsigned code, so above any limit).      *)
(***************************************************************************)
Newest(cid, id, limit) ==
  IF limit > 0 /\ (cid = 0 \/ id + limit < cid - 1)
  THEN id + (limit - 1)
  ELSE cid - 1

Distance(a, b) == IF a < b THEN b - a ELSE a - b

\* Mutant of From: the run always starts at the slot of the asked id.
FromUnadjusted(newest, id) == Slot(id)

\* The first slot served: the slot of id, or the one after newest's when the
\* code takes the run to be longer than the ring.
From(newest, id) ==
  IF newest - id > Distance(Slot(id), Slot(newest))
  THEN Slot(newest) + 1
  ELSE Slot(id)

\* The run goes round the end of the ring and is copied in two pieces;
\* otherwise the result is a slice of the ring itself.
Copied(newest, id) == From(newest, id) > Slot(newest) /\ newest # 0

RunLength(newest, id) ==
  IF Copied(newest, id)
  THEN (Size - From(newest, id)) + Slot(newest) + 1
  ELSE (Slot(newest) + 1) - From(newest, id)

\* The slots a Fetch of id serves, in the order of the result.
Run(newest, id) ==
  [i \in 1 .. RunLength(newest, id) |-> Slot(From(newest, id) + (i - 1))]

\* The slice expression buf[from : to+1] does not panic.
InBounds(newest, id) ==
  \/ Copied(newest, id)
  \/ From(newest, id) <= Slot(newest) + 1
=============================================================================
