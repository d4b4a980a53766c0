--------------------------- MODULE MessageWindow ---------------------------
(***************************************************************************)
(* What a ring buffer promises: it numbers the messages it is given and    *)
(* keeps the newest Size of them under their numbers, until it is emptied. *)
(***************************************************************************)
EXTENDS Integers

CONSTANTS Size,     \* how many messages are kept
          Payloads  \* what a message can carry

VARIABLES next,     \* the id the next message will get
          window    \* function from the ids still held to their payloads

Init == next = 0 /\ window = [k \in {} |-> {}]

Held(n) == (IF n > Size THEN n - Size ELSE 0) .. n - 1

Append(m) ==
  /\ next' = next + 1
  /\ window' = [k \in Held(next + 1) |-> IF k = next THEN m ELSE window[k]]

Clear == next' = 0 /\ window' = [k \in {} |-> {}]

Next == Clear \/ \E m \in Payloads : Append(m)

Spec == Init /\ [][Next]_<<next, window>>
=============================================================================
