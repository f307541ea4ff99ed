--------------------------- MODULE MCOutboxRelay ---------------------------
(* Instances of OutboxRelay for TLC. *)
EXTENDS OutboxRelay, TLC

CONSTANTS a, b

\* One order created and then updated, and another one created in between.
Interleaved == <<a, b, a>>

\* One order created and then updated.
SameOrder == <<a, a>>

Symmetry == Permutations(Workers)
=============================================================================
