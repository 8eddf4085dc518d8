---------------------------- MODULE MCInvoicing ----------------------------
(* Instances of Invoicing for TLC. *)
EXTENDS Invoicing, TLC

CONSTANTS c1, c2, r1, r2

Total3 == [c \in Cards |-> 3]

RequestSymmetry == Permutations(Cards) \cup Permutations(Requests)
=============================================================================
