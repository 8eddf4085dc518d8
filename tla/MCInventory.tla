---------------------------- MODULE MCInventory ----------------------------
(* Instances of Inventory for TLC. *)
EXTENDS Inventory, TLC

CONSTANTS c1, i1, i2, p1, p2, s1, s2, h1, h2

\* One item: both parts come from it.
OneItem == [p \in Parts |-> i1]
\* Two items, one for each part.
TwoItems == (p1 :> i1 @@ p2 :> i2)
TwoAndOne == (p1 :> 2 @@ p2 :> 1)

Opening3 == [i \in Items |-> 3]
Threshold0 == [i \in Items |-> 0]
Threshold1 == [i \in Items |-> 1]

StaffSymmetry == Permutations(Staff) \cup Permutations(Handlers)
=============================================================================
