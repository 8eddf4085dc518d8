----------------------------- MODULE MCWorkshop -----------------------------
(* Instances of Workshop for TLC. *)
EXTENDS Workshop, TLC

CONSTANTS c1, c2, r1, r2, p1, p2, i1, h1, h2, s1

OneItem == [p \in Parts |-> i1]
EachOne == [p \in Parts |-> 1]
Opening1 == [i \in Items |-> 1]
Opening2 == [i \in Items |-> 2]
Threshold0 == [i \in Items |-> 0]
=============================================================================
