----------------------------- MODULE MCJobCards -----------------------------
(* Instances of JobCards for TLC. *)
EXTENDS JobCards, TLC

CONSTANTS c1, c2, r1, r2, p1, p2

\* Cards, requests and part rows are interchangeable (safety runs only).
CardSymmetry ==
    Permutations(Cards) \cup Permutations(Requests) \cup Permutations(Parts)
=============================================================================
