----------------------------- MODULE MCEventBus -----------------------------
(* Instances of EventBus for TLC. *)
EXTENDS EventBus, TLC

CONSTANTS e1, e2, c1, c2, p1, p2, s1, s2

\* Events, consumers, pollers and slots are interchangeable (safety runs only).
BusSymmetry == Permutations(Events) \cup Permutations(Consumers)
                 \cup Permutations(Pollers) \cup Permutations(Slots)
=============================================================================
