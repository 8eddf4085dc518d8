---------------------------- MODULE MCMigration ----------------------------
(* Instances of Migration, and of Ownership within it, for TLC. *)
EXTENDS Migration, TLC

CONSTANTS v1, v2, u1, u2, f1, r1, r2, m1, m2, l1, k1

FirstOwnsFleets == [f \in Fleets |-> u1]
FirstOwnsLegacy == [l \in Legacy |-> u2]
AllOfFirst == [b \in LegacyBookings |-> l1]

VehicleSymmetry ==
    Permutations(Vehicles) \cup Permutations(Requests) \cup Permutations(Runs)
=============================================================================
