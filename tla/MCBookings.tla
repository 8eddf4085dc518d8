----------------------------- MODULE MCBookings -----------------------------
(* Instances of Bookings for TLC. *)
EXTENDS Bookings, TLC

CONSTANTS b1, b2, e1, e2, i1, i2, r1, r2, r3

BookingSymmetry ==
    Permutations(Bookings) \cup Permutations(Employees)
        \cup Permutations(Items) \cup Permutations(Requests)
=============================================================================
