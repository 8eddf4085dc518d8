--------------------------- MODULE MCAppointments ---------------------------
(* Instances of Appointments for TLC: a day of three ticks. *)
EXTENDS Appointments, TLC

CONSTANTS c1, c2, c3, r1, r2, m1, m2

Open(open, close, duration, capacity, closed) ==
    [open |-> open, close |-> close, duration |-> duration,
     capacity |-> capacity, closed |-> closed]

\* Slots of two ticks from midnight, and slots that are not aligned with it.
GarageConfigs == {Open(0, 3, 2, 1, {}), Open(1, 3, 2, 2, {2})}

AppointmentSymmetry ==
    Permutations(Cards) \cup Permutations(Requests) \cup Permutations(Managers)
=============================================================================
