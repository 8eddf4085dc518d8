---------------------------- MODULE BookingGates ----------------------------
(***************************************************************************)
(* The gates of a booking's life as the documentation draws them: staff    *)
(* send the photos of a kind only at its gate, the customer's approval     *)
(* unlocks the next status, and only an early booking can be cancelled.    *)
(* Every step is atomic.                                                   *)
(***************************************************************************)
CONSTANT Bookings

VARIABLES
    status,         \* Booking.status, "absent" before the booking is made
    submitted,      \* <<booking, kind>> pairs with a condition report
    verified        \* <<booking, kind>> pairs with an approved report

vars == <<status, submitted, verified>>

Kinds == {"PICKUP", "DELIVERY"}
Statuses == {"absent", "BOOKED", "ASSIGNED", "CONDITION_PENDING",
             "IN_PROGRESS", "DONE_PENDING", "COMPLETED", "CANCELLED"}
CANCELLABLE_STATUSES == {"BOOKED", "ASSIGNED", "CONDITION_PENDING"}

\* Where photos of a kind may be sent, where that leads, and where their
\* approval leads.
Gate == [PICKUP |-> "ASSIGNED", DELIVERY |-> "IN_PROGRESS"]
Sent == [PICKUP |-> "CONDITION_PENDING", DELIVERY |-> "DONE_PENDING"]
Approved == [PICKUP |-> "IN_PROGRESS", DELIVERY |-> "COMPLETED"]

Init ==
    /\ status = [b \in Bookings |-> "absent"]
    /\ submitted = {}
    /\ verified = {}

Book(b) ==
    /\ status[b] = "absent"
    /\ status' = [status EXCEPT ![b] = "BOOKED"]
    /\ UNCHANGED <<submitted, verified>>

Assign(b) ==
    /\ status[b] = "BOOKED"
    /\ status' = [status EXCEPT ![b] = "ASSIGNED"]
    /\ UNCHANGED <<submitted, verified>>

Submit(b, k) ==
    /\ status[b] = Gate[k]
    /\ status' = [status EXCEPT ![b] = Sent[k]]
    /\ submitted' = submitted \cup {<<b, k>>}
    /\ UNCHANGED verified

\* A report approved again, or late, changes no status.
Approve(b, k) ==
    /\ <<b, k>> \in submitted
    /\ status' = IF status[b] = Sent[k]
                   THEN [status EXCEPT ![b] = Approved[k]] ELSE status
    /\ verified' = verified \cup {<<b, k>>}
    /\ UNCHANGED submitted

Cancel(b) ==
    /\ status[b] \in CANCELLABLE_STATUSES
    /\ status' = [status EXCEPT ![b] = "CANCELLED"]
    /\ UNCHANGED <<submitted, verified>>

Next ==
    \E b \in Bookings :
        \/ Book(b) \/ Assign(b) \/ Cancel(b)
        \/ \E k \in Kinds : Submit(b, k) \/ Approve(b, k)

Spec == Init /\ [][Next]_vars
=============================================================================
