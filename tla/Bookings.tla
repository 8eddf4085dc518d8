------------------------------ MODULE Bookings ------------------------------
(***************************************************************************)
(* The customer bookings: BookingsService (create, cancel, approve), the   *)
(* staff side TasksService (condition reports, checklist, pickup trip) and *)
(* the manager side ManageService (assign, removeEmployee).                *)
(*                                                                         *)
(* Every request reads, checks, and writes by id later; what it read may   *)
(* be stale by then.  Left out: prices, addresses, and the GPS points and  *)
(* the driver of a trip, which no guard reads.                             *)
(***************************************************************************)
EXTENDS Naturals, FiniteSets

CONSTANTS
    Bookings,       \* bookings that may be made
    Employees,      \* the employees of the shop
    Items,          \* the checklist items of a booking
    Requests,       \* HTTP requests that can be in flight at once
    Nobody,         \* no employee assigned
    Keep,           \* an assignment the manager leaves undefined
    MaxFaults       \* bound: rejected database calls and restarts

ASSUME BookingsAssumption ==
    /\ Nobody \notin Employees /\ Keep \notin Employees /\ Keep # Nobody
    /\ MaxFaults \in Nat

VARIABLES
    status,         \* Booking.status
    submitted,      \* <<booking, kind>> pairs with a ConditionReport
    verified,       \* ... one of which has customerVerifiedAt
    pickup,         \* Booking.pickupMembershipId
    service,        \* Booking.serviceMembershipId
    employed,       \* the EMPLOYEE memberships that exist
    done,           \* per booking, the checklist items with done
    trip,           \* PickupTrip.status, "none" when there is no row
    req,            \* the requests in flight, with what they read
    overlapped,     \* history: two requests have been in flight at once
    faults          \* rejected database calls and restarts so far

gateVars == <<status, submitted, verified>>
staffVars == <<pickup, service, employed>>
vars == <<gateVars, staffVars, done, trip, req, overlapped, faults>>

\* The documented gates, on this module's statuses and reports.
G == INSTANCE BookingGates

-----------------------------------------------------------------------------
TripStatuses == {"none", "PICKED_UP", "IN_TRANSIT_TO_GARAGE", "ARRIVED_GARAGE"}
Choices == Employees \cup {Nobody, Keep}

\* A request in flight: the step it is at, and what it read.
Idle == [pc |-> "idle"]
At(pc, b) == [pc |-> pc, booking |-> b]
RequestRecords ==
    [pc: {"idle"}]
    \cup [pc: {"cancel", "assigned", "advance", "push"}, booking: Bookings]
    \cup [pc: {"verify"}, booking: Bookings, kind: G!Kinds, from: G!Statuses]
    \cup [pc: {"report"}, booking: Bookings, kind: G!Kinds]
    \cup [pc: {"assign"}, booking: Bookings, pickup: Choices, service: Choices]
    \cup [pc: {"remove"}, employee: Employees]
    \cup [pc: {"toggle"}, booking: Bookings, item: Items]
    \cup [pc: {"trip"}, booking: Bookings, trip: TripStatuses]

Init ==
    /\ G!Init
    /\ pickup = [b \in Bookings |-> Nobody]
    /\ service = [b \in Bookings |-> Nobody]
    /\ employed = Employees
    /\ done = [b \in Bookings |-> {}]
    /\ trip = [b \in Bookings |-> "none"]
    /\ req = [r \in Requests |-> Idle]
    /\ overlapped = FALSE
    /\ faults = 0

\* A request that only reads, checks and goes on.
Goes(r, record) ==
    /\ req' = [req EXCEPT ![r] = record]
    /\ overlapped' = (overlapped \/ \E o \in Requests \ {r} : req[o].pc # "idle")
    /\ UNCHANGED <<gateVars, staffVars, done, trip, faults>>

Free(r, b) == req[r].pc = "idle" /\ status[b] # "absent"

-----------------------------------------------------------------------------
(* The customer: create, cancel, verifyConditionReport. *)

\* One insert makes the booking, its checklist and its payment.
Create(b) ==
    /\ G!Book(b)
    /\ UNCHANGED <<staffVars, done, trip, req, overlapped, faults>>

\* Mutant: any booking that is not over may be cancelled.
ReadLateCancel(r, b) ==
    /\ Free(r, b)
    /\ status[b] \notin {"COMPLETED", "CANCELLED"}
    /\ Goes(r, At("cancel", b))

ReadCancel(r, b) ==
    /\ Free(r, b)
    /\ status[b] \in G!CANCELLABLE_STATUSES
    /\ Goes(r, At("cancel", b))

WriteCancel(r) ==
    /\ req[r].pc = "cancel"
    /\ status' = [status EXCEPT ![req[r].booking] = "CANCELLED"]
    /\ req' = [req EXCEPT ![r] = Idle]
    /\ UNCHANGED <<submitted, verified, staffVars, done, trip, overlapped, faults>>

ReadVerify(r, b, k) ==
    /\ Free(r, b)
    /\ <<b, k>> \in submitted
    /\ Goes(r, [pc |-> "verify", booking |-> b, kind |-> k, from |-> status[b]])

\* The transaction: the report, and the status it unlocks if it was pending.
WriteVerify(r) ==
    LET q == req[r] IN
    /\ q.pc = "verify"
    /\ verified' = verified \cup {<<q.booking, q.kind>>}
    /\ status' = IF q.from = G!Sent[q.kind]
                   THEN [status EXCEPT ![q.booking] = G!Approved[q.kind]]
                   ELSE status
    /\ req' = [req EXCEPT ![r] = Idle]
    /\ UNCHANGED <<submitted, staffVars, done, trip, overlapped, faults>>

-----------------------------------------------------------------------------
(* The manager: assign, removeEmployee. *)

\* assign validates the employees it was given, up to its first update.
ReadAssign(r, b, p, s) ==
    /\ Free(r, b)
    /\ {p, s} \subseteq employed \cup {Nobody, Keep}
    /\ Goes(r, [pc |-> "assign", booking |-> b, pickup |-> p, service |-> s])

Chosen(choice, old) == IF choice = Keep THEN old ELSE choice

\* Mutant: the employees are not checked again by the database.
AssignAnyone(r) ==
    LET q == req[r] IN
    /\ q.pc = "assign"
    /\ pickup' = [pickup EXCEPT ![q.booking] = Chosen(q.pickup, @)]
    /\ service' = [service EXCEPT ![q.booking] = Chosen(q.service, @)]
    /\ req' = [req EXCEPT ![r] = At("assigned", q.booking)]
    /\ UNCHANGED <<gateVars, employed, done, trip, overlapped, faults>>

\* The update; the foreign keys reject an employee removed since.
WriteAssign(r) ==
    LET q == req[r] IN
    /\ q.pc = "assign"
    /\ {q.pickup, q.service} \subseteq employed \cup {Nobody, Keep}
    /\ pickup' = [pickup EXCEPT ![q.booking] = Chosen(q.pickup, @)]
    /\ service' = [service EXCEPT ![q.booking] = Chosen(q.service, @)]
    /\ req' = [req EXCEPT ![r] = At("assigned", q.booking)]
    /\ UNCHANGED <<gateVars, employed, done, trip, overlapped, faults>>

AssignRejected(r) ==
    /\ req[r].pc = "assign"
    /\ ~({req[r].pickup, req[r].service} \subseteq employed \cup {Nobody, Keep})
    /\ Goes(r, Idle)

\* Mutant: pickup staff advance the booking, a specialist does not.
ReadPickupAssigned(r) ==
    LET b == req[r].booking IN
    /\ req[r].pc = "assigned"
    /\ Goes(r, IF pickup[b] # Nobody /\ status[b] = "BOOKED"
                 THEN At("advance", b) ELSE Idle)

\* The booking is read again: a specialist on a fresh one advances it.
ReadAssigned(r) ==
    LET b == req[r].booking IN
    /\ req[r].pc = "assigned"
    /\ Goes(r, IF service[b] # Nobody /\ status[b] = "BOOKED"
                 THEN At("advance", b) ELSE Idle)

Advance(r) ==
    /\ req[r].pc = "advance"
    /\ status' = [status EXCEPT ![req[r].booking] = "ASSIGNED"]
    /\ req' = [req EXCEPT ![r] = Idle]
    /\ UNCHANGED <<submitted, verified, staffVars, done, trip, overlapped, faults>>

ReadRemove(r, e) ==
    /\ req[r].pc = "idle"
    /\ e \in employed
    /\ Goes(r, [pc |-> "remove", employee |-> e])

\* The transaction: off every booking, then the membership is gone. It rejects
\* when the membership is gone already.
WriteRemove(r) ==
    LET e == req[r].employee
        Without(staff) ==
            [b \in Bookings |-> IF staff[b] = e THEN Nobody ELSE staff[b]]
    IN
    /\ req[r].pc = "remove"
    /\ e \in employed
    /\ pickup' = Without(pickup)
    /\ service' = Without(service)
    /\ employed' = employed \ {e}
    /\ req' = [req EXCEPT ![r] = Idle]
    /\ UNCHANGED <<gateVars, done, trip, overlapped, faults>>

RemoveRejected(r) ==
    /\ req[r].pc = "remove"
    /\ req[r].employee \notin employed
    /\ Goes(r, Idle)

-----------------------------------------------------------------------------
(* The staff: submitReport, toggleChecklist, and the pickup trip. *)

\* Mutant: photos are accepted at any status.
ReadAnyReport(r, e, b, k) ==
    /\ Free(r, b)
    /\ e \in employed /\ e \in {pickup[b], service[b]}
    /\ Goes(r, [pc |-> "report", booking |-> b, kind |-> k])

ReadReport(r, e, b, k) ==
    /\ Free(r, b)
    /\ e \in employed /\ e \in {pickup[b], service[b]}
    /\ status[b] = G!Gate[k]
    /\ Goes(r, [pc |-> "report", booking |-> b, kind |-> k])

\* The transaction: the report with its photos, and the next status.
WriteReport(r) ==
    LET q == req[r] IN
    /\ q.pc = "report"
    /\ submitted' = submitted \cup {<<q.booking, q.kind>>}
    /\ status' = [status EXCEPT ![q.booking] = G!Sent[q.kind]]
    /\ req' = [req EXCEPT ![r] = Idle]
    /\ UNCHANGED <<verified, staffVars, done, trip, overlapped, faults>>

ReadToggle(r, e, b, i) ==
    /\ Free(r, b)
    /\ e \in employed /\ e = service[b]
    /\ Goes(r, [pc |-> "toggle", booking |-> b, item |-> i])

WriteToggle(r, ticked) ==
    LET b == req[r].booking IN
    /\ req[r].pc = "toggle"
    /\ done' = [done EXCEPT ![b] = IF ticked THEN @ \cup {req[r].item}
                                             ELSE @ \ {req[r].item}]
    /\ req' = [req EXCEPT ![r] = Idle]
    /\ UNCHANGED <<gateVars, staffVars, trip, overlapped, faults>>

\* startPickupTrip and arriveGarage write the trip whatever its status is;
\* arriveGarage does not look at the booking's either.
ReadTripStart(r, e, b) ==
    /\ Free(r, b)
    /\ e \in employed /\ e = pickup[b]
    /\ status[b] # "CANCELLED"
    /\ Goes(r, [pc |-> "trip", booking |-> b, trip |-> "PICKED_UP"])

ReadArrive(r, e, b) ==
    /\ Free(r, b)
    /\ e \in employed /\ e = pickup[b]
    /\ Goes(r, [pc |-> "trip", booking |-> b, trip |-> "ARRIVED_GARAGE"])

\* pushPickupLocation reads the booking, then the trip.
ReadPush(r, e, b) ==
    /\ Free(r, b)
    /\ e \in employed /\ e = pickup[b]
    /\ status[b] # "CANCELLED"
    /\ Goes(r, At("push", b))

ReadTrip(r) ==
    LET b == req[r].booking IN
    /\ req[r].pc = "push"
    /\ Goes(r, IF trip[b] \in {"PICKED_UP", "IN_TRANSIT_TO_GARAGE"}
                 THEN [pc |-> "trip", booking |-> b, trip |-> "IN_TRANSIT_TO_GARAGE"]
                 ELSE Idle)

\* upsertTripPoint.
WriteTrip(r) ==
    /\ req[r].pc = "trip"
    /\ trip' = [trip EXCEPT ![req[r].booking] = req[r].trip]
    /\ req' = [req EXCEPT ![r] = Idle]
    /\ UNCHANGED <<gateVars, staffVars, done, overlapped, faults>>

-----------------------------------------------------------------------------
\* A database call that rejects ends its request, a restart ends them all.
LoseRequests(lost) ==
    /\ faults < MaxFaults
    /\ faults' = faults + 1
    /\ req' = [r \in Requests |-> IF r \in lost THEN Idle ELSE req[r]]
    /\ UNCHANGED <<gateVars, staffVars, done, trip, overlapped>>

CustomerStep(r) ==
    \/ \E b \in Bookings : ReadCancel(r, b)
    \/ \E b \in Bookings, k \in G!Kinds : ReadVerify(r, b, k)
    \/ WriteCancel(r) \/ WriteVerify(r)

ManagerStep(r) ==
    \/ \E b \in Bookings, p, s \in Choices : ReadAssign(r, b, p, s)
    \/ \E e \in Employees : ReadRemove(r, e)
    \/ WriteAssign(r) \/ AssignRejected(r) \/ ReadAssigned(r) \/ Advance(r)
    \/ WriteRemove(r) \/ RemoveRejected(r)

StaffStep(r) ==
    \/ \E e \in Employees, b \in Bookings :
        \/ \E k \in G!Kinds : ReadReport(r, e, b, k)
        \/ \E i \in Items : ReadToggle(r, e, b, i)
        \/ ReadTripStart(r, e, b) \/ ReadArrive(r, e, b) \/ ReadPush(r, e, b)
    \/ WriteReport(r)
    \/ \E ticked \in BOOLEAN : WriteToggle(r, ticked)
    \/ ReadTrip(r) \/ WriteTrip(r)

Next ==
    \/ \E b \in Bookings : Create(b)
    \/ \E r \in Requests : CustomerStep(r) \/ ManagerStep(r) \/ StaffStep(r)
    \/ \E lost \in SUBSET Requests : LoseRequests(lost)

Spec == Init /\ [][Next]_vars

-----------------------------------------------------------------------------
(* Properties. *)

\* The types of the rows and of what requests carry.
TypeOK ==
    /\ status \in [Bookings -> G!Statuses]
    /\ submitted \subseteq Bookings \X G!Kinds
    /\ verified \subseteq Bookings \X G!Kinds
    /\ pickup \in [Bookings -> Employees \cup {Nobody}]
    /\ service \in [Bookings -> Employees \cup {Nobody}]
    /\ employed \subseteq Employees
    /\ done \in [Bookings -> SUBSET Items]
    /\ trip \in [Bookings -> TripStatuses]
    /\ req \in [Requests -> RequestRecords]
    /\ overlapped \in BOOLEAN /\ faults \in Nat

\* Whatever requests overlap, no car is worked on and no booking completed
\* without the customer's approval: IN_PROGRESS and what follows need approved
\* pickup photos, COMPLETED approved delivery photos (verifyConditionReport).
WorkIsApproved ==
    \A b \in Bookings :
        /\ status[b] \in {"IN_PROGRESS", "DONE_PENDING", "COMPLETED"} =>
               <<b, "PICKUP">> \in verified
        /\ status[b] = "COMPLETED" => <<b, "DELIVERY">> \in verified

\* A removed employee is on no booking, though validateEmployee's answer can be
\* stale when assign writes.
StaffAreEmployed ==
    \A b \in Bookings : {pickup[b], service[b]} \subseteq employed \cup {Nobody}

\* No assignment gets stuck: a specialist on a booking that is still BOOKED
\* means that an assign is about to advance it, however two of them interleave
\* with a removal, as long as nothing rejects.
AssignmentAdvances ==
    faults = 0 =>
        \A b \in Bookings :
            service[b] # Nobody /\ status[b] = "BOOKED" =>
                \E r \in Requests :
                    req[r].pc \in {"assigned", "advance"} /\ req[r].booking = b

\* What requests in flight know, in the inductive invariant: their booking
\* exists, and delivery photos belong to work that was approved.
Knows(q) ==
    /\ q.pc \notin {"idle", "remove"} => status[q.booking] # "absent"
    /\ q.pc = "report" /\ q.kind = "DELIVERY" => <<q.booking, "PICKUP">> \in verified
    /\ q.pc = "verify" => <<q.booking, q.kind>> \in submitted
RequestsKnow ==
    /\ \A b \in Bookings : status[b] = "absent" => service[b] = Nobody
    /\ \A b \in Bookings :
        <<b, "DELIVERY">> \in submitted => <<b, "PICKUP">> \in verified
    /\ \A r \in Requests : Knows(req[r])

\* The inductive invariant behind WorkIsApproved and StaffAreEmployed.
IInv == TypeOK /\ WorkIsApproved /\ StaffAreEmployed /\ RequestsKnow

\* As long as no two requests overlapped, bookings implement the documented
\* gates: each write is a step of the life cycle from the status the booking has
\* at that moment, rejected calls and restarts notwithstanding.
GatesRespected == [][~overlapped' => G!Next]_gateVars
=============================================================================
