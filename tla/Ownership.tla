------------------------------ MODULE Ownership ------------------------------
(***************************************************************************)
(* The vehicle records and who owns them: VehicleRecordsService.register,  *)
(* OwnershipService (transfers), ServiceHistoryService.addOwnerReported    *)
(* and the vehicles of FleetService.                                       *)
(*                                                                         *)
(* All registrations are of one car, known by its plate; what unique       *)
(* constraints guard (VIN, chassis number) is left out.  The reads of a    *)
(* request are one step, its writes another: by then they may be stale.    *)
(***************************************************************************)
EXTENDS Integers, Sequences, FiniteSets

CONSTANTS
    Vehicles,       \* VehicleRecord rows there may be
    Users, NoUser,
    Fleets, NoFleet,
    FleetOwner,     \* per fleet, its ownerId
    Kms,            \* odometer readings
    OfferTypes,     \* the types of a transfer that owners name
    Requests,       \* HTTP requests that can be in flight at once
    MaxRows,        \* bound: OwnershipRecord rows of a vehicle
    MaxFaults       \* bound: rejected database calls and restarts

ASSUME OwnershipAssumption ==
    /\ NoUser \notin Users /\ NoFleet \notin Fleets
    /\ FleetOwner \in [Fleets -> Users]
    /\ OfferTypes \subseteq {"SALE", "FLEET_ASSIGNMENT", "LEGACY_MIGRATION"}
    /\ Kms \subseteq Nat /\ MaxRows \in Nat /\ MaxFaults \in Nat

VARIABLES
    plate,          \* VehicleRecord.registrationPlate, "none" for no record
    rows,           \* per vehicle, its OwnershipRecord rows by startDate
    odometer,       \* VehicleRecord.latestOdometerKm
    fleet,          \* FleetVehicle.fleetId, NoFleet when there is no row
    removed,        \* FleetVehicle.removedAt is set
    req,            \* the requests in flight, with what they read
    overlapped,     \* history: two requests have been in flight at once
    faults

ownVars == <<plate, rows, odometer, fleet, removed, req, overlapped, faults>>

TransferTypes == {"SALE", "FLEET_ASSIGNMENT", "LEGACY_MIGRATION"}
\* OVER is DECLINED or EXPIRED, which no code tells apart.
TransferStatuses == {"PENDING", "CONFIRMED", "OVER"}
\* A GIFT or FLEET_REASSIGNMENT is treated as a SALE is.  The reading and the
\* expiry of a transfer are kept while it is PENDING: no code looks at them later.
Rows == [user: Users, type: TransferTypes, status: TransferStatuses,
         offered: BOOLEAN,  \* initiatedById is set: it began as a transfer
         open: BOOLEAN,     \* endDate is null
         overdue: BOOLEAN,  \* expiresAt has passed
         km: Kms \cup {0}]

Settled(row, status) == [row EXCEPT !.status = status, !.overdue = FALSE, !.km = 0]

\* The plate of the car, on a record made by register or by the migration, and
\* the placeholder the migration gives to a vehicle without one.
Plates == {"none", "car", "legacy", "TEMP"}

NewRow(u, type) ==
    [user |-> u, type |-> type, status |-> "CONFIRMED", offered |-> FALSE,
     open |-> TRUE, overdue |-> FALSE, km |-> 0]

Idle == [pc |-> "idle"]
RequestRecords ==
    [pc: {"idle"}]
    \cup [pc: {"offer"}, vehicle: Vehicles, user: Users, type: OfferTypes, km: Kms]
    \cup [pc: {"confirm"}, vehicle: Vehicles, row: 1 .. MaxRows, km: Kms]
    \cup [pc: {"refuse"}, vehicle: Vehicles, row: 1 .. MaxRows]
    \cup [pc: {"link"}, vehicle: Vehicles, user: Users]
    \cup [pc: {"create"}, user: Users]
    \cup [pc: {"report"}, vehicle: Vehicles, km: Kms]
    \cup [pc: {"join", "leave"}, vehicle: Vehicles, fleet: Fleets]

OwnershipInit ==
    /\ plate = [v \in Vehicles |-> "none"]
    /\ rows = [v \in Vehicles |-> <<>>]
    /\ odometer = [v \in Vehicles |-> 0]
    /\ fleet = [v \in Vehicles |-> NoFleet]
    /\ removed = [v \in Vehicles |-> FALSE]
    /\ req = [r \in Requests |-> Idle]
    /\ overlapped = FALSE
    /\ faults = 0

-----------------------------------------------------------------------------
Exists(v) == plate[v] # "none"
IsOpen(row) == row.status = "CONFIRMED" /\ row.open
IsPending(row) == row.status = "PENDING"

\* The open ownerships.
Holding(v) == {i \in DOMAIN rows[v] : IsOpen(rows[v][i])}

\* Rows are made when their ownership begins; a migrated one began in the past.
IsMigrated(row) == row.type = "LEGACY_MIGRATION" /\ ~row.offered

StartDate(v, i) == IF IsMigrated(rows[v][i]) THEN -i ELSE i

\* findFirst by startDate desc.
OwnedBy(v, u) ==
    \E i \in Holding(v) :
        /\ rows[v][i].user = u
        /\ \A j \in Holding(v) : StartDate(v, j) <= StartDate(v, i)

Offers(v) == {i \in DOMAIN rows[v] : IsPending(rows[v][i])}

\* A request has read what it needs and goes on.
Goes(r, record) ==
    /\ req' = [req EXCEPT ![r] = record]
    /\ overlapped' = (overlapped
         \/ (req[r] = Idle /\ record # Idle /\ \E o \in Requests : req[o] # Idle))
    /\ UNCHANGED <<plate, rows, odometer, fleet, removed, faults>>

\* The last write of a request that touches the ownership rows of a vehicle.
Writes(r, v, newRows) ==
    /\ rows' = [rows EXCEPT ![v] = newRows]
    /\ req' = [req EXCEPT ![r] = Idle]
    /\ UNCHANGED <<overlapped, faults>>

-----------------------------------------------------------------------------
(* Transfers: initiateTransfer, confirmTransfer, declineTransfer. *)

\* Mutant: any holder may offer the vehicle, whatever is pending.
ReadAnyOffer(r, v, u, type, km) ==
    /\ req[r] = Idle
    /\ Holding(v) # {}
    /\ km >= odometer[v]
    /\ Goes(r, [pc |-> "offer", vehicle |-> v, user |-> u, type |-> type, km |-> km])

\* The owner, which is whoever initiates it, offers v to u, and names the type.
ReadOffer(r, v, u, type, km) ==
    /\ req[r] = Idle
    /\ \E from \in Users : OwnedBy(v, from)
    /\ km >= odometer[v]
    /\ Offers(v) = {}
    /\ Goes(r, [pc |-> "offer", vehicle |-> v, user |-> u, type |-> type, km |-> km])

WriteOffer(r) ==
    LET q == req[r] IN
    /\ q.pc = "offer" /\ Len(rows[q.vehicle]) < MaxRows
    /\ Writes(r, q.vehicle,
              Append(rows[q.vehicle], [NewRow(q.user, q.type) EXCEPT
                 !.status = "PENDING", !.offered = TRUE, !.km = q.km]))
    /\ UNCHANGED <<plate, odometer, fleet, removed>>

\* The recipient confirms; an overdue transfer is expired and refused.
ReadConfirm(r, v, i) ==
    /\ req[r] = Idle
    /\ i \in DOMAIN rows[v] /\ IsPending(rows[v][i])
    /\ Goes(r, IF rows[v][i].overdue
                 THEN [pc |-> "refuse", vehicle |-> v, row |-> i]
                 ELSE [pc |-> "confirm", vehicle |-> v, row |-> i, km |-> rows[v][i].km])

\* The transaction: confirmed, every other open ownership closed.
WriteConfirm(r) ==
    LET q == req[r]
        old == rows[q.vehicle]
    IN
    /\ q.pc = "confirm"
    /\ Writes(r, q.vehicle,
              [i \in DOMAIN old |->
                 IF i = q.row THEN Settled(old[i], "CONFIRMED")
                 ELSE IF IsOpen(old[i]) THEN [old[i] EXCEPT !.open = FALSE]
                 ELSE old[i]])
    /\ odometer' = [odometer EXCEPT ![q.vehicle] = q.km]
    /\ UNCHANGED <<plate, fleet, removed>>

\* Initiator or recipient declines.
ReadDecline(r, v, i) ==
    /\ req[r] = Idle
    /\ i \in DOMAIN rows[v] /\ IsPending(rows[v][i])
    /\ Goes(r, [pc |-> "refuse", vehicle |-> v, row |-> i])

\* Expired or declined: the update goes by id, whatever the status is by now.
WriteRefusal(r) ==
    LET q == req[r] IN
    /\ q.pc = "refuse"
    /\ Writes(r, q.vehicle, [rows[q.vehicle] EXCEPT ![q.row] = Settled(@, "OVER")])
    /\ UNCHANGED <<plate, odometer, fleet, removed>>

\* Seven days pass.
PassWeek(v) ==
    /\ \E i \in DOMAIN rows[v] : IsPending(rows[v][i]) /\ ~rows[v][i].overdue
    /\ rows' = [rows EXCEPT ![v] =
                  [i \in DOMAIN @ |-> IF IsPending(@[i])
                                        THEN [@[i] EXCEPT !.overdue = TRUE] ELSE @[i]]]
    /\ UNCHANGED <<plate, odometer, fleet, removed, req, overlapped, faults>>

-----------------------------------------------------------------------------
(* Registration of the car and readings of its odometer. *)

\* findExistingVehicle.
WithPlate == {v \in Vehicles : plate[v] \in {"car", "legacy"}}

\* register: a record with the plate is linked, else one is made.
ReadRegister(r, u) ==
    /\ req[r] = Idle
    /\ IF WithPlate = {} THEN Goes(r, [pc |-> "create", user |-> u])
       ELSE \E v \in WithPlate : Goes(r, [pc |-> "link", vehicle |-> v, user |-> u])

\* The new record is a call of its own; its owner is linked by the next one.
CreateVehicle(r, v) ==
    LET q == req[r] IN
    /\ q.pc = "create" /\ ~Exists(v)
    /\ plate' = [plate EXCEPT ![v] = "car"]
    /\ req' = [req EXCEPT ![r] = [pc |-> "link", vehicle |-> v, user |-> q.user]]
    /\ UNCHANGED <<rows, odometer, fleet, removed, overlapped, faults>>

LinkOwner(r) ==
    LET q == req[r] IN
    /\ q.pc = "link" /\ Len(rows[q.vehicle]) < MaxRows
    /\ Writes(r, q.vehicle,
              Append(rows[q.vehicle], NewRow(q.user, "SALE")))
    /\ UNCHANGED <<plate, odometer, fleet, removed>>

\* Mutant: a reading is accepted as it comes.
ReadAnyReport(r, v, km) ==
    /\ req[r] = Idle /\ Exists(v)
    /\ Goes(r, [pc |-> "report", vehicle |-> v, km |-> km])

ReadReport(r, v, km) ==
    /\ req[r] = Idle /\ Exists(v)
    /\ km >= odometer[v]
    /\ Goes(r, [pc |-> "report", vehicle |-> v, km |-> km])

WriteReport(r) ==
    LET q == req[r] IN
    /\ q.pc = "report"
    /\ odometer' = [odometer EXCEPT ![q.vehicle] = q.km]
    /\ req' = [req EXCEPT ![r] = Idle]
    /\ UNCHANGED <<plate, rows, fleet, removed, overlapped, faults>>

-----------------------------------------------------------------------------
(* The vehicles of a fleet: addVehicle, removeVehicle. *)

ReadJoin(r, v, f) ==
    /\ req[r] = Idle /\ Exists(v)
    /\ fleet[v] = NoFleet \/ removed[v]
    /\ Goes(r, [pc |-> "join", vehicle |-> v, fleet |-> f])

\* The transaction; vehicleRecordId is unique, so it rejects when there is a
\* row of any fleet already, a removed one included.
WriteJoin(r) ==
    LET q == req[r] IN
    /\ q.pc = "join" /\ fleet[q.vehicle] = NoFleet /\ Len(rows[q.vehicle]) < MaxRows
    /\ fleet' = [fleet EXCEPT ![q.vehicle] = q.fleet]
    /\ Writes(r, q.vehicle,
              Append(rows[q.vehicle],
                     NewRow(FleetOwner[q.fleet], "FLEET_ASSIGNMENT")))
    /\ UNCHANGED <<plate, odometer, removed>>

JoinRejected(r) ==
    /\ req[r].pc = "join" /\ fleet[req[r].vehicle] # NoFleet
    /\ Goes(r, Idle)

ReadLeave(r, v, f) ==
    /\ req[r] = Idle
    /\ fleet[v] = f /\ ~removed[v]
    /\ Goes(r, [pc |-> "leave", vehicle |-> v, fleet |-> f])

\* Mutant: the vehicle leaves the fleet, its ownership stays open.
WriteLeaveOnly(r) ==
    /\ req[r].pc = "leave"
    /\ removed' = [removed EXCEPT ![req[r].vehicle] = TRUE]
    /\ Writes(r, req[r].vehicle, rows[req[r].vehicle])
    /\ UNCHANGED <<plate, odometer, fleet>>

\* The transaction: removed, and the fleet's ownership closed, with whatever its
\* owner is offered as a fleet assignment.
WriteLeave(r) ==
    LET q == req[r]
        old == rows[q.vehicle]
        Assigned(row) == row.user = FleetOwner[q.fleet] /\ row.type = "FLEET_ASSIGNMENT"
    IN
    /\ q.pc = "leave"
    /\ removed' = [removed EXCEPT ![q.vehicle] = TRUE]
    /\ Writes(r, q.vehicle,
              [i \in DOMAIN old |-> IF Assigned(old[i]) THEN [old[i] EXCEPT !.open = FALSE]
                                                        ELSE old[i]])
    /\ UNCHANGED <<plate, odometer, fleet>>

-----------------------------------------------------------------------------
\* A database call that rejects ends its request, a restart ends them all.
LoseRequests(lost) ==
    /\ faults < MaxFaults
    /\ \E r \in lost : req[r] # Idle
    /\ faults' = faults + 1
    /\ req' = [r \in Requests |-> IF r \in lost THEN Idle ELSE req[r]]
    /\ UNCHANGED <<plate, rows, odometer, fleet, removed, overlapped>>

TransferStep(r) ==
    \/ \E v \in Vehicles, u \in Users, type \in OfferTypes, km \in Kms :
            ReadOffer(r, v, u, type, km)
    \/ \E v \in Vehicles, i \in 1 .. MaxRows : ReadConfirm(r, v, i) \/ ReadDecline(r, v, i)
    \/ WriteOffer(r) \/ WriteConfirm(r) \/ WriteRefusal(r)

RecordStep(r) ==
    \/ \E u \in Users : ReadRegister(r, u)
    \/ \E v \in Vehicles : CreateVehicle(r, v)
    \/ \E v \in Vehicles, km \in Kms : ReadReport(r, v, km)
    \/ LinkOwner(r) \/ WriteReport(r)

FleetStep(r) ==
    \/ \E v \in Vehicles, f \in Fleets : ReadJoin(r, v, f) \/ ReadLeave(r, v, f)
    \/ WriteJoin(r) \/ JoinRejected(r) \/ WriteLeave(r)

OwnershipNext ==
    \/ \E r \in Requests : TransferStep(r) \/ RecordStep(r) \/ FleetStep(r)
    \/ \E v \in Vehicles : PassWeek(v)
    \/ \E lost \in SUBSET Requests : LoseRequests(lost)

-----------------------------------------------------------------------------
(* Properties. *)

\* The types of the rows and of what requests carry.
TypeOK ==
    /\ plate \in [Vehicles -> Plates]
    /\ rows \in [Vehicles -> Seq(Rows)]
    /\ odometer \in [Vehicles -> Kms \cup {0}]
    /\ fleet \in [Vehicles -> Fleets \cup {NoFleet}]
    /\ removed \in [Vehicles -> BOOLEAN]
    /\ req \in [Requests -> RequestRecords]
    /\ overlapped \in BOOLEAN /\ faults \in Nat

\* Whatever requests overlap, an open fleet assignment that addVehicle made is
\* one of a fleet that has the vehicle now (removeVehicle closes it).
FleetRowsMatch ==
    \A v \in Vehicles : \A i \in DOMAIN rows[v] :
        /\ rows[v][i].type = "FLEET_ASSIGNMENT" /\ ~rows[v][i].offered
        /\ IsOpen(rows[v][i])
        => /\ fleet[v] # NoFleet /\ ~removed[v]
           /\ rows[v][i].user = FleetOwner[fleet[v]]

\* Until two requests overlap, the odometer falls only when a transfer is
\* confirmed that was offered before a higher reading was reported.
OdometerFallsByTransferOnly ==
    [][~overlapped' =>
        \A v \in Vehicles :
            odometer'[v] < odometer[v] =>
                \E i \in DOMAIN rows[v] :
                    /\ IsPending(rows[v][i]) /\ rows'[v][i].status = "CONFIRMED"
                    /\ rows[v][i].km = odometer'[v]]_ownVars

\* The ownership rows as the abstract title sees them.
Holders ==
    [v \in Vehicles |->
       {[user |-> rows[v][i].user, kind |-> rows[v][i].type, since |-> StartDate(v, i)] :
          i \in Holding(v)}]

Offered ==
    [v \in Vehicles |-> IF Offers(v) = {} THEN NoUser
                        ELSE rows[v][CHOOSE i \in Offers(v) : TRUE].user]

T == INSTANCE Title WITH Moments <- -MaxRows .. MaxRows, holders <- Holders, offered <- Offered

\* removeVehicle has not closed an offer.
OffersOpen ==
    \A v \in Vehicles : \A i \in Offers(v) : rows[v][i].open

\* Until two requests overlap, vehicles change hands as Title allows: only the
\* owner offers one, one transfer at a time, a confirmed one leaves a single
\* holder, and a vehicle that leaves a fleet goes back to its owner before.  An
\* offer closed by a removal is the exception: confirmed, it leaves no holder.
ImplementsTitle ==
    T!Init /\ [][~overlapped' /\ OffersOpen /\ rows' # rows =>
                   UNCHANGED T!vars \/ T!Next]_ownVars
=============================================================================
