------------------------------ MODULE Migration ------------------------------
(***************************************************************************)
(* MigrationService: the four passes that carry the vehicles, bookings and *)
(* owners of the legacy data over to the records of Ownership, which is in *)
(* use meanwhile.  A pass reads its list once, then for each item looks    *)
(* whether it was carried over before and inserts a row.  A run may be     *)
(* interrupted and repeated; names, prices and the report are left out.    *)
(***************************************************************************)
EXTENDS Ownership

CONSTANTS
    Legacy, NoLegacy,   \* the Vehicle rows of the legacy data
    LegacyOwner,        \* per legacy vehicle, the user of its membership
    HasPlate,           \* the legacy vehicles with a plate
    LegacyBookings,
    BookedVehicle,      \* per booking, its vehicleId or NoLegacy
    HasTenant,          \* the bookings whose shop has a tenant
    Runs                \* calls of POST /migration/run at once

ASSUME MigrationAssumption ==
    /\ NoLegacy \notin Legacy /\ HasPlate \subseteq Legacy
    /\ LegacyOwner \in [Legacy -> Users]
    /\ BookedVehicle \in [LegacyBookings -> Legacy \cup {NoLegacy}]
    /\ HasTenant \subseteq LegacyBookings
    /\ "none" \notin Legacy \cup LegacyBookings   \* it stands for no item

VARIABLES
    legacyOf,       \* VehicleRecord.legacyVehicleId
    legacyStatus,   \* Booking.status of the legacy bookings
    events, cards,  \* ServiceEvent and JobCard rows made from a booking
    run             \* the runs, with the items of their pass left to look at

migrationVars == <<legacyOf, legacyStatus, events, cards, run>>
vars == <<ownVars, migrationVars>>

-----------------------------------------------------------------------------
ActiveStatuses == {"BOOKED", "ASSIGNED", "IN_PROGRESS"}
NoItem == "none"
NoRun == [pass |-> 0, todo |-> {}, item |-> NoItem, clean |-> TRUE]
RunRecords == [pass: 0 .. 4, todo: SUBSET (Legacy \cup LegacyBookings),
               item: Legacy \cup LegacyBookings \cup {NoItem},
               clean: BOOLEAN]   \* history: the legacy data have not changed

Init ==
    /\ OwnershipInit
    /\ legacyOf = [v \in Vehicles |-> NoLegacy]
    /\ legacyStatus \in [LegacyBookings -> {"BOOKED", "COMPLETED"}]
    /\ events = [b \in LegacyBookings |-> 0]
    /\ cards = [b \in LegacyBookings |-> 0]
    /\ run = [m \in Runs |-> NoRun]

RecordsOf(l) == {v \in Vehicles : legacyOf[v] = l}

\* What a pass reads when it starts.
Items(pass) ==
    CASE pass \in {1, 4} -> Legacy
      [] pass = 2 -> {b \in LegacyBookings : legacyStatus[b] = "COMPLETED"}
      [] pass = 3 -> {b \in LegacyBookings : legacyStatus[b] \in ActiveStatuses}

HasLegacyRow(v, l) ==
    \E i \in DOMAIN rows[v] :
        rows[v][i].type = "LEGACY_MIGRATION" /\ rows[v][i].user = LegacyOwner[l]

\* Mutant: a booking that was carried over while active is done with.
NeedsRowUnlessActive(pass, x) ==
    CASE pass = 1 -> RecordsOf(x) = {}
      [] pass = 2 -> events[x] + cards[x] = 0 /\ RecordsOf(BookedVehicle[x]) # {}
      [] pass = 3 -> cards[x] = 0 /\ RecordsOf(BookedVehicle[x]) # {} /\ x \in HasTenant
      [] pass = 4 -> \E v \in RecordsOf(x) : ~HasLegacyRow(v, x)

\* Not carried over before, and what its row refers to exists.
NeedsRow(pass, x) ==
    CASE pass = 1 -> RecordsOf(x) = {}
      [] pass = 2 -> events[x] = 0 /\ RecordsOf(BookedVehicle[x]) # {}
      [] pass = 3 -> cards[x] = 0 /\ RecordsOf(BookedVehicle[x]) # {} /\ x \in HasTenant
      [] pass = 4 -> \E v \in RecordsOf(x) : ~HasLegacyRow(v, x)

\* The first pass is started by a request, each other by the end of the last.
NextPass(m) ==
    LET pass == (run[m].pass + 1) % 5 IN
    /\ run[m].todo = {} /\ run[m].item = NoItem
    /\ run' = [run EXCEPT ![m] = [pass |-> pass, item |-> NoItem,
                 todo |-> IF pass = 0 THEN {} ELSE Items(pass),
                 clean |-> pass = 1 \/ run[m].clean]]
    /\ overlapped' = (overlapped
         \/ (pass = 1 /\ \E o \in Runs : run[o].pass # 0))
    /\ UNCHANGED <<plate, rows, odometer, fleet, removed, req, faults,
                   legacyOf, legacyStatus, events, cards>>

Look(m, x) ==
    /\ run[m].item = NoItem /\ x \in run[m].todo
    /\ run' = [run EXCEPT ![m].todo = @ \ {x},
                          ![m].item = IF NeedsRow(run[m].pass, x) THEN x ELSE NoItem]
    /\ UNCHANGED <<ownVars, legacyOf, legacyStatus, events, cards>>

Inserted(m) == run' = [run EXCEPT ![m].item = NoItem]

\* migrateVehicles: a vehicle without a plate gets a placeholder.
InsertRecord(m, v) ==
    LET l == run[m].item IN
    /\ run[m].pass = 1 /\ l # NoItem
    /\ ~Exists(v)
    /\ plate' = [plate EXCEPT ![v] = IF l \in HasPlate THEN "legacy" ELSE "TEMP"]
    /\ legacyOf' = [legacyOf EXCEPT ![v] = l]
    /\ Inserted(m)
    /\ UNCHANGED <<rows, odometer, fleet, removed, req, overlapped, faults,
                   legacyStatus, events, cards>>

\* migrateCompletedBookings.
InsertEvent(m) ==
    /\ run[m].pass = 2 /\ run[m].item # NoItem
    /\ events' = [events EXCEPT ![run[m].item] = @ + 1]
    /\ Inserted(m)
    /\ UNCHANGED <<ownVars, legacyOf, legacyStatus, cards>>

\* migrateActiveBookings.
InsertCard(m) ==
    /\ run[m].pass = 3 /\ run[m].item # NoItem
    /\ cards' = [cards EXCEPT ![run[m].item] = @ + 1]
    /\ Inserted(m)
    /\ UNCHANGED <<ownVars, legacyOf, legacyStatus, events>>

\* migrateOwnerships: the row starts when the membership did.
InsertOwner(m) ==
    LET l == run[m].item IN
    /\ run[m].pass = 4 /\ l # NoItem
    /\ \E v \in RecordsOf(l) :
        /\ Len(rows[v]) < MaxRows
        /\ rows' = [rows EXCEPT ![v] =
             Append(@, NewRow(LegacyOwner[l], "LEGACY_MIGRATION"))]
    /\ Inserted(m)
    /\ UNCHANGED <<plate, odometer, fleet, removed, req, overlapped, faults,
                   legacyOf, legacyStatus, events, cards>>

\* The legacy application, which knows nothing of the migration.
LegacyMoves(b) ==
    /\ legacyStatus[b] \in ActiveStatuses
    /\ legacyStatus' = [legacyStatus EXCEPT ![b] = "COMPLETED"]
    /\ run' = [m \in Runs |-> [run[m] EXCEPT !.clean = FALSE]]
    /\ UNCHANGED <<ownVars, legacyOf, events, cards>>

\* A rejected call or a restart ends a run wherever it is.
Interrupt(m) ==
    /\ faults < MaxFaults /\ run[m].pass # 0
    /\ faults' = faults + 1
    /\ run' = [run EXCEPT ![m] = NoRun]
    /\ UNCHANGED <<plate, rows, odometer, fleet, removed, req, overlapped,
                   legacyOf, legacyStatus, events, cards>>

MigrationNext ==
    \/ \E m \in Runs :
        \/ NextPass(m)
        \/ \E x \in Legacy \cup LegacyBookings : Look(m, x)
        \/ \E v \in Vehicles : InsertRecord(m, v)
        \/ InsertEvent(m) \/ InsertCard(m) \/ InsertOwner(m) \/ Interrupt(m)
    \/ \E b \in LegacyBookings : LegacyMoves(b)

Next == (OwnershipNext /\ UNCHANGED migrationVars) \/ MigrationNext

Spec == Init /\ [][Next]_vars

-----------------------------------------------------------------------------
(* Properties. *)

\* The types of both sides.
MigrationTypeOK ==
    /\ TypeOK
    /\ legacyOf \in [Vehicles -> Legacy \cup {NoLegacy}]
    /\ legacyStatus \in [LegacyBookings -> ActiveStatuses \cup {"COMPLETED"}]
    /\ events \in [LegacyBookings -> Nat] /\ cards \in [LegacyBookings -> Nat]
    /\ run \in [Runs -> RunRecords]

\* Each vehicle and each booking has been carried over at most once, and the
\* legacy owner made an owner once, also if he sold the vehicle since.
MigratedOnce ==
    /\ \A l \in Legacy : Cardinality(RecordsOf(l)) <= 1
    /\ \A b \in LegacyBookings : events[b] <= 1 /\ cards[b] <= 1
    /\ \A v \in Vehicles :
        Cardinality({i \in DOMAIN rows[v] : IsMigrated(rows[v][i])}) <= 1

\* The migration carries everything over, and nothing twice: a run that ends,
\* with the legacy data at rest meanwhile, leaves every vehicle with its record
\* and its owner, every booking of a vehicle with its event or, where the shop
\* has a tenant, its card, whatever earlier runs were interrupted; and until two
\* runs overlap, however often they are interrupted and repeated, none of it is
\* there twice.
RunCarriesAll ==
    [][/\ ~overlapped' => MigratedOnce'
       /\ \A m \in Runs :
        run[m].pass = 4 /\ run'[m].pass = 0 /\ run[m].clean /\ faults' = faults =>
            /\ \A l \in Legacy : \E v \in RecordsOf(l) : HasLegacyRow(v, l)
            /\ \A b \in LegacyBookings :
                BookedVehicle[b] # NoLegacy =>
                    \/ legacyStatus[b] = "COMPLETED" /\ events[b] > 0
                    \/ legacyStatus[b] # "COMPLETED" /\ (cards[b] > 0 \/ b \notin HasTenant)]_vars
=============================================================================
