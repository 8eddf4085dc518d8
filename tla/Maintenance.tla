---------------------------- MODULE Maintenance ----------------------------
(***************************************************************************)
(* MaintenanceService for one vehicle and one scheduled type of service:   *)
(* the tenants' templates, the schedule getSchedule computes from them,    *)
(* and the handler of service-event.created that completes an entry and    *)
(* creates the next.  Of the vehicle's services the routine ones are of    *)
(* the scheduled type.  The service's cost is left out.                    *)
(***************************************************************************)
EXTENDS Integers, Sequences, FiniteSets

CONSTANTS
    Tenants,        \* garages that may have a template for the make and model
    Items,          \* template items: intervals in km and ticks, 0 if not given
    NoItem,
    Kms,            \* odometer readings
    SeededDue,      \* due dates and readings of the entry the seed script made
    DueSoonTicks, DueSoonKm,
    MaxFaults       \* bound: rejected database calls and restarts

\* What Care assumes of them.
MaintenanceConstants ==
    /\ NoItem \notin Items
    /\ Items \subseteq [km: Nat, ticks: Nat]
    /\ \A item \in Items : item.km # 0 \/ item.ticks # 0
    /\ Kms \subseteq Nat /\ MaxFaults \in Nat
    /\ SeededDue \subseteq Int \X Int
    /\ DueSoonTicks \in Nat /\ DueSoonKm \in Nat

VARIABLES
    now, services,  \* the time, and the vehicle's services, the latest first
    latestOdometerKm,
    template,       \* per tenant, its template's item for the service type
    entries,        \* the maintenanceScheduleEntry rows, in order of creation
    planSeen,       \* service events the bus has delivered here
    plan,           \* the handler in flight, with the event and entry it read
    unscheduled,    \* history: some garage has been without the item
    faults

scheduleVars == <<latestOdometerKm, template, entries, planSeen, plan, unscheduled>>

None == -1      \* no date, no reading

NoPlan == [pc |-> "idle", event |-> 0, entry |-> 0]

PlanInit ==
    /\ latestOdometerKm = None
    /\ template \in [Tenants -> {NoItem} \cup Items]
    /\ entries \in {<<>>} \cup {<<[dueAt |-> d[1], dueKm |-> d[2], completed |-> FALSE]>> :
                               d \in SeededDue}
    /\ planSeen = 0
    /\ plan = NoPlan
    /\ unscheduled = \E t \in Tenants : template[t] = NoItem

-----------------------------------------------------------------------------
(* The schedule. *)

Open == {i \in DOMAIN entries : ~entries[i].completed}

\* mergeTemplateItems: the templates come in no particular order.
MergedItems == {template[t] : t \in Tenants} \ {NoItem}

\* The services of the scheduled type, by their place, and the first of them,
\* which is the latest.
OfType == {i \in DOMAIN services : services[i].category = "ROUTINE_MAINTENANCE"}

lastService == services[CHOOSE i \in OfType : \A j \in OfType : i <= j]

\* The due date and reading of the entry that exists, if there is one.
Existing(field) ==
    IF Open = {} THEN None ELSE entries[CHOOSE i \in Open : TRUE][field]

\* Mutant: the existing entry decides before the last service.
dueOfEntry(item) ==
    IF item.ticks = 0 THEN None
    ELSE IF Open # {} THEN Existing("dueAt")
    ELSE IF OfType = {} THEN None ELSE lastService.at + item.ticks

\* computeScheduleEntry: the last service decides before the existing entry.
dueDate(item) ==
    IF item.ticks = 0 THEN None
    ELSE IF OfType = {} THEN Existing("dueAt")
    ELSE lastService.at + item.ticks

\* Without a reading at a service the interval is counted from today's.
dueOdometerKm(item) ==
    IF item.km = 0 THEN None
    ELSE IF OfType # {} /\ lastService.km # None THEN lastService.km + item.km
    ELSE IF latestOdometerKm # None THEN latestOdometerKm + item.km
    ELSE Existing("dueKm")

\* UPCOMING 0, DUE_SOON 1, OVERDUE 2.
classifyUrgency(dueAt, dueKm) ==
    LET within(ticks, km) ==
            \/ dueAt # None /\ dueAt - now <= ticks
            \/ dueKm # None /\ latestOdometerKm # None /\ dueKm - latestOdometerKm <= km
    IN  IF within(0, 0) THEN 2 ELSE IF within(DueSoonTicks, DueSoonKm) THEN 1 ELSE 0

Urgency(item) == classifyUrgency(dueDate(item), dueOdometerKm(item))

-----------------------------------------------------------------------------
(* Actions. *)

\* A reading is reported (register, addOwnerReported); they never lower it.
DriveOn(km) ==
    /\ km > latestOdometerKm
    /\ latestOdometerKm' = km
    /\ UNCHANGED <<template, entries, planSeen, plan, unscheduled, faults>>

\* The upsert replaces the items: the type may be gone from them.
createOrUpdateTemplate(t, item) ==
    /\ template[t] # item
    /\ template' = [template EXCEPT ![t] = item]
    /\ unscheduled' = (unscheduled \/ item = NoItem)
    /\ UNCHANGED <<latestOdometerKm, entries, planSeen, plan, faults>>

\* The k-th service recorded.
Service(k) == services[Len(services) + 1 - k]

\* handleServiceEventCreated finds the entries the service completes.
HandleService ==
    /\ plan.pc = "idle"
    /\ planSeen < Len(services)
    /\ planSeen' = planSeen + 1
    /\ IF Service(planSeen').category = "ROUTINE_MAINTENANCE"
         THEN \/ Open = {} /\ UNCHANGED plan
              \/ \E i \in Open : plan' = [pc |-> "complete", event |-> planSeen', entry |-> i]
         ELSE UNCHANGED plan
    /\ UNCHANGED <<latestOdometerKm, template, entries, unscheduled, faults>>

CompleteEntry ==
    /\ plan.pc = "complete"
    /\ entries' = [entries EXCEPT ![plan.entry].completed = TRUE]
    /\ plan' = [plan EXCEPT !.pc = "create"]
    /\ UNCHANGED <<latestOdometerKm, template, planSeen, unscheduled, faults>>

NextEntry(item) ==
    LET service == Service(plan.event) IN
    [dueAt |-> IF item.ticks = 0 THEN None ELSE service.at + item.ticks,
     dueKm |-> IF item.km = 0 \/ service.km = None THEN None ELSE service.km + item.km,
     completed |-> FALSE]

\* Mutant: no next entry for a service without an odometer reading.
CreateNextIfRead ==
    /\ plan.pc = "create"
    /\ entries' \in IF MergedItems = {} \/ Service(plan.event).km = None THEN {entries}
                    ELSE {Append(entries, NextEntry(item)) : item \in MergedItems}
    /\ plan' = NoPlan
    /\ UNCHANGED <<latestOdometerKm, template, planSeen, unscheduled, faults>>

CreateNext ==
    /\ plan.pc = "create"
    /\ entries' \in IF MergedItems = {} THEN {entries}
                    ELSE {Append(entries, NextEntry(item)) : item \in MergedItems}
    /\ plan' = NoPlan
    /\ UNCHANGED <<latestOdometerKm, template, planSeen, unscheduled, faults>>

\* The error ends in the consumer log, and nobody completes the handler's work.
PlanRejected ==
    /\ plan.pc # "idle"
    /\ faults < MaxFaults
    /\ plan' = NoPlan
    /\ faults' = faults + 1
    /\ UNCHANGED <<latestOdometerKm, template, entries, planSeen, unscheduled>>

\* A restart: the event that was being handled is delivered again.
RestartPlan ==
    /\ planSeen' = IF plan.pc = "idle" THEN planSeen ELSE plan.event - 1
    /\ plan' = NoPlan
    /\ UNCHANGED <<latestOdometerKm, template, entries, unscheduled>>

PlanStep == HandleService \/ CompleteEntry \/ CreateNext

PlanWork ==
    \/ \E km \in Kms : DriveOn(km)
    \/ \E t \in Tenants, item \in {NoItem} \cup Items : createOrUpdateTemplate(t, item)
    \/ PlanStep \/ PlanRejected

-----------------------------------------------------------------------------
(* Properties. *)

\* A scheduled service stays scheduled: each completed entry is followed by one
\* open entry, never by none and never by two, however services, readings and
\* template updates interleave with the handler (no fault, no item dropped).
ScheduleContinues ==
    entries # <<>> /\ ~unscheduled /\ faults = 0 =>
        Cardinality(Open) = IF plan.pc = "create" THEN 0 ELSE 1

\* The computed urgency of an item only grows with time and distance; a service
\* of the type or a new template alone relaxes it.
UrgencyNeverRelaxes ==
    [][services' = services /\ template' = template =>
        \A item \in MergedItems : Urgency(item)' >= Urgency(item)]_<<now, services, scheduleVars>>
=============================================================================
