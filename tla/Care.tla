-------------------------------- MODULE Care --------------------------------
(***************************************************************************)
(* The life of one vehicle: its health score, its maintenance schedule and *)
(* the notifications, which share the vehicle's services and its alerts,   *)
(* and the papers kept of it; all of them run on one server.               *)
(***************************************************************************)
EXTENDS HealthScore

CONSTANTS Tenants, Items, NoItem, SeededDue, DueSoonTicks, DueSoonKm,
          Preferences, Managers, Runs, MAX_RETRIES,
          MaxNotes,
          Mail, MaxMail,    \* types of events, and a bound on them
          Fields, Clearable, Values, NoValue, Documents, Dates, NoDate, Cards,
          Requests, MAX_PHOTOS_PER_JOB_CARD, DayTicks, RunTick, WindowTicks,
          MaxClock, MaxOps,
          Focuses   \* bound: the sides that move in one behaviour

VARIABLES latestOdometerKm, template, entries, planSeen, plan, unscheduled,
          enabled, notes, noteSeen, audience, sending, batch,
          posted,   \* the types of the events that other parts publish
          record, trail, documents, photos, clock, jobDue, expiring, announced,
          desk, ops, raced,
          focus     \* the sides that move in this behaviour

Schedule == INSTANCE Maintenance
Notify == INSTANCE Notifications WITH
            inbox <- [i \in DOMAIN alerts |-> "health-score.alert"] \o posted
Papers == INSTANCE Records

ASSUME CareAssumption ==
    /\ Schedule!MaintenanceConstants
    /\ Notify!NotificationsConstants
    /\ Papers!RecordsConstants
    /\ Focuses \subseteq SUBSET {"alerts", "notes", "schedule", "papers"}

scheduleVars == <<latestOdometerKm, template, entries, planSeen, plan, unscheduled>>
noteVars == <<enabled, notes, noteSeen, audience, sending, batch, posted>>
paperVars == <<record, trail, documents, photos, clock, jobDue, expiring,
               announced, desk, ops, raced>>
vars == <<healthVars, scheduleVars, noteVars, paperVars, focus>>

Init ==
    /\ HealthInit /\ Schedule!PlanInit /\ Notify!NoteInit /\ Papers!RecordsInit
    /\ posted = <<>>
    /\ focus \in Focuses
    /\ "alerts" \notin focus => score = NoScore /\ ~inFleet
    /\ "notes" \notin focus => enabled = {}
    /\ focus = {"schedule"} => ~owned
    /\ "schedule" \notin focus =>
        entries = <<>> /\ \A t \in Tenants : template[t] = NoItem

\* The odometer readings of the services matter to the schedule only, and time
\* not to the notifications.
Readings == {NoKm} \cup (IF "schedule" \in focus THEN Kms ELSE {})

Vehicle ==
    /\ {"alerts", "schedule"} \cap focus # {}
    /\ \/ "notes" \notin focus /\ Tick
       \/ LeaveFleet
       \/ \E category \in {"ROUTINE_MAINTENANCE", "REPAIR"}, km \in Readings :
            Record(category, km)
    /\ UNCHANGED <<scheduleVars, noteVars, paperVars, focus>>

HealthSide ==
    /\ "alerts" \in focus
    /\ HealthWork
    /\ UNCHANGED <<scheduleVars, noteVars, paperVars, focus>>

ScheduleSide ==
    /\ "schedule" \in focus
    /\ Schedule!PlanWork
    /\ UNCHANGED <<vehicleVars, scoreVars, alerts, fleetVars, boots, noteVars,
                   paperVars, focus>>

\* An event of another part, where no alerts are published.
Post(type) ==
    /\ "alerts" \notin focus /\ Len(posted) < MaxMail
    /\ posted' = Append(posted, type)
    /\ UNCHANGED <<enabled, notes, noteSeen, audience, sending, batch, faults>>

NotifySide ==
    /\ "notes" \in focus
    /\ \/ Notify!NotificationWork /\ UNCHANGED posted
       \/ \E type \in Mail : Post(type)
    /\ UNCHANGED <<vehicleVars, scoreVars, alerts, fleetVars, boots,
                   scheduleVars, paperVars, focus>>

PaperSide ==
    /\ "papers" \in focus
    /\ Papers!RecordWork
    /\ UNCHANGED <<vehicleVars, scoreVars, alerts, fleetVars, boots, scheduleVars,
                   noteVars, focus>>

\* The server restarts under all of them.
Restart ==
    /\ RestartHealth /\ Schedule!RestartPlan /\ Notify!RestartNotifications
    /\ Papers!RestartRecords
    /\ UNCHANGED posted
    /\ UNCHANGED focus

Next == Vehicle \/ HealthSide \/ ScheduleSide \/ NotifySide \/ PaperSide \/ Restart

Spec == Init /\ [][Next]_vars

-----------------------------------------------------------------------------
(* Properties. *)

\* A notification that is PENDING is being sent, one that FAILED has retries left,
\* and no recipient of an event goes without one (the handlers and send,
\* retryFailedNotifications).
NoneLeftBehind == Notify!NoneLeftBehind

\* A completed maintenance entry is followed by one open entry, never by none or
\* two (handleServiceEventCreated).
ScheduleContinues == Schedule!ScheduleContinues

\* What only a service improves: without one the stored score never rises, and
\* the urgency of a scheduled service never relaxes (recalculate, getSchedule).
ServiceOnlyHelps == ScoreRisesByServiceOnly /\ Schedule!UrgencyNeverRelaxes

\* The audit trail of the vehicle's record replays its edits (update).
TrailReplays == Papers!TrailReplays

\* Expiring documents are announced in time, and a card's photos stay within
\* their limit (DocumentsService).
FilesInOrder == Papers!FilesInOrder
=============================================================================
