---------------------------- MODULE HealthScore ----------------------------
(***************************************************************************)
(* HealthScoreService for one vehicle, and the fleet's handler of its      *)
(* alerts: recalculations started by a service event, the daily job or a   *)
(* retry timer, the alert when the stored score falls below the threshold, *)
(* and the fleet owner's alert with its cooldown.                          *)
(*                                                                         *)
(* Scores are integers and quotients are rounded exactly as Math.round     *)
(* rounds; a floating-point error in the last bit is left out.             *)
(***************************************************************************)
EXTENDS Integers, Sequences, FiniteSets

CONSTANTS
    Stride,         \* days that pass in a tick
    BuiltYear,      \* VehicleRecord.year, the year of day 0 being 0
    Recalcs,        \* recalculations that can be in flight at once
    Seeds,          \* scores the seed script may have stored
    Kms,            \* odometer readings a service may come with
    AlertCooldown,  \* ticks between the alerts of a fleet owner: 24 hours
    MaxServices,    \* bound: service events
    MaxTime,        \* bound: ticks that pass
    MaxAlerts,      \* bound: health-score.alert events in the outbox
    MaxFaults       \* bound: rejected database calls and restarts

ASSUME HealthScoreAssumption ==
    /\ Stride \in Nat \ {0} /\ BuiltYear \in Int /\ Seeds \subseteq 0..100
    /\ Kms \subseteq Nat
    /\ AlertCooldown \in Nat \ {0}
    /\ {MaxServices, MaxTime, MaxAlerts, MaxFaults} \subseteq Nat

VARIABLES
    now,
    services,       \* the vehicle's service events, the latest first
    owned, inFleet, \* it has a current owner, and an active FleetVehicle row
    score,          \* HealthScore.score
    basis,          \* history: the number of services the score is made of
    crossings,      \* history: upserts that took the score below the threshold
    scoreSeen,      \* service events the bus has delivered here
    recalc,         \* the recalculations in flight, with what they read
    timers,         \* retries scheduled, in memory
    alerts,         \* the health-score.alert events of the outbox, in order
    fleetSeen,      \* alerts the fleet's handler has been given
    fleetRun,       \* the alert the handler is about to publish again
    alertCooldowns, \* the tick of the fleet's last alert, in memory
    overlapped,     \* history: two recalculations have been in flight at once
    boots, faults   \* restarts, and faults of any kind

vehicleVars == <<now, services, owned, inFleet>>
scoreVars == <<score, basis, crossings, scoreSeen, recalc, timers, overlapped>>
fleetVars == <<fleetSeen, fleetRun, alertCooldowns>>
faultVars == <<boots, faults>>
healthVars == <<vehicleVars, scoreVars, alerts, fleetVars, faultVars>>

NoScore == -1
Never == -1
ALERT_THRESHOLD == 50
DEFAULT_SUB_SCORE == 50

NoKm == -1

Idle == [pc |-> "idle", byEvent |-> FALSE, new |-> 0, previous |-> 0, of |-> 0]

HealthInit ==
    /\ now = 0
    /\ services = <<>>
    /\ owned \in BOOLEAN /\ inFleet \in BOOLEAN
    /\ score \in {NoScore} \cup Seeds
    /\ basis = -1
    /\ crossings = 0
    /\ scoreSeen = 0
    /\ recalc = [r \in Recalcs |-> Idle]
    /\ timers = 0
    /\ alerts = <<>>
    /\ fleetSeen = 0 /\ fleetRun = 0 /\ alertCooldowns = Never
    /\ overlapped = FALSE
    /\ boots = 0 /\ faults = 0

-----------------------------------------------------------------------------
(* The score. *)

\* Math.round of n / d, for n >= 0.
Round(n, d) == (2 * n + d) \div (2 * d)

Clamp(n, low, high) == IF n < low THEN low ELSE IF n > high THEN high ELSE n

computeVehicleAgeScore ==
    100 - 4 * Clamp((now * Stride) \div 365 - BuiltYear, 0, 20)

\* Mutant: the days are counted within the year.
DaysOfYearSince(at) == ((now - at) * Stride) % 365

DaysSince(at) == (now - at) * Stride

computeTimeSinceServiceScore(history) ==
    Round(100 * (365 - Clamp(DaysSince(Head(history).at), 0, 365)), 365)

computeServiceCountScore(count) == Round(100 * Clamp(count, 0, 10), 10)

Of(history, category) ==
    Cardinality({i \in DOMAIN history : history[i].category = category})

computeMaintenanceComplianceScore(history) ==
    Round(100 * Of(history, "ROUTINE_MAINTENANCE"), Len(history))

computeUnresolvedIssuesScore(history) ==
    Clamp(100 - 20 * Of(history, "REPAIR"), 0, 100)

\* The weights are twentieths: .25, .25, .15, .15 and .2.
computeFinalScore(sub) ==
    Round(5 * sub.compliance + 5 * sub.time + 3 * sub.age + 3 * sub.count
            + 4 * sub.issues, 20)

computeSubScores(history) ==
    IF history = <<>>
      THEN [compliance |-> DEFAULT_SUB_SCORE, time |-> DEFAULT_SUB_SCORE,
            age |-> computeVehicleAgeScore, count |-> DEFAULT_SUB_SCORE,
            issues |-> DEFAULT_SUB_SCORE]
      ELSE [compliance |-> computeMaintenanceComplianceScore(history),
            time |-> computeTimeSinceServiceScore(history),
            age |-> computeVehicleAgeScore,
            count |-> computeServiceCountScore(Len(history)),
            issues |-> computeUnresolvedIssuesScore(history)]

-----------------------------------------------------------------------------
(* The vehicle, as the rest of the system changes it. *)

\* A service event is stored and its service-event.created published.
Record(category, km) ==
    /\ Len(services) < MaxServices
    /\ services' = <<[at |-> now, category |-> category, km |-> km]>> \o services
    /\ UNCHANGED <<now, owned, inFleet, scoreVars, alerts, fleetVars, faultVars>>

LeaveFleet ==
    /\ inFleet
    /\ inFleet' = FALSE
    /\ UNCHANGED <<now, services, owned, scoreVars, alerts, fleetVars, faultVars>>

\* A tick is days long: the fleet's handler does not last one.
Tick ==
    /\ now < MaxTime
    /\ fleetRun = 0
    /\ now' = now + 1
    /\ UNCHANGED <<services, owned, inFleet, scoreVars, alerts, fleetVars, faultVars>>

-----------------------------------------------------------------------------
(* recalculate, and what starts it. *)

InFlight == {r \in Recalcs : recalc[r].pc # "idle"}

\* The vehicle and its history are read, and the score computed from them.
Start(r, byEvent) ==
    /\ recalc[r].pc = "idle"
    /\ recalc' = [recalc EXCEPT ![r] =
                    [pc |-> "computed", byEvent |-> byEvent,
                     new |-> computeFinalScore(computeSubScores(services)),
                     previous |-> 0, of |-> Len(services)]]
    /\ overlapped' = (overlapped \/ InFlight # {})
    /\ UNCHANGED <<vehicleVars, score, basis, crossings, alerts, fleetVars, faultVars>>

\* handleServiceEventCreated.
HandleServiceEvent(r) ==
    /\ scoreSeen < Len(services)
    /\ scoreSeen' = scoreSeen + 1
    /\ Start(r, TRUE)
    /\ UNCHANGED timers

\* handleDailyRecalculation: vehicles that have a score.
DailyRun(r) ==
    /\ score # NoScore
    /\ Start(r, FALSE)
    /\ UNCHANGED <<scoreSeen, timers>>

RetryFires(r) ==
    /\ timers > 0
    /\ timers' = timers - 1
    /\ Start(r, FALSE)
    /\ UNCHANGED scoreSeen

StoredOr100 == IF score = NoScore THEN 100 ELSE score

FellBelow(previous, new) == previous >= ALERT_THRESHOLD /\ new < ALERT_THRESHOLD

ReadPrevious(r) ==
    /\ recalc[r].pc = "computed"
    /\ recalc' = [recalc EXCEPT ![r].pc = "upsert", ![r].previous = StoredOr100]
    /\ UNCHANGED <<vehicleVars, score, basis, crossings, scoreSeen, timers,
                   overlapped, alerts, fleetVars, faultVars>>

Store(r, alerting) ==
    /\ recalc[r].pc = "upsert"
    /\ score' = recalc[r].new
    /\ basis' = recalc[r].of
    /\ crossings' = crossings + (IF FellBelow(StoredOr100, score') THEN 1 ELSE 0)
    /\ recalc' = [recalc EXCEPT ![r] = IF alerting THEN [@ EXCEPT !.pc = "publish"]
                                      ELSE Idle]
    /\ UNCHANGED <<vehicleVars, scoreSeen, timers, overlapped, alerts, fleetVars,
                   faultVars>>

\* Mutant: a first score alerts nobody.
UpsertUnlessFirst(r) ==
    Store(r, score # NoScore /\ FellBelow(recalc[r].previous, recalc[r].new))

Upsert(r) == Store(r, FellBelow(recalc[r].previous, recalc[r].new))

Publish(to, newScore) ==
    /\ Len(alerts) < MaxAlerts
    /\ alerts' = Append(alerts, [to |-> to, newScore |-> newScore, at |-> now,
                                boot |-> boots])

publishHealthScoreAlert(r) ==
    /\ recalc[r].pc = "publish"
    /\ IF owned THEN Publish("owner", recalc[r].new) ELSE UNCHANGED alerts
    /\ recalc' = [recalc EXCEPT ![r] = Idle]
    /\ UNCHANGED <<vehicleVars, score, basis, crossings, scoreSeen, timers,
                   overlapped, fleetVars, faultVars>>

\* A call is rejected: the error is caught and a retry scheduled.
Reject(r) ==
    /\ recalc[r].pc # "idle"
    /\ faults < MaxFaults
    /\ recalc' = [recalc EXCEPT ![r] = Idle]
    /\ timers' = timers + 1
    /\ faults' = faults + 1
    /\ UNCHANGED <<vehicleVars, score, basis, crossings, scoreSeen, overlapped,
                   alerts, fleetVars, boots>>

-----------------------------------------------------------------------------
(* FleetService.handleHealthScoreAlert, which receives its own events too. *)

Cooling == alertCooldowns # Never /\ now - alertCooldowns < AlertCooldown

FleetReceive ==
    /\ fleetRun = 0
    /\ fleetSeen < Len(alerts)
    /\ fleetSeen' = fleetSeen + 1
    /\ IF alerts[fleetSeen'].newScore < ALERT_THRESHOLD /\ inFleet /\ ~Cooling
         THEN alertCooldowns' = now /\ fleetRun' = fleetSeen'
         ELSE UNCHANGED <<alertCooldowns, fleetRun>>
    /\ UNCHANGED <<vehicleVars, scoreVars, alerts, faultVars>>

FleetPublish ==
    /\ fleetRun # 0
    /\ Publish("fleet", alerts[fleetRun].newScore)
    /\ fleetRun' = 0
    /\ UNCHANGED <<vehicleVars, scoreVars, fleetSeen, alertCooldowns, faultVars>>

\* The error ends in the consumer log, and the alert is lost.
FleetReject ==
    /\ fleetRun # 0
    /\ faults < MaxFaults
    /\ fleetRun' = 0
    /\ faults' = faults + 1
    /\ UNCHANGED <<vehicleVars, scoreVars, alerts, fleetSeen, alertCooldowns, boots>>

\* Memory is lost; the bus delivers again the events it was handling.
RestartHealth ==
    /\ recalc' = [r \in Recalcs |-> Idle]
    /\ timers' = 0
    /\ scoreSeen' = scoreSeen - Cardinality({r \in InFlight : recalc[r].byEvent})
    /\ fleetSeen' = IF fleetRun = 0 THEN fleetSeen ELSE fleetSeen - 1
    /\ fleetRun' = 0
    /\ alertCooldowns' = Never
    /\ faults < MaxFaults /\ faults' = faults + 1
    /\ boots' = boots + 1
    /\ UNCHANGED <<vehicleVars, score, basis, crossings, overlapped, alerts>>

RecalcStep(r) ==
    \/ HandleServiceEvent(r) \/ DailyRun(r) \/ RetryFires(r)
    \/ ReadPrevious(r) \/ Upsert(r) \/ publishHealthScoreAlert(r)

FleetStep == FleetReceive \/ FleetPublish

HealthWork ==
    \/ \E r \in Recalcs : RecalcStep(r) \/ Reject(r)
    \/ FleetStep \/ FleetReject

-----------------------------------------------------------------------------
(* Properties. *)

\* Without a new service event the stored score never improves: the daily job
\* degrades it with time and age only (recalculations one at a time).
ScoreRisesByServiceOnly ==
    [][~overlapped' /\ score # NoScore /\ score' > score => basis' > basis]_healthVars

\* Every fall of the stored score below the threshold is announced to the owner,
\* and once: none is lost between the upsert and the event, none repeated by
\* the next run (recalculations one at a time, no fault).
CrossingsAnnounced ==
    owned /\ ~overlapped /\ faults = 0 /\ (\A r \in Recalcs : recalc[r].pc # "publish")
        => Cardinality({i \in DOMAIN alerts : alerts[i].to = "owner"}) = crossings

\* The fleet's handler feeds on its own events, and still alerts the fleet owner
\* at most once per cooldown, unless a restart empties its memory.
FleetAlertedOnceADay ==
    \A i, j \in DOMAIN alerts :
        /\ i < j
        /\ alerts[i].to = "fleet" /\ alerts[j].to = "fleet"
        /\ alerts[i].boot = alerts[j].boot
        => alerts[j].at - alerts[i].at >= AlertCooldown

\* The alerts follow the scores: one to the owner for each crossing, and no more
\* than one a day to the fleet.
AlertsFollowScores == CrossingsAnnounced /\ FleetAlertedOnceADay
=============================================================================
