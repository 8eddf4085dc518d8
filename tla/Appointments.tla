---------------------------- MODULE Appointments ----------------------------
(***************************************************************************)
(* AppointmentsService: slots offered and booked at a tenant's garage,     *)
(* cancellations, and the two scheduled jobs (reminders and no-shows),     *)
(* with the tenant's configuration (TenantsService) changing underneath.   *)
(*                                                                         *)
(* Time is counted in ticks from midnight of day 0; a job runs once a      *)
(* tick.  Services, prices and vehicles are left out: a request that names *)
(* wrong ones is refused without a write.                                  *)
(***************************************************************************)
EXTENDS Naturals, FiniteSets

CONSTANTS
    Cards,          \* job cards that may be booked
    Requests,       \* HTTP requests that can be in flight at once
    NoCard,
    Managers,       \* the MANAGER memberships of the tenant
    Configs,        \* configurations: open, close, duration, capacity, closed
    Times,          \* the times customers ask for
    Day,            \* ticks of a day
    WindowDays,     \* days getAvailability looks ahead: 14
    RemindWidth,    \* ticks of the window of a reminder: an hour
    LateBefore,     \* a cancellation is late from here on: 2 hours
    Grace,          \* ticks after which a customer is a no-show: 30 minutes
    CreatedWithin,  \* the job looks at cards created so long ago: 48 hours
    MaxTime,        \* bound: ticks that pass
    MaxFaults       \* bound: rejected database calls, restarts, skipped runs

ASSUME AppointmentsAssumption ==
    /\ NoCard \notin Cards
    /\ Times \subseteq Nat /\ Day \in Nat \ {0}
    /\ {WindowDays, RemindWidth, LateBefore, Grace} \subseteq Nat
    /\ {CreatedWithin, MaxTime, MaxFaults} \subseteq Nat
    /\ Configs \subseteq [open: Nat, close: Nat, duration: Nat \ {0},
                          capacity: Nat, closed: SUBSET Nat]

VARIABLES
    config, active, \* the tenant's configuration, and Tenant.active
    status,         \* JobCard.status, "TAKEN" for ASSIGNED and what follows
    scheduledAt, createdAt,
    cause,          \* JobCard.cancellationReason
    reminded,       \* cards with an appointment.reminder published
    noShowEvents,   \* cards with an appointment.no-show published
    lateEvents,     \* <<card, manager>>: late cancellations published
    now,
    due,            \* jobs whose run of this tick is still to start
    upcoming,       \* sendReminders: appointments read and not yet published
    noShows,        \* detectNoShows: appointments read and not yet handled
    marked,         \* detectNoShows: cancelled, its event not yet published
    req,            \* the requests in flight, with what they read
    overlapped,     \* history: two writers have been in flight at once
    faults

tenantVars == <<config, active>>
cardVars == <<status, scheduledAt, createdAt, cause>>
eventVars == <<reminded, noShowEvents, lateEvents>>
jobVars == <<due, upcoming, noShows, marked>>
vars == <<tenantVars, cardVars, eventVars, now, jobVars, req, overlapped, faults>>

Jobs == {"sendReminders", "detectNoShows"}
Statuses == {"absent", "CREATED", "TAKEN", "CANCELLED"}
Causes == {"none", "customer", "late", "no-show"}

Idle == [pc |-> "idle", card |-> NoCard]
RequestRecords ==
    [pc: {"idle"}, card: {NoCard}]
    \cup [pc: {"count", "insert"}, card: Cards, at: Times, read: Configs]
    \cup [pc: {"cancel"}, card: Cards, late: BOOLEAN]
    \cup [pc: {"announce"}, card: Cards, left: SUBSET Managers]

Init ==
    /\ config \in Configs
    /\ active = TRUE
    /\ status = [c \in Cards |-> "absent"]
    /\ scheduledAt = [c \in Cards |-> 0]
    /\ createdAt = [c \in Cards |-> 0]
    /\ cause = [c \in Cards |-> "none"]
    /\ reminded = {} /\ noShowEvents = {} /\ lateEvents = {}
    /\ now = 0
    /\ due = Jobs
    /\ upcoming = {} /\ noShows = {} /\ marked = NoCard
    /\ req = [r \in Requests |-> Idle]
    /\ overlapped = FALSE
    /\ faults = 0

-----------------------------------------------------------------------------
(* The slots, as getAvailability offers them and as book counts them. *)

TimeOfDay(t) == t % Day
Midnight(t) == t - TimeOfDay(t)

\* Mutant: a time is taken for the start of its slot.
slotStartPlain(cfg, t) == t

\* The slot a time falls into, counted from midnight.
normalizeToSlotStart(cfg, t) ==
    Midnight(t) + (TimeOfDay(t) \div cfg.duration) * cfg.duration

Live(c) == status[c] \notin {"absent", "CANCELLED"}

\* book: live appointments in the slot of t.
existingCount(cfg, t) ==
    LET start == normalizeToSlotStart(cfg, t) IN
    Cardinality({c \in Cards :
        Live(c) /\ scheduledAt[c] \in start .. start + cfg.duration - 1})

\* getAvailability: live appointments whose slot starts at t.
bookingCount(cfg, t) ==
    Cardinality({c \in Cards :
        Live(c) /\ normalizeToSlotStart(cfg, scheduledAt[c]) = t})

\* The starts of one day's slots, from the opening to the last that fits.
SlotStarts(cfg, midnight) ==
    {midnight + cfg.open + k * cfg.duration :
        k \in {k \in 0 .. Day : cfg.open + (k + 1) * cfg.duration <= cfg.close}}

\* Full slots are offered too, with nothing remaining.
Availability(cfg) ==
    LET midnights == {Midnight(now) + d * Day : d \in 0 .. WindowDays - 1}
        Remaining(t) == LET booked == bookingCount(cfg, t)
                        IN  IF booked >= cfg.capacity THEN 0
                            ELSE cfg.capacity - booked
    IN  {[start |-> t, remaining |-> Remaining(t)] :
            t \in {t \in UNION {SlotStarts(cfg, m) :
                                    m \in {m \in midnights : m \div Day \notin cfg.closed}} :
                     t > now}}

WithinHours(cfg, t) ==
    /\ t \div Day \notin cfg.closed
    /\ TimeOfDay(t) >= cfg.open
    /\ TimeOfDay(t) + cfg.duration <= cfg.close

-----------------------------------------------------------------------------
(* Requests: book, cancel, and the writers of other modules. *)

InFlight ==
    (\E r \in Requests : req[r].pc # "idle") \/ noShows # {} \/ marked # NoCard

\* A request has read what it needs and goes on.
Goes(r, record) ==
    /\ req' = [req EXCEPT ![r] = record]
    /\ overlapped' = (overlapped \/ (req[r].pc = "idle" /\ InFlight))
    /\ UNCHANGED <<tenantVars, cardVars, eventVars, now, jobVars, faults>>

\* book reads the tenant with its hours.
ReadTenant(r, c, t) ==
    /\ req[r].pc = "idle"
    /\ status[c] = "absent" /\ \A o \in Requests : req[o].card # c
    /\ active /\ t > now
    /\ WithinHours(config, t)
    /\ Goes(r, [pc |-> "count", card |-> c, at |-> t, read |-> config])

\* Mutant: the last place is given away twice.
CountOneMore(r) ==
    LET q == req[r] IN
    /\ q.pc = "count"
    /\ Goes(r, IF existingCount(q.read, q.at) > q.read.capacity
                 THEN Idle ELSE [q EXCEPT !.pc = "insert"])

Count(r) ==
    LET q == req[r] IN
    /\ q.pc = "count"
    /\ Goes(r, IF existingCount(q.read, q.at) >= q.read.capacity
                 THEN Idle ELSE [q EXCEPT !.pc = "insert"])

\* The transaction that makes the card and its items.
InsertCard(r) ==
    LET q == req[r] IN
    /\ q.pc = "insert"
    /\ status' = [status EXCEPT ![q.card] = "CREATED"]
    /\ scheduledAt' = [scheduledAt EXCEPT ![q.card] = q.at]
    /\ createdAt' = [createdAt EXCEPT ![q.card] = now]
    /\ req' = [req EXCEPT ![r] = Idle]
    /\ UNCHANGED <<tenantVars, cause, eventVars, now, jobVars, overlapped, faults>>

IsLate(c) == scheduledAt[c] < now + LateBefore

ReadCancel(r, c) ==
    /\ req[r].pc = "idle"
    /\ status[c] = "CREATED"
    /\ Goes(r, [pc |-> "cancel", card |-> c, late |-> IsLate(c)])

\* Mutant: the request ends with its update.
WriteCancelQuiet(r) ==
    LET q == req[r] IN
    /\ q.pc = "cancel"
    /\ status' = [status EXCEPT ![q.card] = "CANCELLED"]
    /\ cause' = [cause EXCEPT ![q.card] = IF q.late THEN "late" ELSE "customer"]
    /\ req' = [req EXCEPT ![r] = Idle]
    /\ UNCHANGED <<tenantVars, scheduledAt, createdAt, eventVars, now, jobVars,
                   overlapped, faults>>

\* The update goes by id, whatever the status is by now.
WriteCancel(r) ==
    LET q == req[r] IN
    /\ q.pc = "cancel"
    /\ status' = [status EXCEPT ![q.card] = "CANCELLED"]
    /\ cause' = [cause EXCEPT ![q.card] = IF q.late THEN "late" ELSE "customer"]
    /\ req' = [req EXCEPT ![r] =
                 IF q.late THEN [pc |-> "announce", card |-> q.card, left |-> Managers]
                           ELSE Idle]
    /\ UNCHANGED <<tenantVars, scheduledAt, createdAt, eventVars, now, jobVars,
                   overlapped, faults>>

\* publishLateCancellationEvent: one event for each manager in turn.
AnnounceLate(r, m) ==
    LET q == req[r] IN
    /\ q.pc = "announce" /\ m \in q.left
    /\ lateEvents' = lateEvents \cup {<<q.card, m>>}
    /\ req' = [req EXCEPT ![r] =
                 IF q.left = {m} THEN Idle ELSE [q EXCEPT !.left = @ \ {m}]]
    /\ UNCHANGED <<tenantVars, cardVars, reminded, noShowEvents, now, jobVars,
                   overlapped, faults>>

\* JobCardsService.transition: the customer came, a technician is assigned.
AssignCard(c) ==
    /\ status[c] = "CREATED"
    /\ status' = [status EXCEPT ![c] = "TAKEN"]
    /\ overlapped' = (overlapped \/ InFlight)
    /\ UNCHANGED <<tenantVars, scheduledAt, createdAt, cause, eventVars, now,
                   jobVars, req, faults>>

\* TenantsService.updateConfig and deactivate; neither looks at appointments.
UpdateConfig(cfg) ==
    /\ active
    /\ config' = cfg /\ cfg # config
    /\ overlapped' = (overlapped \/ InFlight)
    /\ UNCHANGED <<active, cardVars, eventVars, now, jobVars, req, faults>>

Deactivate ==
    /\ active
    /\ active' = FALSE
    /\ overlapped' = (overlapped \/ InFlight)
    /\ UNCHANGED <<config, cardVars, eventVars, now, jobVars, req, faults>>

-----------------------------------------------------------------------------
(* The scheduled jobs. *)

\* Mutant: the window is one run wide.
IsJustUpcoming(c) == status[c] = "CREATED" /\ scheduledAt[c] = now + Day

\* sendReminders: an appointment between 24 and 25 hours ahead.
IsUpcoming(c) ==
    /\ status[c] = "CREATED"
    /\ scheduledAt[c] \in now + Day .. now + Day + RemindWidth - 1

ReadUpcoming ==
    /\ "sendReminders" \in due
    /\ due' = due \ {"sendReminders"}
    /\ upcoming' = {c \in Cards : IsUpcoming(c)}
    /\ UNCHANGED <<tenantVars, cardVars, eventVars, now, noShows, marked, req,
                   overlapped, faults>>

SendReminder(c) ==
    /\ c \in upcoming
    /\ reminded' = reminded \cup {c}
    /\ upcoming' = upcoming \ {c}
    /\ UNCHANGED <<tenantVars, cardVars, noShowEvents, lateEvents, now, due,
                   noShows, marked, req, overlapped, faults>>

\* Mutant: cards in the workshop count.
IsNoShowLive(c) ==
    /\ Live(c)
    /\ scheduledAt[c] + Grace < now
    /\ createdAt[c] + CreatedWithin >= now

\* detectNoShows: an appointment that is over, and still CREATED.
IsNoShow(c) ==
    /\ status[c] = "CREATED"
    /\ scheduledAt[c] + Grace < now
    /\ createdAt[c] + CreatedWithin >= now

ReadNoShows ==
    /\ "detectNoShows" \in due
    /\ due' = due \ {"detectNoShows"}
    /\ noShows' = {c \in Cards : IsNoShow(c)}
    /\ overlapped' = (overlapped \/ (InFlight /\ noShows' # {}))
    /\ UNCHANGED <<tenantVars, cardVars, eventVars, now, upcoming, marked, req, faults>>

\* One card of the list is cancelled by id, then its event is published.
MarkNoShow(c) ==
    /\ c \in noShows /\ marked = NoCard
    /\ status' = [status EXCEPT ![c] = "CANCELLED"]
    /\ cause' = [cause EXCEPT ![c] = "no-show"]
    /\ noShows' = noShows \ {c}
    /\ marked' = c
    /\ UNCHANGED <<tenantVars, scheduledAt, createdAt, eventVars, now, due,
                   upcoming, req, overlapped, faults>>

PublishNoShow ==
    /\ marked # NoCard
    /\ noShowEvents' = noShowEvents \cup {marked}
    /\ marked' = NoCard
    /\ UNCHANGED <<tenantVars, cardVars, reminded, lateEvents, now, due,
                   upcoming, noShows, req, overlapped, faults>>

\* A tick is longer than a run: the next runs start after the last have ended.
Tick ==
    /\ now < MaxTime
    /\ due = {} /\ upcoming = {} /\ noShows = {} /\ marked = NoCard
    /\ now' = now + 1
    /\ due' = Jobs
    /\ UNCHANGED <<tenantVars, cardVars, eventVars, upcoming, noShows, marked,
                   req, overlapped, faults>>

-----------------------------------------------------------------------------
\* A database call that rejects ends its request or its job; a restart ends
\* them all, and the runs of this tick that had not started.
Lose(lost, jobs) ==
    /\ faults < MaxFaults
    /\ faults' = faults + 1
    /\ req' = [r \in Requests |-> IF r \in lost THEN Idle ELSE req[r]]
    /\ due' = due \ jobs
    /\ upcoming' = IF "sendReminders" \in jobs THEN {} ELSE upcoming
    /\ noShows' = IF "detectNoShows" \in jobs THEN {} ELSE noShows
    /\ marked' = IF "detectNoShows" \in jobs THEN NoCard ELSE marked
    /\ UNCHANGED <<tenantVars, cardVars, eventVars, now, overlapped>>

Failure ==
    \/ \E r \in Requests : Lose({r}, {})
    \/ \E j \in Jobs : Lose({}, {j})
    \/ Lose(Requests, Jobs)

Next ==
    \/ \E r \in Requests :
        \/ \E c \in Cards, t \in Times : ReadTenant(r, c, t)
        \/ Count(r) \/ InsertCard(r)
        \/ \E c \in Cards : ReadCancel(r, c)
        \/ WriteCancel(r)
        \/ \E m \in Managers : AnnounceLate(r, m)
    \/ \E c \in Cards : AssignCard(c) \/ SendReminder(c) \/ MarkNoShow(c)
    \/ \E cfg \in Configs : UpdateConfig(cfg)
    \/ Deactivate
    \/ ReadUpcoming \/ ReadNoShows \/ PublishNoShow \/ Tick
    \/ Failure

Spec == Init /\ [][Next]_vars

-----------------------------------------------------------------------------
(* Properties. *)

\* The types of the rows, the jobs and what requests carry.
TypeOK ==
    /\ config \in Configs /\ active \in BOOLEAN
    /\ status \in [Cards -> Statuses]
    /\ scheduledAt \in [Cards -> Nat] /\ createdAt \in [Cards -> Nat]
    /\ cause \in [Cards -> Causes]
    /\ reminded \subseteq Cards /\ noShowEvents \subseteq Cards
    /\ lateEvents \subseteq Cards \X Managers
    /\ now \in Nat /\ due \subseteq Jobs
    /\ upcoming \subseteq Cards /\ noShows \subseteq Cards
    /\ marked \in Cards \cup {NoCard}
    /\ req \in [Requests -> RequestRecords]
    /\ overlapped \in BOOLEAN /\ faults \in Nat

\* Until two writers overlap, no booking is added to a slot within the working
\* hours that is full under the configuration in force (book), however that
\* configuration has changed before.
NoSlotOverbooked ==
    [][~overlapped' /\ config' = config =>
        \A t \in Times :
            /\ WithinHours(config, t)
            /\ existingCount(config, t)' > existingCount(config, t)
            => existingCount(config, t)' <= config.capacity]_vars

\* What getAvailability offers is what book accepts: in a garage whose opening
\* time is a multiple of its slot length, a slot with places left passes every
\* check of book, a full one does not, whatever was booked at odd times.
OfferedIsBookable ==
    config.open % config.duration = 0 =>
        \A slot \in Availability(config) :
            slot.remaining > 0 <=>
                /\ slot.start > now /\ WithinHours(config, slot.start)
                /\ existingCount(config, slot.start) < config.capacity

\* Everyone is reminded: an appointment made before its reminder window opens
\* has its reminder published when the window closes, unless as many runs
\* failed as the window is wide (sendReminders).
RemindedInTime ==
    \A c \in Cards :
        /\ status[c] = "CREATED" /\ faults < RemindWidth
        /\ createdAt[c] + Day + RemindWidth <= scheduledAt[c]
        /\ scheduledAt[c] < now + Day
        => c \in reminded

\* detectNoShows leaves no appointment of the last two days behind, one run
\* later for each failure.
NoShowsDetected ==
    \A c \in Cards :
        ~ /\ status[c] = "CREATED"
          /\ scheduledAt[c] + Grace + 1 + faults < now
          /\ createdAt[c] + 1 + faults < now
          /\ createdAt[c] + CreatedWithin >= now - 1

\* The hourly jobs reach everyone: nobody goes without a reminder, and nobody who
\* did not come keeps a slot.
EveryoneReached == RemindedInTime /\ NoShowsDetected

\* A no-show and a late cancellation are announced, the latter to every
\* manager, or about to be, unless something failed.
CancellationsAnnounced ==
    faults = 0 =>
        \A c \in Cards :
            /\ cause[c] = "no-show" =>
                 c \in noShowEvents \/ c = marked
            /\ cause[c] = "late" =>
                 \A m \in Managers :
                    \/ <<c, m>> \in lateEvents
                    \/ \E r \in Requests :
                        req[r].pc = "announce" /\ req[r].card = c /\ m \in req[r].left

\* Until two writers overlap, neither cancel nor detectNoShows cancels a card
\* whose customer has come.
TakenStaysTaken ==
    [][~overlapped' =>
        \A c \in Cards : status[c] = "TAKEN" => status'[c] = "TAKEN"]_vars

\* What is booked is honoured, however the configuration changes: no slot takes
\* more than it has places for, and who has come is not turned away.
BookingsHonoured == NoSlotOverbooked /\ TakenStaysTaken
=============================================================================
