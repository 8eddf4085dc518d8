------------------------- MODULE AppointmentsProofs -------------------------
(***************************************************************************)
(* Proofs about Appointments: cancellations are announced, slots offered   *)
(* are bookable, and one writer alone overbooks no slot and cancels nobody *)
(* who has come.                                                           *)
(***************************************************************************)
EXTENDS Appointments, FiniteSetTheorems, TLAPS

-----------------------------------------------------------------------------
(* Types. *)

LEMMA InitTyped == Init => TypeOK
<1> SUFFICES ASSUME Init PROVE TypeOK
  OBVIOUS
<1>1. Idle \in RequestRecords
  BY DEF Idle, RequestRecords
<1> QED BY <1>1 DEF Init, TypeOK, Statuses, Causes

\* Every record that a request goes on with is typed.
LEMMA RecordsTyped ==
    /\ Idle \in RequestRecords
    /\ \A c \in Cards, t \in Times, cfg \in Configs :
         [pc |-> "count", card |-> c, at |-> t, read |-> cfg] \in RequestRecords
    /\ \A c \in Cards, l \in BOOLEAN :
         [pc |-> "cancel", card |-> c, late |-> l] \in RequestRecords
    /\ \A c \in Cards, l \in SUBSET Managers :
         [pc |-> "announce", card |-> c, left |-> l] \in RequestRecords
    /\ \A q \in RequestRecords : q.pc = "count" => [q EXCEPT !.pc = "insert"] \in RequestRecords
    /\ \A q \in RequestRecords, m \in Managers :
         q.pc = "announce" => [q EXCEPT !.left = @ \ {m}] \in RequestRecords
<1>1. ASSUME NEW q \in RequestRecords, q.pc = "count"
      PROVE  [q EXCEPT !.pc = "insert"] \in RequestRecords
  <2>1. q \in [pc: {"count", "insert"}, card: Cards, at: Times, read: Configs]
    BY <1>1 DEF RequestRecords
  <2> QED BY <2>1 DEF RequestRecords
<1>2. ASSUME NEW q \in RequestRecords, NEW m \in Managers, q.pc = "announce"
      PROVE  [q EXCEPT !.left = @ \ {m}] \in RequestRecords
  <2>1. q \in [pc: {"announce"}, card: Cards, left: SUBSET Managers]
    BY <1>2 DEF RequestRecords
  <2> QED BY <2>1 DEF RequestRecords
<1> QED BY <1>1, <1>2 DEF RequestRecords, Idle

\* What the steps of a request may rely on.
LEMMA RecordFields ==
    ASSUME TypeOK, NEW r \in Requests
    PROVE  /\ req[r] \in RequestRecords
           /\ req[r].pc \in {"count", "insert"} =>
                req[r].card \in Cards /\ req[r].at \in Times /\ req[r].read \in Configs
           /\ req[r].pc = "cancel" => req[r].card \in Cards /\ req[r].late \in BOOLEAN
           /\ req[r].pc = "announce" => req[r].card \in Cards /\ req[r].left \subseteq Managers
           /\ req[r].pc \in {"idle", "count", "insert", "cancel", "announce"}
  BY DEF TypeOK, RequestRecords

\* Steps of the requests.
LEMMA RequestTyped ==
    ASSUME TypeOK, NEW r \in Requests,
           \/ \E c \in Cards, t \in Times : ReadTenant(r, c, t)
           \/ Count(r) \/ InsertCard(r)
           \/ \E c \in Cards : ReadCancel(r, c)
           \/ WriteCancel(r)
           \/ \E m \in Managers : AnnounceLate(r, m)
    PROVE  TypeOK'
<1> USE RecordsTyped, RecordFields, AppointmentsAssumption
<1>1. ASSUME NEW record \in RequestRecords, Goes(r, record) PROVE TypeOK'
  <2>1. req' \in [Requests -> RequestRecords]
    BY <1>1 DEF TypeOK, Goes
  <2>2. overlapped' \in BOOLEAN
    BY <1>1 DEF TypeOK, Goes
  <2> QED BY <1>1, <2>1, <2>2 DEF TypeOK, Goes, tenantVars, cardVars, eventVars, jobVars
<1>2. ASSUME NEW c \in Cards, NEW t \in Times, ReadTenant(r, c, t) PROVE TypeOK'
  <2>1. config \in Configs
    BY DEF TypeOK
  <2> QED BY <1>1, <1>2, <2>1 DEF ReadTenant
<1>3. CASE Count(r)
  BY <1>1, <1>3 DEF Count
<1>4. CASE InsertCard(r)
  <2>1. req[r].card \in Cards /\ req[r].at \in Nat
    BY <1>4 DEF InsertCard
  <2>2. req' \in [Requests -> RequestRecords]
    BY <1>4 DEF InsertCard, TypeOK
  <2>3. /\ status' \in [Cards -> Statuses]
        /\ scheduledAt' \in [Cards -> Nat] /\ createdAt' \in [Cards -> Nat]
    BY <1>4, <2>1 DEF InsertCard, TypeOK, Statuses
  <2> QED BY <1>4, <2>2, <2>3 DEF InsertCard, TypeOK, tenantVars, eventVars, jobVars
<1>5. ASSUME NEW c \in Cards, ReadCancel(r, c) PROVE TypeOK'
  <2>1. IsLate(c) \in BOOLEAN
    BY DEF IsLate
  <2> QED BY <1>1, <1>5, <2>1 DEF ReadCancel
<1>6. CASE WriteCancel(r)
  <2>1. req[r].card \in Cards
    BY <1>6 DEF WriteCancel
  <2>2. req' \in [Requests -> RequestRecords]
    BY <1>6, <2>1 DEF WriteCancel, TypeOK
  <2>3. status' \in [Cards -> Statuses] /\ cause' \in [Cards -> Causes]
    BY <1>6, <2>1 DEF WriteCancel, TypeOK, Statuses, Causes
  <2> QED BY <1>6, <2>2, <2>3 DEF WriteCancel, TypeOK, tenantVars, eventVars, jobVars
<1>7. ASSUME NEW m \in Managers, AnnounceLate(r, m) PROVE TypeOK'
  <2>1. req' \in [Requests -> RequestRecords]
    BY <1>7 DEF AnnounceLate, TypeOK
  <2>2. lateEvents' \subseteq Cards \X Managers
    BY <1>7 DEF AnnounceLate, TypeOK
  <2> QED BY <1>7, <2>1, <2>2 DEF AnnounceLate, TypeOK, tenantVars, cardVars, jobVars
<1> QED BY <1>2, <1>3, <1>4, <1>5, <1>6, <1>7

LEMMA NextTyped == TypeOK /\ [Next]_vars => TypeOK'
<1> SUFFICES ASSUME TypeOK, [Next]_vars PROVE TypeOK'
  OBVIOUS
<1> USE AppointmentsAssumption
<1>1. ASSUME NEW c \in Cards, AssignCard(c) PROVE TypeOK'
  BY <1>1 DEF AssignCard, TypeOK, Statuses, tenantVars, eventVars, jobVars
<1>2. ASSUME NEW c \in Cards, SendReminder(c) PROVE TypeOK'
  BY <1>2 DEF SendReminder, TypeOK, tenantVars, cardVars
<1>3. ASSUME NEW c \in Cards, MarkNoShow(c) PROVE TypeOK'
  BY <1>3 DEF MarkNoShow, TypeOK, Statuses, Causes, tenantVars, eventVars
<1>4. ASSUME NEW cfg \in Configs, UpdateConfig(cfg) PROVE TypeOK'
  BY <1>4 DEF UpdateConfig, TypeOK, cardVars, eventVars, jobVars
<1>5. CASE Deactivate
  BY <1>5 DEF Deactivate, TypeOK, cardVars, eventVars, jobVars
<1>6. CASE ReadUpcoming
  BY <1>6 DEF ReadUpcoming, TypeOK, tenantVars, cardVars, eventVars
<1>7. CASE ReadNoShows
  BY <1>7 DEF ReadNoShows, TypeOK, tenantVars, cardVars, eventVars
<1>8. CASE PublishNoShow
  BY <1>8 DEF PublishNoShow, TypeOK, tenantVars, cardVars
<1>9. CASE Tick
  BY <1>9 DEF Tick, TypeOK, Jobs, tenantVars, cardVars, eventVars
<1>10. CASE Failure
  <2>1. ASSUME NEW lost \in SUBSET Requests, NEW jobs \in SUBSET Jobs, Lose(lost, jobs)
        PROVE  TypeOK'
    <3>1. req' \in [Requests -> RequestRecords]
      BY <2>1, RecordsTyped DEF Lose, TypeOK
    <3> QED BY <2>1, <3>1 DEF Lose, TypeOK, tenantVars, cardVars, eventVars
  <2> QED BY <1>10, <2>1 DEF Failure
<1>11. CASE UNCHANGED vars
  BY <1>11 DEF TypeOK, vars, tenantVars, cardVars, eventVars, jobVars
<1> QED
  BY <1>1, <1>2, <1>3, <1>4, <1>5, <1>6, <1>7, <1>8, <1>9, <1>10, <1>11, RequestTyped
  DEF Next

\* Every reachable state is typed, however requests, jobs and configurations
\* meet (AppointmentsService).
THEOREM AppointmentsTyped == Spec => []TypeOK
  BY InitTyped, NextTyped, PTL DEF Spec

-----------------------------------------------------------------------------
(* A cancellation is announced. *)

\* Steps that leave the causes, the events and the announcements in flight alone.
LEMMA AnnouncedFrame ==
    ASSUME CancellationsAnnounced, UNCHANGED <<cause, noShowEvents, lateEvents, marked, faults>>,
           \A r \in Requests : req[r].pc = "announce" => req'[r] = req[r]
    PROVE  CancellationsAnnounced'
  BY DEF CancellationsAnnounced

LEMMA AnnouncedRequest ==
    ASSUME TypeOK, CancellationsAnnounced, NEW r \in Requests,
           \/ \E c \in Cards, t \in Times : ReadTenant(r, c, t)
           \/ Count(r) \/ InsertCard(r)
           \/ \E c \in Cards : ReadCancel(r, c)
           \/ WriteCancel(r)
           \/ \E m \in Managers : AnnounceLate(r, m)
    PROVE  CancellationsAnnounced'
<1>1. ASSUME NEW record, req[r].pc # "announce", Goes(r, record)
      PROVE  CancellationsAnnounced'
  BY <1>1, AnnouncedFrame DEF Goes, TypeOK, cardVars, eventVars, jobVars
<1>2. ASSUME NEW c \in Cards, NEW t \in Times, ReadTenant(r, c, t)
      PROVE  CancellationsAnnounced'
  BY <1>1, <1>2 DEF ReadTenant
<1>3. CASE Count(r)
  BY <1>1, <1>3 DEF Count
<1>4. CASE InsertCard(r)
  BY <1>4, AnnouncedFrame DEF InsertCard, TypeOK, eventVars, jobVars
<1>5. ASSUME NEW c \in Cards, ReadCancel(r, c) PROVE CancellationsAnnounced'
  BY <1>1, <1>5 DEF ReadCancel
<1>6. CASE WriteCancel(r)
  <2> DEFINE q == req[r]
  <2>1. /\ q.pc = "cancel" /\ q.card \in Cards /\ q.late \in BOOLEAN
        /\ cause' = [cause EXCEPT ![q.card] = IF q.late THEN "late" ELSE "customer"]
        /\ q.late => req'[r] = [pc |-> "announce", card |-> q.card, left |-> Managers]
        /\ \A o \in Requests : o # r => req'[o] = req[o]
        /\ UNCHANGED <<noShowEvents, lateEvents, marked, faults>>
    BY <1>6, RecordFields DEF WriteCancel, TypeOK, eventVars, jobVars
  <2> SUFFICES ASSUME faults = 0, NEW c \in Cards
               PROVE  /\ cause'[c] = "no-show" => c \in noShowEvents' \/ c = marked'
                      /\ cause'[c] = "late" =>
                           \A m \in Managers :
                              \/ <<c, m>> \in lateEvents'
                              \/ \E o \in Requests :
                                  req'[o].pc = "announce" /\ req'[o].card = c
                                  /\ m \in req'[o].left
    BY <2>1 DEF CancellationsAnnounced
  <2>2. CASE c = q.card
    BY <2>1, <2>2 DEF TypeOK
  <2>3. CASE c # q.card
    <3>1. cause'[c] = cause[c]
      BY <2>1, <2>3 DEF TypeOK
    <3>2. ASSUME NEW m \in Managers, NEW o \in Requests,
                 req[o].pc = "announce", req[o].card = c, m \in req[o].left
          PROVE  req'[o] = req[o]
      BY <2>1, <3>2
    <3> QED BY <2>1, <3>1, <3>2 DEF CancellationsAnnounced
  <2> QED BY <2>2, <2>3
<1>7. ASSUME NEW m \in Managers, AnnounceLate(r, m) PROVE CancellationsAnnounced'
  <2> DEFINE q == req[r]
  <2>1. /\ q.pc = "announce"
        /\ lateEvents' = lateEvents \cup {<<q.card, m>>}
        /\ q.left # {m} => req'[r] = [q EXCEPT !.left = @ \ {m}]
        /\ \A o \in Requests : o # r => req'[o] = req[o]
        /\ UNCHANGED <<cause, noShowEvents, marked, faults>>
    BY <1>7 DEF AnnounceLate, TypeOK, cardVars, jobVars
  <2>2. q \in [pc: {"announce"}, card: Cards, left: SUBSET Managers]
    BY <2>1 DEF TypeOK, RequestRecords
  <2>3. q.left # {m} =>
          req'[r].pc = "announce" /\ req'[r].card = q.card /\ req'[r].left = q.left \ {m}
    BY <2>1, <2>2
  <2> SUFFICES ASSUME faults = 0, NEW c \in Cards, cause[c] = "late", NEW n \in Managers,
                      <<c, n>> \notin lateEvents'
               PROVE  \E o \in Requests :
                        req'[o].pc = "announce" /\ req'[o].card = c /\ n \in req'[o].left
    BY <2>1 DEF CancellationsAnnounced
  <2>4. PICK o \in Requests :
            req[o].pc = "announce" /\ req[o].card = c /\ n \in req[o].left
    BY <2>1 DEF CancellationsAnnounced
  <2>5. CASE o # r
    BY <2>1, <2>4, <2>5
  <2>6. CASE o = r
    <3>1. n # m
      BY <2>1, <2>4, <2>6
    <3> QED BY <2>3, <2>4, <2>6, <3>1
  <2> QED BY <2>5, <2>6
<1> QED BY <1>2, <1>3, <1>4, <1>5, <1>6, <1>7

LEMMA AnnouncedStep ==
    TypeOK /\ CancellationsAnnounced /\ [Next]_vars => CancellationsAnnounced'
<1> SUFFICES ASSUME TypeOK, CancellationsAnnounced, [Next]_vars
             PROVE  CancellationsAnnounced'
  OBVIOUS
<1>1. CASE \/ \E c \in Cards : AssignCard(c) \/ SendReminder(c)
           \/ \E cfg \in Configs : UpdateConfig(cfg)
           \/ Deactivate \/ ReadUpcoming \/ ReadNoShows \/ Tick
           \/ UNCHANGED vars
  BY <1>1, AnnouncedFrame
  DEF AssignCard, SendReminder, UpdateConfig, Deactivate, ReadUpcoming, ReadNoShows, Tick,
      vars, tenantVars, cardVars, eventVars, jobVars
<1>2. ASSUME NEW c \in Cards, MarkNoShow(c) PROVE CancellationsAnnounced'
  BY <1>2, AppointmentsAssumption DEF MarkNoShow, CancellationsAnnounced, TypeOK, eventVars
<1>3. CASE PublishNoShow
  BY <1>3 DEF PublishNoShow, CancellationsAnnounced, cardVars
<1>4. CASE Failure
  <2>1. faults' = faults + 1
    BY <1>4 DEF Failure, Lose
  <2> QED BY <2>1 DEF CancellationsAnnounced, TypeOK
<1> QED BY <1>1, <1>2, <1>3, <1>4, AnnouncedRequest DEF Next

\* As long as nothing fails, a no-show and a late cancellation are announced, or
\* there is a request or a job that is about to, whoever else writes the card
\* (cancel, detectNoShows).
THEOREM CancellationsAreAnnounced == Spec => []CancellationsAnnounced
<1>1. Init => CancellationsAnnounced
  BY DEF Init, CancellationsAnnounced
<1> QED BY <1>1, AnnouncedStep, AppointmentsTyped, NextTyped, InitTyped, PTL DEF Spec

-----------------------------------------------------------------------------
(* Until two writers overlap, what a writer has read is still so. *)

\* There is one writer, and the card it is about to write is as it was read.
SoleWriter ==
    ~overlapped =>
        /\ \A r \in Requests : req[r].pc # "idle" =>
             /\ noShows = {} /\ marked = NoCard
             /\ \A o \in Requests : o # r => req[o].pc = "idle"
        /\ \A r \in Requests :
             /\ req[r].pc \in {"count", "insert"} => status[req[r].card] = "absent"
             /\ req[r].pc = "cancel" => status[req[r].card] = "CREATED"
        /\ \A c \in noShows : status[c] = "CREATED"

LEMMA WriterStep == TypeOK /\ SoleWriter /\ [Next]_vars => SoleWriter'
<1> SUFFICES ASSUME TypeOK, SoleWriter, [Next]_vars, ~overlapped' PROVE SoleWriter'
  BY DEF SoleWriter
<1> USE RecordFields
<1>1. ASSUME NEW r \in Requests, NEW record, Goes(r, record),
             record.pc \in {"count", "insert"} => status[record.card] = "absent",
             record.pc = "cancel" => status[record.card] = "CREATED"
      PROVE  SoleWriter'
  <2>1. ~overlapped /\ (req[r].pc = "idle" => ~InFlight)
    BY <1>1 DEF Goes
  <2>2. noShows = {} /\ marked = NoCard /\ \A o \in Requests : o # r => req[o].pc = "idle"
    BY <2>1 DEF SoleWriter, InFlight
  <2>3. /\ req'[r] = record /\ \A o \in Requests : o # r => req'[o] = req[o]
        /\ UNCHANGED <<noShows, marked, status>>
    BY <1>1 DEF Goes, TypeOK, jobVars, cardVars
  <2> QED BY <1>1, <2>2, <2>3 DEF SoleWriter
<1>2. ASSUME NEW r \in Requests, NEW c \in Cards, NEW t \in Times, ReadTenant(r, c, t)
      PROVE  SoleWriter'
  BY <1>1, <1>2 DEF ReadTenant
<1>3. ASSUME NEW r \in Requests, Count(r) PROVE SoleWriter'
  <2>1. ~overlapped
    BY <1>3 DEF Count, Goes
  <2>2. status[req[r].card] = "absent"
    BY <1>3, <2>1 DEF Count, SoleWriter
  <2>3. req[r] \in [pc: {"count", "insert"}, card: Cards, at: Times, read: Configs]
    BY <1>3 DEF Count, TypeOK, RequestRecords
  <2>4. [req[r] EXCEPT !.pc = "insert"].card = req[r].card
        /\ [req[r] EXCEPT !.pc = "insert"].pc = "insert"
    BY <2>3
  <2>5. CASE existingCount(req[r].read, req[r].at) >= req[r].read.capacity
    BY <1>1, <1>3, <2>5 DEF Count, Idle
  <2>6. CASE ~(existingCount(req[r].read, req[r].at) >= req[r].read.capacity)
    BY <1>1, <1>3, <2>2, <2>4, <2>6 DEF Count
  <2> QED BY <2>5, <2>6
<1>4. ASSUME NEW r \in Requests, NEW c \in Cards, ReadCancel(r, c) PROVE SoleWriter'
  BY <1>1, <1>4 DEF ReadCancel
<1>5. ASSUME NEW r \in Requests, InsertCard(r) \/ WriteCancel(r) PROVE SoleWriter'
  <2>1. /\ req[r].pc # "idle" /\ ~overlapped
        /\ req'[r].pc \in {"idle", "announce"}
        /\ \A o \in Requests : o # r => req'[o] = req[o]
        /\ UNCHANGED <<noShows, marked>>
    BY <1>5 DEF InsertCard, WriteCancel, TypeOK, Idle, jobVars
  <2> QED BY <2>1 DEF SoleWriter
<1>6. ASSUME NEW r \in Requests, NEW m \in Managers, AnnounceLate(r, m) PROVE SoleWriter'
  <2>1. req[r] \in [pc: {"announce"}, card: Cards, left: SUBSET Managers]
    BY <1>6 DEF AnnounceLate, TypeOK, RequestRecords
  <2>2. [req[r] EXCEPT !.left = @ \ {m}].pc = "announce"
    BY <2>1
  <2>3. /\ req[r].pc # "idle" /\ ~overlapped
        /\ req'[r].pc \in {"idle", "announce"}
        /\ \A o \in Requests : o # r => req'[o] = req[o]
        /\ UNCHANGED <<noShows, marked, status>>
    BY <1>6, <2>2 DEF AnnounceLate, TypeOK, Idle, jobVars, cardVars
  <2> QED BY <2>3 DEF SoleWriter
<1>7. ASSUME NEW c \in Cards, AssignCard(c) PROVE SoleWriter'
  BY <1>7 DEF AssignCard, SoleWriter, InFlight, jobVars
<1>8. CASE \/ \E c \in Cards : SendReminder(c)
           \/ \E cfg \in Configs : UpdateConfig(cfg)
           \/ Deactivate \/ ReadUpcoming \/ UNCHANGED vars
  <2>1. UNCHANGED <<noShows, marked, status, req>> /\ ~overlapped
    BY <1>8 DEF SendReminder, UpdateConfig, Deactivate, ReadUpcoming, InFlight, TypeOK,
                vars, tenantVars, cardVars, eventVars, jobVars
  <2> QED BY <2>1 DEF SoleWriter
<1>9. CASE ReadNoShows
  <2>1. noShows' # {} => \A r \in Requests : req[r].pc = "idle"
    BY <1>9 DEF ReadNoShows, InFlight
  <2>2. \A c \in noShows' : status[c] = "CREATED"
    BY <1>9 DEF ReadNoShows, IsNoShow
  <2> QED BY <1>9, <2>1, <2>2 DEF ReadNoShows, SoleWriter, cardVars
<1>10. ASSUME NEW c \in Cards, MarkNoShow(c) PROVE SoleWriter'
  BY <1>10 DEF MarkNoShow, SoleWriter, TypeOK
<1>11. CASE PublishNoShow
  BY <1>11 DEF PublishNoShow, SoleWriter, cardVars
<1>12. CASE Tick
  BY <1>12 DEF Tick, SoleWriter, cardVars
<1>13. CASE Failure
  <2>1. ASSUME NEW lost \in SUBSET Requests, NEW jobs \in SUBSET Jobs, Lose(lost, jobs)
        PROVE  SoleWriter'
    <3>1. /\ \A r \in Requests : req'[r] = req[r] \/ req'[r].pc = "idle"
          /\ noShows' \subseteq noShows /\ marked' \in {marked, NoCard}
          /\ status' = status /\ ~overlapped
      BY <2>1 DEF Lose, Idle, cardVars
    <3> QED BY <3>1 DEF SoleWriter
  <2> QED BY <1>13, <2>1 DEF Failure
<1> QED
  BY <1>2, <1>3, <1>4, <1>5, <1>6, <1>7, <1>8, <1>9, <1>10, <1>11, <1>12, <1>13 DEF Next

LEMMA TakenStep ==
    ASSUME TypeOK, SoleWriter, [Next]_vars, ~overlapped', NEW c \in Cards, status[c] = "TAKEN"
    PROVE  status'[c] = "TAKEN"
<1> USE RecordFields
<1>1. ASSUME NEW r \in Requests, InsertCard(r) \/ WriteCancel(r) PROVE status'[c] = "TAKEN"
  <2>1. status[req[r].card] # "TAKEN"
    BY <1>1 DEF InsertCard, WriteCancel, SoleWriter
  <2> QED BY <1>1, <2>1 DEF InsertCard, WriteCancel, TypeOK
<1>2. ASSUME NEW d \in Cards, AssignCard(d) PROVE status'[c] = "TAKEN"
  BY <1>2 DEF AssignCard, TypeOK
<1>3. ASSUME NEW d \in Cards, MarkNoShow(d) PROVE status'[c] = "TAKEN"
  BY <1>3 DEF MarkNoShow, SoleWriter, TypeOK
<1>4. CASE \/ \E r \in Requests :
                \/ \E d \in Cards, t \in Times : ReadTenant(r, d, t)
                \/ Count(r)
                \/ \E d \in Cards : ReadCancel(r, d)
                \/ \E m \in Managers : AnnounceLate(r, m)
           \/ \E d \in Cards : SendReminder(d)
           \/ \E cfg \in Configs : UpdateConfig(cfg)
           \/ Deactivate \/ ReadUpcoming \/ ReadNoShows \/ PublishNoShow \/ Tick \/ Failure
           \/ UNCHANGED vars
  BY <1>4 DEF ReadTenant, Count, ReadCancel, AnnounceLate, Goes, SendReminder, UpdateConfig,
              Deactivate, ReadUpcoming, ReadNoShows, PublishNoShow, Tick, Failure, Lose,
              vars, tenantVars, cardVars, eventVars, jobVars
<1> QED BY <1>1, <1>2, <1>3, <1>4 DEF Next

\* Until two writers overlap, a card whose customer has come is cancelled neither
\* by a request nor by the job (cancel, detectNoShows).
THEOREM TakenAlwaysStays == Spec => TakenStaysTaken
<1>1. Init => SoleWriter
  BY DEF Init, SoleWriter, Idle
<1>2. TypeOK /\ SoleWriter /\ [Next]_vars =>
        [~overlapped' => \A c \in Cards : status[c] = "TAKEN" => status'[c] = "TAKEN"]_vars
  BY TakenStep
<1> QED
  BY <1>1, <1>2, WriterStep, InitTyped, NextTyped, PTL DEF Spec, TakenStaysTaken

-----------------------------------------------------------------------------
(* The jobs reach everyone: runs missed are counted against faults. *)

\* An appointment made before its reminder window opened.
Awaits(c) ==
    /\ status[c] = "CREATED" /\ c \notin reminded
    /\ createdAt[c] + Day + RemindWidth <= scheduledAt[c]

\* The runs that missed it, the one of this tick aside and then included.
RemindersCounted ==
    \A c \in Cards : Awaits(c) =>
        /\ now + Day <= scheduledAt[c] =>
             now + Day + RemindWidth <= scheduledAt[c] + 1 + faults
        /\ now + Day > scheduledAt[c] => RemindWidth <= faults
        /\ "sendReminders" \notin due /\ c \notin upcoming /\ now + Day <= scheduledAt[c] =>
             now + Day + RemindWidth <= scheduledAt[c] + faults

\* The same for a customer who did not come.
NoShowsCounted ==
    \A c \in Cards : status[c] = "CREATED" =>
        /\ createdAt[c] + CreatedWithin + 1 >= now =>
             \/ now <= scheduledAt[c] + Grace + faults + 1
             \/ now <= createdAt[c] + faults + 1
        /\ /\ "detectNoShows" \notin due /\ c \notin noShows
           /\ createdAt[c] + CreatedWithin >= now
           => \/ now <= scheduledAt[c] + Grace + faults
              \/ now <= createdAt[c] + faults

RunsCounted == RemindersCounted /\ NoShowsCounted

\* What the arithmetic needs.
LEMMA Numbers ==
    ASSUME TypeOK
    PROVE  /\ Day \in Nat /\ RemindWidth \in Nat /\ Grace \in Nat /\ CreatedWithin \in Nat
           /\ now \in Nat /\ faults \in Nat
           /\ \A c \in Cards : scheduledAt[c] \in Nat /\ createdAt[c] \in Nat
  BY AppointmentsAssumption DEF TypeOK

\* A step that leaves rows and runs alone, or takes a card out of CREATED.
LEMMA CountedFrame ==
    ASSUME RunsCounted, UNCHANGED <<scheduledAt, createdAt, reminded, now, due, faults>>,
           \A c \in Cards : status'[c] = "CREATED" =>
               /\ status[c] = "CREATED"
               /\ c \in upcoming => c \in upcoming'
               /\ c \in noShows => c \in noShows'
    PROVE  RunsCounted'
  BY DEF RunsCounted, RemindersCounted, NoShowsCounted, Awaits

LEMMA CountedStep == TypeOK /\ RunsCounted /\ [Next]_vars => RunsCounted'
<1> SUFFICES ASSUME TypeOK, RunsCounted, [Next]_vars PROVE RunsCounted'
  OBVIOUS
<1> USE Numbers
<1>1. ASSUME NEW r \in Requests, InsertCard(r) PROVE RunsCounted'
  <2> DEFINE d == req[r].card
  <2>1. /\ d \in Cards
        /\ \A c \in Cards : c # d =>
             status'[c] = status[c] /\ scheduledAt'[c] = scheduledAt[c]
             /\ createdAt'[c] = createdAt[c]
        /\ createdAt'[d] = now /\ scheduledAt'[d] = req[r].at
        /\ UNCHANGED <<reminded, now, due, upcoming, noShows, faults>>
    BY <1>1, RecordFields DEF InsertCard, TypeOK, eventVars, jobVars
  <2>2. req[r].at \in Nat
    BY <1>1, RecordFields, AppointmentsAssumption DEF InsertCard
  <2>3. RemindersCounted'
    <3> SUFFICES ASSUME NEW c \in Cards, Awaits(c)'
                 PROVE  /\ now + Day <= scheduledAt'[c] =>
                             now + Day + RemindWidth <= scheduledAt'[c] + 1 + faults
                        /\ now + Day > scheduledAt'[c] => RemindWidth <= faults
                        /\ "sendReminders" \notin due /\ c \notin upcoming
                             /\ now + Day <= scheduledAt'[c] =>
                             now + Day + RemindWidth <= scheduledAt'[c] + faults
      BY <2>1 DEF RemindersCounted
    <3>1. CASE c = d
      <4>1. now + Day + RemindWidth <= scheduledAt'[c]
        BY <2>1, <3>1 DEF Awaits
      <4>2. scheduledAt'[c] \in Nat
        BY <2>1, <2>2, <3>1
      <4> QED BY <4>1, <4>2 DEF Awaits
    <3>2. CASE c # d
      <4>1. Awaits(c) /\ scheduledAt'[c] = scheduledAt[c]
        BY <2>1, <3>2 DEF Awaits
      <4> QED BY <4>1 DEF RunsCounted, RemindersCounted, Awaits
    <3> QED BY <3>1, <3>2
  <2>4. NoShowsCounted'
    <3> SUFFICES ASSUME NEW c \in Cards, status'[c] = "CREATED"
                 PROVE  /\ createdAt'[c] + CreatedWithin + 1 >= now =>
                             \/ now <= scheduledAt'[c] + Grace + faults + 1
                             \/ now <= createdAt'[c] + faults + 1
                        /\ /\ "detectNoShows" \notin due /\ c \notin noShows
                           /\ createdAt'[c] + CreatedWithin >= now
                           => \/ now <= scheduledAt'[c] + Grace + faults
                              \/ now <= createdAt'[c] + faults
      BY <2>1 DEF NoShowsCounted
    <3>1. CASE c = d
      BY <2>1, <3>1
    <3>2. CASE c # d
      BY <2>1, <3>2 DEF RunsCounted, NoShowsCounted
    <3> QED BY <3>1, <3>2
  <2> QED BY <2>3, <2>4 DEF RunsCounted
<1>2. ASSUME NEW r \in Requests,
             \/ \E c \in Cards, t \in Times : ReadTenant(r, c, t)
             \/ Count(r)
             \/ \E c \in Cards : ReadCancel(r, c)
             \/ WriteCancel(r)
             \/ \E m \in Managers : AnnounceLate(r, m)
      PROVE  RunsCounted'
  BY <1>2, CountedFrame, RecordFields
  DEF ReadTenant, Count, ReadCancel, WriteCancel, AnnounceLate, Goes, TypeOK,
      tenantVars, cardVars, eventVars, jobVars
<1>3. CASE \/ \E c \in Cards : AssignCard(c)
           \/ \E cfg \in Configs : UpdateConfig(cfg)
           \/ Deactivate \/ PublishNoShow \/ UNCHANGED vars
  BY <1>3, CountedFrame
  DEF AssignCard, UpdateConfig, Deactivate, PublishNoShow, TypeOK,
      vars, tenantVars, cardVars, eventVars, jobVars
<1>4. ASSUME NEW d \in Cards, SendReminder(d) PROVE RunsCounted'
  BY <1>4 DEF SendReminder, RunsCounted, RemindersCounted, NoShowsCounted, Awaits, cardVars
<1>5. ASSUME NEW d \in Cards, MarkNoShow(d) PROVE RunsCounted'
  <2>1. \A c \in Cards : status'[c] = "CREATED" => status[c] = "CREATED" /\ c # d
    BY <1>5 DEF MarkNoShow, TypeOK
  <2> QED BY <1>5, <2>1, CountedFrame DEF MarkNoShow, eventVars
<1>6. CASE ReadUpcoming
  <2>1. \A c \in Cards : Awaits(c)' => Awaits(c)
    BY <1>6 DEF ReadUpcoming, Awaits, cardVars, eventVars
  <2>2. RemindersCounted'
    BY <1>6, <2>1 DEF ReadUpcoming, RunsCounted, RemindersCounted, Awaits, IsUpcoming, cardVars
  <2>3. NoShowsCounted'
    BY <1>6 DEF ReadUpcoming, RunsCounted, NoShowsCounted, cardVars
  <2> QED BY <2>2, <2>3 DEF RunsCounted
<1>7. CASE ReadNoShows
  <2>1. RemindersCounted'
    BY <1>7 DEF ReadNoShows, RunsCounted, RemindersCounted, Awaits, cardVars, eventVars
  <2>2. NoShowsCounted'
    BY <1>7 DEF ReadNoShows, RunsCounted, NoShowsCounted, IsNoShow, cardVars
  <2> QED BY <2>1, <2>2 DEF RunsCounted
<1>8. CASE Tick
  <2>1. RemindersCounted'
    <3> SUFFICES ASSUME NEW c \in Cards, Awaits(c)'
                 PROVE  /\ now + 1 + Day <= scheduledAt[c] =>
                             now + 1 + Day + RemindWidth <= scheduledAt[c] + 1 + faults
                        /\ now + 1 + Day > scheduledAt[c] => RemindWidth <= faults
      BY <1>8 DEF Tick, Jobs, RemindersCounted, cardVars
    <3>1. Awaits(c) /\ "sendReminders" \notin due /\ c \notin upcoming
      BY <1>8 DEF Tick, Awaits, cardVars, eventVars
    <3>2. /\ now + Day <= scheduledAt[c] => now + Day + RemindWidth <= scheduledAt[c] + faults
          /\ now + Day > scheduledAt[c] => RemindWidth <= faults
      BY <3>1 DEF RunsCounted, RemindersCounted
    <3> QED BY <3>2
  <2>2. NoShowsCounted'
    <3> SUFFICES ASSUME NEW c \in Cards, status[c] = "CREATED",
                        createdAt[c] + CreatedWithin >= now
                 PROVE  \/ now + 1 <= scheduledAt[c] + Grace + faults + 1
                        \/ now + 1 <= createdAt[c] + faults + 1
      BY <1>8 DEF Tick, Jobs, NoShowsCounted, cardVars
    <3>1. "detectNoShows" \notin due /\ c \notin noShows
      BY <1>8 DEF Tick
    <3>2. \/ now <= scheduledAt[c] + Grace + faults
          \/ now <= createdAt[c] + faults
      BY <3>1 DEF RunsCounted, NoShowsCounted
    <3> QED BY <3>2
  <2> QED BY <2>1, <2>2 DEF RunsCounted
<1>9. CASE Failure
  <2>1. ASSUME NEW lost \in SUBSET Requests, NEW jobs \in SUBSET Jobs, Lose(lost, jobs)
        PROVE  RunsCounted'
    <3>1. RemindersCounted'
      <4> SUFFICES ASSUME NEW c \in Cards, Awaits(c)'
                   PROVE  /\ now + Day <= scheduledAt[c] =>
                               now + Day + RemindWidth <= scheduledAt[c] + 1 + faults + 1
                          /\ now + Day > scheduledAt[c] => RemindWidth <= faults + 1
                          /\ "sendReminders" \notin due' /\ c \notin upcoming'
                               /\ now + Day <= scheduledAt[c] =>
                               now + Day + RemindWidth <= scheduledAt[c] + (faults + 1)
        BY <2>1 DEF Lose, RemindersCounted, cardVars
      <4>1. Awaits(c)
        BY <2>1 DEF Lose, Awaits, cardVars, eventVars
      <4>2. \/ "sendReminders" \in jobs
            \/ ("sendReminders" \in due' <=> "sendReminders" \in due) /\ upcoming' = upcoming
        BY <2>1 DEF Lose
      <4> QED BY <4>1, <4>2 DEF RunsCounted, RemindersCounted, Awaits
    <3>2. NoShowsCounted'
      BY <2>1 DEF Lose, RunsCounted, NoShowsCounted, cardVars
    <3> QED BY <3>1, <3>2 DEF RunsCounted
  <2> QED BY <1>9, <2>1 DEF Failure
<1> QED BY <1>1, <1>2, <1>3, <1>4, <1>5, <1>6, <1>7, <1>8, <1>9 DEF Next

\* Whatever requests, cancellations and configurations come between, every
\* appointment is reminded unless as many runs failed as its window is wide, and
\* no absent customer keeps a slot for longer than runs failed (sendReminders,
\* detectNoShows).
THEOREM EveryoneIsReached == Spec => []EveryoneReached
<1>1. Init => RunsCounted
  BY DEF Init, RunsCounted, RemindersCounted, NoShowsCounted, Awaits
<1>2. TypeOK /\ RunsCounted => EveryoneReached
  <2> SUFFICES ASSUME TypeOK, RunsCounted PROVE EveryoneReached
    OBVIOUS
  <2>1. RemindedInTime
    <3> SUFFICES ASSUME NEW c \in Cards, status[c] = "CREATED", faults < RemindWidth,
                        createdAt[c] + Day + RemindWidth <= scheduledAt[c],
                        scheduledAt[c] < now + Day, c \notin reminded
                 PROVE  FALSE
      BY DEF RemindedInTime
    <3>1. RemindWidth <= faults
      BY Numbers DEF RunsCounted, RemindersCounted, Awaits
    <3> QED BY <3>1, Numbers
  <2>2. NoShowsDetected
    <3> SUFFICES ASSUME NEW c \in Cards, status[c] = "CREATED",
                        scheduledAt[c] + Grace + 1 + faults < now,
                        createdAt[c] + 1 + faults < now,
                        createdAt[c] + CreatedWithin >= now - 1
                 PROVE  FALSE
      BY DEF NoShowsDetected
    <3>1. \/ now <= scheduledAt[c] + Grace + faults + 1
          \/ now <= createdAt[c] + faults + 1
      BY Numbers DEF RunsCounted, NoShowsCounted
    <3> QED BY <3>1, Numbers
  <2> QED BY <2>1, <2>2 DEF EveryoneReached
<1> QED BY <1>1, <1>2, CountedStep, InitTyped, NextTyped, PTL DEF Spec

-----------------------------------------------------------------------------
(* Slots: two times share a slot when one falls within the slot of the other. *)

\* Quotient and remainder.
LEMMA DivMod ==
    ASSUME NEW a \in Nat, NEW d \in Nat \ {0}
    PROVE  /\ a \div d \in Nat /\ a % d \in Nat /\ a % d < d
           /\ a = (a \div d) * d + (a % d)
<1>1. a = d * (a \div d) + (a % d)
  OBVIOUS
<1>2. a \div d \in Nat /\ a % d \in Nat /\ a % d < d
  OBVIOUS
<1>3. d * (a \div d) = (a \div d) * d
  BY <1>2
<1> QED BY <1>1, <1>2, <1>3

\* They are the only ones.
LEMMA DivModUnique ==
    ASSUME NEW q \in Nat, NEW r \in Nat, NEW d \in Nat \ {0}, r < d
    PROVE  (q * d + r) \div d = q /\ (q * d + r) % d = r
  OBVIOUS

\* The working hours of a garage end on the day they begin.
HoursOfDay == \A cfg \in Configs : cfg.close <= Day

\* A time is some hours into its day, and some minutes into its slot.
LEMMA SlotOf ==
    ASSUME NEW cfg \in Configs, NEW t \in Nat
    PROVE  \E n \in Nat, k \in Nat, e \in Nat :
             /\ t = n * Day + (k * cfg.duration + e)
             /\ TimeOfDay(t) = k * cfg.duration + e /\ TimeOfDay(t) < Day
             /\ t \div Day = n
             /\ e < cfg.duration /\ k * cfg.duration \in Nat
             /\ normalizeToSlotStart(cfg, t) = n * Day + k * cfg.duration
<1> DEFINE n == t \div Day
           y == t % Day
           k == y \div cfg.duration
           e == y % cfg.duration
<1>1. Day \in Nat \ {0} /\ cfg.duration \in Nat \ {0}
  BY AppointmentsAssumption
<1>2. n \in Nat /\ y \in Nat /\ y < Day /\ t = n * Day + y
  BY <1>1, DivMod
<1>3. k \in Nat /\ e \in Nat /\ e < cfg.duration /\ y = k * cfg.duration + e
  BY <1>1, <1>2, DivMod
<1>4. k * cfg.duration \in Nat /\ n * Day \in Nat
  BY <1>1, <1>2, <1>3
<1>5. t - y = n * Day
  <2> HIDE DEF n, y
  <2> QED BY <1>2, <1>4
<1>6. normalizeToSlotStart(cfg, t) = n * Day + k * cfg.duration
  BY <1>5 DEF normalizeToSlotStart, Midnight, TimeOfDay
<1>7. /\ t = n * Day + (k * cfg.duration + e)
      /\ TimeOfDay(t) = k * cfg.duration + e /\ TimeOfDay(t) < Day
  BY <1>2, <1>3 DEF TimeOfDay
<1> HIDE DEF k, e
<1> QED BY <1>2, <1>3, <1>4, <1>6, <1>7

\* A time falls into the slot of another, as book counts, exactly when both have
\* the same start, as getAvailability counts: slots within one day do not overlap.
LEMMA SameSlot ==
    ASSUME NEW cfg \in Configs, NEW t \in Nat, NEW x \in Nat,
           TimeOfDay(t) + cfg.duration <= Day
    PROVE  LET start == normalizeToSlotStart(cfg, t) IN
             x \in start .. start + cfg.duration - 1
               <=> normalizeToSlotStart(cfg, x) = start
<1> DEFINE start == normalizeToSlotStart(cfg, t)
           d == cfg.duration
<1>0. d \in Nat \ {0} /\ Day \in Nat \ {0}
  BY AppointmentsAssumption
<1>s. \A z \in Nat : \E n \in Nat, k \in Nat, e \in Nat :
        /\ z = n * Day + (k * d + e)
        /\ TimeOfDay(z) = k * d + e /\ TimeOfDay(z) < Day
        /\ z \div Day = n /\ e < d /\ k * d \in Nat
        /\ normalizeToSlotStart(cfg, z) = n * Day + k * d
  BY SlotOf
<1>1. PICK m \in Nat, k \in Nat, e \in Nat :
        /\ TimeOfDay(t) = k * d + e
        /\ e < d /\ k * d \in Nat
        /\ start = m * Day + k * d
  BY <1>s
<1>2. PICK n \in Nat, j \in Nat, f \in Nat :
        /\ x = n * Day + (j * d + f)
        /\ TimeOfDay(x) = j * d + f /\ TimeOfDay(x) < Day
        /\ x \div Day = n /\ f < d /\ j * d \in Nat
        /\ normalizeToSlotStart(cfg, x) = n * Day + j * d
  BY <1>s
<1>3. m * Day \in Nat /\ n * Day \in Nat
  BY <1>0
<1>4. k * d + d <= Day
  BY <1>0, <1>1
<1>5. ASSUME x \in start .. start + d - 1 PROVE normalizeToSlotStart(cfg, x) = start
  <2>1. PICK g \in Nat : g < d /\ x = start + g
    <3>1. x >= start /\ x <= start + d - 1 /\ start \in Nat
      BY <1>1, <1>3, <1>5, <1>0
    <3>2. x - start \in Nat /\ x - start < d /\ x = start + (x - start)
      BY <3>1, <1>0
    <3> QED BY <3>2
  <2>2. x = m * Day + (k * d + g) /\ k * d + g \in Nat /\ k * d + g < Day
    BY <1>0, <1>1, <1>3, <1>4, <2>1
  <2>3. x \div Day = m /\ x % Day = k * d + g
    BY <1>0, <2>2, DivModUnique
  <2>4. n = m /\ j * d + f = k * d + g
    BY <1>2, <2>3 DEF TimeOfDay
  <2>5. (j * d + f) \div d = j /\ (k * d + g) \div d = k
    BY <1>0, <1>2, <2>1, DivModUnique
  <2> QED BY <1>1, <1>2, <2>4, <2>5
<1>6. ASSUME normalizeToSlotStart(cfg, x) = start PROVE x \in start .. start + d - 1
  <2>1. n * Day + j * d = m * Day + k * d
    BY <1>1, <1>2, <1>6
  <2>2. j * d < Day /\ k * d < Day
    BY <1>0, <1>2, <1>4, <1>1
  <2>3. n = m
    <3>1. (n * Day + j * d) \div Day = n
      BY <1>0, <1>2, <2>2, DivModUnique
    <3>2. (m * Day + k * d) \div Day = m
      BY <1>0, <1>1, <2>2, DivModUnique
    <3> QED BY <2>1, <3>1, <3>2
  <2>4. x = start + f
    BY <1>1, <1>2, <1>3, <2>1, <2>3
  <2>5. start \in Nat
    BY <1>1, <1>3
  <2> HIDE DEF start
  <2> QED BY <1>0, <1>2, <2>4, <2>5
<1> QED BY <1>5, <1>6

\* A slot that is offered starts where book sees it start, within the hours.
LEMMA OfferedWithinHours ==
    ASSUME HoursOfDay, NEW cfg \in Configs, cfg.open % cfg.duration = 0,
           NEW n \in Nat, NEW k \in Nat, NEW t \in Nat,
           t = n * Day + cfg.open + k * cfg.duration,
           cfg.open + (k + 1) * cfg.duration <= cfg.close
    PROVE  /\ t \div Day = n
           /\ TimeOfDay(t) >= cfg.open /\ TimeOfDay(t) + cfg.duration <= cfg.close
           /\ TimeOfDay(t) + cfg.duration <= Day
           /\ normalizeToSlotStart(cfg, t) = t
<1> DEFINE d == cfg.duration
<1>0. d \in Nat \ {0} /\ Day \in Nat \ {0} /\ cfg.open \in Nat /\ cfg.close \in Nat
  BY AppointmentsAssumption
<1>1. PICK j \in Nat : cfg.open = j * d
  <2>1. cfg.open \div d \in Nat /\ cfg.open = (cfg.open \div d) * d + 0
    BY <1>0, DivMod
  <2>2. (cfg.open \div d) * d \in Nat
    BY <1>0, <2>1
  <2> QED BY <2>1, <2>2
<1>2. /\ k * d \in Nat /\ n * Day \in Nat /\ j * d \in Nat
      /\ (k + 1) * d = k * d + d /\ (j + k) * d = j * d + k * d
  <2>1. \A a \in Nat, b \in Nat : a * b \in Nat
    OBVIOUS
  <2>2. \A a \in Nat, b \in Nat, c \in Nat : (a + b) * c = a * c + b * c
    OBVIOUS
  <2>3. 1 \in Nat /\ d \in Nat /\ 1 * d = d
    BY <1>0
  <2>4. k * d \in Nat /\ n * Day \in Nat /\ j * d \in Nat
    BY <1>0, <2>1
  <2>5. (k + 1) * d = k * d + 1 * d
    BY <2>2, <2>3
  <2>6. (j + k) * d = j * d + k * d
    BY <2>2, <2>3
  <2> QED BY <2>3, <2>4, <2>5, <2>6
<1>3. cfg.open + k * d \in Nat /\ cfg.open + k * d + d <= cfg.close
  BY <1>0, <1>2
<1>4. cfg.close <= Day
  BY DEF HoursOfDay
<1>5. cfg.open + k * d < Day
  BY <1>0, <1>3, <1>4
<1>6. t = n * Day + (cfg.open + k * d)
  <2>1. t = n * Day + cfg.open + k * d
    OBVIOUS
  <2> QED BY <1>0, <1>2, <2>1
<1>7. t \div Day = n /\ TimeOfDay(t) = cfg.open + k * d
  <2> DEFINE y == cfg.open + k * d
  <2>1. y \in Nat /\ y < Day /\ t = n * Day + y
    BY <1>3, <1>5, <1>6
  <2> HIDE DEF y
  <2>2. (n * Day + y) \div Day = n /\ (n * Day + y) % Day = y
    BY <1>0, <2>1, DivModUnique
  <2> QED BY <2>1, <2>2 DEF TimeOfDay, y
<1>8. normalizeToSlotStart(cfg, t) = t
  <2>1. cfg.open + k * d = (j + k) * d + 0
    BY <1>0, <1>1, <1>2
  <2>2. (cfg.open + k * d) \div d = j + k
    <3>1. ((j + k) * d + 0) \div d = j + k
      <4>1. j + k \in Nat /\ 0 \in Nat /\ 0 < d
        BY <1>0
      <4> QED BY <1>0, <4>1, DivModUnique
    <3> QED BY <2>1, <3>1
  <2>3. Midnight(t) = n * Day
    BY <1>2, <1>3, <1>6, <1>7 DEF Midnight
  <2>4. normalizeToSlotStart(cfg, t) = n * Day + (j + k) * d
    BY <1>7, <2>2, <2>3 DEF normalizeToSlotStart
  <2> QED BY <1>6, <2>1, <2>4, <1>0, <1>2
<1> QED BY <1>0, <1>2, <1>3, <1>4, <1>6, <1>7, <1>8

\* For a garage that opens at a multiple of its slot length, book accepts what
\* getAvailability offers and refuses what it shows as full, at any time and after
\* any bookings and changes of configuration.
THEOREM OfferedIsAlwaysBookable ==
    ASSUME HoursOfDay, IsFiniteSet(Cards) PROVE Spec => []OfferedIsBookable
<1>1. ASSUME TypeOK PROVE OfferedIsBookable
  <2> SUFFICES ASSUME config.open % config.duration = 0, NEW slot \in Availability(config)
               PROVE  slot.remaining > 0 <=>
                        /\ slot.start > now /\ WithinHours(config, slot.start)
                        /\ existingCount(config, slot.start) < config.capacity
    BY DEF OfferedIsBookable
  <2>0. /\ config \in Configs /\ config.capacity \in Nat /\ config.open \in Nat
        /\ config.duration \in Nat \ {0} /\ Day \in Nat \ {0} /\ WindowDays \in Nat
        /\ now \in Nat /\ \A c \in Cards : scheduledAt[c] \in Nat
    BY <1>1, AppointmentsAssumption DEF TypeOK
  <2>1. PICK i \in 0 .. WindowDays - 1, k \in 0 .. Day :
          LET m == Midnight(now) + i * Day
              t == m + config.open + k * config.duration
          IN  /\ m \div Day \notin config.closed
              /\ config.open + (k + 1) * config.duration <= config.close
              /\ t > now /\ slot.start = t
              /\ slot.remaining = IF bookingCount(config, t) >= config.capacity THEN 0
                                  ELSE config.capacity - bookingCount(config, t)
    BY DEF Availability, SlotStarts
  <2> DEFINE m == Midnight(now) + i * Day
             t == m + config.open + k * config.duration
             n == now \div Day + i
  <2>2. n \in Nat /\ m = n * Day
    <3>1. now \div Day \in Nat /\ now = (now \div Day) * Day + (now % Day) /\ now % Day \in Nat
      BY <2>0, DivMod
    <3>2. (now \div Day) * Day \in Nat /\ i \in Nat /\ i * Day \in Nat
      BY <2>0, <3>1
    <3>3. Midnight(now) = (now \div Day) * Day
      BY <3>1, <3>2 DEF Midnight, TimeOfDay
    <3>4. (now \div Day + i) * Day = (now \div Day) * Day + i * Day
      BY <2>0, <3>1, <3>2
    <3> QED BY <3>1, <3>2, <3>3, <3>4
  <2>3. m \div Day = n
    <3>1. (n * Day + 0) \div Day = n
      BY <2>0, <2>2, DivModUnique
    <3>2. n * Day \in Nat
      BY <2>0, <2>2
    <3> QED BY <2>2, <3>1, <3>2
  <2>4. /\ t = n * Day + config.open + k * config.duration
        /\ k \in Nat /\ t \in Nat
    BY <2>0, <2>2
  <2> HIDE DEF m, n, t
  <2>5. /\ t \div Day = n
        /\ TimeOfDay(t) >= config.open /\ TimeOfDay(t) + config.duration <= config.close
        /\ TimeOfDay(t) + config.duration <= Day
        /\ normalizeToSlotStart(config, t) = t
    <3>1. config.open + (k + 1) * config.duration <= config.close
      BY <2>1
    <3> HIDE DEF HoursOfDay
    <3>2. config \in Configs /\ n \in Nat /\ k \in Nat /\ t \in Nat
      BY <2>0, <2>2, <2>4
    <3>3. t = n * Day + config.open + k * config.duration
      BY <2>4
    <3>4. ASSUME NEW cfg \in Configs, cfg.open % cfg.duration = 0,
                 t = n * Day + cfg.open + k * cfg.duration,
                 cfg.open + (k + 1) * cfg.duration <= cfg.close
          PROVE  /\ t \div Day = n
                 /\ TimeOfDay(t) >= cfg.open
                 /\ TimeOfDay(t) + cfg.duration <= cfg.close
                 /\ TimeOfDay(t) + cfg.duration <= Day
                 /\ normalizeToSlotStart(cfg, t) = t
      BY <3>2, <3>4, OfferedWithinHours
    <3> QED BY <3>1, <3>2, <3>3, <3>4
  <2>6. WithinHours(config, t) /\ t > now
    BY <2>1, <2>3, <2>5 DEF WithinHours, t, m
  <2>7. bookingCount(config, t) = existingCount(config, t)
    <3>1. \A c \in Cards : normalizeToSlotStart(config, scheduledAt[c]) = t
                              <=> scheduledAt[c] \in t .. t + config.duration - 1
      <4> SUFFICES ASSUME NEW c \in Cards
                   PROVE  normalizeToSlotStart(config, scheduledAt[c]) = t
                            <=> scheduledAt[c] \in t .. t + config.duration - 1
        OBVIOUS
      <4>1. config \in Configs /\ t \in Nat /\ scheduledAt[c] \in Nat
        BY <2>0, <2>4
      <4>2. TimeOfDay(t) + config.duration <= Day
        BY <2>5
      <4>3. scheduledAt[c] \in normalizeToSlotStart(config, t)
                                .. normalizeToSlotStart(config, t) + config.duration - 1
              <=> normalizeToSlotStart(config, scheduledAt[c])
                    = normalizeToSlotStart(config, t)
        BY <4>1, <4>2, SameSlot, ZenonT(60)
      <4> QED BY <2>5, <4>3
    <3>2. {c \in Cards : Live(c) /\ normalizeToSlotStart(config, scheduledAt[c]) = t}
            = {c \in Cards : Live(c) /\ scheduledAt[c] \in t .. t + config.duration - 1}
      BY <3>1
    <3> QED BY <2>5, <3>2 DEF bookingCount, existingCount
  <2>8. bookingCount(config, t) \in Nat
    <3>1. IsFiniteSet({c \in Cards :
                Live(c) /\ normalizeToSlotStart(config, scheduledAt[c]) = t})
      BY FS_Subset
    <3> QED BY <3>1, FS_CardinalityType DEF bookingCount
  <2>9. /\ slot.start = t
        /\ slot.remaining = IF bookingCount(config, t) >= config.capacity THEN 0
                            ELSE config.capacity - bookingCount(config, t)
    BY <2>1 DEF t, m
  <2>10. slot.remaining > 0 <=> bookingCount(config, t) < config.capacity
    BY <2>0, <2>8, <2>9
  <2> QED BY <2>6, <2>7, <2>9, <2>10
<1> QED BY <1>1, AppointmentsTyped, PTL

-----------------------------------------------------------------------------
(* Until two writers overlap, no slot is overbooked. *)

\* What a booking has read and counted still holds when it is written.
PlaceCounted ==
    ~overlapped =>
        \A r \in Requests :
            /\ req[r].pc \in {"count", "insert"} => req[r].read = config
            /\ req[r].pc = "insert" =>
                 existingCount(config, req[r].at) < config.capacity

\* The appointments book counts for a time, and their number.
InSlot(cfg, t) ==
    {c \in Cards :
        /\ Live(c)
        /\ scheduledAt[c] \in normalizeToSlotStart(cfg, t)
                                .. normalizeToSlotStart(cfg, t) + cfg.duration - 1}

LEMMA CountIsNat ==
    ASSUME IsFiniteSet(Cards), NEW cfg, NEW t
    PROVE  /\ existingCount(cfg, t) = Cardinality(InSlot(cfg, t))
           /\ IsFiniteSet(InSlot(cfg, t)) /\ existingCount(cfg, t) \in Nat
<1>1. IsFiniteSet(InSlot(cfg, t))
  BY FS_Subset DEF InSlot
<1>2. existingCount(cfg, t) = Cardinality(InSlot(cfg, t))
  BY DEF existingCount, InSlot
<1> QED BY <1>1, <1>2, FS_CardinalityType

LEMMA PlaceStep ==
    ASSUME IsFiniteSet(Cards), TypeOK, SoleWriter, PlaceCounted, [Next]_vars
    PROVE  PlaceCounted'
<1> SUFFICES ASSUME ~overlapped' PROVE PlaceCounted'
  BY DEF PlaceCounted
<1> USE RecordFields
<1>0. ~overlapped
  BY DEF Next, ReadTenant, Count, InsertCard, ReadCancel, WriteCancel, AnnounceLate, Goes,
         AssignCard, SendReminder, MarkNoShow, UpdateConfig, Deactivate, ReadUpcoming,
         ReadNoShows, PublishNoShow, Tick, Failure, Lose, vars, TypeOK
<1>1. \A r \in Requests : req[r].pc # "idle" =>
        noShows = {} /\ marked = NoCard /\ \A o \in Requests : o # r => req[o].pc = "idle"
  BY <1>0 DEF SoleWriter
<1>2. ASSUME UNCHANGED <<config, status, scheduledAt>>,
             \A r \in Requests : req'[r] = req[r] \/ req'[r].pc \notin {"count", "insert"}
      PROVE  PlaceCounted'
  BY <1>0, <1>2 DEF PlaceCounted, existingCount, Live
<1>3. ASSUME \A r \in Requests : req'[r].pc \notin {"count", "insert"} PROVE PlaceCounted'
  BY <1>3 DEF PlaceCounted
<1>4. ASSUME NEW r \in Requests, NEW c \in Cards, NEW t \in Times, ReadTenant(r, c, t)
      PROVE  PlaceCounted'
  <2>1. /\ \A o \in Requests : o # r => req'[o].pc = "idle"
        /\ req'[r].pc = "count" /\ req'[r].read = config /\ config' = config
    BY <1>4 DEF ReadTenant, Goes, InFlight, TypeOK, tenantVars
  <2> QED BY <2>1 DEF PlaceCounted
<1>5. ASSUME NEW r \in Requests, Count(r) PROVE PlaceCounted'
  <2>1. /\ req[r].pc = "count" /\ req[r].read = config
        /\ UNCHANGED <<config, status, scheduledAt>>
        /\ \A o \in Requests : o # r => req'[o].pc = "idle"
    BY <1>0, <1>1, <1>5 DEF Count, Goes, PlaceCounted, TypeOK, tenantVars, cardVars
  <2>2. CASE existingCount(req[r].read, req[r].at) >= req[r].read.capacity
    BY <1>3, <1>5, <2>1, <2>2 DEF Count, Goes, TypeOK, Idle
  <2>3. CASE ~(existingCount(req[r].read, req[r].at) >= req[r].read.capacity)
    <3>1. req' = [req EXCEPT ![r] = [req[r] EXCEPT !.pc = "insert"]]
      BY <1>5, <2>3 DEF Count, Goes
    <3>2. req[r] \in [pc: {"count", "insert"}, card: Cards, at: Times, read: Configs]
      BY <2>1, RecordFields DEF RequestRecords
    <3>3. /\ req'[r].read = config /\ req'[r].at = req[r].at
      BY <2>1, <3>1, <3>2 DEF TypeOK
    <3>4. existingCount(config, req[r].at) < config.capacity
      <4>1. existingCount(config, req[r].at) \in Nat /\ config.capacity \in Nat
        BY CountIsNat, AppointmentsAssumption DEF TypeOK
      <4> QED BY <2>1, <2>3, <4>1
    <3>5. existingCount(config, req[r].at)' = existingCount(config, req[r].at)
      BY <2>1, <3>3 DEF existingCount, Live
    <3> QED BY <2>1, <3>3, <3>4, <3>5 DEF PlaceCounted, existingCount, Live
  <2> QED BY <2>2, <2>3
<1>6. ASSUME NEW r \in Requests,
             \/ InsertCard(r) \/ WriteCancel(r)
             \/ \E c \in Cards : ReadCancel(r, c)
             \/ \E m \in Managers : AnnounceLate(r, m)
      PROVE  PlaceCounted'
  <2>1. \A o \in Requests : o # r => req'[o].pc = "idle"
    BY <1>1, <1>6 DEF InsertCard, WriteCancel, ReadCancel, AnnounceLate, Goes, InFlight, TypeOK
  <2>2. req'[r].pc \notin {"count", "insert"}
    <3>1. CASE InsertCard(r)
      BY <3>1 DEF InsertCard, Idle, TypeOK
    <3>2. CASE WriteCancel(r)
      BY <3>2 DEF WriteCancel, Idle, TypeOK
    <3>3. CASE \E c \in Cards : ReadCancel(r, c)
      BY <3>3 DEF ReadCancel, Goes, TypeOK
    <3>4. ASSUME NEW m \in Managers, AnnounceLate(r, m)
          PROVE  req'[r].pc \notin {"count", "insert"}
      <4>1. req[r] \in [pc: {"announce"}, card: Cards, left: SUBSET Managers]
        BY <3>4 DEF AnnounceLate, RequestRecords
      <4> QED BY <3>4, <4>1 DEF AnnounceLate, Idle, TypeOK
    <3> QED BY <1>6, <3>1, <3>2, <3>3, <3>4
  <2> QED BY <1>3, <2>1, <2>2
<1>7. CASE \/ \E c \in Cards : AssignCard(c)
           \/ \E cfg \in Configs : UpdateConfig(cfg)
           \/ Deactivate
  <2>1. \A r \in Requests : req'[r].pc = "idle"
    BY <1>7 DEF AssignCard, UpdateConfig, Deactivate, InFlight
  <2> QED BY <1>3, <2>1
<1>8. ASSUME NEW c \in Cards, MarkNoShow(c) PROVE PlaceCounted'
  BY <1>1, <1>3, <1>8 DEF MarkNoShow
<1>9. CASE \/ \E c \in Cards : SendReminder(c)
           \/ ReadUpcoming \/ ReadNoShows \/ PublishNoShow \/ Tick \/ UNCHANGED vars
  BY <1>2, <1>9 DEF SendReminder, ReadUpcoming, ReadNoShows, PublishNoShow, Tick, vars,
                    tenantVars, cardVars
<1>10. CASE Failure
  <2>1. ASSUME NEW lost \in SUBSET Requests, NEW jobs \in SUBSET Jobs, Lose(lost, jobs)
        PROVE  PlaceCounted'
    BY <1>2, <2>1 DEF Lose, Idle, tenantVars, cardVars
  <2> QED BY <1>10, <2>1 DEF Failure
<1> QED BY <1>4, <1>5, <1>6, <1>7, <1>8, <1>9, <1>10 DEF Next

\* A step that adds to a slot within the hours inserts a card, and the place was
\* counted in that slot.
LEMMA BookedStep ==
    ASSUME HoursOfDay, IsFiniteSet(Cards), TypeOK, SoleWriter, PlaceCounted, [Next]_vars,
           ~overlapped', config' = config, NEW t \in Times, WithinHours(config, t),
           existingCount(config, t)' > existingCount(config, t)
    PROVE  existingCount(config, t)' <= config.capacity
<1> USE RecordFields
<1>0. /\ config \in Configs /\ config.capacity \in Nat /\ t \in Nat
      /\ TimeOfDay(t) + config.duration <= Day
  <2>1. /\ config \in Configs /\ config.capacity \in Nat /\ config.close \in Nat
        /\ config.duration \in Nat /\ t \in Nat /\ TimeOfDay(t) \in Nat /\ Day \in Nat
    <3>1. t \in Nat /\ Day \in Nat \ {0}
      BY AppointmentsAssumption
    <3> QED BY <3>1, DivMod, AppointmentsAssumption DEF TypeOK, TimeOfDay
  <2>2. config.close <= Day /\ TimeOfDay(t) + config.duration <= config.close
    BY <2>1 DEF HoursOfDay, WithinHours
  <2> QED BY <2>1, <2>2
<1> DEFINE S == InSlot(config, t)
<1>1. /\ existingCount(config, t) = Cardinality(S) /\ IsFiniteSet(S) /\ Cardinality(S) \in Nat
      /\ existingCount(config, t)' = Cardinality(S')
      /\ IsFiniteSet(S') /\ Cardinality(S') \in Nat
  <2>1. S' \subseteq Cards
    BY DEF InSlot
  <2>2. IsFiniteSet(S') /\ Cardinality(S') \in Nat
    BY <2>1, FS_Subset, FS_CardinalityType
  <2>3. existingCount(config, t)' = Cardinality(S')
    BY DEF existingCount, InSlot
  <2> QED BY <2>2, <2>3, CountIsNat
<1>2. ASSUME S' \subseteq S PROVE FALSE
  <2>1. Cardinality(S') <= Cardinality(S)
    BY <1>1, <1>2, FS_Subset
  <2> QED BY <1>1, <2>1
<1>3. ASSUME UNCHANGED scheduledAt, \A c \in Cards : Live(c)' => Live(c) PROVE FALSE
  BY <1>2, <1>3 DEF InSlot
<1>4. ASSUME NEW r \in Requests, InsertCard(r)
      PROVE  existingCount(config, t)' <= config.capacity
  <2> DEFINE d == req[r].card
             s == normalizeToSlotStart(config, t)
  <2>1. /\ d \in Cards /\ req[r].at \in Nat
        /\ \A c \in Cards : c # d => Live(c)' = Live(c) /\ scheduledAt'[c] = scheduledAt[c]
        /\ scheduledAt'[d] = req[r].at
    BY <1>4, AppointmentsAssumption DEF InsertCard, Live, TypeOK
  <2>2. /\ ~overlapped /\ req[r].pc = "insert"
        /\ existingCount(config, req[r].at) < config.capacity
    BY <1>4 DEF InsertCard, PlaceCounted
  <2>3. S' \subseteq S \cup {d}
    BY <2>1 DEF InSlot
  <2>4. d \in S'
    BY <1>2, <2>3
  <2>5. req[r].at \in s .. s + config.duration - 1
    BY <2>1, <2>4 DEF InSlot
  <2>6. normalizeToSlotStart(config, req[r].at) = s
    BY <1>0, <2>1, <2>5, SameSlot
  <2>7. existingCount(config, req[r].at) = existingCount(config, t)
    BY <2>6 DEF existingCount
  <2>8. Cardinality(S') <= Cardinality(S) + 1
    <3>1. /\ IsFiniteSet(S \cup {d})
          /\ Cardinality(S \cup {d}) \in {Cardinality(S), Cardinality(S) + 1}
      BY <1>1, FS_AddElement
    <3>2. Cardinality(S') <= Cardinality(S \cup {d})
      BY <2>3, <3>1, FS_Subset
    <3> QED BY <1>1, <3>1, <3>2
  <2> QED BY <1>0, <1>1, <2>2, <2>7, <2>8
<1>5. ASSUME NEW r \in Requests, WriteCancel(r) PROVE FALSE
  BY <1>3, <1>5 DEF WriteCancel, Live, TypeOK
<1>6. ASSUME NEW c \in Cards, AssignCard(c) \/ MarkNoShow(c) PROVE FALSE
  BY <1>3, <1>6 DEF AssignCard, MarkNoShow, Live, TypeOK
<1>7. CASE \/ \E r \in Requests :
                \/ \E c \in Cards, u \in Times : ReadTenant(r, c, u)
                \/ Count(r)
                \/ \E c \in Cards : ReadCancel(r, c)
                \/ \E m \in Managers : AnnounceLate(r, m)
           \/ \E c \in Cards : SendReminder(c)
           \/ \E cfg \in Configs : UpdateConfig(cfg)
           \/ Deactivate \/ ReadUpcoming \/ ReadNoShows \/ PublishNoShow \/ Tick \/ Failure
           \/ UNCHANGED vars
  <2>1. UNCHANGED <<scheduledAt, status>>
    BY <1>7 DEF ReadTenant, Count, ReadCancel, AnnounceLate, Goes, SendReminder, UpdateConfig,
                Deactivate, ReadUpcoming, ReadNoShows, PublishNoShow, Tick, Failure, Lose,
                vars, cardVars
  <2> QED BY <1>3, <2>1 DEF Live
<1> QED BY <1>4, <1>5, <1>6, <1>7 DEF Next

\* What is booked is honoured until two writers overlap: no slot within the hours
\* takes more than its places, whatever the configuration was before, and no card
\* whose customer has come is cancelled (book, cancel, detectNoShows).
THEOREM BookingsAreHonoured ==
    ASSUME HoursOfDay, IsFiniteSet(Cards) PROVE Spec => BookingsHonoured
<1>1. Init => SoleWriter /\ PlaceCounted
  BY DEF Init, SoleWriter, PlaceCounted, Idle
<1>2. TypeOK /\ SoleWriter /\ PlaceCounted /\ [Next]_vars => PlaceCounted'
  BY PlaceStep
<1>3. TypeOK /\ SoleWriter /\ PlaceCounted /\ [Next]_vars =>
        [~overlapped' /\ config' = config =>
            \A t \in Times :
                /\ WithinHours(config, t)
                /\ existingCount(config, t)' > existingCount(config, t)
                => existingCount(config, t)' <= config.capacity]_vars
  BY BookedStep
<1>4. Spec => NoSlotOverbooked
  BY <1>1, <1>2, <1>3, WriterStep, InitTyped, NextTyped, PTL DEF Spec, NoSlotOverbooked
<1> QED BY <1>4, TakenAlwaysStays, PTL DEF BookingsHonoured
=============================================================================
