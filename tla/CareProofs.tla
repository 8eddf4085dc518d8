----------------------------- MODULE CareProofs -----------------------------
(***************************************************************************)
(* Proofs about the life of one vehicle: its papers, its health score and  *)
(* the alerts of it, its maintenance schedule and the notifications, under *)
(* any interleaving of their handlers and jobs, faults and restarts.       *)
(***************************************************************************)
EXTENDS Care, FiniteSetTheorems, SequenceTheorems, WellFoundedInduction, TLAPS

-----------------------------------------------------------------------------
(* What all sides share. *)

\* Every action leaves the faults as they are, or adds one, and the owner stays.
LEMMA FaultStep ==
    ASSUME [Next]_vars
    PROVE  faults' \in {faults, faults + 1} /\ UNCHANGED owned
<1>1. CASE UNCHANGED vars
  BY <1>1 DEF vars, healthVars, vehicleVars, faultVars
<1>2. CASE Vehicle
  BY <1>2 DEF Vehicle, Tick, LeaveFleet, Record, faultVars
<1>3. CASE HealthSide
  BY <1>3 DEF HealthSide, HealthWork, RecalcStep, HandleServiceEvent, DailyRun, RetryFires, Start,
     ReadPrevious, Upsert, Store, publishHealthScoreAlert, Reject, FleetStep, FleetReceive,
     FleetPublish, FleetReject, faultVars, vehicleVars
<1>4. CASE ScheduleSide
  BY <1>4 DEF ScheduleSide, Schedule!PlanWork, Schedule!DriveOn, Schedule!createOrUpdateTemplate,
     Schedule!PlanStep, Schedule!HandleService, Schedule!CompleteEntry, Schedule!CreateNext,
     Schedule!PlanRejected, vehicleVars
<1>5. CASE NotifySide
  BY <1>5 DEF NotifySide, Post, Notify!NotificationWork, Notify!updatePreferences, Notify!SendStep,
     Notify!Receive, Notify!CreateNote, Notify!SendDelivers, Notify!SendFails,
     Notify!SendRejected, Notify!RetryStep, Notify!StartRun, Notify!retryNotification,
     Notify!RunRejected, vehicleVars
<1>6. CASE PaperSide
  BY <1>6 DEF PaperSide, Papers!RecordWork, Papers!ReadRecord, Papers!CountPhotos, Papers!Goes,
     Papers!WriteRecord, Papers!AddPhoto, Papers!Ends, Papers!RequestRejected,
     Papers!CreateDocument, Papers!Announce, Papers!AnnounceRejected, Papers!ReadExpiring,
     Papers!PaperTick, Papers!JobRejected, vehicleVars
<1>7. CASE Restart
  BY <1>7 DEF Restart, RestartHealth, vehicleVars
<1> QED BY <1>1, <1>2, <1>3, <1>4, <1>5, <1>6, <1>7 DEF Next

-----------------------------------------------------------------------------
(* The papers: the audit trail. *)

Kept == Values \cup {NoValue}
Changes == [previous: Kept, new: Kept]

TrailTyped ==
    /\ record \in [Fields -> Kept]
    /\ trail \in [Fields -> Seq(Changes)]
    /\ desk = [r \in Requests |-> desk[r]]
    /\ \A r \in Requests : desk[r].pc = "update" =>
        /\ desk[r].on = "update"
        /\ DOMAIN desk[r].changes \subseteq Fields
        /\ \A f \in DOMAIN desk[r].changes : desk[r].changes[f] \in Changes

\* Until two updates overlap, the one in flight changes the record as it read it.
UpdateCurrent ==
    "update" \notin raced =>
        /\ \A r, q \in Requests : desk[r].pc = "update" /\ desk[q].pc = "update" => r = q
        /\ \A r \in Requests : desk[r].pc = "update" =>
             \A f \in DOMAIN desk[r].changes :
                /\ desk[r].changes[f].previous = record[f]
                /\ desk[r].changes[f].new # record[f]

TrailInv == TrailTyped /\ UpdateCurrent /\ Papers!TrailReplays

\* A request reads or ends: what is on file stays.
LEMMA DeskStep ==
    ASSUME TrailInv, UNCHANGED <<record, trail>>, desk' = [r \in Requests |-> desk'[r]],
           raced \subseteq raced',
           \A r \in Requests : desk'[r].pc = "update" => desk'[r] = desk[r]
    PROVE  TrailInv'
<1>1. TrailTyped'
  BY DEF TrailInv, TrailTyped
<1>2. UpdateCurrent'
  BY DEF TrailInv, UpdateCurrent
<1>3. Papers!TrailReplays'
  BY DEF TrailInv, Papers!TrailReplays
<1> QED BY <1>1, <1>2, <1>3 DEF TrailInv

LEMMA ReadRecordStep ==
    ASSUME TrailInv, NEW r \in Requests, NEW form \in Papers!Forms, Papers!ReadRecord(r, form)
    PROVE  TrailInv'
<1>1. PICK changed : changed = Papers!Changed(form, record)
  OBVIOUS
<1>2. PICK job : job = [pc |-> "update", on |-> "update", changes |->
              [f \in changed |-> [previous |-> record[f], new |-> form[f]]]]
  OBVIOUS
<1>3. /\ desk' = [desk EXCEPT ![r] = job] /\ desk[r] = Papers!Idle
      /\ UNCHANGED <<record, trail>>
      /\ raced' = raced \cup {"update" : q \in {q \in Requests :
                                desk[q] # Papers!Idle /\ desk[q].on = "update"}}
  BY <1>1, <1>2 DEF Papers!ReadRecord, Papers!Goes, Papers!fileVars
<1>4. changed \subseteq Fields /\ \A f \in changed : form[f] \in Kept /\ form[f] # record[f]
  <2>1. PICK fields \in SUBSET Fields : form \in [fields -> Kept]
    BY DEF Papers!Forms, Kept
  <2> QED BY <1>1, <2>1 DEF Papers!Changed
<1>5. /\ job.pc = "update" /\ job.on = "update" /\ DOMAIN job.changes = changed
      /\ \A f \in changed : /\ job.changes[f] \in Changes
                            /\ job.changes[f].previous = record[f]
                            /\ job.changes[f].new # record[f]
  BY <1>2, <1>4 DEF TrailInv, TrailTyped, Changes
<1>6. desk'[r] = job /\ \A q \in Requests \ {r} : desk'[q] = desk[q]
  BY <1>3 DEF TrailInv, TrailTyped
<1>7. TrailTyped'
  BY <1>3, <1>4, <1>5, <1>6 DEF TrailInv, TrailTyped
<1>8. UpdateCurrent'
  <2> SUFFICES ASSUME "update" \notin raced'
               PROVE  /\ \A p, q \in Requests :
                           desk'[p].pc = "update" /\ desk'[q].pc = "update" => p = q
                      /\ \A q \in Requests : desk'[q].pc = "update" =>
                           \A f \in DOMAIN desk'[q].changes :
                              /\ desk'[q].changes[f].previous = record'[f]
                              /\ desk'[q].changes[f].new # record'[f]
    BY DEF UpdateCurrent
  <2>1. \A q \in Requests : desk[q].pc # "update"
    <3>1. ASSUME NEW q \in Requests, desk[q].pc = "update" PROVE FALSE
      <4>1. desk[q] # Papers!Idle /\ desk[q].on = "update"
        BY <3>1 DEF TrailInv, TrailTyped, Papers!Idle
      <4> QED BY <1>3, <4>1
    <3> QED BY <3>1
  <2> QED BY <1>3, <1>5, <1>6, <2>1
<1>9. Papers!TrailReplays'
  BY <1>3 DEF TrailInv, Papers!TrailReplays
<1> QED BY <1>7, <1>8, <1>9 DEF TrailInv

LEMMA WriteRecordStep ==
    ASSUME TrailInv, NEW r \in Requests, Papers!WriteRecord(r)
    PROVE  TrailInv'
<1>1. PICK changes : changes = desk[r].changes
  OBVIOUS
<1>2. /\ desk[r].pc = "update" /\ raced' = raced
      /\ desk' = [desk EXCEPT ![r] = Papers!Idle]
      /\ record' = [f \in Fields |->
            IF f \in DOMAIN changes THEN changes[f].new ELSE record[f]]
      /\ trail' = [f \in Fields |->
            IF f \in DOMAIN changes THEN Append(trail[f], changes[f]) ELSE trail[f]]
  BY <1>1 DEF Papers!WriteRecord, Papers!Ends
<1>3. DOMAIN changes \subseteq Fields /\ \A f \in DOMAIN changes : changes[f] \in Changes
  BY <1>1, <1>2 DEF TrailInv, TrailTyped
<1>4. /\ desk' = [q \in Requests |-> desk'[q]]
      /\ desk'[r] = Papers!Idle /\ \A q \in Requests \ {r} : desk'[q] = desk[q]
      /\ Papers!Idle.pc = "idle"
  BY <1>2 DEF TrailInv, TrailTyped, Papers!Idle
<1>5. ASSUME NEW f \in DOMAIN changes
      PROVE  /\ trail'[f] \in Seq(Changes) /\ Len(trail'[f]) = Len(trail[f]) + 1
             /\ Len(trail[f]) \in Nat
             /\ \A i \in 1 .. Len(trail[f]) : trail'[f][i] = trail[f][i]
             /\ trail'[f][Len(trail[f]) + 1] = changes[f]
             /\ record'[f] = changes[f].new /\ record'[f] \in Kept
  <2>1. f \in Fields /\ changes[f] \in Changes /\ trail[f] \in Seq(Changes)
    BY <1>3 DEF TrailInv, TrailTyped
  <2>2. trail'[f] = Append(trail[f], changes[f]) /\ record'[f] = changes[f].new
    BY <1>2, <2>1
  <2> QED BY <2>1, <2>2, AppendProperties, LenProperties DEF Changes
<1>6. TrailTyped'
  <2>1. \A f \in Fields : record'[f] \in Kept /\ trail'[f] \in Seq(Changes)
    BY <1>2, <1>5 DEF TrailInv, TrailTyped
  <2>2. record' \in [Fields -> Kept] /\ trail' \in [Fields -> Seq(Changes)]
    BY <1>2, <2>1
  <2> QED BY <1>4, <2>2 DEF TrailInv, TrailTyped
<1>7. UpdateCurrent'
  <2> SUFFICES ASSUME "update" \notin raced PROVE \A q \in Requests : desk'[q].pc # "update"
    BY <1>2 DEF UpdateCurrent
  <2> QED BY <1>2, <1>4 DEF TrailInv, UpdateCurrent
<1>8. ASSUME NEW f \in Fields
      PROVE  LET before(i) == IF i = 1 THEN NoValue ELSE trail'[f][i - 1].new IN
             /\ record'[f] = before(Len(trail'[f]) + 1)
             /\ \A i \in DOMAIN trail'[f] :
                  \/ "update" \in raced
                  \/ trail'[f][i].previous = before(i) /\ trail'[f][i].new # before(i)
  <2>1. /\ trail[f] \in Seq(Changes) /\ Len(trail[f]) \in Nat
        /\ DOMAIN trail[f] = 1 .. Len(trail[f])
    BY DEF TrailInv, TrailTyped
  <2>2. LET before(i) == IF i = 1 THEN NoValue ELSE trail[f][i - 1].new IN
             /\ record[f] = before(Len(trail[f]) + 1)
             /\ \A i \in DOMAIN trail[f] :
                  \/ "update" \in raced
                  \/ trail[f][i].previous = before(i) /\ trail[f][i].new # before(i)
    BY DEF TrailInv, Papers!TrailReplays
  <2>3. CASE f \notin DOMAIN changes
    <3>1. trail'[f] = trail[f] /\ record'[f] = record[f]
      BY <1>2, <2>3
    <3> QED BY <2>2, <3>1
  <2>4. CASE f \in DOMAIN changes
    <3>1. DOMAIN trail'[f] = 1 .. Len(trail[f]) + 1
      BY <1>5, <2>4
    <3>2. "update" \in raced \/ (changes[f].previous = record[f] /\ changes[f].new # record[f])
      BY <1>1, <1>2, <2>4 DEF TrailInv, UpdateCurrent
    <3>3. ASSUME NEW i \in 1 .. Len(trail[f])
          PROVE  /\ trail'[f][i] = trail[f][i]
                 /\ i # 1 => trail'[f][i - 1] = trail[f][i - 1]
      BY <1>5, <2>1, <2>4
    <3>4. record[f] = IF Len(trail[f]) + 1 = 1 THEN NoValue ELSE trail'[f][Len(trail[f])].new
      BY <2>1, <2>2, <3>3
    <3>5. ASSUME NEW i \in DOMAIN trail'[f], "update" \notin raced
          PROVE  LET before == IF i = 1 THEN NoValue ELSE trail'[f][i - 1].new IN
                 trail'[f][i].previous = before /\ trail'[f][i].new # before
      <4>1. CASE i \in 1 .. Len(trail[f])
        BY <2>1, <2>2, <3>3, <3>5, <4>1
      <4>2. CASE i = Len(trail[f]) + 1
        BY <1>5, <2>1, <2>4, <3>2, <3>4, <3>5, <4>2
      <4> QED BY <2>1, <3>1, <4>1, <4>2
    <3>6. record'[f] = IF Len(trail'[f]) + 1 = 1 THEN NoValue
                       ELSE trail'[f][Len(trail'[f])].new
      BY <1>5, <2>1, <2>4
    <3> QED BY <1>5, <2>1, <2>4, <3>5, <3>6
  <2> QED BY <2>3, <2>4
<1>9. Papers!TrailReplays'
  BY <1>2, <1>8 DEF Papers!TrailReplays
<1> QED BY <1>6, <1>7, <1>9 DEF TrailInv

LEMMA TrailStep == TrailInv /\ [Next]_vars => TrailInv'
<1> SUFFICES ASSUME TrailInv, [Next]_vars PROVE TrailInv'
  OBVIOUS
<1>0. desk = [q \in Requests |-> desk[q]]
  BY DEF TrailInv, TrailTyped
<1>1. CASE UNCHANGED <<record, trail, desk, raced>>
  BY <1>0, <1>1, DeskStep
<1>2. ASSUME NEW r \in Requests, desk' = [desk EXCEPT ![r] = Papers!Idle],
             UNCHANGED <<record, trail, raced>>
      PROVE  TrailInv'
  <2>1. desk' = [q \in Requests |-> desk'[q]] /\ desk'[r].pc = "idle"
        /\ \A q \in Requests \ {r} : desk'[q] = desk[q]
    BY <1>0, <1>2 DEF Papers!Idle
  <2> QED BY <1>2, <2>1, DeskStep
<1>3. ASSUME NEW r \in Requests, NEW c \in Cards, Papers!CountPhotos(r, c) PROVE TrailInv'
  <2>1. PICK job : job = [pc |-> "photo", on |-> c] /\ desk' = [desk EXCEPT ![r] = job]
    BY <1>3 DEF Papers!CountPhotos, Papers!Goes
  <2>2. desk' = [q \in Requests |-> desk'[q]] /\ desk'[r].pc = "photo"
        /\ \A q \in Requests \ {r} : desk'[q] = desk[q]
    BY <1>0, <2>1
  <2>3. UNCHANGED <<record, trail>> /\ raced \subseteq raced'
    BY <1>3 DEF Papers!CountPhotos, Papers!Goes, Papers!fileVars
  <2> QED BY <2>2, <2>3, DeskStep
<1>4. CASE Restart
  <2>1. desk' = [q \in Requests |-> Papers!Idle] /\ UNCHANGED <<record, trail, raced>>
    BY <1>4 DEF Restart, Papers!RestartRecords, Papers!fileVars
  <2>2. desk' = [q \in Requests |-> desk'[q]] /\ \A q \in Requests : desk'[q].pc = "idle"
    BY <2>1 DEF Papers!Idle
  <2> QED BY <2>1, <2>2, DeskStep
<1>5. CASE Papers!RecordWork
  BY <1>1, <1>2, <1>3, <1>5, ReadRecordStep, WriteRecordStep
     DEF Papers!RecordWork, Papers!AddPhoto, Papers!RequestRejected, Papers!CreateDocument,
         Papers!Announce, Papers!AnnounceRejected, Papers!ReadExpiring, Papers!PaperTick,
         Papers!JobRejected, Papers!fileVars, Papers!Ends
<1> QED BY <1>1, <1>4, <1>5
        DEF Next, vars, paperVars, Vehicle, HealthSide, ScheduleSide, NotifySide, PaperSide

\* The audit trail of a vehicle's record replays its edits, whatever updates
\* overlap and whatever is rejected or restarted.
THEOREM TrailAlwaysReplays == Spec => []TrailReplays
<1>1. Init => TrailInv
  <2> SUFFICES ASSUME Init PROVE TrailInv
    OBVIOUS
  <2>1. /\ \A f \in Fields : record[f] = NoValue /\ trail[f] = <<>>
        /\ \A r \in Requests : desk[r].pc = "idle"
    BY DEF Init, Papers!RecordsInit, Papers!Idle
  <2>2. TrailTyped
    <3>1. \A f \in Fields : trail[f] \in Seq(Changes)
      <4>1. <<>> \in Seq(Changes)
        OBVIOUS
      <4> QED BY <2>1, <4>1
    <3> QED BY <2>1, <3>1 DEF TrailTyped, Kept, Init, Papers!RecordsInit
  <2>3. UpdateCurrent
    BY <2>1 DEF UpdateCurrent
  <2>4. Papers!TrailReplays
    BY <2>1 DEF Papers!TrailReplays
  <2> QED BY <2>2, <2>3, <2>4 DEF TrailInv
<1>2. TrailInv => TrailReplays
  BY DEF TrailInv, TrailReplays
<1> QED BY <1>1, <1>2, TrailStep, PTL DEF Spec

-----------------------------------------------------------------------------
(* The papers: photos and expiring documents. *)

PhotosTyped ==
    /\ photos \in [Cards -> Nat] /\ desk = [r \in Requests |-> desk[r]]
    /\ \A r \in Requests : desk[r].pc = "photo" => desk[r].on \in Cards

\* Until two photos of a card are counted at once, the one to be added fits.
PhotoFits ==
    \A c \in Cards : c \notin raced =>
        /\ \A r, q \in Requests :
             desk[r].pc = "photo" /\ desk[q].pc = "photo" /\ desk[r].on = c /\ desk[q].on = c =>
                 r = q
        /\ \A r \in Requests : desk[r].pc = "photo" /\ desk[r].on = c =>
             photos[c] < MAX_PHOTOS_PER_JOB_CARD

PhotosInv == PhotosTyped /\ PhotoFits /\ Papers!PhotosKept

LEMMA PhotoDeskStep ==
    ASSUME PhotosInv, UNCHANGED photos, desk' = [r \in Requests |-> desk'[r]],
           raced \subseteq raced',
           \A r \in Requests : desk'[r].pc = "photo" => desk'[r] = desk[r]
    PROVE  PhotosInv'
<1>1. PhotosTyped'
  BY DEF PhotosInv, PhotosTyped
<1>2. PhotoFits'
  BY DEF PhotosInv, PhotoFits
<1>3. Papers!PhotosKept'
  BY DEF PhotosInv, Papers!PhotosKept
<1> QED BY <1>1, <1>2, <1>3 DEF PhotosInv

LEMMA CountPhotosStep ==
    ASSUME PhotosInv, NEW r \in Requests, NEW c \in Cards, Papers!CountPhotos(r, c)
    PROVE  PhotosInv'
<1>1. PICK job : job = [pc |-> "photo", on |-> c]
  OBVIOUS
<1>2. /\ desk' = [desk EXCEPT ![r] = job] /\ UNCHANGED photos
      /\ raced' = raced \cup {c : q \in {q \in Requests : desk[q] # Papers!Idle /\ desk[q].on = c}}
      /\ photos[c] < MAX_PHOTOS_PER_JOB_CARD
  BY <1>1 DEF Papers!CountPhotos, Papers!Goes, Papers!fileVars
<1>3. /\ desk'[r] = job /\ \A q \in Requests \ {r} : desk'[q] = desk[q]
      /\ desk' = [q \in Requests |-> desk'[q]]
      /\ job.pc = "photo" /\ job.on = c
  BY <1>1, <1>2 DEF PhotosInv, PhotosTyped
<1>4. PhotosTyped'
  BY <1>2, <1>3 DEF PhotosInv, PhotosTyped
<1>5. c \notin raced' => \A q \in Requests : ~(desk[q].pc = "photo" /\ desk[q].on = c)
  <2>1. ASSUME NEW q \in Requests, desk[q].pc = "photo", desk[q].on = c PROVE c \in raced'
    <3>1. desk[q] # Papers!Idle
      BY <2>1 DEF Papers!Idle
    <3> QED BY <1>2, <2>1, <3>1
  <2> QED BY <2>1
<1>6. PhotoFits'
  BY <1>2, <1>3, <1>5 DEF PhotosInv, PhotoFits
<1>7. Papers!PhotosKept'
  BY <1>2 DEF PhotosInv, Papers!PhotosKept
<1> QED BY <1>4, <1>6, <1>7 DEF PhotosInv

LEMMA AddPhotoStep ==
    ASSUME PhotosInv, NEW r \in Requests, Papers!AddPhoto(r)
    PROVE  PhotosInv'
<1>1. MAX_PHOTOS_PER_JOB_CARD \in Nat
  BY CareAssumption DEF Papers!RecordsConstants
<1>2. PICK c \in Cards : c = desk[r].on
  BY DEF Papers!AddPhoto, PhotosInv, PhotosTyped
<1>3. /\ desk' = [desk EXCEPT ![r] = Papers!Idle] /\ UNCHANGED raced
      /\ photos' = [photos EXCEPT ![c] = @ + 1] /\ desk[r].pc = "photo"
  BY <1>2 DEF Papers!AddPhoto, Papers!Ends
<1>4. /\ desk'[r].pc = "idle" /\ \A q \in Requests \ {r} : desk'[q] = desk[q]
      /\ desk' = [q \in Requests |-> desk'[q]]
  BY <1>3 DEF PhotosInv, PhotosTyped, Papers!Idle
<1>5. photos'[c] = photos[c] + 1 /\ \A b \in Cards \ {c} : photos'[b] = photos[b]
  BY <1>3 DEF PhotosInv, PhotosTyped
<1>6. PhotosTyped'
  <2>1. photos' \in [Cards -> Nat]
    BY <1>3 DEF PhotosInv, PhotosTyped
  <2> QED BY <1>4, <2>1 DEF PhotosInv, PhotosTyped
<1>7. PhotoFits'
  BY <1>2, <1>3, <1>4, <1>5 DEF PhotosInv, PhotoFits
<1>8. c \notin raced => photos'[c] <= MAX_PHOTOS_PER_JOB_CARD
  BY <1>1, <1>2, <1>3, <1>5 DEF PhotosInv, PhotoFits, PhotosTyped
<1>9. Papers!PhotosKept'
  BY <1>3, <1>5, <1>8 DEF PhotosInv, Papers!PhotosKept
<1> QED BY <1>6, <1>7, <1>9 DEF PhotosInv

LEMMA PhotosStep == PhotosInv /\ [Next]_vars => PhotosInv'
<1> SUFFICES ASSUME PhotosInv, [Next]_vars PROVE PhotosInv'
  OBVIOUS
<1>0. desk = [q \in Requests |-> desk[q]]
  BY DEF PhotosInv, PhotosTyped
<1>1. CASE UNCHANGED <<photos, desk, raced>>
  BY <1>0, <1>1, PhotoDeskStep
<1>2. ASSUME NEW r \in Requests, NEW job, desk' = [desk EXCEPT ![r] = job], job.pc # "photo",
             UNCHANGED photos, raced \subseteq raced'
      PROVE  PhotosInv'
  <2>1. desk' = [q \in Requests |-> desk'[q]] /\ desk'[r] = job
        /\ \A q \in Requests \ {r} : desk'[q] = desk[q]
    BY <1>0, <1>2
  <2> QED BY <1>2, <2>1, PhotoDeskStep
<1>3. ASSUME NEW r \in Requests, NEW form, Papers!ReadRecord(r, form) PROVE PhotosInv'
  <2>1. PICK job : job.pc = "update" /\ desk' = [desk EXCEPT ![r] = job]
    BY <1>3 DEF Papers!ReadRecord, Papers!Goes
  <2>2. UNCHANGED photos /\ raced \subseteq raced'
    BY <1>3 DEF Papers!ReadRecord, Papers!Goes, Papers!fileVars
  <2> QED BY <1>2, <2>1, <2>2
<1>4. ASSUME NEW r \in Requests, desk' = [desk EXCEPT ![r] = Papers!Idle],
             UNCHANGED <<photos, raced>>
      PROVE  PhotosInv'
  <2>1. Papers!Idle.pc = "idle"
    BY DEF Papers!Idle
  <2> QED BY <1>2, <1>4, <2>1
<1>5. CASE Restart
  <2>1. desk' = [q \in Requests |-> Papers!Idle] /\ UNCHANGED <<photos, raced>>
    BY <1>5 DEF Restart, Papers!RestartRecords, Papers!fileVars
  <2>2. desk' = [q \in Requests |-> desk'[q]] /\ \A q \in Requests : desk'[q].pc = "idle"
    BY <2>1 DEF Papers!Idle
  <2> QED BY <2>1, <2>2, PhotoDeskStep
<1>6. CASE Papers!RecordWork
  BY <1>1, <1>3, <1>4, <1>6, CountPhotosStep, AddPhotoStep
     DEF Papers!RecordWork, Papers!WriteRecord, Papers!RequestRejected, Papers!CreateDocument,
         Papers!Announce, Papers!AnnounceRejected, Papers!ReadExpiring, Papers!PaperTick,
         Papers!JobRejected, Papers!fileVars, Papers!Ends
<1> QED BY <1>1, <1>5, <1>6
        DEF Next, vars, paperVars, Vehicle, HealthSide, ScheduleSide, NotifySide, PaperSide

LEMMA InitPhotos == Init => PhotosInv
<1> SUFFICES ASSUME Init PROVE PhotosInv
  OBVIOUS
<1>1. MAX_PHOTOS_PER_JOB_CARD \in Nat
  BY CareAssumption DEF Papers!RecordsConstants
<1>2. /\ photos \in [Cards -> Nat] /\ \A c \in Cards : photos[c] = 0
      /\ desk = [r \in Requests |-> desk[r]] /\ \A r \in Requests : desk[r].pc = "idle"
  BY DEF Init, Papers!RecordsInit, Papers!Idle
<1> QED BY <1>1, <1>2 DEF PhotosInv, PhotosTyped, PhotoFits, Papers!PhotosKept

\* Days, and the runs of the job by a time.
LEMMA DivMod ==
    ASSUME NEW a \in Nat, NEW d \in Nat \ {0}
    PROVE  /\ a \div d \in Nat /\ a % d \in Nat /\ a % d < d
           /\ a = (a \div d) * d + (a % d)
<1>1. a = d * (a \div d) + (a % d)
  OBVIOUS
<1>2. a \div d \in Nat /\ a % d \in Nat /\ a % d < d
  OBVIOUS
<1>3. d * (a \div d) = (a \div d) * d
  BY <1>2
<1> QED BY <1>1, <1>2, <1>3

LEMMA DivModUnique ==
    ASSUME NEW q \in Nat, NEW r \in Nat, NEW d \in Nat \ {0}, r < d
    PROVE  (q * d + r) \div d = q /\ (q * d + r) % d = r
OBVIOUS

LEMMA Distribute ==
    ASSUME NEW q \in Nat, NEW k \in Nat, NEW d \in Nat
    PROVE  q * d \in Nat /\ (q + k) * d = q * d + k * d
OBVIOUS

RunsBy(t) == (t + DayTicks - RunTick) \div DayTicks

LEMMA DayConstants ==
    /\ DayTicks \in Nat \ {0} /\ RunTick \in Nat /\ RunTick < DayTicks
    /\ WindowTicks \in Nat /\ Dates \subseteq Nat /\ NoDate \notin Dates
BY CareAssumption DEF Papers!RecordsConstants

\* The job runs once more at its tick of the day, and at no other.
LEMMA RunsGrow ==
    ASSUME NEW t \in Nat
    PROVE  /\ RunsBy(t) \in Nat
           /\ RunsBy(t + 1) = RunsBy(t) + (IF (t + 1) % DayTicks = RunTick THEN 1 ELSE 0)
<1> DEFINE y == t + DayTicks - RunTick
           q == y \div DayTicks
           r == y % DayTicks
<1>1. y \in Nat /\ y + 1 = t + 1 + DayTicks - RunTick
  BY DayConstants
<1>2. q \in Nat /\ r \in Nat /\ r < DayTicks /\ y = q * DayTicks + r
  BY <1>1, DayConstants, DivMod
<1>3. q * DayTicks \in Nat /\ (q + 1) * DayTicks = q * DayTicks + DayTicks
  BY <1>2, Distribute, DayConstants
<1>4. RunsBy(t) = q
  BY DEF RunsBy
<1>5. RunsBy(t + 1) = (y + 1) \div DayTicks
  BY <1>1 DEF RunsBy
<1> HIDE DEF y, q, r
<1>6. CASE r + 1 = DayTicks
  <2>1. y + 1 = (q + 1) * DayTicks + 0 /\ t + 1 = q * DayTicks + RunTick
    BY <1>1, <1>2, <1>3, <1>6, DayConstants
  <2>2. (y + 1) \div DayTicks = q + 1
    BY <1>2, <2>1, DivModUnique, DayConstants
  <2>3. (t + 1) % DayTicks = RunTick
    <3>1. (q * DayTicks + RunTick) % DayTicks = RunTick
      BY <1>2, DivModUnique, DayConstants
    <3> QED BY <2>1, <3>1
  <2> QED BY <1>2, <1>4, <1>5, <2>2, <2>3
<1>7. CASE r + 1 < DayTicks
  <2>1. y + 1 = q * DayTicks + (r + 1)
    BY <1>2, <1>3
  <2>2. (y + 1) \div DayTicks = q /\ (y + 1) % DayTicks = r + 1
    BY <1>2, <1>7, <2>1, DivModUnique, DayConstants
  <2>3. (t + 1) % DayTicks # RunTick
    <3>1. SUFFICES ASSUME (t + 1) % DayTicks = RunTick PROVE FALSE
      OBVIOUS
    <3>2. PICK n \in Nat : t + 1 = n * DayTicks + RunTick
      BY <3>1, DivMod, DayConstants
    <3>3. n * DayTicks \in Nat /\ (n + 1) * DayTicks = n * DayTicks + DayTicks
      BY Distribute, DayConstants
    <3>4. y + 1 = (n + 1) * DayTicks + 0
      BY <1>1, <3>2, <3>3, DayConstants
    <3>5. (y + 1) % DayTicks = 0
      BY <3>4, DivModUnique, DayConstants
    <3> QED BY <1>2, <2>2, <3>5
  <2> QED BY <1>2, <1>4, <1>5, <2>2, <2>3
<1> QED BY <1>2, <1>6, <1>7, DayConstants

\* In k days it runs k times.
LEMMA RunsOfDays ==
    ASSUME NEW t \in Nat, NEW k \in Nat
    PROVE  RunsBy(t + k * DayTicks) = RunsBy(t) + k
<1> DEFINE y == t + DayTicks - RunTick
           q == y \div DayTicks
           r == y % DayTicks
<1>1. y \in Nat /\ k * DayTicks \in Nat
  BY DayConstants, Distribute
<1>2. q \in Nat /\ r \in Nat /\ r < DayTicks /\ y = q * DayTicks + r
  BY <1>1, DayConstants, DivMod
<1>3. q * DayTicks \in Nat /\ (q + k) * DayTicks = q * DayTicks + k * DayTicks
  BY <1>2, Distribute, DayConstants
<1>4. RunsBy(t) = q
  BY DEF RunsBy
<1>5. RunsBy(t + k * DayTicks) = (t + k * DayTicks + DayTicks - RunTick) \div DayTicks
  BY DEF RunsBy
<1> HIDE DEF q, r
<1>6. t + k * DayTicks + DayTicks - RunTick = y + k * DayTicks
  BY <1>1, DayConstants
<1> HIDE DEF y
<1>7. y + k * DayTicks = (q + k) * DayTicks + r
  BY <1>1, <1>2, <1>3
<1>8. (y + k * DayTicks) \div DayTicks = q + k
  BY <1>2, <1>7, DivModUnique, DayConstants
<1> QED BY <1>4, <1>5, <1>6, <1>8

DocumentsTyped ==
    /\ documents = [d \in Documents |-> documents[d]]
    /\ \A d \in Documents : documents[d] # Papers!NoDocument =>
           documents[d].expiry \in Nat /\ documents[d].at \in Nat
    /\ clock \in Nat /\ faults \in Nat /\ jobDue \in BOOLEAN

\* The runs from lo to the expiry that are over have cost a fault each.
Missed(d, lo) ==
    LET e == documents[d].expiry
        running == clock <= e /\ (jobDue \/ d \in expiring)
    IN  RunsBy(IF clock <= e THEN clock ELSE e)
            <= RunsBy(lo) + faults + (IF running THEN 1 ELSE 0)

\* The times after the upload from which every run sees the document.
Seen(d, lo) ==
    /\ documents[d].at <= lo /\ lo < clock
    /\ lo < documents[d].expiry /\ documents[d].expiry <= lo + 1 + WindowTicks

RunsCaught ==
    owned => \A d \in Documents : documents[d] # Papers!NoDocument /\ d \notin announced =>
                 \A lo \in Nat : Seen(d, lo) => Missed(d, lo)

ExpiryInv == DocumentsTyped /\ RunsCaught

\* Nothing happens to the documents; what the job had not yet done to those it
\* leaves out has cost a fault.
LEMMA JobFails ==
    ASSUME ExpiryInv, UNCHANGED <<documents, clock, announced, owned>>,
           jobDue' \in BOOLEAN, faults' \in {faults, faults + 1},
           faults' = faults => \A d \in Documents \ announced :
               jobDue \/ d \in expiring => jobDue' \/ d \in expiring'
    PROVE  ExpiryInv'
<1>1. DocumentsTyped'
  BY DEF ExpiryInv, DocumentsTyped
<1>2. ASSUME owned, NEW d \in Documents, documents[d] # Papers!NoDocument, d \notin announced,
             NEW lo \in Nat, Seen(d, lo)
      PROVE  Missed(d, lo)'
  <2>1. Missed(d, lo) /\ faults \in Nat
    BY <1>2 DEF ExpiryInv, DocumentsTyped, RunsCaught
  <2>2. RunsBy(lo) \in Nat
    BY RunsGrow
  <2>3. PICK b : b = IF clock <= documents[d].expiry THEN clock ELSE documents[d].expiry
    OBVIOUS
  <2>4. b \in Nat /\ RunsBy(b) \in Nat
    BY <1>2, <2>3, RunsGrow DEF ExpiryInv, DocumentsTyped
  <2>5. CASE faults' = faults + 1
    <3>1. RunsBy(b) <= RunsBy(lo) + faults + 1
      BY <2>1, <2>2, <2>3, <2>4 DEF Missed
    <3> QED BY <2>1, <2>2, <2>3, <2>4, <2>5, <3>1 DEF Missed, RunsBy
  <2>6. CASE faults' = faults
    BY <1>2, <2>1, <2>2, <2>3, <2>4, <2>6 DEF Missed, RunsBy
  <2> QED BY <2>5, <2>6
<1>3. RunsCaught'
  BY <1>2 DEF RunsCaught, Seen, Papers!NoDocument
<1> QED BY <1>1, <1>3 DEF ExpiryInv

LEMMA TickStep ==
    ASSUME ExpiryInv, Papers!PaperTick, UNCHANGED owned
    PROVE  ExpiryInv'
<1>1. /\ ~jobDue /\ expiring = {} /\ clock' = clock + 1
      /\ jobDue' = (clock' % DayTicks = RunTick)
      /\ UNCHANGED <<documents, expiring, announced, faults>>
  BY DEF Papers!PaperTick, Papers!fileVars
<1>2. DocumentsTyped /\ clock \in Nat /\ faults \in Nat
  BY DEF ExpiryInv, DocumentsTyped
<1>3. DocumentsTyped'
  BY <1>1, <1>2 DEF DocumentsTyped
<1>4. ASSUME owned, NEW d \in Documents, documents[d] # Papers!NoDocument, d \notin announced,
             NEW lo \in Nat, Seen(d, lo)'
      PROVE  Missed(d, lo)'
  <2>1. PICK e \in Nat : e = documents[d].expiry
    BY <1>2, <1>4 DEF DocumentsTyped
  <2>2. /\ lo < clock + 1 /\ lo < e /\ documents[d].at <= lo /\ e <= lo + 1 + WindowTicks
    BY <1>1, <1>4, <2>1 DEF Seen
  <2>3. lo < clock => Seen(d, lo)
    BY <2>1, <2>2 DEF Seen
  <2>4. lo < clock => Missed(d, lo)
    BY <1>4, <2>3 DEF ExpiryInv, RunsCaught
  <2>5. lo < clock => RunsBy(IF clock <= e THEN clock ELSE e) <= RunsBy(lo) + faults
    <3>1. RunsBy(lo) \in Nat
      BY RunsGrow
    <3> QED BY <1>1, <1>2, <2>1, <2>4, <3>1 DEF Missed
  <2>6. PICK b : b = IF clock + 1 <= e THEN clock + 1 ELSE e
    OBVIOUS
  <2>7. SUFFICES RunsBy(b) <= RunsBy(lo) + faults
                     + (IF clock + 1 <= e /\ jobDue' THEN 1 ELSE 0)
    BY <1>1, <2>1, <2>6 DEF Missed, RunsBy
  <2>8. RunsBy(lo) \in Nat /\ RunsBy(clock) \in Nat /\ RunsBy(e) \in Nat
    BY <1>2, RunsGrow
  <2>9. RunsBy(clock + 1) = RunsBy(clock) + (IF jobDue' THEN 1 ELSE 0)
    BY <1>1, <1>2, RunsGrow
  <2>10. CASE clock + 1 <= e
    <3>1. RunsBy(clock) <= RunsBy(lo) + faults
      <4>1. CASE lo < clock
        BY <1>2, <2>5, <2>10, <4>1
      <4>2. CASE lo = clock
        BY <1>2, <2>8, <4>2
      <4> QED BY <1>2, <2>2, <4>1, <4>2
    <3> QED BY <1>1, <1>2, <2>6, <2>8, <2>9, <2>10, <3>1
  <2>11. CASE ~(clock + 1 <= e)
    <3>1. lo < clock /\ (clock <= e => clock = e)
      BY <1>2, <2>2, <2>11
    <3>2. RunsBy(e) <= RunsBy(lo) + faults
      BY <2>5, <3>1
    <3> QED BY <1>2, <2>6, <2>8, <2>11, <3>2
  <2> QED BY <2>10, <2>11
<1>5. RunsCaught'
  BY <1>1, <1>4 DEF RunsCaught, Papers!NoDocument
<1> QED BY <1>3, <1>5 DEF ExpiryInv

LEMMA ReadExpiringStep ==
    ASSUME ExpiryInv, Papers!ReadExpiring, UNCHANGED owned
    PROVE  ExpiryInv'
<1>1. /\ jobDue /\ jobDue' = FALSE
      /\ expiring' = IF owned THEN {d \in Documents : Papers!ExpiresSoon(d)} ELSE {}
      /\ UNCHANGED <<documents, clock, announced, faults>>
  BY DEF Papers!ReadExpiring, Papers!fileVars
<1>2. DocumentsTyped /\ clock \in Nat /\ faults \in Nat
  BY DEF ExpiryInv, DocumentsTyped
<1>3. DocumentsTyped'
  BY <1>1, <1>2 DEF DocumentsTyped
<1>4. ASSUME owned, NEW d \in Documents, documents[d] # Papers!NoDocument, d \notin announced,
             NEW lo \in Nat, Seen(d, lo)
      PROVE  Missed(d, lo)'
  <2>1. PICK e \in Nat : e = documents[d].expiry
    BY <1>2, <1>4 DEF DocumentsTyped
  <2>2. Missed(d, lo)
    BY <1>4 DEF ExpiryInv, RunsCaught
  <2>3. clock <= e => d \in expiring'
    <3>1. clock <= e => e \in clock .. clock + WindowTicks
      BY <1>2, <1>4, <2>1, DayConstants DEF Seen
    <3> QED BY <1>1, <1>4, <2>1, <3>1 DEF Papers!ExpiresSoon
  <2> QED BY <1>1, <2>1, <2>2, <2>3 DEF Missed, RunsBy
<1>5. RunsCaught'
  BY <1>1, <1>4 DEF RunsCaught, Seen, Papers!NoDocument
<1> QED BY <1>3, <1>5 DEF ExpiryInv

LEMMA AnnounceStep ==
    ASSUME ExpiryInv, NEW x \in Documents, Papers!Announce(x), UNCHANGED owned
    PROVE  ExpiryInv'
<1>1. /\ announced' = announced \cup {x} /\ expiring' = expiring \ {x}
      /\ UNCHANGED <<documents, clock, jobDue, faults>>
  BY DEF Papers!Announce, Papers!fileVars
<1>2. DocumentsTyped'
  BY <1>1 DEF ExpiryInv, DocumentsTyped
<1>3. ASSUME NEW d \in Documents, d \notin announced', NEW lo \in Nat, Missed(d, lo)
      PROVE  Missed(d, lo)'
  <2>1. d \in expiring <=> d \in expiring'
    BY <1>1, <1>3
  <2> QED BY <1>1, <1>3, <2>1 DEF Missed, RunsBy
<1>4. RunsCaught'
  BY <1>1, <1>3 DEF ExpiryInv, RunsCaught, Seen, Papers!NoDocument
<1> QED BY <1>2, <1>4 DEF ExpiryInv

LEMMA CreateDocumentStep ==
    ASSUME ExpiryInv, NEW x \in Documents, NEW issue \in Dates, NEW expiry \in Dates,
           Papers!CreateDocument(x, issue, expiry), UNCHANGED owned
    PROVE  ExpiryInv'
<1>1. PICK new : new = [expiry |-> expiry, at |-> clock]
  OBVIOUS
<1>2. /\ documents' = [documents EXCEPT ![x] = new]
      /\ UNCHANGED <<clock, jobDue, expiring, announced, faults>>
  BY <1>1 DEF Papers!CreateDocument, Papers!jobVars
<1>3. /\ documents'[x] = new /\ \A d \in Documents \ {x} : documents'[d] = documents[d]
      /\ documents' = [d \in Documents |-> documents'[d]]
  BY <1>2 DEF ExpiryInv, DocumentsTyped
<1>4. new.expiry \in Nat /\ new.at \in Nat /\ new.at = clock
  BY <1>1, DayConstants DEF ExpiryInv, DocumentsTyped
<1>5. DocumentsTyped'
  BY <1>2, <1>3, <1>4 DEF ExpiryInv, DocumentsTyped, Papers!NoDocument
<1>6. ASSUME owned, NEW d \in Documents, documents'[d] # Papers!NoDocument, d \notin announced,
             NEW lo \in Nat, Seen(d, lo)'
      PROVE  Missed(d, lo)'
  <2>1. d # x
    BY <1>2, <1>3, <1>4, <1>6 DEF Seen
  <2>2. documents'[d] = documents[d]
    BY <1>3, <2>1
  <2>3. Missed(d, lo)
    BY <1>2, <1>6, <2>2 DEF ExpiryInv, RunsCaught, Seen
  <2> QED BY <1>2, <2>2, <2>3 DEF Missed, RunsBy
<1>7. RunsCaught'
  BY <1>2, <1>6 DEF RunsCaught, Papers!NoDocument
<1> QED BY <1>5, <1>7 DEF ExpiryInv

LEMMA ExpiryStep == ExpiryInv /\ [Next]_vars => ExpiryInv'
<1> SUFFICES ASSUME ExpiryInv, [Next]_vars PROVE ExpiryInv'
  OBVIOUS
<1>0. faults' \in {faults, faults + 1} /\ UNCHANGED owned /\ jobDue \in BOOLEAN
  BY FaultStep DEF ExpiryInv, DocumentsTyped
<1>1. CASE UNCHANGED <<documents, clock, jobDue, expiring, announced>>
  BY <1>0, <1>1, JobFails
<1>2. ASSUME NEW d \in Documents, Papers!AnnounceRejected(d) PROVE ExpiryInv'
  <2>1. faults' # faults
    BY <1>2 DEF Papers!AnnounceRejected, ExpiryInv, DocumentsTyped
  <2> QED BY <1>0, <1>2, <2>1, JobFails DEF Papers!AnnounceRejected, Papers!fileVars
<1>3. CASE Papers!JobRejected
  <2>1. faults' # faults
    BY <1>3 DEF Papers!JobRejected, ExpiryInv, DocumentsTyped
  <2> QED BY <1>0, <1>3, <2>1, JobFails DEF Papers!JobRejected, Papers!fileVars
<1>4. CASE Restart
  <2>1. faults' # faults
    BY <1>4 DEF Restart, RestartHealth, ExpiryInv, DocumentsTyped
  <2> QED BY <1>0, <1>4, <2>1, JobFails DEF Restart, Papers!RestartRecords, Papers!fileVars
<1>5. CASE Papers!RecordWork
  BY <1>0, <1>1, <1>2, <1>3, <1>5, TickStep, ReadExpiringStep, AnnounceStep, CreateDocumentStep
     DEF Papers!RecordWork, Papers!ReadRecord, Papers!CountPhotos, Papers!Goes, Papers!WriteRecord,
         Papers!AddPhoto, Papers!Ends, Papers!RequestRejected, Papers!fileVars, Papers!jobVars
<1> QED BY <1>1, <1>4, <1>5
        DEF Next, vars, paperVars, Vehicle, HealthSide, ScheduleSide, NotifySide, PaperSide

\* The runs of the last days before the expiry have all missed the document.
LEMMA CaughtInTime ==
    ASSUME ExpiryInv
    PROVE  Papers!ExpiryAnnounced
<1> SUFFICES ASSUME owned, (faults + 1) * DayTicks <= WindowTicks, NEW d \in Documents,
                    documents[d] # Papers!NoDocument,
                    documents[d].at + (faults + 1) * DayTicks <= documents[d].expiry,
                    documents[d].expiry < clock, d \notin announced
             PROVE  FALSE
  BY DEF Papers!ExpiryAnnounced
<1>1. /\ faults \in Nat /\ clock \in Nat
      /\ documents[d].expiry \in Nat /\ documents[d].at \in Nat
  BY DEF ExpiryInv, DocumentsTyped
<1>2. (faults + 1) * DayTicks \in Nat /\ faults + 1 \in Nat
  <2>1. faults + 1 \in Nat
    BY <1>1
  <2> QED BY <2>1, Distribute, DayConstants
<1>3. (faults + 1) * DayTicks > 0
  <2>1. (faults + 1) * DayTicks = faults * DayTicks + 1 * DayTicks
    BY <1>1, Distribute, DayConstants
  <2>2. faults * DayTicks \in Nat
    BY <1>1, Distribute, DayConstants
  <2> QED BY <2>1, <2>2, DayConstants
<1>4. PICK needed \in Nat : needed = (faults + 1) * DayTicks
  BY <1>2
<1>5. PICK lo : lo = documents[d].expiry - needed
  OBVIOUS
<1>6. lo \in Nat /\ lo + needed = documents[d].expiry
  BY <1>1, <1>4, <1>5
<1>7. Seen(d, lo)
  BY <1>1, <1>3, <1>4, <1>6, DayConstants DEF Seen
<1>8. RunsBy(documents[d].expiry) <= RunsBy(lo) + faults
  <2>1. Missed(d, lo)
    BY <1>6, <1>7 DEF ExpiryInv, RunsCaught
  <2>2. RunsBy(lo) \in Nat
    BY <1>6, RunsGrow
  <2> QED BY <1>1, <2>1, <2>2 DEF Missed
<1>9. RunsBy(documents[d].expiry) = RunsBy(lo) + (faults + 1)
  <2>1. RunsBy(lo + (faults + 1) * DayTicks) = RunsBy(lo) + (faults + 1)
    BY <1>2, <1>6, RunsOfDays
  <2> QED BY <1>4, <1>6, <2>1
<1>10. RunsBy(lo) \in Nat
  BY <1>6, RunsGrow
<1> QED BY <1>1, <1>8, <1>9, <1>10

\* Documents about to expire are announced in time, each failure costing a day,
\* and a card's photos stay within their limit until two are counted at once.
THEOREM FilesStayInOrder == Spec => []FilesInOrder
<1>1. Init => ExpiryInv
  <2> SUFFICES ASSUME Init PROVE ExpiryInv
    OBVIOUS
  <2>1. /\ documents = [d \in Documents |-> Papers!NoDocument]
        /\ clock = 0 /\ jobDue \in BOOLEAN /\ faults = 0
    BY DEF Init, Papers!RecordsInit, HealthInit
  <2>2. \A d \in Documents : documents[d] = Papers!NoDocument
    BY <2>1
  <2> QED BY <2>1, <2>2 DEF ExpiryInv, DocumentsTyped, RunsCaught
<1>2. ExpiryInv /\ PhotosInv => FilesInOrder
  BY CaughtInTime DEF FilesInOrder, Papers!FilesInOrder, PhotosInv
<1> QED BY <1>1, <1>2, InitPhotos, PhotosStep, ExpiryStep, PTL DEF Spec

-----------------------------------------------------------------------------
(* The score. *)

ServiceEvents ==
    Seq([at: Nat, category: {"ROUTINE_MAINTENANCE", "REPAIR"}, km: Int])

LEMMA RoundInt ==
    ASSUME NEW n \in Int, NEW d \in Nat \ {0}
    PROVE  Round(n, d) \in Int
BY DEF Round

LEMMA CountInt ==
    ASSUME NEW h \in ServiceEvents, NEW c
    PROVE  Of(h, c) \in Nat
<1>1. DOMAIN h = 1 .. Len(h) /\ Len(h) \in Nat
  BY DEF ServiceEvents
<1>2. IsFiniteSet(1 .. Len(h))
  BY <1>1, FS_Interval
<1>3. IsFiniteSet({i \in DOMAIN h : h[i].category = c})
  BY <1>1, <1>2, FS_Subset
<1> QED BY <1>3, FS_CardinalityType DEF Of

LEMMA Scale ==
    ASSUME NEW a \in Int, NEW b \in Int, NEW k \in Nat, a <= b
    PROVE  a * k <= b * k /\ a * k \in Int /\ b * k \in Int
<1>1. b * k = a * k + (b - a) * k
  OBVIOUS
<1>2. (b - a) * k >= 0
  OBVIOUS
<1> QED BY <1>1, <1>2

\* The parts of the score that time does not change.
LEMMA CountsInt ==
    ASSUME NEW h \in ServiceEvents, h # <<>>
    PROVE  /\ computeMaintenanceComplianceScore(h) \in Int
           /\ computeServiceCountScore(Len(h)) \in Int
           /\ computeUnresolvedIssuesScore(h) \in Int
<1>1. Len(h) \in Nat \ {0}
  BY DEF ServiceEvents
<1>2. computeMaintenanceComplianceScore(h) \in Int
  <2>1. 100 * Of(h, "ROUTINE_MAINTENANCE") \in Int
    BY CountInt
  <2> QED BY <1>1, <2>1, RoundInt DEF computeMaintenanceComplianceScore
<1>3. computeServiceCountScore(Len(h)) \in Int
  <2>1. Clamp(Len(h), 0, 10) \in Int
    BY <1>1 DEF Clamp
  <2>2. 100 * Clamp(Len(h), 0, 10) \in Int
    BY <2>1
  <2> QED BY <2>2, RoundInt DEF computeServiceCountScore
<1>4. computeUnresolvedIssuesScore(h) \in Int
  <2>1. PICK n \in Nat : n = Of(h, "REPAIR")
    BY CountInt
  <2> QED BY <2>1 DEF computeUnresolvedIssuesScore, Clamp
<1> QED BY <1>2, <1>3, <1>4

\* The parts that time changes only fall.
LEMMA AgeOver ==
    ASSUME NEW n \in Nat, NEW m \in Nat, n <= m
    PROVE  /\ 100 - 4 * Clamp((n * Stride) \div 365 - BuiltYear, 0, 20) \in Int
           /\ 100 - 4 * Clamp((m * Stride) \div 365 - BuiltYear, 0, 20) \in Int
           /\ 100 - 4 * Clamp((m * Stride) \div 365 - BuiltYear, 0, 20)
                <= 100 - 4 * Clamp((n * Stride) \div 365 - BuiltYear, 0, 20)
<1>1. Stride \in Nat /\ BuiltYear \in Int
  BY HealthScoreAssumption
<1>2. PICK days \in Int, days2 \in Int : days = n * Stride /\ days2 = m * Stride /\ days <= days2
  <2>1. n * Stride <= m * Stride
    BY <1>1, Scale
  <2> QED BY <1>1, <2>1
<1>3. PICK years \in Int, years2 \in Int :
        years = days \div 365 /\ years2 = days2 \div 365 /\ years2 >= years
  BY <1>2
<1> QED BY <1>1, <1>2, <1>3 DEF Clamp

LEMMA AgeFalls ==
    ASSUME now \in Nat, now' \in Nat, now <= now'
    PROVE  /\ computeVehicleAgeScore \in Int /\ computeVehicleAgeScore' \in Int
           /\ computeVehicleAgeScore' <= computeVehicleAgeScore
<1>1. PICK n \in Nat, m \in Nat : n = now /\ m = now' /\ n <= m
  OBVIOUS
<1>2. /\ computeVehicleAgeScore = 100 - 4 * Clamp((n * Stride) \div 365 - BuiltYear, 0, 20)
      /\ computeVehicleAgeScore' = 100 - 4 * Clamp((m * Stride) \div 365 - BuiltYear, 0, 20)
  BY <1>1 DEF computeVehicleAgeScore
<1> QED BY <1>1, <1>2, AgeOver

LEMMA TimeFalls ==
    ASSUME now \in Nat, now' \in Nat, now <= now', NEW h \in ServiceEvents, h # <<>>
    PROVE  /\ computeTimeSinceServiceScore(h) \in Int
           /\ computeTimeSinceServiceScore(h)' \in Int
           /\ computeTimeSinceServiceScore(h)' <= computeTimeSinceServiceScore(h)
<1>1. Stride \in Nat
  BY HealthScoreAssumption
<1>2. PICK at \in Nat : at = Head(h).at
  <2>1. Head(h) \in [at: Nat, category: {"ROUTINE_MAINTENANCE", "REPAIR"}, km: Int]
    BY HeadTailProperties DEF ServiceEvents
  <2> QED BY <2>1
<1>3. PICK days \in Int, days2 \in Int :
        days = (now - at) * Stride /\ days2 = (now' - at) * Stride /\ days <= days2
  <2>1. (now - at) * Stride \in Int /\ (now' - at) * Stride \in Int
    BY <1>1, <1>2
  <2>2. (now - at) * Stride <= (now' - at) * Stride
    BY <1>1, <1>2, Scale
  <2> QED BY <2>1, <2>2
<1>4. DaysSince(Head(h).at) = days /\ DaysSince(Head(h).at)' = days2
  BY <1>2, <1>3 DEF DaysSince
<1>5. PICK left \in Int, left2 \in Int :
        /\ left = 365 - Clamp(days, 0, 365) /\ left2 = 365 - Clamp(days2, 0, 365)
        /\ left2 <= left
  BY <1>3 DEF Clamp
<1>6. /\ computeTimeSinceServiceScore(h) = (2 * (100 * left) + 365) \div (2 * 365)
      /\ computeTimeSinceServiceScore(h)' = (2 * (100 * left2) + 365) \div (2 * 365)
  BY <1>4, <1>5 DEF computeTimeSinceServiceScore, Round
<1>7. PICK n \in Int, m \in Int : n = 2 * (100 * left) + 365 /\ m = 2 * (100 * left2) + 365 /\ m <= n
  BY <1>5
<1>8. n \div 730 \in Int /\ m \div 730 \in Int /\ m \div 730 <= n \div 730
  BY <1>7
<1> QED BY <1>6, <1>7, <1>8

\* The score computed from a history only falls as time passes.
LEMMA ScoreFalls ==
    ASSUME now \in Nat, now' \in Nat, now <= now', NEW h \in ServiceEvents
    PROVE  /\ computeFinalScore(computeSubScores(h)) \in Int
           /\ computeFinalScore(computeSubScores(h))' \in Int
           /\ computeFinalScore(computeSubScores(h))' <= computeFinalScore(computeSubScores(h))
<1>1. /\ computeVehicleAgeScore \in Int /\ computeVehicleAgeScore' \in Int
      /\ computeVehicleAgeScore' <= computeVehicleAgeScore
  BY AgeFalls
<1>2. CASE h = <<>>
  BY <1>1, <1>2 DEF computeFinalScore, computeSubScores, Round, DEFAULT_SUB_SCORE
<1>3. CASE h # <<>>
  <2>1. PICK compliance \in Int, count \in Int, issues \in Int :
          /\ compliance = computeMaintenanceComplianceScore(h)
          /\ count = computeServiceCountScore(Len(h))
          /\ issues = computeUnresolvedIssuesScore(h)
    BY <1>3, CountsInt
  <2>2. PICK t \in Int, t2 \in Int, a \in Int, a2 \in Int :
          /\ t = computeTimeSinceServiceScore(h) /\ t2 = computeTimeSinceServiceScore(h)'
          /\ a = computeVehicleAgeScore /\ a2 = computeVehicleAgeScore'
          /\ t2 <= t /\ a2 <= a
    BY <1>1, <1>3, TimeFalls
  <2>3. computeSubScores(h) = [compliance |-> compliance, time |-> t, age |-> a,
                               count |-> count, issues |-> issues]
    BY <1>3, <2>1, <2>2 DEF computeSubScores
  <2>4. computeSubScores(h)' = [compliance |-> compliance, time |-> t2, age |-> a2,
                                count |-> count, issues |-> issues]
    BY <1>3, <2>1, <2>2 DEF computeSubScores
  <2>5. computeFinalScore(computeSubScores(h))
          = (2 * (5 * compliance + 5 * t + 3 * a + 3 * count + 4 * issues) + 20) \div (2 * 20)
    BY <2>3 DEF computeFinalScore, Round
  <2>6. computeFinalScore(computeSubScores(h))'
          = (2 * (5 * compliance + 5 * t2 + 3 * a2 + 3 * count + 4 * issues) + 20) \div (2 * 20)
    BY <2>4 DEF computeFinalScore, Round
  <2> QED BY <2>2, <2>5, <2>6
<1> QED BY <1>2, <1>3

\* The services as they were when there were n of them.
Oldest(n) == [i \in 1 .. n |-> services[Len(services) - n + i]]

\* The score that a recalculation from them would store now.
ScoreOf(n) == computeFinalScore(computeSubScores(Oldest(n)))

Recalculation == [pc: {"idle", "computed", "upsert", "publish"}, byEvent: BOOLEAN,
                  new: Int, previous: Int, of: Nat]

ScoreTyped ==
    /\ now \in Nat /\ services \in ServiceEvents
    /\ score \in Int /\ basis \in -1 .. Len(services) /\ overlapped \in BOOLEAN
    /\ recalc \in [Recalcs -> Recalculation]
    /\ \A r \in Recalcs : recalc[r].pc # "idle" => recalc[r].of <= Len(services)

\* Neither the stored score nor one about to be stored would be higher if it were
\* computed again now from the services it is made of.
OnlyFalls ==
    /\ basis # -1 => ScoreOf(basis) <= score
    /\ \A r \in Recalcs : recalc[r].pc # "idle" => ScoreOf(recalc[r].of) <= recalc[r].new

\* Until two recalculations overlap, the one in flight is made of no fewer services
\* than the stored score, and of the same ones it is no higher.
OneAtATime ==
    ~overlapped => \A r \in Recalcs : recalc[r].pc # "idle" =>
        /\ \A q \in Recalcs : recalc[q].pc # "idle" => q = r
        /\ recalc[r].of >= basis
        /\ recalc[r].of = basis => recalc[r].new <= score

ScoreInv == ScoreTyped /\ OnlyFalls /\ OneAtATime

\* Time goes forward, and services are only added in front of the others.
LEMMA VehicleStep ==
    ASSUME now \in Nat, services \in ServiceEvents, [Next]_vars
    PROVE  /\ now' \in Nat /\ now <= now'
           /\ \/ services' = services
              \/ \E s \in [at: Nat, category: {"ROUTINE_MAINTENANCE", "REPAIR"}, km: Int] :
                    services' = <<s>> \o services
<1>1. CASE UNCHANGED <<now, services>>
  BY <1>1
<1>2. CASE Tick
  BY <1>2 DEF Tick
<1>3. ASSUME NEW c \in {"ROUTINE_MAINTENANCE", "REPAIR"}, NEW km \in Readings, Record(c, km)
      PROVE  now' = now /\ \E s \in [at: Nat, category: {"ROUTINE_MAINTENANCE", "REPAIR"}, km: Int] :
                    services' = <<s>> \o services
  <2>1. PICK s : s = [at |-> now, category |-> c, km |-> km]
    OBVIOUS
  <2>2. now' = now /\ services' = <<s>> \o services
    BY <1>3, <2>1 DEF Record
  <2>3. km \in Int
    BY HealthScoreAssumption DEF Readings, NoKm
  <2> QED BY <2>1, <2>2, <2>3
<1>4. CASE Vehicle
  <2>1. CASE LeaveFleet
    BY <1>1, <2>1 DEF LeaveFleet
  <2>2. CASE \E c \in {"ROUTINE_MAINTENANCE", "REPAIR"}, km \in Readings : Record(c, km)
    <3>1. PICK c \in {"ROUTINE_MAINTENANCE", "REPAIR"}, km \in Readings : Record(c, km)
      BY <2>2
    <3>2. now' = now
      BY <1>3, <3>1
    <3>3. \E s \in [at: Nat, category: {"ROUTINE_MAINTENANCE", "REPAIR"}, km: Int] :
                    services' = <<s>> \o services
      BY <1>3, <3>1
    <3>4. now' \in Nat /\ now <= now'
      BY <3>2
    <3> QED BY <3>3, <3>4
  <2> QED BY <1>2, <1>4, <2>1, <2>2 DEF Vehicle
<1>5. CASE HealthSide
  BY <1>1, <1>5 DEF HealthSide, HealthWork, RecalcStep, HandleServiceEvent, DailyRun, RetryFires,
     Start, ReadPrevious, Upsert, Store, publishHealthScoreAlert, Reject, FleetStep, FleetReceive,
     FleetPublish, FleetReject, vehicleVars
<1> QED BY <1>1, <1>4, <1>5
        DEF Next, vars, healthVars, vehicleVars, ScheduleSide, NotifySide, PaperSide, Restart,
            RestartHealth

LEMMA OldestTyped ==
    ASSUME services \in ServiceEvents, NEW n \in 0 .. Len(services)
    PROVE  Oldest(n) \in ServiceEvents
<1> DEFINE Event == [at: Nat, category: {"ROUTINE_MAINTENANCE", "REPAIR"}, km: Int]
<1>1. services \in Seq(Event)
  BY DEF ServiceEvents
<1>0. PICK len \in Nat : len = Len(services)
  BY <1>1
<1>2. \A i \in 1 .. n : Len(services) - n + i \in 1 .. Len(services)
  <2>1. n \in 0 .. len
    BY <1>0
  <2>2. \A i \in 1 .. n : len - n + i \in 1 .. len
    BY <1>0, <2>1
  <2> QED BY <1>0, <2>2
<1>3. \A i \in 1 .. n : services[Len(services) - n + i] \in Event
  <2> TAKE i \in 1 .. n
  <2>1. PICK k \in 1 .. Len(services) : k = Len(services) - n + i
    BY <1>2
  <2>2. services[k] \in Event
    BY <1>1, ElementOfSeq
  <2> QED BY <2>1, <2>2
<1>4. n \in Nat
  BY <1>0
<1>5. Oldest(n) \in Seq(Event)
  BY <1>3, <1>4, IsASeq DEF Oldest
<1> QED BY <1>5 DEF ServiceEvents

\* Services added later change nothing of the older ones.
LEMMA OldestKept ==
    ASSUME services \in ServiceEvents, NEW n \in 0 .. Len(services),
           \/ services' = services
           \/ \E s \in [at: Nat, category: {"ROUTINE_MAINTENANCE", "REPAIR"}, km: Int] :
                services' = <<s>> \o services
    PROVE  /\ services' \in ServiceEvents
           /\ Len(services') \in {Len(services), Len(services) + 1}
           /\ Oldest(n)' = Oldest(n)
<1>1. CASE services' = services
  BY <1>1 DEF Oldest
<1>2. ASSUME NEW s \in [at: Nat, category: {"ROUTINE_MAINTENANCE", "REPAIR"}, km: Int],
             services' = <<s>> \o services
      PROVE  /\ services' \in ServiceEvents /\ Len(services') = Len(services) + 1
             /\ Oldest(n)' = Oldest(n)
  <2> DEFINE Event == [at: Nat, category: {"ROUTINE_MAINTENANCE", "REPAIR"}, km: Int]
  <2>1. services \in Seq(Event) /\ <<s>> \in Seq(Event) /\ Len(<<s>>) = 1 /\ Len(services) \in Nat
    BY DEF ServiceEvents
  <2>2. services' \in Seq(Event) /\ Len(services') = Len(services) + 1
    BY <1>2, <2>1
  <2>3. \A i \in 1 .. Len(services) : services'[1 + i] = services[i]
    BY <1>2, <2>1
  <2>4. \A i \in 1 .. n : services'[Len(services') - n + i] = services[Len(services) - n + i]
    <3> TAKE i \in 1 .. n
    <3>0. PICK len \in Nat : len = Len(services)
      BY <2>1
    <3>1. PICK k \in 1 .. len : k = len - n + i
      BY <3>0
    <3>2. Len(services') - n + i = 1 + k
      BY <2>2, <3>0, <3>1
    <3> QED BY <2>3, <3>0, <3>1, <3>2
  <2> QED BY <2>2, <2>4 DEF Oldest, ServiceEvents
<1> QED BY <1>1, <1>2

LEMMA ScoresFall ==
    ASSUME now \in Nat, services \in ServiceEvents, [Next]_vars, NEW n \in 0 .. Len(services)
    PROVE  ScoreOf(n) \in Int /\ ScoreOf(n)' \in Int /\ ScoreOf(n)' <= ScoreOf(n)
<1>1. PICK h \in ServiceEvents : h = Oldest(n)
  BY OldestTyped
<1>2. now' \in Nat /\ now <= now' /\ Oldest(n)' = h
  BY <1>1, VehicleStep, OldestKept
<1>3. /\ computeFinalScore(computeSubScores(h)) \in Int
      /\ computeFinalScore(computeSubScores(h))' \in Int
      /\ computeFinalScore(computeSubScores(h))' <= computeFinalScore(computeSubScores(h))
  BY <1>2, ScoreFalls
<1>4. ScoreOf(n) = computeFinalScore(computeSubScores(h))
  BY <1>1 DEF ScoreOf
<1>5. ScoreOf(n)' = computeFinalScore(computeSubScores(h))'
  BY <1>2 DEF ScoreOf
<1> QED BY <1>3, <1>4, <1>5

LEMMA AllOfThem ==
    ASSUME services \in ServiceEvents
    PROVE  ScoreOf(Len(services)) = computeFinalScore(computeSubScores(services))
<1>1. Oldest(Len(services)) = services
  BY DEF ServiceEvents, Oldest
<1> QED BY <1>1 DEF ScoreOf

\* The recalculations in flight go on, or end; nothing is stored.
LEMMA NothingStored ==
    ASSUME ScoreInv, [Next]_vars, UNCHANGED <<score, basis, overlapped>>,
           recalc' \in [Recalcs -> Recalculation],
           \A q \in Recalcs : recalc'[q].pc # "idle" =>
             recalc[q].pc # "idle" /\ recalc'[q].new = recalc[q].new /\ recalc'[q].of = recalc[q].of
    PROVE  ScoreInv'
<1>1. ScoreTyped /\ now \in Nat /\ services \in ServiceEvents
  BY DEF ScoreInv, ScoreTyped
<1>2. now' \in Nat /\ services' \in ServiceEvents
      /\ Len(services) \in Nat /\ Len(services') \in {Len(services), Len(services) + 1}
  <2>1. Len(services) \in Nat /\ 0 \in 0 .. Len(services)
    BY <1>1 DEF ServiceEvents
  <2> QED BY <1>1, <2>1, VehicleStep, OldestKept
<1>3. ScoreTyped'
  <2>1. /\ score' \in Int /\ overlapped' \in BOOLEAN /\ basis' \in -1 .. Len(services')
    BY <1>1, <1>2 DEF ScoreTyped
  <2>2. \A r \in Recalcs : recalc'[r].pc # "idle" => recalc'[r].of <= Len(services')
    <3> TAKE r \in Recalcs
    <3> HAVE recalc'[r].pc # "idle"
    <3>1. recalc[r].of <= Len(services) /\ recalc[r].of \in Nat /\ recalc'[r].of = recalc[r].of
      BY <1>1 DEF ScoreTyped, Recalculation
    <3> QED BY <1>2, <3>1
  <2> QED BY <1>2, <2>1, <2>2 DEF ScoreTyped
<1>4. \A n \in 0 .. Len(services) :
        ScoreOf(n) \in Int /\ ScoreOf(n)' \in Int /\ ScoreOf(n)' <= ScoreOf(n)
  BY <1>1, ScoresFall
<1>5. OnlyFalls'
  <2>1. ASSUME basis # -1 PROVE ScoreOf(basis)' <= score
    <3>1. basis \in 0 .. Len(services) /\ ScoreOf(basis) <= score /\ score \in Int
      BY <1>1, <1>2, <2>1 DEF ScoreInv, ScoreTyped, OnlyFalls
    <3> QED BY <1>4, <3>1
  <2>2. ASSUME NEW r \in Recalcs, recalc'[r].pc # "idle"
        PROVE  ScoreOf(recalc[r].of)' <= recalc'[r].new
    <3>1. PICK n \in 0 .. Len(services) : n = recalc'[r].of /\ n = recalc[r].of
      BY <1>1, <1>2, <2>2 DEF ScoreTyped, Recalculation
    <3>2. ScoreOf(n)' <= ScoreOf(n) /\ ScoreOf(n) \in Int /\ ScoreOf(n)' \in Int
      BY <1>4
    <3>3. ScoreOf(n) <= recalc[r].new /\ recalc[r].new \in Int
      BY <1>1, <2>2, <3>1 DEF ScoreInv, ScoreTyped, OnlyFalls, Recalculation
    <3>4. ScoreOf(n)' = ScoreOf(recalc[r].of)'
      BY <3>1 DEF ScoreOf, Oldest
    <3> QED BY <2>2, <3>2, <3>3, <3>4
  <2> QED BY <2>1, <2>2 DEF OnlyFalls
<1>6. OneAtATime'
  BY DEF ScoreInv, OneAtATime
<1> QED BY <1>3, <1>5, <1>6 DEF ScoreInv

LEMMA ScoreStart ==
    ASSUME ScoreInv, [Next]_vars, NEW r \in Recalcs, NEW b \in BOOLEAN, Start(r, b)
    PROVE  ScoreInv'
<1>1. ScoreTyped /\ services \in ServiceEvents /\ now \in Nat
  BY DEF ScoreInv, ScoreTyped
<1>2. PICK n \in Nat : n = Len(services) /\ n \in 0 .. Len(services)
  BY <1>1 DEF ServiceEvents
<1>3. ScoreOf(n) \in Int /\ ScoreOf(n)' \in Int /\ ScoreOf(n)' <= ScoreOf(n)
  BY <1>1, <1>2, ScoresFall
<1>4. PICK new \in Int : new = ScoreOf(n)
  BY <1>3
<1>5. PICK job \in Recalculation :
        job = [pc |-> "computed", byEvent |-> b, new |-> new, previous |-> 0, of |-> n]
  <2>1. [pc |-> "computed", byEvent |-> b, new |-> new, previous |-> 0, of |-> n] \in Recalculation
    BY DEF Recalculation
  <2> QED BY <2>1
<1>6. /\ recalc' = [recalc EXCEPT ![r] = job] /\ recalc[r].pc = "idle"
      /\ overlapped' = (overlapped \/ InFlight # {})
      /\ UNCHANGED <<services, score, basis, now>>
  BY <1>1, <1>2, <1>4, <1>5, AllOfThem DEF Start, vehicleVars
<1>7. /\ recalc' \in [Recalcs -> Recalculation] /\ recalc'[r] = job
      /\ \A q \in Recalcs \ {r} : recalc'[q] = recalc[q]
  BY <1>1, <1>6 DEF ScoreTyped
<1>8. ScoreTyped'
  <2>1. overlapped' \in BOOLEAN
    BY <1>1, <1>6 DEF ScoreTyped
  <2>2. \A q \in Recalcs : recalc'[q].pc # "idle" => recalc'[q].of <= Len(services')
    BY <1>1, <1>2, <1>5, <1>6, <1>7 DEF ScoreTyped
  <2> QED BY <1>1, <1>6, <1>7, <2>1, <2>2 DEF ScoreTyped
<1>9. OnlyFalls'
  <2>1. \A m \in 0 .. Len(services) : ScoreOf(m)' <= ScoreOf(m)
                                      /\ ScoreOf(m) \in Int /\ ScoreOf(m)' \in Int
    BY <1>1, ScoresFall
  <2>2. ASSUME basis # -1 PROVE ScoreOf(basis)' <= score
    <3>1. PICK m \in 0 .. Len(services) : m = basis /\ m = basis'
      BY <1>1, <1>2, <1>6, <2>2 DEF ScoreTyped
    <3>2. ScoreOf(m) <= score /\ score \in Int
      BY <1>1, <2>2, <3>1 DEF ScoreInv, OnlyFalls, ScoreTyped
    <3>3. ScoreOf(m)' <= score
      BY <2>1, <3>2
    <3> QED BY <3>1, <3>3 DEF ScoreOf, Oldest
  <2>3. ASSUME NEW q \in Recalcs, recalc'[q].pc # "idle"
        PROVE  ScoreOf(recalc[q].of)' <= recalc'[q].new
    <3>1. PICK m \in 0 .. Len(services) : m = recalc'[q].of
      <4>1. recalc'[q].of <= Len(services) /\ recalc'[q].of \in Nat
        BY <1>6, <1>7, <1>8, <2>3 DEF ScoreTyped, Recalculation
      <4> QED BY <1>2, <4>1
    <3>2. ScoreOf(m) <= recalc'[q].new /\ recalc'[q].new \in Int
      <4>1. CASE q = r
        BY <1>3, <1>4, <1>5, <1>7, <3>1, <4>1
      <4>2. CASE q # r
        BY <1>1, <1>7, <2>3, <3>1, <4>2 DEF ScoreInv, OnlyFalls, ScoreTyped, Recalculation
      <4> QED BY <4>1, <4>2
    <3>3. ScoreOf(m)' <= recalc'[q].new
      BY <2>1, <3>2
    <3> QED BY <3>1, <3>3 DEF ScoreOf, Oldest
  <2> QED BY <1>6, <2>2, <2>3 DEF OnlyFalls
<1>10. OneAtATime'
  <2> SUFFICES ASSUME ~overlapped', NEW q \in Recalcs, recalc'[q].pc # "idle"
               PROVE  /\ \A p \in Recalcs : recalc'[p].pc # "idle" => p = q
                      /\ recalc'[q].of >= basis'
                      /\ recalc'[q].of = basis' => recalc'[q].new <= score'
    BY DEF OneAtATime
  <2>1. \A p \in Recalcs : p # r => recalc'[p].pc = "idle"
    BY <1>6, <1>7 DEF InFlight
  <2>2. q = r /\ recalc'[q] = job
    BY <1>7, <2>1
  <2>3. n >= basis /\ (n = basis => new <= score)
    <3>1. basis \in -1 .. n
      BY <1>1, <1>2 DEF ScoreTyped
    <3>2. ASSUME n = basis PROVE ScoreOf(n) <= score
      BY <1>2, <3>2 DEF ScoreInv, OnlyFalls
    <3> QED BY <1>2, <1>4, <3>1, <3>2
  <2> QED BY <1>5, <1>6, <2>1, <2>2, <2>3
<1> QED BY <1>8, <1>9, <1>10 DEF ScoreInv

LEMMA ScoreUpsert ==
    ASSUME ScoreInv, [Next]_vars, NEW r \in Recalcs, Upsert(r)
    PROVE  /\ ScoreInv'
           /\ ~overlapped' /\ score' > score => basis' > basis
<1>1. ScoreTyped /\ services \in ServiceEvents /\ now \in Nat
  BY DEF ScoreInv, ScoreTyped
<1>2. PICK n \in 0 .. Len(services), new \in Int :
        n = recalc[r].of /\ new = recalc[r].new /\ recalc[r].pc # "idle"
  <2>1. recalc[r].pc = "upsert" /\ recalc[r] \in Recalculation
    BY <1>1 DEF Upsert, Store, ScoreTyped
  <2>2. recalc[r].of <= Len(services) /\ Len(services) \in Nat
    BY <1>1, <2>1 DEF ScoreTyped, ServiceEvents
  <2> QED BY <2>1, <2>2 DEF Recalculation
<1>3. ScoreOf(n)' <= new /\ ScoreOf(n) <= new
  <2>1. ScoreOf(n) <= new
    BY <1>2 DEF ScoreInv, OnlyFalls
  <2> QED BY <1>1, <1>2, <2>1, ScoresFall
<1>4. /\ score' = new /\ basis' = n
      /\ UNCHANGED <<now, services, overlapped>>
  BY <1>2 DEF Upsert, Store, vehicleVars
<1>5. PICK job \in Recalculation :
        /\ recalc' = [recalc EXCEPT ![r] = job]
        /\ job.pc # "idle" => job.of = n /\ job.new = new
  <2>1. recalc[r] \in Recalculation
    BY <1>1 DEF ScoreTyped
  <2>2. Idle \in Recalculation /\ Idle.pc = "idle"
    BY DEF Idle, Recalculation
  <2>3. [recalc[r] EXCEPT !.pc = "publish"] \in Recalculation
        /\ [recalc[r] EXCEPT !.pc = "publish"].of = n /\ [recalc[r] EXCEPT !.pc = "publish"].new = new
    BY <1>2, <2>1 DEF Recalculation
  <2>4. recalc' = [recalc EXCEPT ![r] = Idle]
        \/ recalc' = [recalc EXCEPT ![r] = [recalc[r] EXCEPT !.pc = "publish"]]
    BY <1>1 DEF Upsert, Store, ScoreTyped
  <2> QED BY <2>2, <2>3, <2>4
<1>6. /\ recalc' \in [Recalcs -> Recalculation] /\ recalc'[r] = job
      /\ \A q \in Recalcs \ {r} : recalc'[q] = recalc[q]
  BY <1>1, <1>5 DEF ScoreTyped
<1>7. ScoreTyped'
  <2>1. \A q \in Recalcs : recalc'[q].pc # "idle" => recalc'[q].of <= Len(services')
    <3>1. n <= Len(services)
      BY <1>1 DEF ServiceEvents
    <3> QED BY <1>1, <1>4, <1>5, <1>6, <3>1 DEF ScoreTyped
  <2>2. basis' \in -1 .. Len(services')
    BY <1>1, <1>4 DEF ServiceEvents
  <2> QED BY <1>1, <1>4, <1>6, <2>1, <2>2 DEF ScoreTyped
<1>8. OnlyFalls'
  <2>1. ScoreOf(basis)' <= score'
    BY <1>3, <1>4 DEF ScoreOf, Oldest
  <2>2. ASSUME NEW q \in Recalcs, recalc'[q].pc # "idle"
        PROVE  ScoreOf(recalc[q].of)' <= recalc'[q].new
    <3>1. PICK m \in 0 .. Len(services) : m = recalc'[q].of
      <4>1. recalc'[q].of <= Len(services) /\ recalc'[q].of \in Nat /\ Len(services) \in Nat
        BY <1>1, <1>4, <1>6, <1>7, <2>2 DEF ScoreTyped, Recalculation, ServiceEvents
      <4> QED BY <4>1
    <3>2. ScoreOf(m) <= recalc'[q].new /\ recalc'[q].new \in Int
      <4>1. CASE q = r
        BY <1>3, <1>5, <1>6, <2>2, <3>1, <4>1
      <4>2. CASE q # r
        BY <1>1, <1>6, <2>2, <3>1, <4>2 DEF ScoreInv, OnlyFalls, ScoreTyped, Recalculation
      <4> QED BY <4>1, <4>2
    <3>3. ScoreOf(m)' <= recalc'[q].new
      <4>1. ScoreOf(m)' <= ScoreOf(m) /\ ScoreOf(m) \in Int /\ ScoreOf(m)' \in Int
        BY <1>1, ScoresFall
      <4> QED BY <3>2, <4>1
    <3> QED BY <3>1, <3>3 DEF ScoreOf, Oldest
  <2> QED BY <2>1, <2>2 DEF OnlyFalls
<1>9. OneAtATime'
  <2> SUFFICES ASSUME ~overlapped', NEW q \in Recalcs, recalc'[q].pc # "idle"
               PROVE  /\ \A p \in Recalcs : recalc'[p].pc # "idle" => p = q
                      /\ recalc'[q].of >= basis'
                      /\ recalc'[q].of = basis' => recalc'[q].new <= score'
    BY DEF OneAtATime
  <2>1. \A p \in Recalcs : p # r => recalc'[p].pc = "idle"
    BY <1>2, <1>4, <1>6 DEF ScoreInv, OneAtATime
  <2>2. q = r /\ job.of = n /\ job.new = new /\ recalc'[q] = job
    BY <1>5, <1>6, <2>1
  <2> QED BY <1>4, <2>1, <2>2
<1>10. ~overlapped' /\ score' > score => basis' > basis
  <2>1. ~overlapped => n >= basis /\ (n = basis => new <= score)
    BY <1>2 DEF ScoreInv, OneAtATime
  <2>2. basis \in Int /\ score \in Int
    BY <1>1 DEF ScoreTyped
  <2> QED BY <1>4, <2>1, <2>2
<1> QED BY <1>7, <1>8, <1>9, <1>10 DEF ScoreInv

LEMMA ScoreStep ==
    ASSUME ScoreInv, [Next]_vars
    PROVE  /\ ScoreInv'
           /\ ~overlapped' /\ score # NoScore /\ score' > score => basis' > basis
<1>1. ScoreTyped /\ score \in Int
  BY DEF ScoreInv, ScoreTyped
<1>2. ASSUME UNCHANGED <<score, basis, recalc, overlapped>>
      PROVE  ScoreInv'
  BY <1>1, <1>2, NothingStored DEF ScoreTyped
<1>3. ASSUME NEW r \in Recalcs, NEW job \in Recalculation,
             recalc' = [recalc EXCEPT ![r] = job],
             \/ job.pc = "idle"
             \/ recalc[r].pc # "idle" /\ job.new = recalc[r].new /\ job.of = recalc[r].of,
             UNCHANGED <<score, basis, overlapped>>
      PROVE  ScoreInv'
  <2>1. /\ recalc' \in [Recalcs -> Recalculation] /\ recalc'[r] = job
        /\ \A q \in Recalcs \ {r} : recalc'[q] = recalc[q]
    BY <1>1, <1>3 DEF ScoreTyped
  <2> QED BY <1>3, <2>1, NothingStored
<1>4. Idle \in Recalculation /\ Idle.pc = "idle"
  BY DEF Idle, Recalculation
<1>5. ASSUME NEW r \in Recalcs, ReadPrevious(r) PROVE ScoreInv'
  <2>1. PICK job : job = [recalc[r] EXCEPT !.pc = "upsert", !.previous = StoredOr100]
    OBVIOUS
  <2>2. recalc[r] \in Recalculation /\ recalc[r].pc # "idle" /\ StoredOr100 \in Int
    BY <1>1, <1>5 DEF ReadPrevious, ScoreTyped, StoredOr100
  <2>3. job \in Recalculation /\ job.new = recalc[r].new /\ job.of = recalc[r].of
    BY <2>1, <2>2 DEF Recalculation
  <2>4. recalc' = [recalc EXCEPT ![r] = job] /\ UNCHANGED <<score, basis, overlapped>>
    BY <1>1, <1>5, <2>1 DEF ReadPrevious, ScoreTyped
  <2> QED BY <1>3, <2>2, <2>3, <2>4
<1>6. ASSUME NEW r \in Recalcs, publishHealthScoreAlert(r) \/ Reject(r) PROVE ScoreInv'
  BY <1>3, <1>4, <1>6 DEF publishHealthScoreAlert, Reject
<1>7. ASSUME Restart PROVE ScoreInv' /\ score' = score
  <2>1. recalc' = [r \in Recalcs |-> Idle] /\ UNCHANGED <<score, basis, overlapped>>
    BY <1>7 DEF Restart, RestartHealth
  <2>2. recalc' \in [Recalcs -> Recalculation] /\ \A q \in Recalcs : recalc'[q].pc = "idle"
    BY <1>4, <2>1
  <2> QED BY <2>1, <2>2, NothingStored
<1>8. CASE HealthSide
  <2>1. ASSUME NEW r \in Recalcs, HandleServiceEvent(r) \/ DailyRun(r) \/ RetryFires(r)
        PROVE  ScoreInv' /\ score' = score
    <3>1. \E b \in BOOLEAN : Start(r, b)
      BY <2>1 DEF HandleServiceEvent, DailyRun, RetryFires
    <3> QED BY <3>1, ScoreStart DEF Start
  <2>2. ASSUME NEW r \in Recalcs, ReadPrevious(r) \/ publishHealthScoreAlert(r) \/ Reject(r)
        PROVE  ScoreInv' /\ score' = score
    BY <1>5, <1>6, <2>2 DEF ReadPrevious, publishHealthScoreAlert, Reject
  <2>3. ASSUME FleetStep \/ FleetReject PROVE ScoreInv' /\ score' = score
    <3>1. UNCHANGED scoreVars
      BY <2>3 DEF FleetStep, FleetReceive, FleetPublish, FleetReject
    <3> QED BY <1>2, <3>1 DEF scoreVars
  <2> QED BY <1>1, <1>8, <2>1, <2>2, <2>3, ScoreUpsert DEF HealthSide, HealthWork, RecalcStep
<1>9. CASE Vehicle
  <2>1. UNCHANGED scoreVars
    BY <1>9 DEF Vehicle, Tick, LeaveFleet, Record
  <2> QED BY <1>1, <1>2, <2>1 DEF scoreVars
<1>10. CASE UNCHANGED scoreVars
  BY <1>1, <1>2, <1>10 DEF scoreVars
<1> QED BY <1>1, <1>7, <1>8, <1>9, <1>10
        DEF Next, vars, healthVars, ScheduleSide, NotifySide, PaperSide

\* The record starts with no services.
LEMMA ScoreInit == Init => ScoreInv
<1> SUFFICES ASSUME Init PROVE ScoreInv
  OBVIOUS
<1>1. /\ now = 0 /\ services = <<>> /\ basis = -1 /\ overlapped = FALSE
      /\ recalc = [r \in Recalcs |-> Idle] /\ score \in {NoScore} \cup Seeds
  BY DEF Init, HealthInit
<1>2. services \in ServiceEvents /\ Len(services) = 0
  BY <1>1 DEF ServiceEvents
<1>3. score \in Int
  BY <1>1, HealthScoreAssumption DEF NoScore
<1>4. Idle \in Recalculation /\ Idle.pc = "idle"
  BY DEF Idle, Recalculation
<1>5. \A r \in Recalcs : recalc[r] = Idle
  BY <1>1
<1>6. ScoreTyped
  <2>1. recalc \in [Recalcs -> Recalculation] /\ \A r \in Recalcs : recalc[r].pc = "idle"
    BY <1>1, <1>4
  <2>2. now \in Nat /\ basis \in -1 .. Len(services)
    BY <1>1, <1>2
  <2>3. overlapped \in BOOLEAN
    BY <1>1
  <2> QED BY <1>2, <1>3, <2>1, <2>2, <2>3 DEF ScoreTyped
<1> QED BY <1>1, <1>4, <1>5, <1>6 DEF ScoreInv, OnlyFalls, OneAtATime

\* Without a new service event the stored score never rises.
THEOREM ScoresRiseByService == Spec => ScoreRisesByServiceOnly
<1>1. ScoreInv /\ [Next]_vars
        => [~overlapped' /\ score # NoScore /\ score' > score => basis' > basis]_healthVars
  BY ScoreStep
<1>2. ScoreInv /\ [Next]_vars => ScoreInv'
  BY ScoreStep
<1> QED BY ScoreInit, <1>1, <1>2, PTL DEF Spec, ScoreRisesByServiceOnly

-----------------------------------------------------------------------------
(* The alerts. *)

Alert == [to: {"owner", "fleet"}, newScore: Int, at: Nat, boot: Nat]

AlertsTyped ==
    /\ alerts \in Seq(Alert) /\ crossings \in Nat /\ boots \in Nat /\ faults \in Nat
    /\ fleetSeen \in 0 .. Len(alerts) /\ fleetRun \in {0, fleetSeen}
    /\ alertCooldowns \in Nat \cup {Never}

OwnerAlerts == {i \in DOMAIN alerts : alerts[i].to = "owner"}

Owed == IF \E r \in Recalcs : recalc[r].pc = "publish" THEN 1 ELSE 0

\* What was announced, and what is about to be, are the crossings; a recalculation
\* has read the score it is about to replace.
Announced ==
    owned /\ ~overlapped /\ faults = 0 =>
        /\ Cardinality(OwnerAlerts) + Owed = crossings
        /\ \A r \in Recalcs : recalc[r].pc = "upsert" => recalc[r].previous = StoredOr100

OfFleet(i) == i \in DOMAIN alerts /\ alerts[i].to = "fleet" /\ alerts[i].boot = boots

\* The cooldown in memory covers all fleet alerts since the restart, and while the
\* next is about to be published they are a cooldown old.
Spaced ==
    /\ \A i \in DOMAIN alerts : alerts[i].boot <= boots
    /\ alertCooldowns # Never => alertCooldowns <= now
    /\ fleetRun # 0 => /\ alertCooldowns = now
                       /\ \A i : OfFleet(i) => now - alerts[i].at >= AlertCooldown
    /\ fleetRun = 0 => \A i : OfFleet(i) =>
                         alertCooldowns # Never /\ alerts[i].at <= alertCooldowns
    /\ FleetAlertedOnceADay

LEMMA AlertAdded ==
    ASSUME alerts \in Seq(Alert), NEW a \in Alert, alerts' = Append(alerts, a)
    PROVE  /\ alerts' \in Seq(Alert) /\ Len(alerts') = Len(alerts) + 1 /\ Len(alerts) \in Nat
           /\ DOMAIN alerts = 1 .. Len(alerts) /\ DOMAIN alerts' = 1 .. Len(alerts) + 1
           /\ alerts'[Len(alerts) + 1] = a
           /\ \A i \in DOMAIN alerts : alerts'[i] = alerts[i]
OBVIOUS

LEMMA AlertsTypedStep ==
    ASSUME AlertsTyped, ScoreInv, [Next]_vars
    PROVE  AlertsTyped'
<1>0. faults' \in Nat /\ now \in Nat /\ Len(alerts) \in Nat
  BY FaultStep DEF AlertsTyped, ScoreInv, ScoreTyped
<1>1. ASSUME UNCHANGED <<alerts, fleetVars, crossings, boots>> PROVE AlertsTyped'
  BY <1>0, <1>1 DEF AlertsTyped, fleetVars
<1>2. ASSUME NEW a \in Alert, alerts' = Append(alerts, a), UNCHANGED <<fleetSeen, alertCooldowns>>,
             fleetRun' \in {0, fleetRun}, UNCHANGED <<crossings, boots>>
      PROVE  AlertsTyped'
  BY <1>0, <1>2, AlertAdded DEF AlertsTyped
<1>3. ASSUME NEW r \in Recalcs, publishHealthScoreAlert(r) PROVE AlertsTyped'
  <2>1. PICK a : a = [to |-> "owner", newScore |-> recalc[r].new, at |-> now, boot |-> boots]
    OBVIOUS
  <2>2. recalc[r].new \in Int /\ boots \in Nat
    BY DEF ScoreInv, ScoreTyped, Recalculation, AlertsTyped
  <2>3. a \in Alert
    BY <1>0, <2>1, <2>2 DEF Alert
  <2>4. alerts' = Append(alerts, a) \/ alerts' = alerts
    BY <1>3, <2>1 DEF publishHealthScoreAlert, Publish
  <2>5. UNCHANGED <<fleetVars, crossings, boots>>
    BY <1>3 DEF publishHealthScoreAlert, faultVars
  <2> QED BY <1>1, <1>2, <2>3, <2>4, <2>5 DEF fleetVars
<1>4. ASSUME FleetPublish PROVE AlertsTyped'
  <2>1. PICK a : a = [to |-> "fleet", newScore |-> alerts[fleetRun].newScore, at |-> now, boot |-> boots]
    OBVIOUS
  <2>2. alerts[fleetRun] \in Alert /\ boots \in Nat
    <3>1. fleetRun \in 1 .. Len(alerts)
      BY <1>0, <1>4 DEF FleetPublish, AlertsTyped
    <3> QED BY <3>1, ElementOfSeq DEF AlertsTyped
  <2>3. a \in Alert
    BY <1>0, <2>1, <2>2 DEF Alert
  <2>4. alerts' = Append(alerts, a)
    BY <1>4, <2>1 DEF FleetPublish, Publish
  <2> QED BY <1>2, <1>4, <2>3, <2>4 DEF FleetPublish, scoreVars, faultVars
<1>5. ASSUME FleetReceive PROVE AlertsTyped'
  <2>1. /\ fleetSeen < Len(alerts) /\ fleetSeen' = fleetSeen + 1 /\ fleetRun = 0
        /\ alertCooldowns' \in {now, alertCooldowns} /\ fleetRun' \in {fleetSeen', fleetRun}
        /\ UNCHANGED <<alerts, crossings, boots>>
    BY <1>5 DEF FleetReceive, scoreVars, faultVars
  <2> QED BY <1>0, <2>1 DEF AlertsTyped
<1>6. ASSUME FleetReject PROVE AlertsTyped'
  BY <1>0, <1>6 DEF FleetReject, AlertsTyped, scoreVars
<1>7. ASSUME NEW r \in Recalcs, Upsert(r) PROVE AlertsTyped'
  <2>1. crossings' \in Nat
    BY <1>7 DEF Upsert, Store, AlertsTyped
  <2>2. UNCHANGED <<alerts, fleetVars, boots>>
    BY <1>7 DEF Upsert, Store, faultVars
  <2> QED BY <1>0, <2>1, <2>2 DEF AlertsTyped, fleetVars
<1>8. ASSUME NEW r \in Recalcs,
             HandleServiceEvent(r) \/ DailyRun(r) \/ RetryFires(r) \/ ReadPrevious(r) \/ Reject(r)
      PROVE  AlertsTyped'
  BY <1>1, <1>8 DEF HandleServiceEvent, DailyRun, RetryFires, Start, ReadPrevious, Reject, faultVars
<1>9. ASSUME Restart PROVE AlertsTyped'
  <2>1. /\ fleetSeen' = (IF fleetRun = 0 THEN fleetSeen ELSE fleetSeen - 1)
        /\ fleetRun' = 0 /\ alertCooldowns' = Never /\ boots' = boots + 1
        /\ UNCHANGED <<alerts, crossings>>
    BY <1>9 DEF Restart, RestartHealth
  <2>2. fleetSeen' \in 0 .. Len(alerts)
    BY <1>0, <2>1 DEF AlertsTyped
  <2> QED BY <1>0, <2>1, <2>2 DEF AlertsTyped
<1>10. ASSUME HealthSide PROVE AlertsTyped'
  BY <1>10, <1>3, <1>4, <1>5, <1>6, <1>7, <1>8 DEF HealthSide, HealthWork, RecalcStep, FleetStep
<1>11. ASSUME Vehicle PROVE AlertsTyped'
  BY <1>11, <1>1 DEF Vehicle, Tick, LeaveFleet, Record, scoreVars, faultVars
<1>12. ASSUME ScheduleSide \/ NotifySide \/ PaperSide \/ UNCHANGED vars PROVE AlertsTyped'
  BY <1>12, <1>1 DEF ScheduleSide, NotifySide, PaperSide, vars, healthVars, scoreVars, faultVars
<1> QED BY <1>9, <1>10, <1>11, <1>12 DEF Next

LEMMA OwnerAlertsFinite ==
    ASSUME alerts \in Seq(Alert)
    PROVE  IsFiniteSet(OwnerAlerts)
<1>1. DOMAIN alerts = 1 .. Len(alerts) /\ Len(alerts) \in Nat
  OBVIOUS
<1>2. IsFiniteSet(1 .. Len(alerts))
  BY <1>1, FS_Interval
<1>3. OwnerAlerts \subseteq 1 .. Len(alerts)
  BY <1>1 DEF OwnerAlerts
<1> QED BY <1>2, <1>3, FS_Subset

\* The owner's alerts after one more.
LEMMA OwnerAlertAdded ==
    ASSUME alerts \in Seq(Alert), NEW a \in Alert, alerts' = Append(alerts, a)
    PROVE  /\ Cardinality(OwnerAlerts) \in Nat
           /\ Cardinality(OwnerAlerts)' = Cardinality(OwnerAlerts) + (IF a.to = "owner" THEN 1 ELSE 0)
<1>1. /\ Len(alerts) \in Nat /\ DOMAIN alerts = 1 .. Len(alerts)
      /\ DOMAIN alerts' = 1 .. Len(alerts) + 1 /\ alerts'[Len(alerts) + 1] = a
      /\ \A i \in DOMAIN alerts : alerts'[i] = alerts[i]
  BY AlertAdded
<1>2. IsFiniteSet(OwnerAlerts)
  BY OwnerAlertsFinite
<1>3. Len(alerts) + 1 \notin OwnerAlerts
  BY <1>1 DEF OwnerAlerts
<1>4. OwnerAlerts' = IF a.to = "owner" THEN OwnerAlerts \cup {Len(alerts) + 1} ELSE OwnerAlerts
  BY <1>1 DEF OwnerAlerts
<1> QED BY <1>2, <1>3, <1>4, FS_AddElement, FS_CardinalityType

LEMMA AnnouncedStep ==
    ASSUME AlertsTyped, ScoreInv, Announced, [Next]_vars
    PROVE  Announced'
<1>0. /\ faults' \in {faults, faults + 1} /\ faults \in Nat /\ UNCHANGED owned
      /\ alerts \in Seq(Alert) /\ crossings \in Nat
      /\ recalc \in [Recalcs -> Recalculation]
  BY FaultStep DEF AlertsTyped, ScoreInv, ScoreTyped
<1>1. ASSUME UNCHANGED <<alerts, scoreVars>> PROVE Announced'
  BY <1>0, <1>1 DEF Announced, OwnerAlerts, Owed, StoredOr100, scoreVars
<1>2. ASSUME NEW r \in Recalcs, NEW b \in BOOLEAN, Start(r, b) PROVE Announced'
  <2> SUFFICES ASSUME owned, ~overlapped', faults = 0
               PROVE  /\ Cardinality(OwnerAlerts)' + Owed' = crossings
                      /\ \A q \in Recalcs : recalc'[q].pc # "upsert"
    BY <1>0, <1>2 DEF Announced, Start
  <2>1. \A q \in Recalcs : recalc[q].pc = "idle"
    BY <1>2 DEF Start, InFlight
  <2>2. \A q \in Recalcs : recalc'[q].pc \in {"idle", "computed"}
    BY <1>0, <1>2, <2>1 DEF Start
  <2>3. Owed = 0 /\ Owed' = 0
    BY <2>1, <2>2 DEF Owed
  <2>4. ~overlapped /\ UNCHANGED <<alerts, crossings>>
    BY <1>2 DEF Start
  <2>5. Cardinality(OwnerAlerts)' = Cardinality(OwnerAlerts)
    BY <2>4 DEF OwnerAlerts
  <2>6. Cardinality(OwnerAlerts) + Owed = crossings
    BY <2>4 DEF Announced
  <2> QED BY <2>2, <2>3, <2>5, <2>6
<1>3. ASSUME NEW r \in Recalcs, ReadPrevious(r) PROVE Announced'
  <2>1. /\ recalc' = [recalc EXCEPT ![r].pc = "upsert", ![r].previous = StoredOr100]
        /\ recalc[r].pc = "computed" /\ UNCHANGED <<alerts, crossings, overlapped, score>>
    BY <1>3 DEF ReadPrevious
  <2>2. /\ recalc'[r].pc = "upsert" /\ recalc'[r].previous = StoredOr100
        /\ \A q \in Recalcs \ {r} : recalc'[q] = recalc[q]
    BY <1>0, <2>1 DEF Recalculation
  <2>3. Owed' = Owed
    BY <2>1, <2>2 DEF Owed
  <2>4. OwnerAlerts' = OwnerAlerts /\ StoredOr100' = StoredOr100
    BY <2>1 DEF OwnerAlerts, StoredOr100
  <2> QED BY <1>0, <2>1, <2>2, <2>3, <2>4 DEF Announced
<1>4. ASSUME NEW r \in Recalcs, Upsert(r) PROVE Announced'
  <2> SUFFICES ASSUME owned, ~overlapped, faults = 0
               PROVE  /\ Cardinality(OwnerAlerts)' + Owed' = crossings'
                      /\ \A q \in Recalcs : recalc'[q].pc # "upsert"
    BY <1>0, <1>4 DEF Announced, Upsert, Store
  <2>1. recalc[r].pc = "upsert" /\ recalc[r].previous = StoredOr100
        /\ UNCHANGED alerts /\ score' = recalc[r].new
    BY <1>4 DEF Upsert, Store, Announced
  <2>2. \A q \in Recalcs \ {r} : recalc[q].pc = "idle"
    BY <2>1 DEF ScoreInv, OneAtATime
  <2>3. PICK fell \in BOOLEAN : fell = FellBelow(StoredOr100, recalc[r].new)
    BY DEF FellBelow
  <2>4. crossings' = crossings + (IF fell THEN 1 ELSE 0)
    BY <1>4, <2>1, <2>3 DEF Upsert, Store
  <2>5. recalc' = [recalc EXCEPT ![r] = IF fell THEN [recalc[r] EXCEPT !.pc = "publish"] ELSE Idle]
    BY <1>0, <1>4, <2>1, <2>3 DEF Upsert, Store
  <2>6. /\ recalc'[r].pc = IF fell THEN "publish" ELSE "idle"
        /\ \A q \in Recalcs \ {r} : recalc'[q].pc = "idle"
    BY <1>0, <2>2, <2>5 DEF Idle, Recalculation
  <2>7. Owed = 0 /\ Owed' = IF fell THEN 1 ELSE 0
    BY <2>1, <2>2, <2>6 DEF Owed
  <2>8. Cardinality(OwnerAlerts)' = Cardinality(OwnerAlerts)
    BY <2>1 DEF OwnerAlerts
  <2>9. Cardinality(OwnerAlerts) + Owed = crossings
    BY DEF Announced
  <2>10. Cardinality(OwnerAlerts) = crossings
    <3>1. Cardinality(OwnerAlerts) \in Nat
      BY <1>0, OwnerAlertsFinite, FS_CardinalityType
    <3> QED BY <2>7, <2>9, <3>1
  <2> QED BY <1>0, <2>4, <2>6, <2>7, <2>8, <2>10
<1>5. ASSUME NEW r \in Recalcs, publishHealthScoreAlert(r) PROVE Announced'
  <2> SUFFICES ASSUME owned, ~overlapped, faults = 0
               PROVE  /\ Cardinality(OwnerAlerts)' + Owed' = crossings
                      /\ \A q \in Recalcs : recalc'[q].pc # "upsert"
    BY <1>0, <1>5 DEF Announced, publishHealthScoreAlert
  <2>1. PICK a : a = [to |-> "owner", newScore |-> recalc[r].new, at |-> now, boot |-> boots]
    OBVIOUS
  <2>2. a \in Alert /\ a.to = "owner"
    BY <1>0, <2>1 DEF Alert, ScoreInv, ScoreTyped, Recalculation, AlertsTyped
  <2>3. /\ alerts' = Append(alerts, a) /\ recalc[r].pc = "publish"
        /\ recalc' = [recalc EXCEPT ![r] = Idle]
    BY <1>5, <2>1 DEF publishHealthScoreAlert, Publish
  <2>4. \A q \in Recalcs \ {r} : recalc[q].pc = "idle"
    BY <2>3 DEF ScoreInv, OneAtATime
  <2>5. \A q \in Recalcs : recalc'[q].pc = "idle"
    BY <1>0, <2>3, <2>4 DEF Idle
  <2>6. Owed = 1 /\ Owed' = 0
    BY <2>3, <2>5 DEF Owed
  <2>7. Cardinality(OwnerAlerts)' = Cardinality(OwnerAlerts) + 1 /\ Cardinality(OwnerAlerts) \in Nat
    BY <1>0, <2>2, <2>3, OwnerAlertAdded
  <2>8. Cardinality(OwnerAlerts) + Owed = crossings
    BY DEF Announced
  <2> QED BY <1>0, <2>5, <2>6, <2>7, <2>8
<1>6. ASSUME faults' # 0 PROVE Announced'
  BY <1>6 DEF Announced
<1>7. ASSUME FleetPublish PROVE Announced'
  <2>1. PICK a : a = [to |-> "fleet", newScore |-> alerts[fleetRun].newScore, at |-> now, boot |-> boots]
    OBVIOUS
  <2>2. alerts[fleetRun] \in Alert
    <3>1. fleetRun \in 1 .. Len(alerts)
      BY <1>0, <1>7 DEF FleetPublish, AlertsTyped
    <3> QED BY <1>0, <3>1, ElementOfSeq
  <2>3. a \in Alert /\ a.to = "fleet"
    BY <2>1, <2>2 DEF Alert, ScoreInv, ScoreTyped, AlertsTyped
  <2>4. alerts' = Append(alerts, a) /\ UNCHANGED scoreVars
    BY <1>7, <2>1 DEF FleetPublish, Publish
  <2>5. Cardinality(OwnerAlerts)' = Cardinality(OwnerAlerts)
    <3>1. Cardinality(OwnerAlerts)' = Cardinality(OwnerAlerts) + 0 /\ Cardinality(OwnerAlerts) \in Nat
      BY <1>0, <2>3, <2>4, OwnerAlertAdded
    <3> QED BY <3>1
  <2> QED BY <1>0, <2>4, <2>5 DEF Announced, Owed, StoredOr100, scoreVars
<1>8. ASSUME FleetReceive PROVE Announced'
  BY <1>1, <1>8 DEF FleetReceive
<1>9. ASSUME HealthSide PROVE Announced'
  <2>1. ASSUME NEW r \in Recalcs, HandleServiceEvent(r) \/ DailyRun(r) \/ RetryFires(r)
        PROVE  Announced'
    BY <1>2, <2>1 DEF HandleServiceEvent, DailyRun, RetryFires
  <2>2. ASSUME FleetReject \/ \E r \in Recalcs : Reject(r) PROVE Announced'
    <3>1. faults' # 0
      BY <1>0, <2>2 DEF FleetReject, Reject
    <3> QED BY <1>6, <3>1
  <2> QED BY <1>9, <1>3, <1>4, <1>5, <1>7, <1>8, <2>1, <2>2
          DEF HealthSide, HealthWork, RecalcStep, FleetStep
<1>10. ASSUME Restart PROVE Announced'
  <2>1. faults' # 0
    BY <1>0, <1>10 DEF Restart, RestartHealth
  <2> QED BY <1>6, <2>1
<1>11. ASSUME Vehicle PROVE Announced'
  BY <1>11, <1>1 DEF Vehicle, Tick, LeaveFleet, Record
<1>12. ASSUME ScheduleSide \/ NotifySide \/ PaperSide \/ UNCHANGED vars PROVE Announced'
  BY <1>12, <1>1 DEF ScheduleSide, NotifySide, PaperSide, vars, healthVars
<1> QED BY <1>9, <1>10, <1>11, <1>12 DEF Next

LEMMA SpacedStep ==
    ASSUME AlertsTyped, ScoreInv, Spaced, [Next]_vars
    PROVE  Spaced'
<1>0. /\ now \in Nat /\ alerts \in Seq(Alert) /\ boots \in Nat
      /\ alertCooldowns \in Nat \cup {Never} /\ Never \notin Nat
      /\ DOMAIN alerts = 1 .. Len(alerts) /\ Len(alerts) \in Nat
      /\ AlertCooldown \in Nat
      /\ \A i \in DOMAIN alerts : alerts[i].at \in Nat /\ alerts[i].boot \in Nat
  <2>1. /\ now \in Nat /\ alerts \in Seq(Alert) /\ boots \in Nat /\ AlertCooldown \in Nat
        /\ alertCooldowns \in Nat \cup {Never}
    BY HealthScoreAssumption DEF AlertsTyped, ScoreInv, ScoreTyped
  <2>2. DOMAIN alerts = 1 .. Len(alerts) /\ Len(alerts) \in Nat /\ Never \notin Nat
    BY <2>1 DEF Never
  <2>3. \A i \in DOMAIN alerts : alerts[i].at \in Nat /\ alerts[i].boot \in Nat
    <3> TAKE i \in DOMAIN alerts
    <3>1. alerts[i] \in Alert
      BY <2>1
    <3> QED BY <3>1 DEF Alert
  <2> QED BY <2>1, <2>2, <2>3
<1>1. ASSUME UNCHANGED <<now, alerts, fleetRun, alertCooldowns, boots>> PROVE Spaced'
  BY <1>1 DEF Spaced, OfFleet, FleetAlertedOnceADay
<1>2. ASSUME NEW a \in Alert, alerts' = Append(alerts, a), a.boot = boots, a.at = now,
             UNCHANGED <<now, alertCooldowns, boots>>,
             \/ a.to = "owner" /\ fleetRun' = fleetRun
             \/ a.to = "fleet" /\ fleetRun # 0 /\ fleetRun' = 0
      PROVE  Spaced'
  <2>1. /\ DOMAIN alerts' = DOMAIN alerts \cup {Len(alerts) + 1}
        /\ Len(alerts) + 1 \notin DOMAIN alerts
        /\ alerts'[Len(alerts) + 1] = a
        /\ \A i \in DOMAIN alerts : alerts'[i] = alerts[i]
    BY <1>0, <1>2, AlertAdded
  <2>2. \A i \in DOMAIN alerts' : alerts'[i].boot <= boots'
    BY <1>0, <1>2, <2>1 DEF Spaced
  <2>3. \A i : OfFleet(i)' <=> OfFleet(i) \/ (i = Len(alerts) + 1 /\ a.to = "fleet")
    BY <1>2, <2>1 DEF OfFleet
  <2>4. ASSUME a.to = "owner" PROVE Spaced'
    <3>1. \A i : OfFleet(i)' <=> OfFleet(i)
      BY <2>3, <2>4
    <3>2. FleetAlertedOnceADay'
      <4> SUFFICES ASSUME NEW i \in DOMAIN alerts', NEW j \in DOMAIN alerts', i < j,
                          alerts'[i].to = "fleet", alerts'[j].to = "fleet",
                          alerts'[i].boot = alerts'[j].boot
                   PROVE  alerts'[j].at - alerts'[i].at >= AlertCooldown
        BY DEF FleetAlertedOnceADay
      <4>1. i \in DOMAIN alerts /\ j \in DOMAIN alerts
        BY <2>1, <2>4
      <4> QED BY <2>1, <4>1 DEF Spaced, FleetAlertedOnceADay
    <3>3. \A i : OfFleet(i)' => alerts'[i] = alerts[i]
      BY <2>1, <3>1 DEF OfFleet
    <3> QED BY <1>2, <2>2, <2>4, <3>1, <3>2, <3>3 DEF Spaced
  <2>5. ASSUME a.to = "fleet" PROVE Spaced'
    <3>1. fleetRun # 0 /\ fleetRun' = 0 /\ alertCooldowns = now
      BY <1>2, <2>5 DEF Spaced
    <3>2. \A i : OfFleet(i) => now - alerts[i].at >= AlertCooldown
      BY <3>1 DEF Spaced
    <3>3. \A i : OfFleet(i)' => alertCooldowns' # Never /\ alerts'[i].at <= alertCooldowns'
      <4> SUFFICES ASSUME NEW i, OfFleet(i)' PROVE alertCooldowns # Never /\ alerts'[i].at <= now
        BY <1>2, <3>1
      <4>1. CASE i = Len(alerts) + 1
        BY <1>0, <1>2, <2>1, <3>1, <4>1
      <4>2. CASE OfFleet(i)
        <5>1. now - alerts[i].at >= AlertCooldown /\ alerts'[i] = alerts[i] /\ alerts[i].at \in Nat
          BY <1>0, <2>1, <3>2, <4>2 DEF OfFleet
        <5> QED BY <1>0, <3>1, <5>1
      <4> QED BY <2>3, <4>1, <4>2
    <3>4. FleetAlertedOnceADay'
      <4> SUFFICES ASSUME NEW i \in DOMAIN alerts', NEW j \in DOMAIN alerts', i < j,
                          alerts'[i].to = "fleet", alerts'[j].to = "fleet",
                          alerts'[i].boot = alerts'[j].boot
                   PROVE  alerts'[j].at - alerts'[i].at >= AlertCooldown
        BY DEF FleetAlertedOnceADay
      <4>1. i \in DOMAIN alerts /\ alerts'[i] = alerts[i]
        BY <1>0, <2>1
      <4>2. CASE j \in DOMAIN alerts
        BY <2>1, <4>1, <4>2 DEF Spaced, FleetAlertedOnceADay
      <4>3. CASE j = Len(alerts) + 1
        <5>1. OfFleet(i)
          BY <1>2, <2>1, <4>1, <4>3 DEF OfFleet
        <5> QED BY <1>2, <2>1, <3>2, <4>1, <4>3, <5>1
      <4> QED BY <2>1, <4>2, <4>3
    <3>5. alertCooldowns' <= now'
      BY <1>0, <1>2, <3>1
    <3> QED BY <2>2, <3>1, <3>3, <3>4, <3>5 DEF Spaced
  <2> QED BY <1>2, <2>4, <2>5
<1>3. ASSUME NEW r \in Recalcs, publishHealthScoreAlert(r) PROVE Spaced'
  <2>1. PICK a : a = [to |-> "owner", newScore |-> recalc[r].new, at |-> now, boot |-> boots]
    OBVIOUS
  <2>2. a \in Alert /\ a.to = "owner" /\ a.at = now /\ a.boot = boots
    BY <1>0, <2>1 DEF Alert, ScoreInv, ScoreTyped, Recalculation
  <2>3. alerts' = Append(alerts, a) \/ alerts' = alerts
    BY <1>3, <2>1 DEF publishHealthScoreAlert, Publish
  <2>4. UNCHANGED <<now, fleetRun, alertCooldowns, boots>>
    BY <1>3 DEF publishHealthScoreAlert, faultVars, fleetVars, vehicleVars
  <2> QED BY <1>1, <1>2, <2>2, <2>3, <2>4
<1>4. ASSUME FleetPublish PROVE Spaced'
  <2>1. PICK a : a = [to |-> "fleet", newScore |-> alerts[fleetRun].newScore, at |-> now, boot |-> boots]
    OBVIOUS
  <2>2. alerts[fleetRun] \in Alert
    <3>1. fleetRun \in 1 .. Len(alerts)
      BY <1>0, <1>4 DEF FleetPublish, AlertsTyped
    <3> QED BY <1>0, <3>1, ElementOfSeq
  <2>3. a \in Alert /\ a.to = "fleet" /\ a.at = now /\ a.boot = boots
    BY <1>0, <2>1, <2>2 DEF Alert
  <2>4. alerts' = Append(alerts, a) /\ fleetRun # 0 /\ fleetRun' = 0
        /\ UNCHANGED <<now, alertCooldowns, boots>>
    BY <1>4, <2>1 DEF FleetPublish, Publish, vehicleVars, faultVars
  <2> QED BY <1>2, <2>3, <2>4
<1>5. ASSUME FleetReceive PROVE Spaced'
  <2>1. /\ fleetRun = 0 /\ fleetSeen' = fleetSeen + 1
        /\ \/ ~Cooling /\ alertCooldowns' = now /\ fleetRun' = fleetSeen'
           \/ UNCHANGED <<alertCooldowns, fleetRun>>
        /\ UNCHANGED <<now, alerts, boots>>
    BY <1>5 DEF FleetReceive, vehicleVars, faultVars
  <2>2. CASE UNCHANGED <<alertCooldowns, fleetRun>>
    BY <1>1, <2>1, <2>2
  <2>3. ASSUME ~Cooling, alertCooldowns' = now, fleetRun' = fleetSeen' PROVE Spaced'
    <3>1. fleetRun' # 0
      BY <2>1, <2>3 DEF AlertsTyped
    <3>2. \A i : OfFleet(i) => now - alerts[i].at >= AlertCooldown
      <4> SUFFICES ASSUME NEW i, OfFleet(i) PROVE now - alerts[i].at >= AlertCooldown
        OBVIOUS
      <4>1. alertCooldowns # Never /\ alerts[i].at <= alertCooldowns
        BY <2>1 DEF Spaced
      <4>2. now - alertCooldowns >= AlertCooldown /\ alertCooldowns \in Nat /\ alerts[i].at \in Nat
        BY <1>0, <2>3, <4>1 DEF Cooling, OfFleet
      <4> QED BY <1>0, <4>1, <4>2
    <3> QED BY <1>0, <2>1, <2>3, <3>1, <3>2 DEF Spaced, OfFleet, FleetAlertedOnceADay
  <2> QED BY <2>1, <2>2, <2>3
<1>6. ASSUME FleetReject PROVE Spaced'
  <2>1. fleetRun # 0 /\ fleetRun' = 0 /\ UNCHANGED <<now, alerts, alertCooldowns, boots>>
    BY <1>6 DEF FleetReject, vehicleVars
  <2>2. alertCooldowns = now /\ \A i : OfFleet(i) => alerts[i].at <= now
    <3>1. alertCooldowns = now /\ \A i : OfFleet(i) => now - alerts[i].at >= AlertCooldown
      BY <2>1 DEF Spaced
    <3> QED BY <1>0, <3>1 DEF OfFleet
  <2>3. alertCooldowns # Never
    BY <1>0, <2>2
  <2> QED BY <2>1, <2>2, <2>3 DEF Spaced, OfFleet, FleetAlertedOnceADay
<1>7. ASSUME NEW r \in Recalcs, RecalcStep(r) \/ Reject(r), ~publishHealthScoreAlert(r)
      PROVE  Spaced'
  BY <1>1, <1>7 DEF RecalcStep, HandleServiceEvent, DailyRun, RetryFires, Start, ReadPrevious,
     Reject, Upsert, Store, vehicleVars, fleetVars, faultVars
<1>8. ASSUME HealthSide PROVE Spaced'
  BY <1>8, <1>3, <1>4, <1>5, <1>6, <1>7 DEF HealthSide, HealthWork, FleetStep
<1>9. ASSUME Restart PROVE Spaced'
  <2>1. /\ fleetRun' = 0 /\ alertCooldowns' = Never /\ boots' = boots + 1
        /\ UNCHANGED alerts
    BY <1>9 DEF Restart, RestartHealth
  <2>2. \A i \in DOMAIN alerts : alerts[i].boot < boots'
    BY <1>0, <2>1 DEF Spaced
  <2>3. \A i : ~OfFleet(i)'
    BY <1>0, <2>1, <2>2 DEF OfFleet
  <2>4. \A i \in DOMAIN alerts' : alerts'[i].boot <= boots'
    BY <1>0, <2>1, <2>2
  <2> QED BY <2>1, <2>3, <2>4 DEF Spaced, FleetAlertedOnceADay
<1>10. ASSUME Tick PROVE Spaced'
  <2>1. fleetRun = 0 /\ now' = now + 1 /\ UNCHANGED <<alerts, fleetRun, alertCooldowns, boots>>
    BY <1>10 DEF Tick, fleetVars, faultVars
  <2>2. alertCooldowns' # Never => alertCooldowns' <= now'
    BY <1>0, <2>1 DEF Spaced
  <2> QED BY <2>1, <2>2 DEF Spaced, OfFleet, FleetAlertedOnceADay
<1>11. ASSUME Vehicle, ~Tick PROVE Spaced'
  BY <1>11, <1>1 DEF Vehicle, LeaveFleet, Record, fleetVars, faultVars
<1>12. ASSUME ScheduleSide \/ NotifySide \/ PaperSide \/ UNCHANGED vars PROVE Spaced'
  BY <1>12, <1>1 DEF ScheduleSide, NotifySide, PaperSide, vars, healthVars, vehicleVars, fleetVars, faultVars
<1> QED BY <1>8, <1>9, <1>10, <1>11, <1>12 DEF Next

\* The outbox starts empty.
LEMMA AlertsInit == Init => AlertsTyped /\ Announced /\ Spaced
<1> SUFFICES ASSUME Init PROVE AlertsTyped /\ Announced /\ Spaced
  OBVIOUS
<1>1. /\ alerts = <<>> /\ crossings = 0 /\ boots = 0 /\ faults = 0 /\ fleetSeen = 0
      /\ fleetRun = 0 /\ alertCooldowns = Never /\ recalc = [r \in Recalcs |-> Idle]
  BY DEF Init, HealthInit
<1>2. alerts \in Seq(Alert) /\ Len(alerts) = 0 /\ DOMAIN alerts = {}
  BY <1>1
<1>3. \A r \in Recalcs : recalc[r].pc = "idle"
  BY <1>1 DEF Idle
<1>4. OwnerAlerts = {} /\ Owed = 0
  BY <1>2, <1>3 DEF OwnerAlerts, Owed
<1>5. AlertsTyped
  BY <1>1, <1>2 DEF AlertsTyped
<1>6. Announced
  BY <1>1, <1>3, <1>4, FS_EmptySet DEF Announced
<1>7. Spaced
  BY <1>1, <1>2 DEF Spaced, OfFleet, FleetAlertedOnceADay
<1> QED BY <1>5, <1>6, <1>7

\* The owner is alerted once of each crossing, and the fleet once a day.
THEOREM AlertsFollowTheScores == Spec => []AlertsFollowScores
<1>1. AlertsTyped /\ Announced /\ Spaced => AlertsFollowScores
  <2> SUFFICES ASSUME AlertsTyped, Announced, Spaced PROVE AlertsFollowScores
    OBVIOUS
  <2>1. Cardinality(OwnerAlerts) \in Nat
    BY OwnerAlertsFinite, FS_CardinalityType DEF AlertsTyped
  <2>2. CrossingsAnnounced
    BY <2>1 DEF CrossingsAnnounced, Announced, Owed, OwnerAlerts, AlertsTyped
  <2> QED BY <2>2 DEF AlertsFollowScores, Spaced
<1>2. ScoreInv /\ [Next]_vars => ScoreInv'
  BY ScoreStep
<1>3. ScoreInv /\ AlertsTyped /\ Announced /\ Spaced /\ [Next]_vars
        => AlertsTyped' /\ Announced' /\ Spaced'
  BY AlertsTypedStep, AnnouncedStep, SpacedStep
<1> QED BY ScoreInit, AlertsInit, <1>1, <1>2, <1>3, PTL DEF Spec

-----------------------------------------------------------------------------
(* The schedule. *)

LEMMA LeastOf ==
    ASSUME NEW S \in SUBSET Nat, S # {}
    PROVE  \E x \in S : \A y \in S : x <= y
<1>1. PICK R : R = {ss \in Nat \X Nat : ss[1] < ss[2]}
  OBVIOUS
<1>2. IsWellFoundedOn(R, Nat)
  BY <1>1, NatLessThanWellFounded DEF OpToRel
<1>3. \E x \in S : \A y \in S : ~(<<y, x>> \in R)
  BY <1>2, WFMin
<1>4. \A x \in S, y \in S : ~(<<y, x>> \in R) => x <= y
  BY <1>1
<1> QED BY <1>3, <1>4

ServiceEvent == [at: Nat, category: {"ROUTINE_MAINTENANCE", "REPAIR"}, km: Int]

Entry == [dueAt: Int, dueKm: Int, completed: BOOLEAN]

Plan == [pc: {"idle", "complete", "create"}, event: Nat, entry: Nat]

\* While the handler runs there is a service of the scheduled type.
PlanTyped ==
    /\ latestOdometerKm \in Nat \cup {Schedule!None}
    /\ template \in [Tenants -> {NoItem} \cup Items]
    /\ entries \in Seq(Entry)
    /\ planSeen \in 0 .. Len(services)
    /\ plan \in Plan
    /\ plan.pc # "idle" => /\ plan.entry \in DOMAIN entries
                           /\ plan.event \in 1 .. Len(services)
                           /\ Schedule!OfType # {}

LEMMA ServicesTyped ==
    ASSUME services \in ServiceEvents
    PROVE  /\ Len(services) \in Nat /\ DOMAIN services = 1 .. Len(services)
           /\ \A i \in DOMAIN services : services[i] \in ServiceEvent
<1>1. services \in Seq(ServiceEvent)
  BY DEF ServiceEvents, ServiceEvent
<1>2. Len(services) \in Nat /\ DOMAIN services = 1 .. Len(services)
  BY <1>1
<1>3. \A i \in 1 .. Len(services) : services[i] \in ServiceEvent
  BY <1>1, ElementOfSeq
<1> QED BY <1>2, <1>3

\* The last service of the type is one of the services.
LEMMA LastService ==
    ASSUME services \in ServiceEvents, Schedule!OfType # {}
    PROVE  Schedule!lastService \in ServiceEvent
<1>1. Schedule!OfType \in SUBSET Nat
  BY ServicesTyped DEF Schedule!OfType
<1>2. \E i \in Schedule!OfType : \A j \in Schedule!OfType : i <= j
  BY <1>1, LeastOf
<1>3. PICK i : i = CHOOSE k \in Schedule!OfType : \A j \in Schedule!OfType : k <= j
  OBVIOUS
<1>4. i \in Schedule!OfType
  BY <1>2, <1>3
<1>5. Schedule!lastService = services[i] /\ i \in DOMAIN services
  BY <1>3, <1>4 DEF Schedule!lastService, Schedule!OfType
<1> QED BY <1>5, ServicesTyped

\* A service that follows leaves the others where the handler finds them.
LEMMA ServiceAdded ==
    ASSUME services \in ServiceEvents, NEW s \in ServiceEvent, services' = <<s>> \o services
    PROVE  /\ services' \in ServiceEvents /\ Len(services') = Len(services) + 1
           /\ Schedule!OfType # {} => Schedule!OfType' # {}
<1>1. services \in Seq(ServiceEvent) /\ <<s>> \in Seq(ServiceEvent) /\ Len(<<s>>) = 1
      /\ Len(services) \in Nat /\ DOMAIN services = 1 .. Len(services)
  BY DEF ServiceEvents, ServiceEvent
<1>2. services' \in Seq(ServiceEvent) /\ Len(services') = Len(services) + 1
  BY <1>1
<1>3. \A i \in 1 .. Len(services) : services'[1 + i] = services[i]
  BY <1>1
<1>4. ASSUME NEW i \in Schedule!OfType PROVE 1 + i \in Schedule!OfType'
  BY <1>1, <1>2, <1>3, <1>4 DEF Schedule!OfType
<1>5. services' \in ServiceEvents
  BY <1>2 DEF ServiceEvents, ServiceEvent
<1> QED BY <1>2, <1>4, <1>5

\* What happens to the schedule in a step of the system.
ScheduleMoves ==
    \/ UNCHANGED <<services, scheduleVars>>
    \/ UNCHANGED scheduleVars /\ \E s \in ServiceEvent : services' = <<s>> \o services
    \/ UNCHANGED <<now, services>> /\ (Schedule!PlanWork \/ Schedule!RestartPlan)

LEMMA ScheduleMoved ==
    ASSUME now \in Nat, services \in ServiceEvents, [Next]_vars
    PROVE  ScheduleMoves
<1>1. ASSUME UNCHANGED scheduleVars PROVE ScheduleMoves
  BY <1>1, VehicleStep DEF ScheduleMoves, ServiceEvent
<1>2. CASE Vehicle
  BY <1>1, <1>2 DEF Vehicle
<1>3. CASE ScheduleSide
  BY <1>3 DEF ScheduleSide, ScheduleMoves, vehicleVars
<1>4. CASE Restart
  BY <1>4 DEF Restart, RestartHealth, ScheduleMoves, vehicleVars
<1> QED BY <1>1, <1>2, <1>3, <1>4 DEF Next, vars, HealthSide, NotifySide, PaperSide

LEMMA ItemsTyped ==
    /\ \A item \in Items : item.km \in Nat /\ item.ticks \in Nat
    /\ Kms \subseteq Nat /\ NoItem \notin Items /\ SeededDue \subseteq Int \X Int
BY CareAssumption DEF Schedule!MaintenanceConstants

LEMMA MergedTyped ==
    ASSUME PlanTyped, NEW item \in Schedule!MergedItems
    PROVE  item \in Items
BY DEF PlanTyped, Schedule!MergedItems

LEMMA PlanTypedStep ==
    ASSUME ScoreInv, PlanTyped, [Next]_vars
    PROVE  PlanTyped'
<1>0. /\ services \in ServiceEvents /\ now \in Nat /\ Len(services) \in Nat
      /\ entries \in Seq(Entry) /\ DOMAIN entries = 1 .. Len(entries) /\ Len(entries) \in Nat
  BY ServicesTyped DEF ScoreInv, ScoreTyped, PlanTyped
<1>1. ScheduleMoves
  BY <1>0, ScheduleMoved
<1>2. CASE UNCHANGED <<services, scheduleVars>>
  BY <1>2 DEF PlanTyped, scheduleVars, Schedule!OfType
<1>3. CASE UNCHANGED scheduleVars /\ \E s \in ServiceEvent : services' = <<s>> \o services
  <2>1. /\ Len(services') = Len(services) + 1
        /\ Schedule!OfType # {} => Schedule!OfType' # {}
    BY <1>0, <1>3, ServiceAdded
  <2> QED BY <1>0, <1>3, <2>1 DEF PlanTyped, scheduleVars
<1>4. ASSUME UNCHANGED services, NEW km \in Kms, Schedule!DriveOn(km) PROVE PlanTyped'
  BY <1>4, ItemsTyped DEF PlanTyped, Schedule!DriveOn, Schedule!OfType
<1>5. ASSUME UNCHANGED services, NEW t \in Tenants, NEW item \in {NoItem} \cup Items,
             Schedule!createOrUpdateTemplate(t, item)
      PROVE  PlanTyped'
  BY <1>5 DEF PlanTyped, Schedule!createOrUpdateTemplate, Schedule!OfType
<1>6. ASSUME UNCHANGED services, Schedule!HandleService PROVE PlanTyped'
  <2>1. /\ planSeen \in Nat /\ planSeen < Len(services) /\ planSeen' = planSeen + 1
        /\ plan.pc = "idle" /\ UNCHANGED <<latestOdometerKm, template, entries>>
    BY <1>0, <1>6 DEF Schedule!HandleService, PlanTyped
  <2>2. CASE UNCHANGED plan
    BY <1>0, <1>6, <2>1, <2>2 DEF PlanTyped
  <2>3. ASSUME NEW i \in Schedule!Open, Schedule!Service(planSeen').category = "ROUTINE_MAINTENANCE",
               plan' = [pc |-> "complete", event |-> planSeen', entry |-> i]
        PROVE  PlanTyped'
    <3>1. planSeen' \in 1 .. Len(services) /\ Len(services) + 1 - planSeen' \in DOMAIN services
      BY <1>0, <2>1, ServicesTyped
    <3>2. Schedule!OfType # {}
      BY <2>3, <3>1 DEF Schedule!OfType, Schedule!Service
    <3>3. i \in DOMAIN entries /\ i \in Nat
      BY <1>0 DEF Schedule!Open
    <3>4. plan' \in Plan
      BY <1>0, <2>3, <3>1, <3>3 DEF Plan
    <3> QED BY <1>0, <1>6, <2>1, <2>3, <3>1, <3>2, <3>3, <3>4 DEF PlanTyped, Schedule!OfType
  <2> QED BY <1>6, <2>2, <2>3 DEF Schedule!HandleService
<1>7. ASSUME UNCHANGED services, Schedule!CompleteEntry PROVE PlanTyped'
  <2>1. /\ plan.pc = "complete" /\ plan.entry \in DOMAIN entries
        /\ entries' = [entries EXCEPT ![plan.entry].completed = TRUE]
        /\ plan' = [plan EXCEPT !.pc = "create"]
        /\ UNCHANGED <<latestOdometerKm, template, planSeen>>
    BY <1>7 DEF Schedule!CompleteEntry, PlanTyped
  <2>2. entries' \in Seq(Entry) /\ DOMAIN entries' = DOMAIN entries
    <3>1. PICK e : e = [entries[plan.entry] EXCEPT !.completed = TRUE]
      OBVIOUS
    <3>2. e \in Entry
      <4>1. entries[plan.entry] \in Entry
        BY <1>0, <2>1, ElementOfSeq
      <4> QED BY <3>1, <4>1 DEF Entry
    <3>3. entries' = [entries EXCEPT ![plan.entry] = e]
      BY <1>0, <2>1, <3>1
    <3> QED BY <1>0, <2>1, <3>2, <3>3
  <2>3. plan' \in Plan /\ plan'.entry = plan.entry /\ plan'.event = plan.event
    BY <2>1 DEF PlanTyped, Plan
  <2> QED BY <1>7, <2>1, <2>2, <2>3 DEF PlanTyped, Schedule!OfType
<1>8. ASSUME UNCHANGED services, Schedule!CreateNext PROVE PlanTyped'
  <2>1. /\ plan.pc = "create" /\ plan' = Schedule!NoPlan
        /\ UNCHANGED <<latestOdometerKm, template, planSeen>>
    BY <1>8 DEF Schedule!CreateNext
  <2>2. ASSUME NEW item \in Schedule!MergedItems PROVE Schedule!NextEntry(item) \in Entry
    <3>1. item.km \in Nat /\ item.ticks \in Nat
      BY MergedTyped, ItemsTyped
    <3>2. plan.event \in 1 .. Len(services)
      BY <2>1 DEF PlanTyped
    <3>3. Len(services) + 1 - plan.event \in DOMAIN services
      BY <1>0, <3>2, ServicesTyped
    <3>4. Schedule!Service(plan.event) \in ServiceEvent
      BY <1>0, <3>3, ServicesTyped DEF Schedule!Service
    <3> QED BY <3>1, <3>4 DEF Schedule!NextEntry, Entry, ServiceEvent, Schedule!None
  <2>3. entries' \in Seq(Entry)
    BY <1>0, <1>8, <2>2 DEF Schedule!CreateNext
  <2>4. plan' \in Plan /\ plan'.pc = "idle"
    BY <2>1 DEF Plan, Schedule!NoPlan
  <2> QED BY <1>8, <2>1, <2>3, <2>4 DEF PlanTyped
<1>9. Schedule!NoPlan \in Plan /\ Schedule!NoPlan.pc = "idle"
  BY DEF Plan, Schedule!NoPlan
<1>10. ASSUME UNCHANGED services, Schedule!PlanRejected PROVE PlanTyped'
  BY <1>9, <1>10 DEF PlanTyped, Schedule!PlanRejected
<1>11. ASSUME UNCHANGED services, Schedule!RestartPlan PROVE PlanTyped'
  <2>1. planSeen' \in 0 .. Len(services)
    BY <1>0, <1>11 DEF PlanTyped, Schedule!RestartPlan
  <2> QED BY <1>9, <1>11, <2>1 DEF PlanTyped, Schedule!RestartPlan
<1> QED BY <1>1, <1>2, <1>3, <1>4, <1>5, <1>6, <1>7, <1>8, <1>10, <1>11
        DEF ScheduleMoves, Schedule!PlanWork, Schedule!PlanStep

\* Without a fault and with an item in every template, there is one open entry,
\* which the handler is about to complete if it runs, or none while the next is
\* about to be created.
OneOpen ==
    /\ ~unscheduled => \A t \in Tenants : template[t] # NoItem
    /\ entries # <<>> /\ ~unscheduled /\ faults = 0 =>
         /\ plan.pc = "idle" => \E i : Schedule!Open = {i}
         /\ plan.pc = "complete" => Schedule!Open = {plan.entry}
         /\ plan.pc = "create" => Schedule!Open = {}

LEMMA OneOpenStep ==
    ASSUME Tenants # {}, ScoreInv, AlertsTyped, PlanTyped, OneOpen, [Next]_vars
    PROVE  OneOpen'
<1>0. /\ services \in ServiceEvents /\ now \in Nat
      /\ faults \in Nat /\ faults' \in {faults, faults + 1}
      /\ entries \in Seq(Entry) /\ DOMAIN entries = 1 .. Len(entries) /\ Len(entries) \in Nat
      /\ plan \in Plan
  BY FaultStep DEF ScoreInv, ScoreTyped, AlertsTyped, PlanTyped
<1>1. ScheduleMoves
  BY <1>0, ScheduleMoved
<1>2. CASE UNCHANGED scheduleVars
  <2>1. faults' = 0 => faults = 0
    BY <1>0
  <2>2. Schedule!Open' = Schedule!Open
    BY <1>2 DEF scheduleVars, Schedule!Open
  <2> QED BY <1>2, <2>1, <2>2 DEF OneOpen, scheduleVars
<1>3. ASSUME NEW km \in Kms, Schedule!DriveOn(km) PROVE OneOpen'
  BY <1>3 DEF OneOpen, Schedule!DriveOn, Schedule!Open
<1>4. ASSUME NEW t \in Tenants, NEW item \in {NoItem} \cup Items,
             Schedule!createOrUpdateTemplate(t, item)
      PROVE  OneOpen'
  <2>1. /\ template' = [template EXCEPT ![t] = item]
        /\ unscheduled' = (unscheduled \/ item = NoItem)
        /\ UNCHANGED <<entries, plan, faults>>
    BY <1>4 DEF Schedule!createOrUpdateTemplate
  <2>2. ~unscheduled' => ~unscheduled /\ \A u \in Tenants : template'[u] # NoItem
    BY <2>1 DEF OneOpen, PlanTyped
  <2>3. Schedule!Open' = Schedule!Open
    BY <2>1 DEF Schedule!Open
  <2> QED BY <2>1, <2>2, <2>3 DEF OneOpen
<1>5. ASSUME Schedule!HandleService PROVE OneOpen'
  <2>1. /\ plan.pc = "idle" /\ UNCHANGED <<template, entries, unscheduled, faults>>
        /\ \/ UNCHANGED plan
           \/ \E i \in Schedule!Open : plan' = [pc |-> "complete", event |-> planSeen', entry |-> i]
    BY <1>5 DEF Schedule!HandleService
  <2>2. Schedule!Open' = Schedule!Open
    BY <2>1 DEF Schedule!Open
  <2>3. CASE UNCHANGED plan
    BY <2>1, <2>2, <2>3 DEF OneOpen
  <2>4. ASSUME NEW i \in Schedule!Open,
               plan' = [pc |-> "complete", event |-> planSeen', entry |-> i]
        PROVE  OneOpen'
    BY <2>1, <2>2, <2>4 DEF OneOpen
  <2> QED BY <2>1, <2>3, <2>4
<1>6. ASSUME Schedule!CompleteEntry PROVE OneOpen'
  <2>1. /\ plan.pc = "complete" /\ plan.entry \in DOMAIN entries
        /\ entries' = [entries EXCEPT ![plan.entry].completed = TRUE]
        /\ plan' = [plan EXCEPT !.pc = "create"]
        /\ UNCHANGED <<template, unscheduled, faults>>
    BY <1>6 DEF Schedule!CompleteEntry, PlanTyped
  <2>2. plan'.pc = "create" /\ entries # <<>>
    BY <1>0, <2>1 DEF Plan
  <2>3. Schedule!Open' = Schedule!Open \ {plan.entry}
    <3>1. entries[plan.entry] \in Entry
      BY <1>0, <2>1, ElementOfSeq
    <3>2. /\ DOMAIN entries' = DOMAIN entries /\ entries'[plan.entry].completed = TRUE
          /\ \A i \in DOMAIN entries \ {plan.entry} : entries'[i] = entries[i]
      BY <1>0, <2>1, <3>1 DEF Entry
    <3> QED BY <3>2 DEF Schedule!Open
  <2> QED BY <2>1, <2>2, <2>3 DEF OneOpen
<1>7. ASSUME Schedule!CreateNext PROVE OneOpen'
  <2>1. /\ plan.pc = "create" /\ plan' = Schedule!NoPlan
        /\ UNCHANGED <<template, unscheduled, faults>>
    BY <1>7 DEF Schedule!CreateNext
  <2>2. entries # <<>>
    BY <1>0, <2>1 DEF PlanTyped
  <2>3. ~unscheduled' => \A t \in Tenants : template'[t] # NoItem
    BY <2>1 DEF OneOpen
  <2>4. ASSUME ~unscheduled, faults = 0 PROVE \E i : Schedule!Open' = {i}
    <3>1. Schedule!MergedItems # {}
      <4>1. PICK t \in Tenants : TRUE
        OBVIOUS
      <4>2. template[t] \in Schedule!MergedItems
        BY <2>4 DEF OneOpen, Schedule!MergedItems
      <4> QED BY <4>2
    <3>2. PICK item \in Schedule!MergedItems : entries' = Append(entries, Schedule!NextEntry(item))
      BY <1>7, <3>1 DEF Schedule!CreateNext
    <3>3. PICK e : e = Schedule!NextEntry(item)
      OBVIOUS
    <3>4. ~e.completed
      BY <3>3 DEF Schedule!NextEntry
    <3>5. /\ DOMAIN entries' = DOMAIN entries \cup {Len(entries) + 1}
          /\ entries'[Len(entries) + 1] = e /\ Len(entries) + 1 \notin DOMAIN entries
          /\ \A i \in DOMAIN entries : entries'[i] = entries[i]
      BY <1>0, <3>2, <3>3
    <3>6. Schedule!Open = {}
      BY <2>1, <2>2, <2>4 DEF OneOpen
    <3>7. Schedule!Open' = {Len(entries) + 1}
      BY <3>4, <3>5, <3>6 DEF Schedule!Open
    <3> QED BY <3>7
  <2>5. plan'.pc = "idle"
    BY <2>1 DEF Schedule!NoPlan
  <2> QED BY <2>1, <2>3, <2>4, <2>5 DEF OneOpen
<1>8. ASSUME Schedule!PlanRejected \/ (Schedule!RestartPlan /\ faults' # faults) PROVE OneOpen'
  <2>1. faults' # 0 /\ UNCHANGED <<template, unscheduled>>
    BY <1>0, <1>8 DEF Schedule!PlanRejected, Schedule!RestartPlan
  <2> QED BY <2>1 DEF OneOpen
<1>9. ASSUME Restart PROVE OneOpen'
  <2>1. Schedule!RestartPlan /\ faults' # faults
    BY <1>0, <1>9 DEF Restart, RestartHealth
  <2> QED BY <1>8, <2>1
<1>10. ASSUME ScheduleSide PROVE OneOpen'
  <2>1. Schedule!PlanWork
    BY <1>10 DEF ScheduleSide
  <2>2. CASE \E km \in Kms : Schedule!DriveOn(km)
    BY <1>3, <2>2
  <2>3. CASE \E t \in Tenants, item \in {NoItem} \cup Items : Schedule!createOrUpdateTemplate(t, item)
    BY <1>4, <2>3
  <2> QED BY <1>5, <1>6, <1>7, <1>8, <2>1, <2>2, <2>3 DEF Schedule!PlanWork, Schedule!PlanStep
<1> QED BY <1>2, <1>9, <1>10 DEF Next, vars, Vehicle, HealthSide, NotifySide, PaperSide

\* The schedule starts with no entry, or with the one that was seeded.
LEMMA PlanInitially == Init => PlanTyped /\ OneOpen
<1> SUFFICES ASSUME Init PROVE PlanTyped /\ OneOpen
  OBVIOUS
<1>1. /\ latestOdometerKm = Schedule!None /\ template \in [Tenants -> {NoItem} \cup Items]
      /\ entries \in {<<>>} \cup {<<[dueAt |-> d[1], dueKm |-> d[2], completed |-> FALSE]>> :
                               d \in SeededDue}
      /\ planSeen = 0 /\ plan = Schedule!NoPlan
      /\ unscheduled = (\E t \in Tenants : template[t] = NoItem)
      /\ services = <<>>
  BY DEF Init, Schedule!PlanInit, HealthInit
<1>2. plan \in Plan /\ plan.pc = "idle"
  BY <1>1 DEF Plan, Schedule!NoPlan
<1>3. entries = <<>> \/ \E e \in Entry : entries = <<e>> /\ e.completed = FALSE
  <2> SUFFICES ASSUME NEW d \in SeededDue,
                      entries = <<[dueAt |-> d[1], dueKm |-> d[2], completed |-> FALSE]>>
               PROVE  \E e \in Entry : entries = <<e>> /\ e.completed = FALSE
    BY <1>1
  <2>1. d[1] \in Int /\ d[2] \in Int
    BY ItemsTyped
  <2>2. [dueAt |-> d[1], dueKm |-> d[2], completed |-> FALSE] \in Entry
    BY <2>1 DEF Entry
  <2> QED BY <2>2
<1>4. entries \in Seq(Entry)
  <2>1. ASSUME NEW e \in Entry PROVE <<e>> \in Seq(Entry)
    OBVIOUS
  <2>2. <<>> \in Seq(Entry)
    OBVIOUS
  <2> QED BY <1>3, <2>1, <2>2
<1>5. entries # <<>> => \E i : Schedule!Open = {i}
  <2> SUFFICES ASSUME NEW e \in Entry, entries = <<e>>, e.completed = FALSE
               PROVE  \E i : Schedule!Open = {i}
    BY <1>3
  <2>1. DOMAIN entries = {1} /\ entries[1] = e
    OBVIOUS
  <2>2. Schedule!Open = {1}
    BY <2>1 DEF Schedule!Open
  <2> QED BY <2>2
<1>6. planSeen \in 0 .. Len(services)
  BY <1>1
<1> QED BY <1>1, <1>2, <1>4, <1>5, <1>6 DEF PlanTyped, OneOpen

\* The schedule counts as this module does.
LEMMA ScheduleCounts ==
    ASSUME NEW S
    PROVE  Schedule!Cardinality(S) = Cardinality(S)
BY DEF Schedule!Cardinality, Cardinality

\* A scheduled service stays scheduled, one open entry after the other.
THEOREM ServicesStayScheduled ==
    ASSUME Tenants # {}
    PROVE  Spec => []ScheduleContinues
<1>1. Init => AlertsTyped
  BY AlertsInit
<1>2. ScoreInv /\ AlertsTyped /\ PlanTyped /\ OneOpen /\ [Next]_vars
        => ScoreInv' /\ AlertsTyped' /\ PlanTyped' /\ OneOpen'
  BY ScoreStep, AlertsTypedStep, PlanTypedStep, OneOpenStep
<1>3. PlanTyped /\ OneOpen => ScheduleContinues
  <2> SUFFICES ASSUME PlanTyped, OneOpen PROVE ScheduleContinues
    OBVIOUS
  <2>1. plan.pc \in {"idle", "complete", "create"}
    BY DEF PlanTyped, Plan
  <2>2. ASSUME entries # <<>>, ~unscheduled, faults = 0, plan.pc = "create"
        PROVE  Cardinality(Schedule!Open) = 0
    BY <2>2, FS_EmptySet DEF OneOpen
  <2>3. ASSUME entries # <<>>, ~unscheduled, faults = 0, plan.pc # "create"
        PROVE  Cardinality(Schedule!Open) = 1
    <3>1. \E i : Schedule!Open = {i}
      BY <2>1, <2>3 DEF OneOpen
    <3> QED BY <3>1, FS_Singleton
  <2> QED BY <2>2, <2>3, ScheduleCounts DEF ScheduleContinues, Schedule!ScheduleContinues
<1> QED BY ScoreInit, PlanInitially, <1>1, <1>2, <1>3, PTL DEF Spec

\* What a due date or reading rests on, in a step that records no service.
LEMMA ScheduleStands ==
    ASSUME ScoreInv, PlanTyped, [Next]_vars, services' = services
    PROVE  /\ Schedule!OfType' = Schedule!OfType /\ Schedule!lastService' = Schedule!lastService
           /\ Schedule!OfType = {} => entries' = entries
           /\ latestOdometerKm' = latestOdometerKm
                \/ (latestOdometerKm' \in Nat /\ latestOdometerKm' > latestOdometerKm)
<1>0. services \in ServiceEvents /\ now \in Nat
  BY DEF ScoreInv, ScoreTyped
<1>1. Schedule!OfType' = Schedule!OfType /\ Schedule!lastService' = Schedule!lastService
  BY DEF Schedule!OfType, Schedule!lastService
<1>2. CASE UNCHANGED scheduleVars
  BY <1>1, <1>2 DEF scheduleVars
<1>3. CASE Schedule!RestartPlan
  BY <1>1, <1>3 DEF Schedule!RestartPlan
<1>4. CASE Schedule!PlanWork
  <2>1. CASE \E km \in Kms : Schedule!DriveOn(km)
    <3>1. PICK km \in Kms : Schedule!DriveOn(km)
      BY <2>1
    <3>2. km \in Nat
      BY ItemsTyped
    <3> QED BY <1>1, <3>1, <3>2 DEF Schedule!DriveOn
  <2>2. CASE \E t \in Tenants, item \in {NoItem} \cup Items : Schedule!createOrUpdateTemplate(t, item)
    BY <1>1, <2>2 DEF Schedule!createOrUpdateTemplate
  <2>3. CASE Schedule!HandleService \/ Schedule!PlanRejected
    BY <1>1, <2>3 DEF Schedule!HandleService, Schedule!PlanRejected
  <2>4. CASE Schedule!CompleteEntry \/ Schedule!CreateNext
    BY <1>1, <2>4 DEF Schedule!CompleteEntry, Schedule!CreateNext, PlanTyped
  <2> QED BY <1>4, <2>1, <2>2, <2>3, <2>4 DEF Schedule!PlanWork, Schedule!PlanStep
<1>5. ScheduleMoves
  BY <1>0, ScheduleMoved
<1> QED BY <1>1, <1>2, <1>3, <1>4, <1>5 DEF ScheduleMoves, scheduleVars

LEMMA ExistingDate ==
    ASSUME PlanTyped
    PROVE  Schedule!Existing("dueAt") \in Int
<1>1. CASE Schedule!Open = {}
  BY <1>1 DEF Schedule!Existing, Schedule!None
<1>2. CASE Schedule!Open # {}
  <2>1. PICK i : i = CHOOSE k \in Schedule!Open : TRUE
    OBVIOUS
  <2>2. i \in DOMAIN entries
    BY <1>2, <2>1 DEF Schedule!Open
  <2>3. entries[i] \in Entry
    BY <2>2, ElementOfSeq DEF PlanTyped
  <2> QED BY <1>2, <2>1, <2>3 DEF Schedule!Existing, Entry
<1> QED BY <1>1, <1>2

LEMMA DueDateStands ==
    ASSUME ScoreInv, PlanTyped, [Next]_vars, services' = services, NEW item \in Items
    PROVE  Schedule!dueDate(item) \in Int /\ Schedule!dueDate(item)' = Schedule!dueDate(item)
<1>0. item.ticks \in Nat /\ services \in ServiceEvents
  BY ItemsTyped DEF ScoreInv, ScoreTyped
<1>1. CASE item.ticks = 0
  BY <1>1 DEF Schedule!dueDate, Schedule!None
<1>2. CASE item.ticks # 0 /\ Schedule!OfType = {}
  <2>1. Schedule!Existing("dueAt")' = Schedule!Existing("dueAt") /\ Schedule!OfType' = {}
    <3>1. entries' = entries /\ Schedule!OfType' = {}
      BY <1>2, ScheduleStands
    <3> QED BY <3>1 DEF Schedule!Existing, Schedule!Open
  <2> QED BY <1>2, <2>1, ExistingDate DEF Schedule!dueDate
<1>3. CASE item.ticks # 0 /\ Schedule!OfType # {}
  <2>1. PICK last \in ServiceEvent : last = Schedule!lastService /\ last = Schedule!lastService'
    BY <1>0, <1>3, LastService, ScheduleStands
  <2>2. last.at \in Int /\ Schedule!OfType' # {}
    BY <1>3, <2>1, ScheduleStands DEF ServiceEvent
  <2> QED BY <1>0, <1>3, <2>1, <2>2 DEF Schedule!dueDate
<1> QED BY <1>1, <1>2, <1>3

\* The distance left to a due reading only shrinks, from when a reading is known.
LEMMA DistanceShrinks ==
    ASSUME ScoreInv, PlanTyped, [Next]_vars, services' = services, NEW item \in Items,
           latestOdometerKm # Schedule!None, Schedule!dueOdometerKm(item) # Schedule!None
    PROVE  /\ latestOdometerKm' # Schedule!None /\ Schedule!dueOdometerKm(item)' # Schedule!None
           /\ latestOdometerKm \in Int /\ latestOdometerKm' \in Int
           /\ Schedule!dueOdometerKm(item) \in Int /\ Schedule!dueOdometerKm(item)' \in Int
           /\ Schedule!dueOdometerKm(item)' - latestOdometerKm'
                <= Schedule!dueOdometerKm(item) - latestOdometerKm
<1>0. item.km \in Nat /\ services \in ServiceEvents
  BY ItemsTyped DEF ScoreInv, ScoreTyped
<1>1. PICK l \in Nat, l2 \in Nat : l = latestOdometerKm /\ l2 = latestOdometerKm' /\ l <= l2
  <2>1. latestOdometerKm \in Nat
    BY DEF PlanTyped
  <2> QED BY <2>1, ScheduleStands
<1>2. item.km # 0
  BY DEF Schedule!dueOdometerKm
<1>3. l # Schedule!None /\ l2 # Schedule!None
  BY DEF Schedule!None
<1>4. CASE Schedule!OfType # {} /\ Schedule!lastService.km # Schedule!None
  <2>1. PICK last \in ServiceEvent : last = Schedule!lastService /\ last = Schedule!lastService'
    BY <1>0, <1>4, LastService, ScheduleStands
  <2>2. Schedule!OfType' # {} /\ last.km \in Int
    BY <1>4, <2>1, ScheduleStands DEF ServiceEvent
  <2>3. /\ Schedule!dueOdometerKm(item) = last.km + item.km
        /\ Schedule!dueOdometerKm(item)' = last.km + item.km
    BY <1>2, <1>4, <2>1, <2>2 DEF Schedule!dueOdometerKm
  <2> QED BY <1>0, <1>1, <1>3, <2>2, <2>3
<1>5. CASE ~(Schedule!OfType # {} /\ Schedule!lastService.km # Schedule!None)
  <2>1. ~(Schedule!OfType' # {} /\ Schedule!lastService'.km # Schedule!None)
    BY <1>5, ScheduleStands
  <2>2. Schedule!dueOdometerKm(item) = l + item.km /\ Schedule!dueOdometerKm(item)' = l2 + item.km
    BY <1>1, <1>2, <1>3, <1>5, <2>1 DEF Schedule!dueOdometerKm
  <2>3. l2 + item.km # Schedule!None
    BY <1>0, <1>1 DEF Schedule!None
  <2> QED BY <1>0, <1>1, <1>3, <2>2, <2>3
<1> QED BY <1>4, <1>5

LEMMA UrgencyGrows ==
    ASSUME ScoreInv, PlanTyped, [Next]_vars, services' = services,
           NEW item \in Schedule!MergedItems
    PROVE  Schedule!Urgency(item)' >= Schedule!Urgency(item)
<1>0. item \in Items /\ now \in Nat /\ services \in ServiceEvents
  BY MergedTyped DEF ScoreInv, ScoreTyped
<1>1. PICK n \in Nat, n2 \in Nat : n = now /\ n2 = now' /\ n <= n2
  BY <1>0, VehicleStep
<1>2. PICK a \in Int : a = Schedule!dueDate(item) /\ a = Schedule!dueDate(item)'
  BY <1>0, DueDateStands
<1>3. PICK k, k2, l, l2 : /\ k = Schedule!dueOdometerKm(item) /\ k2 = Schedule!dueOdometerKm(item)'
                          /\ l = latestOdometerKm /\ l2 = latestOdometerKm'
  OBVIOUS
<1>4. l # Schedule!None /\ k # Schedule!None =>
        /\ l2 # Schedule!None /\ k2 # Schedule!None
        /\ l \in Int /\ l2 \in Int /\ k \in Int /\ k2 \in Int /\ k2 - l2 <= k - l
  BY <1>0, <1>3, DistanceShrinks
<1>5. DueSoonTicks \in Nat /\ DueSoonKm \in Nat
  BY CareAssumption DEF Schedule!MaintenanceConstants
<1> DEFINE Within(t, d) == \/ a # Schedule!None /\ a - n <= t
                           \/ k # Schedule!None /\ l # Schedule!None /\ k - l <= d
           Within2(t, d) == \/ a # Schedule!None /\ a - n2 <= t
                            \/ k2 # Schedule!None /\ l2 # Schedule!None /\ k2 - l2 <= d
<1>6. \A t, d \in Nat : Within(t, d) => Within2(t, d)
  <2> TAKE t \in Nat, d \in Nat
  <2>1. a - n <= t => a - n2 <= t
    BY <1>1, <1>2
  <2>2. k # Schedule!None /\ l # Schedule!None /\ k - l <= d => k2 - l2 <= d
    BY <1>4
  <2> QED BY <1>4, <2>1, <2>2
<1>7. Schedule!Urgency(item)
        = IF Within(0, 0) THEN 2 ELSE IF Within(DueSoonTicks, DueSoonKm) THEN 1 ELSE 0
  BY <1>1, <1>2, <1>3 DEF Schedule!Urgency, Schedule!classifyUrgency
<1>8. Schedule!Urgency(item)'
        = IF Within2(0, 0) THEN 2 ELSE IF Within2(DueSoonTicks, DueSoonKm) THEN 1 ELSE 0
  BY <1>1, <1>2, <1>3 DEF Schedule!Urgency, Schedule!classifyUrgency
<1>9. (Within(0, 0) => Within2(0, 0))
      /\ (Within(DueSoonTicks, DueSoonKm) => Within2(DueSoonTicks, DueSoonKm))
  BY <1>5, <1>6
<1> HIDE DEF Within, Within2
<1> QED BY <1>7, <1>8, <1>9

\* Only a service raises the score or relaxes the schedule.
THEOREM OnlyServiceHelps == Spec => ServiceOnlyHelps
<1>1. ScoreInv /\ PlanTyped /\ [Next]_vars
        => [services' = services /\ template' = template =>
              \A item \in Schedule!MergedItems : Schedule!Urgency(item)' >= Schedule!Urgency(item)]_<<now, services, Schedule!scheduleVars>>
  BY UrgencyGrows
<1>2. ScoreInv /\ PlanTyped /\ [Next]_vars => ScoreInv' /\ PlanTyped'
  BY ScoreStep, PlanTypedStep
<1>3. Init => PlanTyped
  BY PlanInitially
<1>4. Spec => Schedule!UrgencyNeverRelaxes
  BY ScoreInit, <1>1, <1>2, <1>3, PTL DEF Spec, Schedule!UrgencyNeverRelaxes
<1> QED BY ScoresRiseByService, <1>4 DEF ServiceOnlyHelps

-----------------------------------------------------------------------------
(* The notifications. *)

Inbox == [i \in DOMAIN alerts |-> "health-score.alert"] \o posted

Types == Mail \cup {"health-score.alert"}

\* A behaviour takes its events from the health score or from other parts.
MailInv ==
    /\ posted \in Seq(Mail)
    /\ "alerts" \in focus => posted = <<>>
    /\ "alerts" \notin focus => alerts = <<>>

LEMMA InboxTyped ==
    ASSUME alerts \in Seq(Alert), posted \in Seq(Mail)
    PROVE  /\ [i \in DOMAIN alerts |-> "health-score.alert"] \in Seq(Types)
           /\ Len([i \in DOMAIN alerts |-> "health-score.alert"]) = Len(alerts)
           /\ posted \in Seq(Types) /\ Inbox \in Seq(Types)
<1>1. DOMAIN alerts = 1 .. Len(alerts) /\ Len(alerts) \in Nat
  OBVIOUS
<1>2. [i \in 1 .. Len(alerts) |-> "health-score.alert"] \in Seq(Types)
  BY <1>1, IsASeq DEF Types
<1>3. Len([i \in 1 .. Len(alerts) |-> "health-score.alert"]) = Len(alerts)
  BY <1>1, <1>2
<1>4. posted \in Seq(Types)
  BY DEF Types
<1> QED BY <1>1, <1>2, <1>3, <1>4 DEF Inbox

\* What is published in a step, if anything is.
LEMMA OneSource ==
    ASSUME AlertsTyped, MailInv, [Next]_vars
    PROVE  \/ UNCHANGED <<alerts, posted>>
           \/ /\ \E a : alerts' = Append(alerts, a)
              /\ posted = <<>> /\ posted' = <<>>
           \/ /\ alerts = <<>> /\ alerts' = <<>>
              /\ \E type \in Mail : posted' = Append(posted, type)
<1>1. CASE HealthSide
  BY <1>1 DEF HealthSide, HealthWork, RecalcStep, HandleServiceEvent, DailyRun, RetryFires, Start,
     ReadPrevious, Upsert, Store, publishHealthScoreAlert, Reject, FleetStep, FleetReceive,
     FleetPublish, FleetReject, Publish, noteVars, MailInv
<1>2. CASE NotifySide
  BY <1>2 DEF NotifySide, Post, MailInv
<1>3. CASE Vehicle
  BY <1>3 DEF Vehicle, Tick, LeaveFleet, Record, noteVars
<1>4. CASE Restart
  BY <1>4 DEF Restart, RestartHealth
<1> QED BY <1>1, <1>2, <1>3, <1>4
        DEF Next, vars, healthVars, noteVars, ScheduleSide, PaperSide

LEMMA MailStep ==
    ASSUME AlertsTyped, MailInv, [Next]_vars
    PROVE  MailInv'
<1>1. focus' = focus
  BY DEF Next, vars, Vehicle, HealthSide, ScheduleSide, NotifySide, PaperSide, Restart
<1>2. \/ UNCHANGED <<alerts, posted>>
      \/ "alerts" \in focus /\ posted = <<>> /\ posted' = <<>>
      \/ /\ "alerts" \notin focus /\ alerts = <<>> /\ alerts' = <<>>
         /\ \E type \in Mail : posted' = Append(posted, type)
  <2>1. CASE HealthSide
    BY <2>1 DEF HealthSide, noteVars, MailInv
  <2>2. CASE NotifySide
    BY <2>2 DEF NotifySide, Post, MailInv
  <2>3. CASE Vehicle
    BY <2>3 DEF Vehicle, Tick, LeaveFleet, Record, noteVars
  <2>4. CASE Restart
    BY <2>4 DEF Restart, RestartHealth
  <2> QED BY <2>1, <2>2, <2>3, <2>4
          DEF Next, vars, healthVars, noteVars, ScheduleSide, PaperSide
<1> QED BY <1>1, <1>2 DEF MailInv

\* The events that are there stay where they are.
LEMMA InboxGrows ==
    ASSUME AlertsTyped, MailInv, [Next]_vars
    PROVE  /\ Len(Inbox) \in Nat /\ Len(Inbox') \in Nat /\ Len(Inbox) <= Len(Inbox')
           /\ \A e \in 1 .. Len(Inbox) : Inbox'[e] = Inbox[e]
<1>1. /\ alerts \in Seq(Alert) /\ posted \in Seq(Mail)
      /\ DOMAIN alerts = 1 .. Len(alerts) /\ Len(alerts) \in Nat
  BY DEF AlertsTyped, MailInv
<1>2. Inbox \in Seq(Types) /\ Len(Inbox) \in Nat
  BY <1>1, InboxTyped
<1>3. CASE UNCHANGED <<alerts, posted>>
  BY <1>2, <1>3 DEF Inbox
<1>4. ASSUME NEW a, alerts' = Append(alerts, a), posted = <<>>, posted' = <<>>
      PROVE  /\ Len(Inbox') \in Nat /\ Len(Inbox) <= Len(Inbox')
             /\ \A e \in 1 .. Len(Inbox) : Inbox'[e] = Inbox[e]
  <2>1. DOMAIN alerts' = 1 .. Len(alerts) + 1
    BY <1>1, <1>4
  <2>2. Inbox = [i \in 1 .. Len(alerts) |-> "health-score.alert"]
    BY <1>1, <1>4, InboxTyped DEF Inbox
  <2>3. PICK new : new = [i \in 1 .. Len(alerts) + 1 |-> "health-score.alert"]
    OBVIOUS
  <2>4. new \in Seq(Types)
    BY <1>1, <2>3, IsASeq DEF Types
  <2>5. Inbox' = new \o <<>>
    BY <1>4, <2>1, <2>3 DEF Inbox
  <2>6. Inbox' = new /\ Len(new) = Len(alerts) + 1
    BY <1>1, <2>3, <2>4, <2>5
  <2>7. Len(Inbox) = Len(alerts)
    BY <1>1, <1>2, <2>2
  <2> QED BY <1>1, <2>2, <2>3, <2>6, <2>7
<1>5. ASSUME alerts = <<>>, alerts' = <<>>, NEW type \in Mail, posted' = Append(posted, type)
      PROVE  /\ Len(Inbox') \in Nat /\ Len(Inbox) <= Len(Inbox')
             /\ \A e \in 1 .. Len(Inbox) : Inbox'[e] = Inbox[e]
  <2>1. [i \in DOMAIN alerts |-> "health-score.alert"] = <<>>
        /\ [i \in DOMAIN alerts' |-> "health-score.alert"] = <<>>
    BY <1>5
  <2>2. Inbox = posted /\ Inbox' = posted'
    BY <1>1, <1>5, <2>1 DEF Inbox
  <2> QED BY <1>1, <1>5, <2>2
<1> QED BY <1>2, <1>3, <1>4, <1>5, OneSource

Channel == {"WHATSAPP", "EMAIL", "SMS", "PUSH"}

Statuses == {"PENDING", "DELIVERED", "FAILED", "PERMANENTLY_FAILED"}

Note == [event: Int, to: Managers \cup {"owner", "user"}, channel: Channel,
         status: Statuses, retryCount: Nat]

NotesTyped ==
    /\ notes \in Seq(Note) /\ noteSeen \in Int
    /\ audience \subseteq Managers \cup {"owner", "user"}
    /\ sending \in {0} \cup DOMAIN notes
    /\ batch = [r \in Runs |-> batch[r]]

\* A row whose send still runs, or never ended, was not retried; one with a retry
\* left has been retried less often than that.
RowsStand ==
    /\ sending # 0 => notes[sending].status = "PENDING"
    /\ \A i \in DOMAIN notes :
        /\ notes[i].status = "PENDING" => notes[i].retryCount = 0 /\ (sending = i \/ faults > 0)
        /\ notes[i].status = "FAILED" => notes[i].retryCount < MAX_RETRIES
    /\ \A r \in Runs : \A i \in DOMAIN batch[r] :
        i \in DOMAIN notes /\ notes[i].status # "PENDING" /\ batch[r][i] \in Nat

NotesInv == NotesTyped /\ RowsStand

LEMMA ChannelTyped == Notify!getPreferredChannel \in Channel
<1> DEFINE on == {i \in DOMAIN Notify!Channels : Notify!Channels[i] \in enabled}
<1>1. CASE on = {}
  BY <1>1 DEF Notify!getPreferredChannel, Channel
<1>2. CASE on # {}
  <2>1. DOMAIN Notify!Channels = 1 .. 4
    BY DEF Notify!Channels
  <2>2. on \in SUBSET Nat
    BY <2>1
  <2>3. \E i \in on : \A j \in on : i <= j
    BY <1>2, <2>2, LeastOf
  <2>4. PICK i : i = CHOOSE k \in on : \A j \in on : k <= j
    OBVIOUS
  <2>5. i \in 1 .. 4
    BY <2>1, <2>3, <2>4
  <2>6. Notify!getPreferredChannel = Notify!Channels[i]
    BY <1>2, <2>4 DEF Notify!getPreferredChannel
  <2>7. Notify!Channels[i] \in Channel
    BY <2>5 DEF Notify!Channels, Channel
  <2> QED BY <2>6, <2>7
<1> QED BY <1>1, <1>2

LEMMA NotesRead ==
    ASSUME NotesTyped
    PROVE  /\ DOMAIN notes = 1 .. Len(notes) /\ Len(notes) \in Nat
           /\ \A i \in DOMAIN notes : notes[i] \in Note
BY ElementOfSeq DEF NotesTyped

\* A row is written anew.
LEMMA RowWritten ==
    ASSUME NotesTyped, NEW i \in DOMAIN notes, NEW row \in Note, notes' = [notes EXCEPT ![i] = row]
    PROVE  /\ notes' \in Seq(Note) /\ DOMAIN notes' = DOMAIN notes
           /\ notes'[i] = row /\ \A j \in DOMAIN notes \ {i} : notes'[j] = notes[j]
BY NotesRead DEF NotesTyped

\* A send goes on, with the row it sends.
LEMMA SendGoesOn ==
    ASSUME NotesInv, faults \in Nat, faults' \in Nat, faults <= faults',
           sending # 0, NEW row \in Note,
           notes' = [notes EXCEPT ![sending] = row], sending' \in {0, sending},
           row.retryCount = 0,
           row.status = "PENDING" => sending' = sending,
           sending' # 0 => row.status = "PENDING",
           UNCHANGED <<noteSeen, audience, batch>>
    PROVE  NotesInv'
<1>0. NotesTyped /\ RowsStand /\ sending \in DOMAIN notes /\ MAX_RETRIES \in Nat \ {0}
  BY CareAssumption DEF NotesInv, NotesTyped, Notify!NotificationsConstants
<1>1. /\ notes' \in Seq(Note) /\ DOMAIN notes' = DOMAIN notes /\ notes'[sending] = row
      /\ \A j \in DOMAIN notes \ {sending} : notes'[j] = notes[j]
  BY <1>0, RowWritten
<1>2. NotesTyped'
  BY <1>0, <1>1 DEF NotesTyped
<1>3. \A i \in DOMAIN notes' :
        /\ notes'[i].status = "PENDING" =>
             notes'[i].retryCount = 0 /\ (sending' = i \/ faults' > 0)
        /\ notes'[i].status = "FAILED" => notes'[i].retryCount < MAX_RETRIES
  <2> TAKE i \in DOMAIN notes'
  <2>1. CASE i = sending
    BY <1>0, <1>1, <2>1
  <2>2. CASE i # sending
    BY <1>0, <1>1, <2>2 DEF RowsStand
  <2> QED BY <2>1, <2>2
<1>4. \A r \in Runs : \A i \in DOMAIN batch[r] :
        i \in DOMAIN notes' /\ notes'[i].status # "PENDING" /\ batch[r][i] \in Nat
  BY <1>0, <1>1 DEF RowsStand
<1>5. sending' # 0 => notes'[sending'].status = "PENDING"
  BY <1>1
<1>6. RowsStand'
  BY <1>3, <1>4, <1>5 DEF RowsStand
<1> QED BY <1>2, <1>6 DEF NotesInv

LEMMA NoteCreated ==
    ASSUME NotesInv, faults \in Nat, NEW to \in audience, Notify!CreateNote(to)
    PROVE  NotesInv'
<1>0. /\ NotesTyped /\ RowsStand /\ MAX_RETRIES \in Nat \ {0}
      /\ DOMAIN notes = 1 .. Len(notes) /\ Len(notes) \in Nat
  BY CareAssumption, NotesRead DEF NotesInv, Notify!NotificationsConstants
<1>1. PICK row : row = [event |-> noteSeen, to |-> to, channel |-> Notify!getPreferredChannel,
                        status |-> "PENDING", retryCount |-> 0]
  OBVIOUS
<1>2. row \in Note /\ row.status = "PENDING" /\ row.retryCount = 0
  BY <1>0, <1>1, ChannelTyped DEF Note, NotesTyped, Statuses
<1>3. /\ notes' = Append(notes, row) /\ sending = 0 /\ audience' = audience \ {to}
      /\ sending' = Len(notes') /\ UNCHANGED <<noteSeen, batch, faults>>
  BY <1>1 DEF Notify!CreateNote
<1>4. /\ notes' \in Seq(Note) /\ Len(notes') = Len(notes) + 1
      /\ DOMAIN notes' = 1 .. Len(notes) + 1 /\ notes'[Len(notes) + 1] = row
      /\ \A i \in DOMAIN notes : notes'[i] = notes[i]
  BY <1>0, <1>2, <1>3 DEF NotesTyped
<1>5. NotesTyped'
  BY <1>0, <1>3, <1>4 DEF NotesTyped
<1>6. \A i \in DOMAIN notes' :
        /\ notes'[i].status = "PENDING" =>
             notes'[i].retryCount = 0 /\ (sending' = i \/ faults' > 0)
        /\ notes'[i].status = "FAILED" => notes'[i].retryCount < MAX_RETRIES
  <2> TAKE i \in DOMAIN notes'
  <2>1. CASE i = Len(notes) + 1
    BY <1>2, <1>3, <1>4, <2>1
  <2>2. CASE i # Len(notes) + 1
    <3>1. i \in DOMAIN notes /\ notes'[i] = notes[i] /\ i # 0
      BY <1>0, <1>4, <2>2
    <3> QED BY <1>0, <1>3, <3>1 DEF RowsStand
  <2> QED BY <2>1, <2>2
<1>7. \A r \in Runs : \A i \in DOMAIN batch[r] :
        i \in DOMAIN notes' /\ notes'[i].status # "PENDING" /\ batch[r][i] \in Nat
  BY <1>0, <1>4 DEF RowsStand
<1>8. RowsStand'
  BY <1>2, <1>3, <1>4, <1>6, <1>7 DEF RowsStand
<1> QED BY <1>5, <1>8 DEF NotesInv

LEMMA RunStarted ==
    ASSUME NotesInv, NEW r \in Runs, Notify!StartRun(r)
    PROVE  NotesInv'
<1>0. NotesTyped /\ RowsStand
  BY DEF NotesInv
<1>1. PICK rows : rows = [i \in {i \in DOMAIN notes : Notify!Retryable(i)} |-> notes[i].retryCount]
  OBVIOUS
<1>2. /\ batch' = [batch EXCEPT ![r] = rows]
      /\ UNCHANGED <<notes, noteSeen, audience, sending, faults>>
  BY <1>1 DEF Notify!StartRun
<1>3. \A i \in DOMAIN rows : i \in DOMAIN notes /\ notes[i].status # "PENDING" /\ rows[i] \in Nat
  BY <1>0, <1>1, NotesRead DEF Notify!Retryable, Note
<1>4. batch'[r] = rows /\ (\A q \in Runs \ {r} : batch'[q] = batch[q])
      /\ batch' = [q \in Runs |-> batch'[q]]
  BY <1>0, <1>2 DEF NotesTyped
<1>5. NotesTyped'
  BY <1>0, <1>2, <1>4 DEF NotesTyped
<1>6. RowsStand'
  BY <1>0, <1>2, <1>3, <1>4 DEF RowsStand
<1> QED BY <1>5, <1>6 DEF NotesInv

LEMMA RowRetried ==
    ASSUME NotesInv, NEW r \in Runs, NEW success \in BOOLEAN, Notify!retryNotification(r, success)
    PROVE  NotesInv'
<1>0. NotesTyped /\ RowsStand /\ MAX_RETRIES \in Nat \ {0}
  BY CareAssumption DEF NotesInv, Notify!NotificationsConstants
<1>1. PICK i \in DOMAIN batch[r] :
        /\ notes' = [notes EXCEPT ![i] =
                       [notes[i] EXCEPT !.retryCount = batch[r][i] + 1,
                          !.status = Notify!AfterRetry(notes[i].status, success, batch[r][i] + 1)]]
        /\ batch' = [batch EXCEPT ![r] = [j \in DOMAIN batch[r] \ {i} |-> batch[r][j]]]
        /\ UNCHANGED <<noteSeen, audience, sending, faults>>
  <2>1. PICK i \in DOMAIN batch[r] :
          /\ notes' = [notes EXCEPT ![i] =
                         [@ EXCEPT !.retryCount = batch[r][i] + 1,
                            !.status = Notify!AfterRetry(notes[i].status, success, batch[r][i] + 1)]]
          /\ batch' = [batch EXCEPT ![r] = [j \in DOMAIN @ \ {i} |-> @[j]]]
    BY DEF Notify!retryNotification
  <2>2. i \in DOMAIN notes /\ notes[i] \in Note
    BY <1>0, NotesRead DEF RowsStand
  <2>3. notes' = [notes EXCEPT ![i] =
                    [notes[i] EXCEPT !.retryCount = batch[r][i] + 1,
                       !.status = Notify!AfterRetry(notes[i].status, success, batch[r][i] + 1)]]
    BY <2>1, <2>2 DEF Note
  <2>4. batch' = [batch EXCEPT ![r] = [j \in DOMAIN batch[r] \ {i} |-> batch[r][j]]]
    BY <1>0, <2>1 DEF NotesTyped
  <2>5. UNCHANGED <<noteSeen, audience, sending, faults>>
    BY DEF Notify!retryNotification
  <2> QED BY <2>3, <2>4, <2>5
<1>2. /\ i \in DOMAIN notes /\ notes[i] \in Note /\ notes[i].status # "PENDING"
      /\ batch[r][i] \in Nat
  BY <1>0, NotesRead DEF RowsStand
<1>3. PICK count \in Nat : count = batch[r][i] + 1
  BY <1>2
<1>4. PICK status : status = Notify!AfterRetry(notes[i].status, success, count)
  OBVIOUS
<1>5. /\ status \in Statuses /\ status # "PENDING"
      /\ status = "FAILED" => count < MAX_RETRIES
  BY <1>0, <1>2, <1>4 DEF Notify!AfterRetry, Statuses, Note
<1>6. PICK row : row = [notes[i] EXCEPT !.retryCount = count, !.status = status]
  OBVIOUS
<1>7. row \in Note /\ row.status = status /\ row.retryCount = count
  BY <1>2, <1>5, <1>6 DEF Note
<1>8. /\ notes' \in Seq(Note) /\ DOMAIN notes' = DOMAIN notes /\ notes'[i] = row
      /\ \A j \in DOMAIN notes \ {i} : notes'[j] = notes[j]
  <2>1. notes' = [notes EXCEPT ![i] = row]
    BY <1>1, <1>3, <1>4, <1>6
  <2> QED BY <1>0, <1>2, <1>7, <2>1, RowWritten
<1>9. /\ batch' = [q \in Runs |-> batch'[q]]
      /\ \A q \in Runs : \A j \in DOMAIN batch'[q] :
            j \in DOMAIN batch[q] /\ batch'[q][j] = batch[q][j]
  BY <1>0, <1>1 DEF NotesTyped
<1>10. NotesTyped'
  BY <1>0, <1>1, <1>8, <1>9 DEF NotesTyped
<1>11. RowsStand'
  <2>1. \A j \in DOMAIN notes' : notes'[j].status = "PENDING" <=> notes[j].status = "PENDING"
    BY <1>2, <1>5, <1>7, <1>8
  <2>2. sending' # 0 => notes'[sending'].status = "PENDING"
    BY <1>0, <1>1, <1>8, <2>1 DEF RowsStand, NotesTyped
  <2>3. \A j \in DOMAIN notes' :
          /\ notes'[j].status = "PENDING" =>
               notes'[j].retryCount = 0 /\ (sending' = j \/ faults' > 0)
          /\ notes'[j].status = "FAILED" => notes'[j].retryCount < MAX_RETRIES
    BY <1>0, <1>1, <1>5, <1>7, <1>8 DEF RowsStand
  <2>4. \A q \in Runs : \A j \in DOMAIN batch'[q] :
          j \in DOMAIN notes' /\ notes'[j].status # "PENDING" /\ batch'[q][j] \in Nat
    BY <1>0, <1>8, <1>9, <2>1 DEF RowsStand
  <2> QED BY <2>2, <2>3, <2>4 DEF RowsStand
<1> QED BY <1>10, <1>11 DEF NotesInv

LEMMA NotesStep ==
    ASSUME AlertsTyped, NotesInv, [Next]_vars
    PROVE  NotesInv'
<1>0. /\ faults \in Nat /\ faults' \in Nat /\ faults' \in {faults, faults + 1} /\ faults <= faults'
      /\ NotesTyped /\ RowsStand
  <2>1. faults \in Nat /\ faults' \in {faults, faults + 1} /\ NotesTyped /\ RowsStand
    BY FaultStep DEF AlertsTyped, NotesInv
  <2> QED BY <2>1
<1>1. ASSUME UNCHANGED <<notes, noteSeen, audience, sending, batch>> PROVE NotesInv'
  BY <1>0, <1>1 DEF NotesInv, NotesTyped, RowsStand
<1>2. ASSUME NEW channels \in Preferences, Notify!updatePreferences(channels) PROVE NotesInv'
  BY <1>1, <1>2 DEF Notify!updatePreferences
<1>3. ASSUME Notify!Receive PROVE NotesInv'
  <2>1. /\ noteSeen' = noteSeen + 1 /\ UNCHANGED <<notes, sending, batch, faults>>
        /\ audience' = Notify!Recipients(Inbox[noteSeen'])
    BY <1>3 DEF Notify!Receive, Inbox
  <2>2. audience' \subseteq Managers \cup {"owner", "user"}
    BY <2>1 DEF Notify!Recipients
  <2> QED BY <1>0, <2>1, <2>2 DEF NotesInv, NotesTyped, RowsStand
<1>4. ASSUME NEW to \in audience, Notify!CreateNote(to) PROVE NotesInv'
  BY <1>0, <1>4, NoteCreated
<1>5. ASSUME Notify!SendDelivers PROVE NotesInv'
  <2>1. sending # 0 /\ notes[sending] \in Note /\ notes[sending].retryCount = 0
    BY <1>0, <1>5, NotesRead DEF Notify!SendDelivers, NotesTyped, RowsStand
  <2>2. PICK row : row = [notes[sending] EXCEPT !.status = "DELIVERED"]
    OBVIOUS
  <2>3. row \in Note /\ row.retryCount = 0 /\ row.status = "DELIVERED"
    BY <2>1, <2>2 DEF Note, Statuses
  <2>4. /\ notes' = [notes EXCEPT ![sending] = row] /\ sending' = 0
        /\ UNCHANGED <<noteSeen, audience, batch>>
    BY <1>5, <2>2 DEF Notify!SendDelivers, Notify!Conclude
  <2> QED BY <1>0, <2>1, <2>3, <2>4, SendGoesOn
<1>6. ASSUME Notify!SendFails PROVE NotesInv'
  <2>1. /\ sending # 0 /\ notes[sending] \in Note
        /\ notes[sending].retryCount = 0 /\ notes[sending].status = "PENDING"
    BY <1>0, <1>6, NotesRead DEF Notify!SendFails, NotesTyped, RowsStand
  <2>2. CASE notes[sending].channel = "PUSH"
    <3>1. PICK row : row = [notes[sending] EXCEPT !.status = "FAILED"]
      OBVIOUS
    <3>2. row \in Note /\ row.retryCount = 0 /\ row.status = "FAILED"
      BY <2>1, <3>1 DEF Note, Statuses
    <3>3. /\ notes' = [notes EXCEPT ![sending] = row] /\ sending' = 0
          /\ UNCHANGED <<noteSeen, audience, batch>>
      BY <1>6, <2>2, <3>1 DEF Notify!SendFails, Notify!Conclude
    <3> QED BY <1>0, <2>1, <3>2, <3>3, SendGoesOn
  <2>3. CASE notes[sending].channel # "PUSH"
    <3>1. PICK row : row = [notes[sending] EXCEPT !.channel = "PUSH"]
      OBVIOUS
    <3>2. row \in Note /\ row.retryCount = 0 /\ row.status = "PENDING"
      BY <2>1, <3>1 DEF Note, Channel
    <3>3. /\ notes' = [notes EXCEPT ![sending] = row] /\ sending' = sending
          /\ UNCHANGED <<noteSeen, audience, batch>>
      BY <1>6, <2>3, <3>1 DEF Notify!SendFails
    <3> QED BY <1>0, <2>1, <3>2, <3>3, SendGoesOn
  <2> QED BY <2>2, <2>3
<1>7. ASSUME Notify!SendRejected PROVE NotesInv'
  <2>1. /\ audience' = {} /\ sending' = 0 /\ faults' > 0 /\ UNCHANGED <<notes, noteSeen, batch>>
    BY <1>0, <1>7 DEF Notify!SendRejected
  <2> QED BY <1>0, <2>1 DEF NotesInv, NotesTyped, RowsStand
<1>8. ASSUME NEW r \in Runs, Notify!RetryStep(r) PROVE NotesInv'
  BY <1>8, RunStarted, RowRetried DEF Notify!RetryStep
<1>9. ASSUME NEW r \in Runs, Notify!RunRejected(r) PROVE NotesInv'
  <2>1. /\ batch' = [batch EXCEPT ![r] = <<>>] /\ UNCHANGED <<notes, noteSeen, audience, sending>>
        /\ faults' >= faults
    BY <1>0, <1>9 DEF Notify!RunRejected
  <2>2. batch'[r] = <<>> /\ (\A q \in Runs \ {r} : batch'[q] = batch[q])
        /\ batch' = [q \in Runs |-> batch'[q]]
    BY <1>0, <2>1 DEF NotesTyped
  <2>3. \A q \in Runs : \A i \in DOMAIN batch'[q] : q # r
    BY <2>2
  <2> QED BY <1>0, <2>1, <2>2, <2>3 DEF NotesInv, NotesTyped, RowsStand
<1>10. ASSUME Restart PROVE NotesInv'
  <2>1. /\ audience' = {} /\ sending' = 0 /\ batch' = [r \in Runs |-> <<>>] /\ UNCHANGED notes
        /\ noteSeen' \in {noteSeen, noteSeen - 1}
    BY <1>10 DEF Restart, Notify!RestartNotifications
  <2>2. faults' > 0
    BY <1>0, <1>10 DEF Restart, RestartHealth
  <2>3. \A r \in Runs : DOMAIN batch'[r] = {}
    BY <2>1
  <2> QED BY <1>0, <2>1, <2>2, <2>3 DEF NotesInv, NotesTyped, RowsStand
<1>11. ASSUME NotifySide PROVE NotesInv'
  <2>1. ASSUME NEW type \in Mail, Post(type) PROVE NotesInv'
    BY <1>1, <2>1 DEF Post
  <2> QED BY <1>11, <1>2, <1>3, <1>4, <1>5, <1>6, <1>7, <1>8, <1>9, <2>1
          DEF NotifySide, Notify!NotificationWork, Notify!SendStep
<1> QED BY <1>1, <1>10, <1>11
        DEF Next, vars, noteVars, Vehicle, HealthSide, ScheduleSide, PaperSide

Sent(e, to) == {i \in DOMAIN notes : notes[i].event = e /\ notes[i].to = to}

\* Without a fault, every recipient of an event that was received has one row of it,
\* or is still to be sent to; no row is of an event to come.
SentInv ==
    faults = 0 =>
        /\ noteSeen \in 0 .. Len(Inbox)
        /\ \A i \in DOMAIN notes : notes[i].event <= noteSeen
        /\ \A e \in 1 .. noteSeen : \A to \in Notify!Recipients(Inbox[e]) :
            IF e = noteSeen /\ to \in audience
              THEN Sent(e, to) = {}
              ELSE \E i : Sent(e, to) = {i}

\* An event keeps its recipients.
LEMMA RecipientsStand ==
    ASSUME AlertsTyped, MailInv, [Next]_vars
    PROVE  \A e \in 1 .. Len(Inbox) : Notify!Recipients(Inbox[e])' = Notify!Recipients(Inbox[e])
<1>1. \A e \in 1 .. Len(Inbox) : Inbox'[e] = Inbox[e]
  BY InboxGrows
<1>2. UNCHANGED owned
  BY FaultStep
<1> QED BY <1>1, <1>2 DEF Notify!Recipients

\* Rows that keep their event and their recipient.
LEMMA SentKept ==
    ASSUME AlertsTyped, MailInv, NotesInv, SentInv, [Next]_vars,
           UNCHANGED <<noteSeen, audience>>, DOMAIN notes' = DOMAIN notes,
           \A i \in DOMAIN notes : notes'[i].event = notes[i].event /\ notes'[i].to = notes[i].to
    PROVE  SentInv'
<1> SUFFICES ASSUME faults' = 0
             PROVE  /\ noteSeen' \in 0 .. Len(Inbox')
                    /\ \A i \in DOMAIN notes' : notes'[i].event <= noteSeen'
                    /\ \A e \in 1 .. noteSeen' : \A to \in Notify!Recipients(Inbox[e])' :
                        IF e = noteSeen' /\ to \in audience'
                          THEN Sent(e, to)' = {}
                          ELSE \E i : Sent(e, to)' = {i}
  BY DEF SentInv
<1>1. faults = 0
  BY FaultStep DEF AlertsTyped
<1>2. noteSeen \in 0 .. Len(Inbox) /\ noteSeen' = noteSeen
  BY <1>1 DEF SentInv
<1>3. Len(Inbox) \in Nat /\ Len(Inbox') \in Nat /\ Len(Inbox) <= Len(Inbox')
  BY InboxGrows
<1>4. noteSeen' \in 0 .. Len(Inbox') /\ \A e \in 1 .. noteSeen' : e \in 1 .. Len(Inbox)
  BY <1>2, <1>3
<1>5. \A e, to : Sent(e, to)' = Sent(e, to)
  BY DEF Sent
<1>6. \A i \in DOMAIN notes' : notes'[i].event <= noteSeen'
  BY <1>1 DEF SentInv
<1>7. ASSUME NEW e \in 1 .. noteSeen', NEW to \in Notify!Recipients(Inbox[e])'
      PROVE  IF e = noteSeen' /\ to \in audience'
               THEN Sent(e, to)' = {}
               ELSE \E i : Sent(e, to)' = {i}
  <2>1. Notify!Recipients(Inbox[e])' = Notify!Recipients(Inbox[e])
    BY <1>4, <1>7, RecipientsStand
  <2>2. e \in 1 .. noteSeen /\ to \in Notify!Recipients(Inbox[e])
    BY <1>2, <1>7, <2>1
  <2> QED BY <1>1, <1>5, <2>2 DEF SentInv
<1> QED BY <1>4, <1>6, <1>7

LEMMA SentReceived ==
    ASSUME AlertsTyped, MailInv, NotesInv, SentInv, [Next]_vars, Notify!Receive
    PROVE  SentInv'
<1>1. /\ audience = {} /\ noteSeen < Len(Inbox) /\ noteSeen' = noteSeen + 1
      /\ audience' = Notify!Recipients(Inbox[noteSeen']) /\ UNCHANGED <<notes, faults>>
  BY DEF Notify!Receive, Notify!Handling, Inbox
<1> SUFFICES ASSUME faults' = 0
             PROVE  /\ noteSeen' \in 0 .. Len(Inbox')
                    /\ \A i \in DOMAIN notes' : notes'[i].event <= noteSeen'
                    /\ \A e \in 1 .. noteSeen' : \A to \in Notify!Recipients(Inbox[e])' :
                        IF e = noteSeen' /\ to \in audience'
                          THEN Sent(e, to)' = {}
                          ELSE \E i : Sent(e, to)' = {i}
  BY DEF SentInv
<1>2. faults = 0 /\ noteSeen \in 0 .. Len(Inbox)
  BY <1>1 DEF SentInv
<1>3. Len(Inbox) \in Nat /\ Len(Inbox') \in Nat /\ Len(Inbox) <= Len(Inbox')
  BY InboxGrows
<1>4. noteSeen' \in 0 .. Len(Inbox') /\ noteSeen' \in 1 .. Len(Inbox)
      /\ \A e \in 1 .. noteSeen' : e \in 1 .. Len(Inbox)
  BY <1>1, <1>2, <1>3
<1>5. \A e, to : Sent(e, to)' = Sent(e, to)
  BY <1>1 DEF Sent
<1>6. \A i \in DOMAIN notes : notes[i].event \in Int /\ notes[i].event <= noteSeen
  BY <1>2, NotesRead DEF SentInv, NotesInv, Note
<1>7. \A i \in DOMAIN notes' : notes'[i].event <= noteSeen'
  BY <1>1, <1>2, <1>6
<1>8. ASSUME NEW e \in 1 .. noteSeen', NEW to \in Notify!Recipients(Inbox[e])'
      PROVE  IF e = noteSeen' /\ to \in audience'
               THEN Sent(e, to)' = {}
               ELSE \E i : Sent(e, to)' = {i}
  <2>1. Notify!Recipients(Inbox[e])' = Notify!Recipients(Inbox[e])
    BY <1>4, <1>8, RecipientsStand
  <2>2. CASE e = noteSeen'
    <3>1. \A i \in DOMAIN notes : notes[i].event # e
      BY <1>1, <1>2, <1>6, <2>2
    <3>2. to \in audience'
      BY <1>1, <1>8, <2>1, <2>2
    <3>3. Sent(e, to) = {}
      BY <3>1 DEF Sent
    <3>4. Sent(e, to)' = {}
      BY <1>5, <3>3
    <3> QED BY <2>2, <3>2, <3>4
  <2>3. CASE e # noteSeen'
    <3>1. e \in 1 .. noteSeen
      BY <1>1, <1>2, <1>8, <2>3
    <3>2. \E i : Sent(e, to) = {i}
      BY <1>1, <1>2, <1>8, <2>1, <3>1 DEF SentInv
    <3> QED BY <1>5, <2>3, <3>2
  <2> QED BY <2>2, <2>3
<1> QED BY <1>4, <1>7, <1>8

LEMMA SentCreated ==
    ASSUME AlertsTyped, MailInv, NotesInv, SentInv, [Next]_vars,
           NEW addressee \in audience, Notify!CreateNote(addressee)
    PROVE  SentInv'
<1>1. PICK row : row = [event |-> noteSeen, to |-> addressee, channel |-> Notify!getPreferredChannel,
                        status |-> "PENDING", retryCount |-> 0]
  OBVIOUS
<1>2. /\ row.event = noteSeen /\ row.to = addressee
      /\ notes' = Append(notes, row) /\ audience' = audience \ {addressee}
      /\ UNCHANGED <<noteSeen, faults>>
  BY <1>1 DEF Notify!CreateNote
<1>3. /\ notes \in Seq(Note) /\ noteSeen \in Int
      /\ DOMAIN notes = 1 .. Len(notes) /\ Len(notes) \in Nat
  BY NotesRead DEF NotesInv, NotesTyped
<1>4. /\ DOMAIN notes' = 1 .. Len(notes) + 1 /\ notes'[Len(notes) + 1] = row
      /\ \A i \in DOMAIN notes : notes'[i] = notes[i]
  BY <1>2, <1>3
<1> SUFFICES ASSUME faults' = 0
             PROVE  /\ noteSeen' \in 0 .. Len(Inbox')
                    /\ \A i \in DOMAIN notes' : notes'[i].event <= noteSeen'
                    /\ \A e \in 1 .. noteSeen' : \A to \in Notify!Recipients(Inbox[e])' :
                        IF e = noteSeen' /\ to \in audience'
                          THEN Sent(e, to)' = {}
                          ELSE \E i : Sent(e, to)' = {i}
  BY DEF SentInv
<1>5. faults = 0 /\ noteSeen \in 0 .. Len(Inbox) /\ noteSeen' = noteSeen
  BY <1>2 DEF SentInv
<1>6. Len(Inbox) \in Nat /\ Len(Inbox') \in Nat /\ Len(Inbox) <= Len(Inbox')
  BY InboxGrows
<1>7. noteSeen' \in 0 .. Len(Inbox') /\ \A e \in 1 .. noteSeen' : e \in 1 .. Len(Inbox)
  BY <1>5, <1>6
<1>8. \A i \in DOMAIN notes' : notes'[i].event <= noteSeen'
  BY <1>2, <1>3, <1>4, <1>5 DEF SentInv
<1>9. Sent(noteSeen, addressee)' = Sent(noteSeen, addressee) \cup {Len(notes) + 1}
  BY <1>2, <1>3, <1>4 DEF Sent
<1>10. ASSUME NEW e, NEW to, <<e, to>> # <<noteSeen, addressee>>
       PROVE  Sent(e, to)' = Sent(e, to)
  <2>1. ~(row.event = e /\ row.to = to)
    BY <1>2, <1>10
  <2> QED BY <1>3, <1>4, <2>1 DEF Sent
<1>11. ASSUME NEW e \in 1 .. noteSeen', NEW to \in Notify!Recipients(Inbox[e])'
       PROVE  IF e = noteSeen' /\ to \in audience'
                THEN Sent(e, to)' = {}
                ELSE \E i : Sent(e, to)' = {i}
  <2>1. Notify!Recipients(Inbox[e])' = Notify!Recipients(Inbox[e])
    BY <1>7, <1>11, RecipientsStand
  <2>2. IF e = noteSeen /\ to \in audience
          THEN Sent(e, to) = {} ELSE \E i : Sent(e, to) = {i}
    BY <1>5, <1>11, <2>1 DEF SentInv
  <2>3. CASE <<e, to>> = <<noteSeen, addressee>>
    <3>1. e = noteSeen /\ to = addressee
      BY <2>3
    <3>2. Sent(noteSeen, addressee) = {}
      BY <2>2, <3>1
    <3>3. Sent(noteSeen, addressee)' = {Len(notes) + 1}
      BY <1>9, <3>2
    <3>4. to \notin audience'
      BY <1>2, <3>1
    <3>5. Sent(e, to)' = {Len(notes) + 1}
      BY <1>5, <3>1, <3>3 DEF Sent
    <3> QED BY <3>4, <3>5
  <2>4. CASE <<e, to>> # <<noteSeen, addressee>>
    <3>1. Sent(e, to)' = Sent(e, to)
      BY <1>10, <2>4
    <3> QED BY <1>2, <2>2, <2>4, <3>1
  <2> QED BY <2>3, <2>4
<1> QED BY <1>7, <1>8, <1>11

LEMMA SentStep ==
    ASSUME AlertsTyped, MailInv, NotesInv, SentInv, [Next]_vars
    PROVE  SentInv'
<1>0. NotesTyped /\ RowsStand /\ faults \in Nat /\ \A i \in DOMAIN notes : notes[i] \in Note
  BY NotesRead DEF NotesInv, AlertsTyped
<1>1. ASSUME UNCHANGED <<notes, noteSeen, audience>> PROVE SentInv'
  BY <1>1, SentKept
<1>2. ASSUME faults' > 0 PROVE SentInv'
  BY <1>2 DEF SentInv
<1>3. ASSUME Notify!SendDelivers \/ Notify!SendFails PROVE SentInv'
  <2>1. sending \in DOMAIN notes /\ notes[sending] \in Note
    BY <1>0, <1>3 DEF Notify!SendDelivers, Notify!SendFails, NotesTyped
  <2>2. /\ UNCHANGED <<noteSeen, audience>>
        /\ \/ UNCHANGED notes
           \/ \E status : notes' = [notes EXCEPT ![sending].status = status]
           \/ notes' = [notes EXCEPT ![sending].channel = "PUSH"]
    BY <1>3 DEF Notify!SendDelivers, Notify!SendFails, Notify!Conclude
  <2>3. /\ DOMAIN notes' = DOMAIN notes
        /\ \A i \in DOMAIN notes : /\ notes'[i].event = notes[i].event
                                   /\ notes'[i].to = notes[i].to
    BY <1>0, <2>1, <2>2 DEF Note
  <2> QED BY <2>2, <2>3, SentKept
<1>4. ASSUME NEW r \in Runs, NEW success \in BOOLEAN, Notify!retryNotification(r, success)
      PROVE  SentInv'
  <2>1. PICK i \in DOMAIN batch[r] :
          notes' = [notes EXCEPT ![i] =
                      [@ EXCEPT !.retryCount = batch[r][i] + 1,
                         !.status = Notify!AfterRetry(notes[i].status, success, batch[r][i] + 1)]]
    BY <1>4 DEF Notify!retryNotification
  <2>2. i \in DOMAIN notes /\ notes[i] \in Note
    BY <1>0 DEF RowsStand
  <2>3. /\ DOMAIN notes' = DOMAIN notes
        /\ \A j \in DOMAIN notes : /\ notes'[j].event = notes[j].event
                                   /\ notes'[j].to = notes[j].to
    BY <1>0, <2>1, <2>2 DEF Note
  <2>4. UNCHANGED <<noteSeen, audience>>
    BY <1>4 DEF Notify!retryNotification
  <2> QED BY <2>3, <2>4, SentKept
<1>5. ASSUME Notify!NotificationWork PROVE SentInv'
  <2>1. ASSUME NEW channels \in Preferences, Notify!updatePreferences(channels) PROVE SentInv'
    BY <1>1, <2>1 DEF Notify!updatePreferences
  <2>2. ASSUME Notify!SendRejected PROVE SentInv'
    BY <1>0, <1>2, <2>2 DEF Notify!SendRejected
  <2>3. ASSUME NEW r \in Runs, Notify!StartRun(r) \/ Notify!RunRejected(r) PROVE SentInv'
    BY <1>1, <2>3 DEF Notify!StartRun, Notify!RunRejected
  <2> QED BY <1>3, <1>4, <1>5, <2>1, <2>2, <2>3, SentReceived, SentCreated
          DEF Notify!NotificationWork, Notify!SendStep, Notify!RetryStep
<1>6. ASSUME NEW type \in Mail, Post(type) PROVE SentInv'
  BY <1>1, <1>6 DEF Post
<1>7. ASSUME Restart PROVE SentInv'
  BY <1>0, <1>2, <1>7 DEF Restart, RestartHealth
<1> QED BY <1>1, <1>5, <1>6, <1>7
        DEF Next, NotifySide, vars, noteVars, Vehicle, HealthSide, ScheduleSide, PaperSide

LEMMA NotesInit == Init => MailInv /\ NotesInv /\ SentInv
<1> SUFFICES ASSUME Init PROVE MailInv /\ NotesInv /\ SentInv
  OBVIOUS
<1>1. /\ alerts = <<>> /\ posted = <<>> /\ notes = <<>> /\ noteSeen = 0
      /\ audience = {} /\ sending = 0 /\ batch = [r \in Runs |-> <<>>]
  BY DEF Init, HealthInit, Notify!NoteInit
<1>2. /\ alerts \in Seq(Alert) /\ posted \in Seq(Mail) /\ notes \in Seq(Note)
      /\ DOMAIN notes = {} /\ \A r \in Runs : DOMAIN batch[r] = {}
  BY <1>1
<1>3. Inbox \in Seq(Types)
  BY <1>2, InboxTyped
<1>4. Len(Inbox) \in Nat
  BY <1>3
<1>5. MailInv
  BY <1>1, <1>2 DEF MailInv
<1>6. NotesInv
  BY <1>1, <1>2 DEF NotesInv, NotesTyped, RowsStand
<1>7. SentInv
  BY <1>1, <1>2, <1>4 DEF SentInv
<1> QED BY <1>5, <1>6, <1>7

\* An instance has its own name for the cardinality of a set.
LEMMA NotifyCounts == \A S : Notify!Cardinality(S) = Cardinality(S)
BY DEF Notify!Cardinality, Cardinality

\* No notification, and no recipient of an event, is left behind (the handlers and
\* send, retryFailedNotifications): whatever the channels answer, and however the
\* runs of the retry job overlap.
THEOREM NobodyLeftBehind == Spec => []NoneLeftBehind
<1>1. NotesInv /\ SentInv => NoneLeftBehind
  <2> SUFFICES ASSUME NotesInv, SentInv PROVE NoneLeftBehind
    OBVIOUS
  <2>1. Notify!RowsConcluded
    BY DEF NotesInv, RowsStand, Notify!RowsConcluded
  <2>2. \A i : Notify!Cardinality({i}) = 1
    BY NotifyCounts, FS_Singleton
  <2>3. ASSUME faults = 0, NEW e \in 1 .. noteSeen, NEW to \in Notify!Recipients(Inbox[e])
        PROVE  IF e = noteSeen /\ to \in audience
                 THEN \A i \in DOMAIN notes : notes[i].event # e \/ notes[i].to # to
                 ELSE Notify!Cardinality(Sent(e, to)) = 1
    <3>1. IF e = noteSeen /\ to \in audience
            THEN Sent(e, to) = {} ELSE \E i : Sent(e, to) = {i}
      BY <2>3 DEF SentInv
    <3>2. CASE e = noteSeen /\ to \in audience
      <4>1. Sent(e, to) = {}
        BY <3>1, <3>2
      <4>2. \A i \in DOMAIN notes : notes[i].event # e \/ notes[i].to # to
        BY <4>1 DEF Sent
      <4> QED BY <3>2, <4>2
    <3>3. CASE ~(e = noteSeen /\ to \in audience)
      BY <2>2, <3>1, <3>3
    <3> QED BY <3>2, <3>3
  <2>4. Notify!AllSentTo
    BY <2>3 DEF Notify!AllSentTo, Sent, Inbox
  <2> QED BY <2>1, <2>4 DEF NoneLeftBehind, Notify!NoneLeftBehind
<1>2. ScoreInv /\ [Next]_vars => ScoreInv'
  BY ScoreStep
<1>3. ScoreInv /\ AlertsTyped /\ MailInv /\ NotesInv /\ SentInv /\ [Next]_vars
        => AlertsTyped' /\ MailInv' /\ NotesInv' /\ SentInv'
  BY AlertsTypedStep, MailStep, NotesStep, SentStep
<1> QED BY ScoreInit, AlertsInit, NotesInit, <1>1, <1>2, <1>3, PTL DEF Spec
=============================================================================
