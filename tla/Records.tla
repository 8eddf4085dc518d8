------------------------------ MODULE Records ------------------------------
(***************************************************************************)
(* What is kept on file of one vehicle: the fields of its record with      *)
(* their audit trail (VehicleRecordsService.update), its documents and the *)
(* daily reminder of those about to expire, and the photos of its job      *)
(* cards (DocumentsService).  Files, formats and sizes are left out: an    *)
(* upload that fails their checks is refused without a write.              *)
(*                                                                         *)
(* Time is counted in ticks from midnight; the job runs once a day.        *)
(***************************************************************************)
EXTENDS Naturals, Sequences

CONSTANTS
    Fields,         \* the fields of the record that are audited
    Clearable,      \* those an update may empty
    Values, NoValue,
    Documents,      \* documents that may be uploaded
    Dates, NoDate,  \* dates of issue and of expiry
    Cards,          \* the vehicle's job cards
    Requests,       \* HTTP requests that can be in flight at once
    MAX_PHOTOS_PER_JOB_CARD,
    DayTicks,       \* ticks of a day
    RunTick,        \* the tick at which the job runs: nine in the morning
    WindowTicks,    \* how far checkDocumentExpiry looks ahead: 30 days
    MaxClock,       \* bound: ticks that pass
    MaxOps,         \* bound: updates and photos
    MaxFaults       \* bound: rejected database calls and restarts

\* What Care assumes of them.
RecordsConstants ==
    /\ Clearable \subseteq Fields /\ NoValue \notin Values
    /\ Dates \subseteq Nat /\ NoDate \notin Dates
    /\ DayTicks \in Nat \ {0} /\ RunTick \in 0 .. DayTicks - 1
    /\ {WindowTicks, MAX_PHOTOS_PER_JOB_CARD, MaxClock, MaxOps, MaxFaults} \subseteq Nat

VARIABLES
    owned,          \* the vehicle has a current owner
    record,         \* VehicleRecord, its audited fields
    trail,          \* per field, its VehicleAuditEntry rows
    documents,      \* VehicleDocument: expiryDate and createdAt
    photos,         \* per card, the number of its JobCardPhoto rows
    clock,
    jobDue,         \* the run of checkDocumentExpiry is still to start
    expiring,       \* the documents it has read and not yet announced
    announced,      \* documents with a document.expiry-reminder published
    desk,           \* the requests in flight, with what they read
    ops,            \* updates and photos begun
    raced,          \* history: "update", or a card, two requests worked on at once
    faults

fileVars == <<record, trail, documents, photos>>
jobVars == <<clock, jobDue, expiring, announced>>
recordVars == <<fileVars, jobVars, desk, ops, raced>>

NoDocument == [expiry |-> NoDate, at |-> 0]
Idle == [pc |-> "idle"]

RecordsInit ==
    /\ record = [f \in Fields |-> NoValue]
    /\ trail = [f \in Fields |-> <<>>]
    /\ documents = [d \in Documents |-> NoDocument]
    /\ photos = [c \in Cards |-> 0]
    /\ clock = 0 /\ jobDue = (RunTick = 0)
    /\ expiring = {} /\ announced = {}
    /\ desk = [r \in Requests |-> Idle]
    /\ ops = 0 /\ raced = {}

-----------------------------------------------------------------------------
(* Requests. *)

\* A request has read what it needs and goes on to its write on `what`.
Goes(r, what, job) ==
    /\ desk[r] = Idle /\ ops < MaxOps
    /\ ops' = ops + 1
    /\ desk' = [desk EXCEPT ![r] = job]
    /\ raced' = raced \cup {what : q \in {q \in Requests : desk[q] # Idle /\ desk[q].on = what}}
    /\ UNCHANGED <<fileVars, jobVars, faults>>

Ends(r) ==
    /\ desk' = [desk EXCEPT ![r] = Idle]
    /\ UNCHANGED <<jobVars, documents, ops, raced, faults>>

\* What a form may ask for: a value, or none, for some of the fields.
Forms == UNION {[fields -> Values \cup {NoValue}] : fields \in SUBSET Fields}

\* trackChange: the fields of the form that differ from the record as read.
Changed(form, existing) ==
    {f \in DOMAIN form : form[f] # existing[f] /\ (form[f] = NoValue => f \in Clearable)}

ReadRecord(r, form) ==
    LET changed == Changed(form, record) IN
    /\ changed # {}
    /\ Goes(r, "update", [pc |-> "update", on |-> "update", changes |->
              [f \in changed |-> [previous |-> record[f], new |-> form[f]]]])

\* Mutant: a field that was emptied is not logged.
WriteRecordLogValues(r) ==
    LET changes == desk[r].changes IN
    /\ desk[r].pc = "update"
    /\ record' = [f \in Fields |->
            IF f \in DOMAIN changes THEN changes[f].new ELSE record[f]]
    /\ trail' = [f \in Fields |->
            IF f \in DOMAIN changes /\ changes[f].new # NoValue
              THEN Append(trail[f], changes[f]) ELSE trail[f]]
    /\ Ends(r)
    /\ UNCHANGED photos

\* The transaction: the record, and an audit entry for each field changed.
WriteRecord(r) ==
    LET changes == desk[r].changes IN
    /\ desk[r].pc = "update"
    /\ record' = [f \in Fields |->
            IF f \in DOMAIN changes THEN changes[f].new ELSE record[f]]
    /\ trail' = [f \in Fields |->
            IF f \in DOMAIN changes THEN Append(trail[f], changes[f]) ELSE trail[f]]
    /\ Ends(r)
    /\ UNCHANGED photos

\* createPhoto counts the photos of the card, then adds one.
CountPhotos(r, c) ==
    /\ photos[c] < MAX_PHOTOS_PER_JOB_CARD
    /\ Goes(r, c, [pc |-> "photo", on |-> c])

AddPhoto(r) ==
    /\ desk[r].pc = "photo"
    /\ photos' = [photos EXCEPT ![desk[r].on] = @ + 1]
    /\ Ends(r)
    /\ UNCHANGED <<record, trail>>

\* createDocument: a document is not issued after it expires.
CreateDocument(d, issue, expiry) ==
    /\ documents[d] = NoDocument
    /\ expiry \in Dates /\ issue <= expiry
    /\ documents' = [documents EXCEPT ![d] = [expiry |-> expiry, at |-> clock]]
    /\ UNCHANGED <<record, trail, photos, jobVars, desk, ops, raced, faults>>

-----------------------------------------------------------------------------
(* checkDocumentExpiry. *)

\* Mutant: a document is noticed on the first day of its window only.
EntersWindow(d) ==
    /\ documents[d] # NoDocument
    /\ documents[d].expiry \in
            clock + WindowTicks - DayTicks + 1 .. clock + WindowTicks

ExpiresSoon(d) ==
    /\ documents[d] # NoDocument
    /\ documents[d].expiry \in clock .. clock + WindowTicks

\* The documents are read with the owner; without one there is nobody to tell.
ReadExpiring ==
    /\ jobDue
    /\ jobDue' = FALSE
    /\ expiring' = IF owned THEN {d \in Documents : ExpiresSoon(d)} ELSE {}
    /\ UNCHANGED <<fileVars, clock, announced, desk, ops, raced, faults>>

Announce(d) ==
    /\ d \in expiring
    /\ announced' = announced \cup {d}
    /\ expiring' = expiring \ {d}
    /\ UNCHANGED <<fileVars, clock, jobDue, desk, ops, raced, faults>>

\* A publish that rejects is caught: the job goes on with the next document.
AnnounceRejected(d) ==
    /\ d \in expiring
    /\ faults < MaxFaults
    /\ faults' = faults + 1
    /\ expiring' = expiring \ {d}
    /\ UNCHANGED <<fileVars, clock, jobDue, announced, desk, ops, raced>>

\* A tick is longer than a run.
PaperTick ==
    /\ clock < MaxClock
    /\ ~jobDue /\ expiring = {}
    /\ clock' = clock + 1
    /\ jobDue' = (clock' % DayTicks = RunTick)
    /\ UNCHANGED <<fileVars, expiring, announced, desk, ops, raced, faults>>

-----------------------------------------------------------------------------
\* The job's query rejects, and today's run is over; or a request's call does.
JobRejected ==
    /\ jobDue
    /\ faults < MaxFaults
    /\ faults' = faults + 1
    /\ jobDue' = FALSE
    /\ UNCHANGED <<fileVars, clock, expiring, announced, desk, ops, raced>>

RequestRejected(r) ==
    /\ desk[r] # Idle
    /\ faults < MaxFaults
    /\ faults' = faults + 1
    /\ desk' = [desk EXCEPT ![r] = Idle]
    /\ UNCHANGED <<fileVars, jobVars, ops, raced>>

\* A restart ends the requests and the run; it does not start another one.
RestartRecords ==
    /\ desk' = [r \in Requests |-> Idle]
    /\ jobDue' = FALSE /\ expiring' = {}
    /\ UNCHANGED <<fileVars, clock, announced, ops, raced>>

RecordWork ==
    \/ \E r \in Requests :
        \/ \E form \in Forms : ReadRecord(r, form)
        \/ \E c \in Cards : CountPhotos(r, c)
        \/ WriteRecord(r) \/ AddPhoto(r) \/ RequestRejected(r)
    \/ \E d \in Documents :
        \/ \E issue, expiry \in Dates : CreateDocument(d, issue, expiry)
        \/ Announce(d) \/ AnnounceRejected(d)
    \/ ReadExpiring \/ PaperTick \/ JobRejected

-----------------------------------------------------------------------------
(* Properties. *)

\* The audit trail explains the record: whatever updates overlap, its last entry
\* is the value the field has; and, until two updates overlap, each entry starts
\* from the value the entry before it ended with.
TrailReplays ==
    \A f \in Fields :
        LET before(i) == IF i = 1 THEN NoValue ELSE trail[f][i - 1].new IN
        /\ record[f] = before(Len(trail[f]) + 1)
        /\ \A i \in DOMAIN trail[f] :
            \/ "update" \in raced
            \/ trail[f][i].previous = before(i) /\ trail[f][i].new # before(i)

\* A document that was on file a day before it expired has been announced to
\* the owner by then, each failure costing one day more (the window is longer
\* than a day for that).
ExpiryAnnounced ==
    LET needed == (faults + 1) * DayTicks IN
    owned /\ needed <= WindowTicks =>
        \A d \in Documents :
            /\ documents[d] # NoDocument
            /\ documents[d].at + needed <= documents[d].expiry
            /\ documents[d].expiry < clock
            => d \in announced

\* A card has no more photos than allowed, unless two were counted at once.
PhotosKept ==
    \A c \in Cards : photos[c] <= MAX_PHOTOS_PER_JOB_CARD \/ c \in raced

\* What DocumentsService promises of the files it keeps.
FilesInOrder == ExpiryAnnounced /\ PhotosKept
=============================================================================
