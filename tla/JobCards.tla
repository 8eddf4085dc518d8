------------------------------ MODULE JobCards ------------------------------
(***************************************************************************)
(* JobCardsService: the job card state machine, the parts logged on a      *)
(* card, and the events a completion or a cancellation publishes.          *)
(*                                                                         *)
(* A request reads the card, decides, and writes by id: between the read   *)
(* and the write other requests run, and nothing is checked again.  Each   *)
(* of its database calls is a step here.                                   *)
(***************************************************************************)
EXTENDS Outbox

CONSTANTS
    Requests,       \* HTTP requests that can be in flight at once
    NoCard,         \* the card of a part row that does not exist
    MaxRework,      \* bound: reworks of a card
    MaxFaults       \* bound: rejected database calls and restarts

ASSUME JobCardsAssumption ==
    /\ NoCard \notin Cards
    /\ MaxRework \in Nat /\ MaxFaults \in Nat

VARIABLES
    status,         \* JobCard.status, "absent" before the card is created
    reworkCount,    \* JobCard.reworkCount
    partOf,         \* JobCardPart.jobCardId, NoCard when there is no row
    reversed,       \* part rows with JobCardPart.reversed
    noted,          \* cards with a labor note
    req,            \* the requests in flight, with what they read
    faults          \* rejected database calls and restarts so far

cardVars == <<status, reworkCount, partOf, reversed, noted>>
vars == <<cardVars, outbox, req, faults>>

\* The atomic state machine, on this module's status and reworkCount.
L == INSTANCE Lifecycle

Statuses == L!Statuses

-----------------------------------------------------------------------------
\* A request: the step it is at and what it read.
Steps == {"idle", "transition", "announceCompleted", "logParts", "addNote",
          "cancel", "announceCancelled"}
RequestRecords ==
    [pc: Steps, card: Cards \cup {NoCard}, from: Statuses, target: Statuses,
     rework: Nat, parts: SUBSET Parts]

Idle == [pc |-> "idle", card |-> NoCard, from |-> "absent",
         target |-> "absent", rework |-> 0, parts |-> {}]
At(pc, c, parts) == [Idle EXCEPT !.pc = pc, !.card = c, !.parts = parts]

Attached(c) == {p \in Parts : partOf[p] = c}

\* Mutant: a completed card may be cancelled too.
LiveStatuses ==
    {"CREATED", "ASSIGNED", "IN_PROGRESS", "QUALITY_CHECK", "COMPLETED"}

CancellableStatuses == {"CREATED", "ASSIGNED", "IN_PROGRESS", "QUALITY_CHECK"}

Init ==
    /\ L!Init
    /\ partOf = [p \in Parts |-> NoCard]
    /\ reversed = {}
    /\ noted = {}
    /\ outbox = <<>>
    /\ req = [r \in Requests |-> Idle]
    /\ faults = 0

-----------------------------------------------------------------------------
\* create: the card and its items in one transaction.
CreateCard(c) ==
    /\ L!Create(c)
    /\ UNCHANGED <<partOf, reversed, noted, outbox, req, faults>>

\* transition, up to the validation of what it read.
ReadTransition(r, c, target) ==
    /\ req[r] = Idle
    /\ target \in L!ValidTransitions[status[c]]
    /\ L!IsRework(status[c], target) => reworkCount[c] < MaxRework
    /\ target = "COMPLETED" => Len(outbox) < MaxEvents
    /\ req' = [req EXCEPT ![r] =
                [pc |-> "transition", card |-> c, from |-> status[c],
                 target |-> target, rework |-> reworkCount[c],
                 parts |-> Attached(c)]]
    /\ UNCHANGED <<cardVars, outbox, faults>>

\* Mutants: a rework is not counted; a completion is not announced.
WriteUncounted(r) ==
    LET q == req[r] IN
    /\ q.pc = "transition"
    /\ status' = [status EXCEPT ![q.card] = q.target]
    /\ req' = [req EXCEPT ![r] =
                IF q.target = "COMPLETED"
                  THEN At("announceCompleted", q.card, q.parts)
                  ELSE Idle]
    /\ UNCHANGED <<reworkCount, partOf, reversed, noted, outbox, faults>>

WriteUnannounced(r) ==
    LET q == req[r] IN
    /\ q.pc = "transition"
    /\ status' = [status EXCEPT ![q.card] = q.target]
    /\ reworkCount' = IF L!IsRework(q.from, q.target)
                        THEN [reworkCount EXCEPT ![q.card] = q.rework + 1]
                        ELSE reworkCount
    /\ req' = [req EXCEPT ![r] = Idle]
    /\ UNCHANGED <<partOf, reversed, noted, outbox, faults>>

\* Its update, computed from what it read, and the event it still owes.
WriteTransition(r) ==
    LET q == req[r] IN
    /\ q.pc = "transition"
    /\ status' = [status EXCEPT ![q.card] = q.target]
    /\ reworkCount' = IF L!IsRework(q.from, q.target)
                        THEN [reworkCount EXCEPT ![q.card] = q.rework + 1]
                        ELSE reworkCount
    /\ req' = [req EXCEPT ![r] =
                IF q.target = "COMPLETED"
                  THEN At("announceCompleted", q.card, q.parts)
                  ELSE Idle]
    /\ UNCHANGED <<partOf, reversed, noted, outbox, faults>>

\* publishCompletedEvent, with the card as it was read at first.
AnnounceCompleted(r) ==
    /\ req[r].pc = "announceCompleted"
    /\ outbox' = Append(outbox, [type |-> "completed", card |-> req[r].card,
                                 parts |-> req[r].parts])
    /\ req' = [req EXCEPT ![r] = Idle]
    /\ UNCHANGED <<cardVars, faults>>

\* logParts and addNote check the status, then insert.
ReadForLogging(r, c, pc) ==
    /\ req[r] = Idle
    /\ status[c] = "IN_PROGRESS"
    /\ req' = [req EXCEPT ![r] = At(pc, c, {})]
    /\ UNCHANGED <<cardVars, outbox, faults>>

LogPart(r, p) ==
    /\ req[r].pc = "logParts"
    /\ partOf[p] = NoCard
    /\ partOf' = [partOf EXCEPT ![p] = req[r].card]
    /\ req' = [req EXCEPT ![r] = Idle]
    /\ UNCHANGED <<status, reworkCount, reversed, noted, outbox, faults>>

AddNote(r) ==
    /\ req[r].pc = "addNote"
    /\ noted' = noted \cup {req[r].card}
    /\ req' = [req EXCEPT ![r] = Idle]
    /\ UNCHANGED <<status, reworkCount, partOf, reversed, outbox, faults>>

\* cancel reads the card with the parts not reversed yet ...
ReadCancel(r, c) ==
    /\ req[r] = Idle
    /\ status[c] \in CancellableStatuses
    /\ req' = [req EXCEPT ![r] = At("cancel", c, Attached(c) \ reversed)]
    /\ UNCHANGED <<cardVars, outbox, faults>>

\* ... its transaction reverses whatever the card has by then, if it read any.
WriteCancel(r) ==
    LET q == req[r] IN
    /\ q.pc = "cancel"
    /\ status' = [status EXCEPT ![q.card] = "CANCELLED"]
    /\ reversed' = IF q.parts # {} THEN reversed \cup Attached(q.card)
                                   ELSE reversed
    /\ req' = [req EXCEPT ![r] =
                IF q.parts # {}
                  THEN At("announceCancelled", q.card, q.parts)
                  ELSE Idle]
    /\ UNCHANGED <<reworkCount, partOf, noted, outbox, faults>>

AnnounceCancelled(r) ==
    /\ req[r].pc = "announceCancelled"
    /\ outbox' = Append(outbox, [type |-> "cancelled", card |-> req[r].card,
                                 parts |-> req[r].parts])
    /\ req' = [req EXCEPT ![r] = Idle]
    /\ UNCHANGED <<cardVars, faults>>

\* A database call that rejects ends its request, a restart ends them all; the
\* events they owed are never published.
LoseRequests(lost) ==
    /\ faults < MaxFaults
    /\ faults' = faults + 1
    /\ req' = [r \in Requests |-> IF r \in lost THEN Idle ELSE req[r]]
    /\ UNCHANGED <<cardVars, outbox>>

-----------------------------------------------------------------------------
ReadStep(r) ==
    \E c \in Cards :
        \/ \E target \in Statuses : ReadTransition(r, c, target)
        \/ \E pc \in {"logParts", "addNote"} : ReadForLogging(r, c, pc)
        \/ ReadCancel(r, c)

WriteStep(r) ==
    \/ WriteTransition(r)
    \/ AnnounceCompleted(r)
    \/ \E p \in Parts : LogPart(r, p)
    \/ AddNote(r)
    \/ WriteCancel(r)
    \/ AnnounceCancelled(r)

Next ==
    \/ \E c \in Cards : CreateCard(c)
    \/ \E r \in Requests : ReadStep(r)
    \/ \E r \in Requests : WriteStep(r)
    \/ \E lost \in SUBSET Requests : LoseRequests(lost)

Spec == Init /\ [][Next]_vars

-----------------------------------------------------------------------------
(* Properties. *)

\* The types of the card, part and outbox rows and of what requests carry.
TypeOK ==
    /\ status \in [Cards -> Statuses]
    /\ reworkCount \in [Cards -> Nat]
    /\ partOf \in [Parts -> Cards \cup {NoCard}]
    /\ reversed \subseteq Parts
    /\ noted \subseteq Cards
    /\ outbox \in Seq(EventRecords)
    /\ req \in [Requests -> RequestRecords]
    /\ faults \in Nat

Published(type, c) ==
    \E i \in DOMAIN outbox : outbox[i].type = type /\ outbox[i].card = c

\* A request has committed the change of c and still owes the event.
Owed(pc, c) == \E r \in Requests : req[r].pc = pc /\ req[r].card = c

\* The completion of c is in the outbox, or on its way there.
Announced(c) == Published("completed", c) \/ Owed("announceCompleted", c)

\* Whatever requests overlap, a card that reads COMPLETED or INVOICED has its
\* job-card.completed event in the outbox or on its way there (transition's
\* update and publishCompletedEvent), as long as no database call rejects and
\* the process stays up.
CompletionAnnounced ==
    faults = 0 =>
        \A c \in Cards : status[c] \in {"COMPLETED", "INVOICED"} => Announced(c)

\* What the requests in flight have read, in the inductive invariant: a card,
\* a transition the state machine allows, and COMPLETED only if announced.
NamesCard == \A r \in Requests : req[r].pc # "idle" => req[r].card \in Cards
TargetsAllowed ==
    \A r \in Requests :
        req[r].pc = "transition" =>
            req[r].target \in L!ValidTransitions[req[r].from]
ReadsAnnounced ==
    faults = 0 =>
        \A r \in Requests :
            req[r].pc = "transition" /\ req[r].from = "COMPLETED" =>
                Announced(req[r].card)

\* The inductive invariant behind CompletionAnnounced.
IInv ==
    /\ TypeOK
    /\ NamesCard
    /\ TargetsAllowed
    /\ ReadsAnnounced
    /\ CompletionAnnounced

\* As long as no two requests meet on a card, its completion leaves out no part
\* logged on it: the consumer deducts all of them (transition's include of
\* partsConsumed, logParts' status check).
CompletedCarriesItsParts ==
    \A i \in DOMAIN outbox :
        outbox[i].type = "completed" => outbox[i].parts = Attached(outbox[i].card)

\* As long as no two requests meet on a card, a part is carried by at most one
\* event: it is never both deducted by a completion and given back by a
\* cancellation, nor either of them twice.
PartCarriedOnce ==
    \A p \in Parts :
        \A i, j \in DOMAIN outbox :
            p \in outbox[i].parts /\ p \in outbox[j].parts => i = j

\* Job cards implement the atomic state machine: each write is a transition
\* from the status the card has at that moment, and each rework is counted.
ImplementsLifecycle == L!Spec

\* As long as no two requests meet on a card, the parts marked reversed are in a
\* job-card.cancelled event, or on their way there: no part is written off that
\* the inventory is not told of.
ReversedAreAnnounced ==
    faults = 0 =>
        \A p \in reversed :
            \/ \E i \in DOMAIN outbox :
                   outbox[i].type = "cancelled" /\ p \in outbox[i].parts
            \/ \E r \in Requests :
                   req[r].pc = "announceCancelled" /\ p \in req[r].parts
=============================================================================
