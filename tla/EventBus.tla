------------------------------ MODULE EventBus ------------------------------
(***************************************************************************)
(* The outbox event bus of the backend: EventsService (publish, the five   *)
(* second poller, dispatch, retry with backoff, dead letters) and          *)
(* EventConsumerLogService (the per consumer idempotency log).             *)
(*                                                                         *)
(* Every await of the code is a step of its own, so pollers, retry timers  *)
(* and the handlers of one dispatch interleave here as they do on the      *)
(* Node event loop.  A dispatchEvent call in flight occupies a slot; the   *)
(* handlers emitAsync started run inside the slot, and the ones that       *)
(* outlive a rejected emitAsync keep the slot from being used again.       *)
(***************************************************************************)
EXTENDS Naturals, FiniteSets

CONSTANTS
    Events,             \* the operations that announce themselves by an event
    Consumers,          \* the listeners of those events, by consumer name
    Pollers,            \* pollAndDispatch calls that can be in flight at once
    Slots,              \* dispatchEvent calls that can be in flight at once
    NoPoller,           \* owner of a dispatch a retry timer started
    NoEvent,            \* what a slot that was never used dispatches
    SuppressErrors,     \* does the emitter log a listener's error and go on
    MaxRetries,         \* MAX_RETRIES
    BatchSize,          \* POLL_BATCH_SIZE
    MaxThrows,          \* bound: handler bodies that throw
    MaxLogFaults,       \* bound: recordSuccess calls that fail
    MaxOutboxFaults,    \* bound: outbox writes of a dispatch that fail
    MaxCrashes,         \* bound: process restarts
    MaxInterventions    \* bound: replays and discards by an operator

ASSUME BusAssumption ==
    /\ IsFiniteSet(Events)
    /\ NoPoller \notin Pollers
    /\ NoEvent \notin Events
    /\ SuppressErrors \in BOOLEAN
    /\ MaxRetries \in Nat \ {0}
    /\ BatchSize \in Nat \ {0}
    /\ MaxThrows \in Nat
    /\ MaxLogFaults \in Nat
    /\ MaxOutboxFaults \in Nat
    /\ MaxCrashes \in Nat
    /\ MaxInterventions \in Nat

VARIABLES
    source,         \* where the operation behind an event stands
    createdAt,      \* OutboxEvent.createdAt as a rank, 0 when there is no row
    published,      \* rows with OutboxEvent.published
    deadLettered,   \* rows with OutboxEvent.deadLettered
    retryCount,     \* OutboxEvent.retryCount
    alerts,         \* events a DEAD_LETTER event was published for
    consumerLog,    \* EventConsumerLog: no row, success or failure
    batch,          \* what each pollAndDispatch call still has to dispatch
    slot,           \* the dispatchEvent calls in flight
    handler,        \* their listeners, inside processWithIdempotency
    timers,         \* setTimeout(retryEvent) calls that have not fired
    runs,           \* history: completed runs of each handler body
    failures,       \* history: dispatches of each event that failed
    discarded,      \* history: events an operator discarded
    budget          \* how much of each bound is left

rows == <<createdAt, published, deadLettered, retryCount>>
memory == <<batch, slot, handler, timers>>
history == <<runs, failures, discarded>>
vars == <<source, rows, alerts, consumerLog, memory, history, budget>>

-----------------------------------------------------------------------------
SourceStates == {"idle", "committed", "published", "lost"}
LogStates == {"none", "success", "failure"}
SlotStates == {"free", "emit", "mark", "failing", "record", "alert"}
HandlerStates == {"idle", "check", "run", "applied", "thrown", "done", "failed"}

Budgets == [throws: Nat, logFaults: Nat, outboxFaults: Nat, crashes: Nat,
            interventions: Nat]
SlotRecords == [pc: SlotStates, event: Events \cup {NoEvent},
                owner: Pollers \cup {NoPoller}, seen: Nat]
UnusedSlot == [pc |-> "free", event |-> NoEvent, owner |-> NoPoller, seen |-> 0]

Outbox == {e \in Events : createdAt[e] # 0}
Pending == Outbox \ (published \cup deadLettered)

\* Mutant: the poller leaves rows that have failed to their backoff timers.
OldestUntried == {e \in Pending : retryCount[e] = 0}

\* The rows findMany returns: the oldest BatchSize unpublished ones.
OldestPending ==
    {e \in Pending : Cardinality({f \in Pending : createdAt[f] < createdAt[e]})
                        < BatchSize}

Spend(what) ==
    /\ budget[what] > 0
    /\ budget' = [budget EXCEPT ![what] = @ - 1]

Init ==
    /\ source = [e \in Events |-> "idle"]
    /\ createdAt = [e \in Events |-> 0]
    /\ published = {}
    /\ deadLettered = {}
    /\ retryCount = [e \in Events |-> 0]
    /\ alerts = {}
    /\ consumerLog = [e \in Events |-> [c \in Consumers |-> "none"]]
    /\ batch = [p \in Pollers |-> {}]
    /\ slot = [s \in Slots |-> UnusedSlot]
    /\ handler = [s \in Slots |-> [c \in Consumers |-> "idle"]]
    /\ timers = [e \in Events |-> 0]
    /\ runs = [e \in Events |-> [c \in Consumers |-> 0]]
    /\ failures = [e \in Events |-> 0]
    /\ discarded = {}
    /\ budget = [throws |-> MaxThrows, logFaults |-> MaxLogFaults,
                 outboxFaults |-> MaxOutboxFaults, crashes |-> MaxCrashes,
                 interventions |-> MaxInterventions]

-----------------------------------------------------------------------------
(***************************************************************************)
(* Publishing.  Every caller in the code commits its own operation first   *)
(* and publishes after it; publishInTransaction has no caller but the      *)
(* component offers it.                                                    *)
(***************************************************************************)

\* A new OutboxEvent row, younger than every other.
NewRow(e) ==
    createdAt' = [createdAt EXCEPT ![e] = Cardinality(Outbox) + 1]

CommitSource(e) ==
    /\ source[e] = "idle"
    /\ source' = [source EXCEPT ![e] = "committed"]
    /\ UNCHANGED <<rows, alerts, consumerLog, memory, history, budget>>

Publish(e) ==
    /\ source[e] = "committed"
    /\ source' = [source EXCEPT ![e] = "published"]
    /\ NewRow(e)
    /\ UNCHANGED <<published, deadLettered, retryCount, alerts, consumerLog,
                   memory, history, budget>>

PublishInTransaction(e) ==
    /\ source[e] = "idle"
    /\ source' = [source EXCEPT ![e] = "published"]
    /\ NewRow(e)
    /\ UNCHANGED <<published, deadLettered, retryCount, alerts, consumerLog,
                   memory, history, budget>>

-----------------------------------------------------------------------------
(***************************************************************************)
(* The poller.  Nothing stops a cron tick from starting a second call      *)
(* while the first is still dispatching its batch.                         *)
(***************************************************************************)
Busy(p) == \E s \in Slots : slot[s].pc # "free" /\ slot[s].owner = p

\* pollAndDispatch, up to the rows it found.
Poll(p) ==
    /\ batch[p] = {}
    /\ ~Busy(p)
    /\ Pending # {}
    /\ batch' = [batch EXCEPT ![p] = OldestPending]
    /\ UNCHANGED <<source, rows, alerts, consumerLog, slot, handler, timers,
                   history, budget>>

FreeSlot(s) ==
    /\ slot[s].pc = "free"
    /\ \A c \in Consumers : handler[s][c] = "idle"

\* dispatchEvent, up to the emitAsync call, which starts every listener.
StartDispatch(s, e, owner) ==
    /\ FreeSlot(s)
    /\ slot' = [slot EXCEPT ![s] = [pc |-> "emit", event |-> e,
                                    owner |-> owner, seen |-> 0]]
    /\ handler' = [handler EXCEPT ![s] = [c \in Consumers |-> "check"]]

\* The next turn of pollAndDispatch's loop; the batch is not read again.
DispatchNext(p, s) ==
    /\ ~Busy(p)
    /\ \E e \in batch[p] :
        /\ \A f \in batch[p] : createdAt[e] <= createdAt[f]
        /\ StartDispatch(s, e, p)
        /\ batch' = [batch EXCEPT ![p] = @ \ {e}]
    /\ UNCHANGED <<source, rows, alerts, consumerLog, timers, history, budget>>

\* retryEvent: the timer fires, the row is read again.
RetrySettled(e) ==
    /\ timers[e] > 0
    /\ e \notin Pending
    /\ timers' = [timers EXCEPT ![e] = @ - 1]
    /\ UNCHANGED <<source, rows, alerts, consumerLog, batch, slot, handler,
                   history, budget>>

RetryPending(e, s) ==
    /\ timers[e] > 0
    /\ e \in Pending
    /\ timers' = [timers EXCEPT ![e] = @ - 1]
    /\ StartDispatch(s, e, NoPoller)
    /\ UNCHANGED <<source, rows, alerts, consumerLog, batch, history, budget>>

-----------------------------------------------------------------------------
(***************************************************************************)
(* A listener inside processWithIdempotency.                               *)
(***************************************************************************)

\* A listener's promise settles: emitAsync sees it unless it gave up already.
Settle(s, c, result) ==
    handler' = [handler EXCEPT ![s][c] =
                    IF slot[s].pc = "emit" THEN result ELSE "idle"]

HasProcessed(s, c) ==
    /\ handler[s][c] = "check"
    /\ IF consumerLog[slot[s].event][c] = "success"
         THEN Settle(s, c, "done")
         ELSE handler' = [handler EXCEPT ![s][c] = "run"]
    /\ UNCHANGED <<source, rows, alerts, consumerLog, batch, slot, timers,
                   history, budget>>

HandlerRuns(s, c) ==
    /\ handler[s][c] = "run"
    /\ handler' = [handler EXCEPT ![s][c] = "applied"]
    /\ runs' = [runs EXCEPT ![slot[s].event][c] = @ + 1]
    /\ UNCHANGED <<source, rows, alerts, consumerLog, batch, slot, timers,
                   failures, discarded, budget>>

HandlerThrows(s, c) ==
    /\ handler[s][c] = "run"
    /\ Spend("throws")
    /\ handler' = [handler EXCEPT ![s][c] = "thrown"]
    /\ UNCHANGED <<source, rows, alerts, consumerLog, batch, slot, timers,
                   history>>

\* Mutant: a success is not logged.
RecordNothing(s, c) ==
    /\ handler[s][c] = "applied"
    /\ Settle(s, c, "done")
    /\ UNCHANGED <<source, rows, alerts, consumerLog, batch, slot, timers,
                   history, budget>>

RecordSuccess(s, c) ==
    /\ handler[s][c] = "applied"
    /\ consumerLog' = [consumerLog EXCEPT ![slot[s].event][c] = "success"]
    /\ Settle(s, c, "done")
    /\ UNCHANGED <<source, rows, alerts, batch, slot, timers, history, budget>>

\* recordSuccess throws inside the same try: the catch block takes over.
RecordSuccessFails(s, c) ==
    /\ handler[s][c] = "applied"
    /\ Spend("logFaults")
    /\ handler' = [handler EXCEPT ![s][c] = "thrown"]
    /\ UNCHANGED <<source, rows, alerts, consumerLog, batch, slot, timers,
                   history>>

RecordFailure(s, c) ==
    /\ handler[s][c] = "thrown"
    /\ consumerLog' = [consumerLog EXCEPT ![slot[s].event][c] = "failure"]
    /\ Settle(s, c, "failed")
    /\ UNCHANGED <<source, rows, alerts, batch, slot, timers, history, budget>>

-----------------------------------------------------------------------------
(***************************************************************************)
(* The end of dispatchEvent.  emitAsync resolves when every listener did   *)
(* and rejects as soon as one does, whatever the others are doing.  Unless *)
(* an @OnEvent sets suppressErrors to false, and none does, the emitter of *)
(* NestJS catches and logs what a listener throws: it counts as resolved.  *)
(***************************************************************************)
Resolved == IF SuppressErrors THEN {"done", "failed"} ELSE {"done"}

\* Listeners that already settled are forgotten; the others run on.
Detach(s) ==
    handler' = [handler EXCEPT ![s] =
        [c \in Consumers |-> IF handler[s][c] \in {"done", "failed"}
                               THEN "idle" ELSE handler[s][c]]]

\* Mutant: the dispatch goes on after the first listener.
EmitResolvesOnFirst(s) ==
    /\ slot[s].pc = "emit"
    /\ \E c \in Consumers : handler[s][c] \in Resolved
    /\ slot' = [slot EXCEPT ![s].pc = "mark"]
    /\ Detach(s)
    /\ UNCHANGED <<source, rows, alerts, consumerLog, batch, timers, history,
                   budget>>

EmitResolves(s) ==
    /\ slot[s].pc = "emit"
    /\ \A c \in Consumers : handler[s][c] \in Resolved
    /\ slot' = [slot EXCEPT ![s].pc = "mark"]
    /\ Detach(s)
    /\ UNCHANGED <<source, rows, alerts, consumerLog, batch, timers, history,
                   budget>>

EmitRejects(s) ==
    /\ slot[s].pc = "emit"
    /\ ~SuppressErrors
    /\ \E c \in Consumers : handler[s][c] = "failed"
    /\ slot' = [slot EXCEPT ![s].pc = "failing"]
    /\ Detach(s)
    /\ UNCHANGED <<source, rows, alerts, consumerLog, batch, timers, history,
                   budget>>

Return(s) ==
    slot' = [slot EXCEPT ![s].pc = "free", ![s].owner = NoPoller, ![s].seen = 0]

MarkPublished(s) ==
    /\ slot[s].pc = "mark"
    /\ published' = published \cup {slot[s].event}
    /\ Return(s)
    /\ UNCHANGED <<source, createdAt, deadLettered, retryCount, alerts,
                   consumerLog, batch, handler, timers, history, budget>>

\* The update is inside the try as well: its failure counts as a failed dispatch.
MarkPublishedFails(s) ==
    /\ slot[s].pc = "mark"
    /\ Spend("outboxFaults")
    /\ slot' = [slot EXCEPT ![s].pc = "failing"]
    /\ UNCHANGED <<source, rows, alerts, consumerLog, batch, handler, timers,
                   history>>

\* handleDispatchFailure reads the row ...
ReadRetryCount(s) ==
    /\ slot[s].pc = "failing"
    /\ slot' = [slot EXCEPT ![s].pc = "record",
                            ![s].seen = retryCount[slot[s].event]]
    /\ UNCHANGED <<source, rows, alerts, consumerLog, batch, handler, timers,
                   history, budget>>

\* ... and writes what it computed from it, whatever the row holds by now.
RecordRetry(s) ==
    LET e == slot[s].event IN
    /\ slot[s].pc = "record"
    /\ slot[s].seen + 1 < MaxRetries
    /\ retryCount' = [retryCount EXCEPT ![e] = slot[s].seen + 1]
    /\ timers' = [timers EXCEPT ![e] = @ + 1]
    /\ failures' = [failures EXCEPT ![e] = @ + 1]
    /\ Return(s)
    /\ UNCHANGED <<source, createdAt, published, deadLettered, alerts,
                   consumerLog, batch, handler, runs, discarded, budget>>

\* Mutants: one failure too early; without the alert; published as well.
DeadLetterEarly(s) ==
    LET e == slot[s].event IN
    /\ slot[s].pc = "record"
    /\ slot[s].seen + 2 >= MaxRetries
    /\ retryCount' = [retryCount EXCEPT ![e] = slot[s].seen + 1]
    /\ deadLettered' = deadLettered \cup {e}
    /\ failures' = [failures EXCEPT ![e] = @ + 1]
    /\ slot' = [slot EXCEPT ![s].pc = "alert", ![s].seen = 0]
    /\ UNCHANGED <<source, createdAt, published, alerts, consumerLog, batch,
                   handler, timers, runs, discarded, budget>>

DeadLetterSilently(s) ==
    LET e == slot[s].event IN
    /\ slot[s].pc = "record"
    /\ slot[s].seen + 1 >= MaxRetries
    /\ retryCount' = [retryCount EXCEPT ![e] = slot[s].seen + 1]
    /\ deadLettered' = deadLettered \cup {e}
    /\ failures' = [failures EXCEPT ![e] = @ + 1]
    /\ Return(s)
    /\ UNCHANGED <<source, createdAt, published, alerts, consumerLog, batch,
                   handler, timers, runs, discarded, budget>>

DeadLetterAsPublished(s) ==
    LET e == slot[s].event IN
    /\ slot[s].pc = "record"
    /\ slot[s].seen + 1 >= MaxRetries
    /\ retryCount' = [retryCount EXCEPT ![e] = slot[s].seen + 1]
    /\ deadLettered' = deadLettered \cup {e}
    /\ published' = published \cup {e}
    /\ failures' = [failures EXCEPT ![e] = @ + 1]
    /\ slot' = [slot EXCEPT ![s].pc = "alert", ![s].seen = 0]
    /\ UNCHANGED <<source, createdAt, alerts, consumerLog, batch, handler,
                   timers, runs, discarded, budget>>

RecordDeadLetter(s) ==
    LET e == slot[s].event IN
    /\ slot[s].pc = "record"
    /\ slot[s].seen + 1 >= MaxRetries
    /\ retryCount' = [retryCount EXCEPT ![e] = slot[s].seen + 1]
    /\ deadLettered' = deadLettered \cup {e}
    /\ failures' = [failures EXCEPT ![e] = @ + 1]
    /\ slot' = [slot EXCEPT ![s].pc = "alert", ![s].seen = 0]
    /\ UNCHANGED <<source, createdAt, published, alerts, consumerLog, batch,
                   handler, timers, runs, discarded, budget>>

\* publishDeadLetterNotification; its own failure is only logged.
PublishAlert(s) ==
    /\ slot[s].pc = "alert"
    /\ alerts' = alerts \cup {slot[s].event}
    /\ Return(s)
    /\ UNCHANGED <<source, rows, consumerLog, batch, handler, timers, history,
                   budget>>

PublishAlertFails(s) ==
    /\ slot[s].pc = "alert"
    /\ Spend("outboxFaults")
    /\ Return(s)
    /\ UNCHANGED <<source, rows, alerts, consumerLog, batch, handler, timers,
                   history>>

-----------------------------------------------------------------------------
(***************************************************************************)
(* The operator, who works from getDeadLetterEvents, and the restart of    *)
(* the process, which forgets everything that is not in the database.      *)
(***************************************************************************)
ReplayDeadLetter(e) ==
    /\ e \in deadLettered
    /\ Spend("interventions")
    /\ published' = published \ {e}
    /\ deadLettered' = deadLettered \ {e}
    /\ retryCount' = [retryCount EXCEPT ![e] = 0]
    /\ discarded' = discarded \ {e}
    /\ UNCHANGED <<source, createdAt, alerts, consumerLog, memory, runs,
                   failures>>

DiscardDeadLetter(e) ==
    /\ e \in deadLettered
    /\ Spend("interventions")
    /\ published' = published \cup {e}
    /\ discarded' = discarded \cup {e}
    /\ UNCHANGED <<source, createdAt, deadLettered, retryCount, alerts,
                   consumerLog, memory, runs, failures>>

Crash ==
    /\ Spend("crashes")
    /\ source' = [e \in Events |-> IF source[e] = "committed" THEN "lost"
                                                              ELSE source[e]]
    /\ batch' = [p \in Pollers |-> {}]
    /\ slot' = [s \in Slots |-> UnusedSlot]
    /\ handler' = [s \in Slots |-> [c \in Consumers |-> "idle"]]
    /\ timers' = [e \in Events |-> 0]
    /\ UNCHANGED <<rows, alerts, consumerLog, history>>

-----------------------------------------------------------------------------
ProducerStep(e) == CommitSource(e) \/ Publish(e) \/ PublishInTransaction(e)

PollerStep(p) == Poll(p) \/ \E s \in Slots : DispatchNext(p, s)

TimerStep(e) == RetrySettled(e) \/ \E s \in Slots : RetryPending(e, s)

ListenerStep(s, c) ==
    \/ HasProcessed(s, c)
    \/ HandlerRuns(s, c)
    \/ HandlerThrows(s, c)
    \/ RecordSuccess(s, c)
    \/ RecordSuccessFails(s, c)
    \/ RecordFailure(s, c)

DispatchStep(s) ==
    \/ EmitResolves(s)
    \/ EmitRejects(s)
    \/ MarkPublished(s)
    \/ MarkPublishedFails(s)
    \/ ReadRetryCount(s)
    \/ RecordRetry(s)
    \/ RecordDeadLetter(s)
    \/ PublishAlert(s)
    \/ PublishAlertFails(s)

OperatorStep(e) == ReplayDeadLetter(e) \/ DiscardDeadLetter(e)

Next ==
    \/ \E e \in Events : ProducerStep(e)
    \/ \E p \in Pollers : PollerStep(p)
    \/ \E e \in Events : TimerStep(e)
    \/ \E s \in Slots, c \in Consumers : ListenerStep(s, c)
    \/ \E s \in Slots : DispatchStep(s)
    \/ \E e \in Events : OperatorStep(e)
    \/ Crash

Spec == Init /\ [][Next]_vars

(***************************************************************************)
(* The cron ticks, fired timers and settled promises are run by the event  *)
(* loop; a request whose operation is committed runs on to its publish.    *)
(* Nothing obliges anybody to start an operation, an operator to act, or   *)
(* the process to crash.                                                   *)
(***************************************************************************)
Fairness ==
    /\ \A e \in Events : WF_vars(Publish(e)) /\ WF_vars(TimerStep(e))
    /\ \A p \in Pollers : WF_vars(PollerStep(p))
    /\ \A s \in Slots : WF_vars(DispatchStep(s))
    /\ \A s \in Slots, c \in Consumers : WF_vars(ListenerStep(s, c))

FairSpec == Spec /\ Fairness

-----------------------------------------------------------------------------
(***************************************************************************)
(* Properties.                                                             *)
(***************************************************************************)

\* The shape of the outbox, the consumer log and the calls in flight.
TypeOK ==
    /\ source \in [Events -> SourceStates]
    /\ createdAt \in [Events -> Nat]
    /\ published \in SUBSET Events
    /\ deadLettered \in SUBSET Events
    /\ retryCount \in [Events -> Nat]
    /\ alerts \in SUBSET Events
    /\ consumerLog \in [Events -> [Consumers -> LogStates]]
    /\ batch \in [Pollers -> SUBSET Events]
    /\ slot \in [Slots -> SlotRecords]
    /\ handler \in [Slots -> [Consumers -> HandlerStates]]
    /\ timers \in [Events -> Nat]
    /\ runs \in [Events -> [Consumers -> Nat]]
    /\ failures \in [Events -> Nat]
    /\ discarded \in SUBSET Events
    /\ budget \in Budgets

\* dispatchEvent marks a row published only after emitAsync resolved: whatever
\* overlapped, crashed or failed, a published event that no operator discarded
\* was run to its end by every one of its consumers, as long as the emitter lets
\* a listener's error through.
PublishedWasProcessed ==
    \A e \in published \ discarded, c \in Consumers : runs[e][c] > 0

\* handleDispatchFailure gives up only on an event that really failed
\* MAX_RETRIES times: two dispatches that share a stale retryCount can lose a
\* failure, never invent one.
DeadLetterEarned ==
    \A e \in deadLettered : failures[e] >= MaxRetries

\* What makes the two invariants above inductive: whatever the bus works on
\* has a row ...
RowsExist ==
    /\ published \cup deadLettered \cup discarded \subseteq Outbox
    /\ \A p \in Pollers : batch[p] \subseteq Outbox
    /\ \A e \in Events : timers[e] > 0 => e \in Outbox
    /\ \A s \in Slots :
        (slot[s].pc # "free" \/ \E c \in Consumers : handler[s][c] # "idle")
            => slot[s].event \in Outbox

\* ... only a published source has a row ...
RowsPublished == \A e \in Outbox : source[e] = "published"

\* ... every claim that a consumer is through is backed by a completed run ...
ClaimsBacked ==
    /\ \A e \in Events, c \in Consumers :
        consumerLog[e][c] = "success" => runs[e][c] > 0
    /\ \A s \in Slots, c \in Consumers :
        handler[s][c] \in {"applied", "done"} => runs[slot[s].event][c] > 0
    /\ \A s \in Slots, c \in Consumers :
        slot[s].pc = "mark" /\ ~SuppressErrors => runs[slot[s].event][c] > 0

\* ... and no retry count, stored or remembered, exceeds the failures so far.
CountsEarned ==
    /\ \A e \in Events : retryCount[e] <= failures[e]
    /\ \A s \in Slots :
        slot[s].pc = "record" => slot[s].seen <= failures[slot[s].event]

\* The inductive invariant of the bus.
IInv ==
    /\ TypeOK
    /\ RowsExist
    /\ RowsPublished
    /\ ClaimsBacked
    /\ CountsEarned
    /\ ~SuppressErrors => PublishedWasProcessed
    /\ DeadLetterEarned

\* With one dispatch at a time, processWithIdempotency runs a consumer at most
\* once per event, through failed updates, retry timers, stale batches and polls
\* that come before their backoff is over, as long as no restart and no failing
\* recordSuccess comes between a run and its log row.
ExactlyOnce ==
    budget.logFaults = MaxLogFaults /\ budget.crashes = MaxCrashes =>
        \A e \in Events, c \in Consumers : runs[e][c] <= 1

\* Every dead letter is announced by a DEAD_LETTER event, or about to be,
\* whatever dispatches, replays and discards overlap, unless a restart or the
\* failing write of the announcement came in between.
DeadLetterAnnounced ==
    budget.outboxFaults = MaxOutboxFaults /\ budget.crashes = MaxCrashes =>
        \A e \in deadLettered :
            \/ e \in alerts
            \/ \E s \in Slots : slot[s].pc = "alert" /\ slot[s].event = e

\* Every event in the outbox is published or dead-lettered in the end, across
\* restarts, failing handlers and retry timers a restart has swept away.
EventuallySettled ==
    \A e \in Events : createdAt[e] # 0 ~> e \in published \cup deadLettered

\* What the consumers have run, as Delivery sees it.
Processed == {ec \in Events \X Consumers : runs[ec[1]][ec[2]] > 0}

D == INSTANCE Delivery WITH persisted <- Outbox, processed <- Processed,
                            waived <- discarded

\* dispatchEvent, its failure path and the operator's calls implement the
\* abstract delivery promise: an event is marked published only once every
\* consumer processed it, whatever polls, timers and restarts overlap.
ImplementsDelivery == D!Spec
=============================================================================
