--------------------------- MODULE EventBusProofs ---------------------------
(***************************************************************************)
(* Proofs about the event bus, for any number of events, consumers,        *)
(* pollers and slots and every value of the bounds.                        *)
(***************************************************************************)
EXTENDS EventBus, FiniteSetTheorems, TLAPS

USE BusAssumption DEF rows, memory, history, vars

\* The empty bus satisfies the invariant.
LEMMA InitIInv == Init => IInv
  BY DEF Init, IInv, TypeOK, RowsExist, RowsPublished, ClaimsBacked, CountsEarned,
     PublishedWasProcessed, DeadLetterEarned, Outbox, SourceStates, LogStates,
     SlotStates, HandlerStates, Budgets, SlotRecords, UnusedSlot

(***************************************************************************)
(* The type invariant.  A slot's event is an event only while the slot is  *)
(* at work, which RowsExist says.                                          *)
(***************************************************************************)
LEMMA RowRank == TypeOK => Cardinality(Outbox) + 1 \in Nat \ {0}
  BY FS_Subset, FS_CardinalityType DEF Outbox

\* Spending leaves the budget well formed.
LEMMA SpendType ==
  ASSUME TypeOK, NEW what \in {"throws", "logFaults", "outboxFaults", "crashes",
                       "interventions"},
         Spend(what)
  PROVE  budget' \in Budgets
  BY DEF TypeOK, Spend, Budgets

\* The two record updates of a slot that keep its event.
LEMMA SlotMoves ==
  ASSUME TypeOK, NEW s \in Slots, NEW pc \in SlotStates, NEW n \in Nat
  PROVE  /\ [slot EXCEPT ![s].pc = pc] \in [Slots -> SlotRecords]
         /\ [slot EXCEPT ![s].pc = pc, ![s].seen = n] \in [Slots -> SlotRecords]
         /\ [slot EXCEPT ![s].pc = pc, ![s].owner = NoPoller, ![s].seen = n]
                \in [Slots -> SlotRecords]
  <1>1. slot \in [Slots -> SlotRecords]
    BY DEF TypeOK
  <1>2. [slot[s] EXCEPT !.pc = pc] \in SlotRecords
    BY <1>1 DEF SlotRecords
  <1>3. [slot[s] EXCEPT !.pc = pc, !.seen = n] \in SlotRecords
    BY <1>1 DEF SlotRecords
  <1>4. [slot[s] EXCEPT !.pc = pc, !.owner = NoPoller, !.seen = n] \in SlotRecords
    BY <1>1 DEF SlotRecords
  <1> HIDE DEF SlotRecords
  <1> QED BY <1>1, <1>2, <1>3, <1>4

\* Detaching the settled listeners is well typed.
LEMMA DetachType ==
  ASSUME TypeOK, NEW s \in Slots, Detach(s)
  PROVE  handler' \in [Slots -> [Consumers -> HandlerStates]]
  BY DEF TypeOK, Detach, HandlerStates

\* Settling a listener is well typed.
LEMMA SettleType ==
  ASSUME TypeOK, NEW s \in Slots, NEW c \in Consumers,
         NEW result \in HandlerStates, Settle(s, c, result)
  PROVE  handler' \in [Slots -> [Consumers -> HandlerStates]]
  BY DEF TypeOK, Settle, HandlerStates

\* Starting a dispatch is well typed.
LEMMA StartType ==
  ASSUME TypeOK, NEW s \in Slots, NEW e \in Events,
         NEW owner \in Pollers \cup {NoPoller}, StartDispatch(s, e, owner)
  PROVE  /\ slot' \in [Slots -> SlotRecords]
         /\ handler' \in [Slots -> [Consumers -> HandlerStates]]
  BY DEF TypeOK, StartDispatch, SlotRecords, SlotStates, HandlerStates

\* Every step is well typed.
LEMMA TypeStep == IInv /\ [Next]_vars => TypeOK'
  <1> SUFFICES ASSUME TypeOK, RowsExist, [Next]_vars PROVE TypeOK'
    BY DEF IInv
  <1>1. ASSUME NEW e \in Events, ProducerStep(e) PROVE TypeOK'
    <2>1. CASE CommitSource(e)
      BY <2>1 DEF CommitSource, TypeOK, SourceStates
    <2>2. CASE Publish(e)
      BY <2>2, RowRank DEF Publish, NewRow, TypeOK, SourceStates
    <2>3. CASE PublishInTransaction(e)
      BY <2>3, RowRank DEF PublishInTransaction, NewRow, TypeOK, SourceStates
    <2> QED BY <1>1, <2>1, <2>2, <2>3 DEF ProducerStep
  <1>2. ASSUME NEW p \in Pollers, PollerStep(p) PROVE TypeOK'
    <2>1. CASE Poll(p)
      BY <2>1 DEF Poll, OldestPending, Pending, Outbox, TypeOK
    <2>2. ASSUME NEW s \in Slots, DispatchNext(p, s) PROVE TypeOK'
      <3>1. PICK e \in batch[p] : /\ StartDispatch(s, e, p)
                                  /\ batch' = [batch EXCEPT ![p] = @ \ {e}]
        BY <2>2 DEF DispatchNext
      <3>2. e \in Events /\ batch' \in [Pollers -> SUBSET Events]
        BY <3>1 DEF TypeOK
      <3>3. /\ slot' \in [Slots -> SlotRecords]
            /\ handler' \in [Slots -> [Consumers -> HandlerStates]]
        BY <3>1, <3>2, StartType
      <3> QED BY <2>2, <3>2, <3>3 DEF DispatchNext, TypeOK
    <2> QED BY <1>2, <2>1, <2>2 DEF PollerStep
  <1>3. ASSUME NEW e \in Events, TimerStep(e) PROVE TypeOK'
    <2>1. CASE RetrySettled(e)
      BY <2>1 DEF RetrySettled, TypeOK
    <2>2. ASSUME NEW s \in Slots, RetryPending(e, s) PROVE TypeOK'
      <3>1. timers' \in [Events -> Nat]
        BY <2>2 DEF RetryPending, TypeOK
      <3> QED BY <2>2, <3>1, StartType DEF RetryPending, TypeOK
    <2> QED BY <1>3, <2>1, <2>2 DEF TimerStep
  <1>4. ASSUME NEW s \in Slots, NEW c \in Consumers, ListenerStep(s, c)
        PROVE TypeOK'
    <2>0. /\ \A x \in HandlerStates : [handler EXCEPT ![s][c] = x]
                \in [Slots -> [Consumers -> HandlerStates]]
          /\ {"run", "applied", "thrown", "done", "failed"} \subseteq HandlerStates
      BY DEF TypeOK, HandlerStates
    <2>1. CASE HasProcessed(s, c)
      <3>1. handler' \in [Slots -> [Consumers -> HandlerStates]]
        BY <2>0, <2>1, SettleType DEF HasProcessed
      <3> QED BY <2>1, <3>1 DEF HasProcessed, TypeOK
    <2>2. CASE HandlerRuns(s, c)
      <3>0. slot[s].event \in Events
        BY <2>2 DEF HandlerRuns, RowsExist, Outbox
      <3>1. runs' \in [Events -> [Consumers -> Nat]]
        BY <2>2, <3>0 DEF HandlerRuns, TypeOK
      <3> QED BY <2>0, <2>2, <3>1 DEF HandlerRuns, TypeOK
    <2>3. CASE HandlerThrows(s, c)
      BY <2>0, <2>3, SpendType DEF HandlerThrows, TypeOK
    <2>4. CASE RecordSuccess(s, c)
      <3>1. consumerLog' \in [Events -> [Consumers -> LogStates]]
        BY <2>4 DEF RecordSuccess, TypeOK, LogStates
      <3> QED BY <2>0, <2>4, <3>1, SettleType DEF RecordSuccess, TypeOK
    <2>5. CASE RecordSuccessFails(s, c)
      BY <2>0, <2>5, SpendType DEF RecordSuccessFails, TypeOK
    <2>6. CASE RecordFailure(s, c)
      <3>1. consumerLog' \in [Events -> [Consumers -> LogStates]]
        BY <2>6 DEF RecordFailure, TypeOK, LogStates
      <3> QED BY <2>0, <2>6, <3>1, SettleType DEF RecordFailure, TypeOK
    <2> QED BY <1>4, <2>1, <2>2, <2>3, <2>4, <2>5, <2>6 DEF ListenerStep
  <1>5. ASSUME NEW s \in Slots, DispatchStep(s) PROVE TypeOK'
    <2>e. slot[s].pc # "free" => slot[s].event \in Events
      BY DEF RowsExist, Outbox
    <2>t. slot[s].seen \in Nat /\ slot[s].seen + 1 \in Nat /\ 0 \in Nat
      BY DEF TypeOK, SlotRecords
    <2>p. {"free", "mark", "failing", "record", "alert"} \subseteq SlotStates
      BY DEF SlotStates
    <2>f. \A e \in Events : failures[e] + 1 \in Nat /\ timers[e] + 1 \in Nat
      BY DEF TypeOK
    <2>1. CASE EmitResolves(s)
      BY <2>1, <2>p, SlotMoves, DetachType DEF EmitResolves, TypeOK
    <2>2. CASE EmitRejects(s)
      BY <2>2, <2>p, SlotMoves, DetachType DEF EmitRejects, TypeOK
    <2>3. CASE MarkPublished(s)
      BY <2>3, <2>e, <2>t, <2>p, SlotMoves DEF MarkPublished, Return, TypeOK
    <2>4. CASE MarkPublishedFails(s)
      BY <2>4, <2>p, SlotMoves, SpendType DEF MarkPublishedFails, TypeOK
    <2>5. CASE ReadRetryCount(s)
      <3>1. retryCount[slot[s].event] \in Nat
        BY <2>5, <2>e DEF ReadRetryCount, TypeOK
      <3> QED BY <2>5, <2>p, <3>1, SlotMoves DEF ReadRetryCount, TypeOK
    <2>6. CASE RecordRetry(s)
      BY <2>6, <2>e, <2>t, <2>p, <2>f, SlotMoves DEF RecordRetry, Return, TypeOK
    <2>7. CASE RecordDeadLetter(s)
      BY <2>7, <2>e, <2>t, <2>p, <2>f, SlotMoves DEF RecordDeadLetter, TypeOK
    <2>8. CASE PublishAlert(s)
      BY <2>8, <2>e, <2>t, <2>p, SlotMoves DEF PublishAlert, Return, TypeOK
    <2>9. CASE PublishAlertFails(s)
      BY <2>9, <2>t, <2>p, SlotMoves, SpendType
         DEF PublishAlertFails, Return, TypeOK
    <2> QED BY <1>5, <2>1, <2>2, <2>3, <2>4, <2>5, <2>6, <2>7, <2>8, <2>9
            DEF DispatchStep
  <1>6. ASSUME NEW e \in Events, OperatorStep(e) PROVE TypeOK'
    BY <1>6, SpendType
       DEF OperatorStep, ReplayDeadLetter, DiscardDeadLetter, TypeOK
  <1>7. CASE Crash
    BY <1>7, SpendType DEF Crash, TypeOK, SourceStates, SlotRecords, SlotStates,
       UnusedSlot, HandlerStates
  <1>8. CASE UNCHANGED vars
    BY <1>8 DEF TypeOK
  <1> QED BY <1>1, <1>2, <1>3, <1>4, <1>5, <1>6, <1>7, <1>8 DEF Next

(***************************************************************************)
(* Rows are never deleted, so whatever had a row keeps it.                 *)
(***************************************************************************)
LEMMA OutboxGrows == TypeOK /\ [Next]_vars => Outbox \subseteq Outbox'
  <1> SUFFICES ASSUME TypeOK, [Next]_vars, NEW e \in Outbox PROVE e \in Outbox'
    OBVIOUS
  <1>1. CASE createdAt' = createdAt
    BY <1>1 DEF Outbox
  <1>2. ASSUME NEW f \in Events, Publish(f) \/ PublishInTransaction(f)
        PROVE  e \in Outbox'
    BY <1>2, RowRank DEF Publish, PublishInTransaction, NewRow, Outbox, TypeOK
  <1> QED
    BY <1>1, <1>2 DEF Next, ProducerStep, CommitSource, PollerStep, Poll,
       DispatchNext, TimerStep, RetrySettled, RetryPending, ListenerStep,
       HasProcessed, HandlerRuns, HandlerThrows, RecordSuccess,
       RecordSuccessFails, RecordFailure, DispatchStep, EmitResolves,
       EmitRejects, MarkPublished, MarkPublishedFails, ReadRetryCount,
       RecordRetry, RecordDeadLetter, PublishAlert, PublishAlertFails,
       OperatorStep, ReplayDeadLetter, DiscardDeadLetter, Crash

\* The end of a dispatch does not change what is dispatched in any slot.
LEMMA DispatchKeepsEvent ==
  ASSUME TypeOK, NEW s \in Slots, DispatchStep(s)
  PROVE  /\ \A t \in Slots : slot'[t].event = slot[t].event
         /\ \A t \in Slots : slot'[t].pc # "free" => slot[t].pc # "free"
  <1>1. slot[s].pc # "free"
    BY DEF DispatchStep, EmitResolves, EmitRejects, MarkPublished,
       MarkPublishedFails, ReadRetryCount, RecordRetry, RecordDeadLetter,
       PublishAlert, PublishAlertFails
  <1>2. \/ \E pc \in SlotStates : slot' = [slot EXCEPT ![s].pc = pc]
        \/ \E pc \in SlotStates, n \in {0, retryCount[slot[s].event]} :
              slot' = [slot EXCEPT ![s].pc = pc, ![s].seen = n]
        \/ Return(s)
    BY DEF DispatchStep, EmitResolves, EmitRejects, MarkPublished,
       MarkPublishedFails, ReadRetryCount, RecordRetry, RecordDeadLetter,
       PublishAlert, PublishAlertFails, SlotStates
  <1>3. \A t \in Slots \ {s} : slot'[t] = slot[t]
    BY <1>2 DEF Return, TypeOK
  <1>4. CASE \E pc \in SlotStates : slot' = [slot EXCEPT ![s].pc = pc]
    BY <1>1, <1>3, <1>4 DEF TypeOK, SlotRecords
  <1>5. CASE \E pc \in SlotStates, n \in {0, retryCount[slot[s].event]} :
                slot' = [slot EXCEPT ![s].pc = pc, ![s].seen = n]
    BY <1>1, <1>3, <1>5 DEF TypeOK, SlotRecords
  <1>6. CASE Return(s)
    BY <1>1, <1>3, <1>6 DEF Return, TypeOK, SlotRecords
  <1> QED BY <1>2, <1>4, <1>5, <1>6

\* Whatever the bus works on keeps having a row.
LEMMA RowsStep == IInv /\ [Next]_vars => RowsExist'
  <1> SUFFICES ASSUME TypeOK, RowsExist, [Next]_vars PROVE RowsExist'
    BY DEF IInv
  <1>0. Outbox \subseteq Outbox'
    BY OutboxGrows
  <1>p. Pending \subseteq Outbox
    BY DEF Pending
  <1> USE DEF RowsExist
  <1>1. ASSUME NEW e \in Events, ProducerStep(e) PROVE RowsExist'
    BY <1>0, <1>1 DEF ProducerStep, CommitSource, Publish, PublishInTransaction
  <1>2. ASSUME NEW p \in Pollers, PollerStep(p) PROVE RowsExist'
    <2>1. CASE Poll(p)
      BY <1>0, <1>p, <2>1 DEF Poll, OldestPending, TypeOK
    <2>2. ASSUME NEW s \in Slots, DispatchNext(p, s) PROVE RowsExist'
      <3>1. PICK e \in batch[p] : /\ StartDispatch(s, e, p)
                                  /\ batch' = [batch EXCEPT ![p] = @ \ {e}]
        BY <2>2 DEF DispatchNext
      <3>2. e \in Outbox' /\ slot' = [slot EXCEPT ![s] = slot'[s]]
            /\ slot'[s].event = e
        BY <1>0, <3>1 DEF StartDispatch, TypeOK
      <3> QED BY <1>0, <2>2, <3>1, <3>2 DEF DispatchNext, StartDispatch, TypeOK
    <2> QED BY <1>2, <2>1, <2>2 DEF PollerStep
  <1>3. ASSUME NEW e \in Events, TimerStep(e) PROVE RowsExist'
    <2>1. CASE RetrySettled(e)
      BY <1>0, <2>1 DEF RetrySettled, TypeOK
    <2>2. ASSUME NEW s \in Slots, RetryPending(e, s) PROVE RowsExist'
      BY <1>0, <1>p, <2>2 DEF RetryPending, StartDispatch, TypeOK
    <2> QED BY <1>3, <2>1, <2>2 DEF TimerStep
  <1>4. ASSUME NEW s \in Slots, NEW c \in Consumers, ListenerStep(s, c)
        PROVE RowsExist'
    <2>1. handler[s][c] # "idle"
      BY <1>4 DEF ListenerStep, HasProcessed, HandlerRuns, HandlerThrows,
         RecordSuccess, RecordSuccessFails, RecordFailure
    <2>2. PICK x : handler' = [handler EXCEPT ![s][c] = x]
      BY <1>4 DEF ListenerStep, HasProcessed, HandlerRuns, HandlerThrows,
         RecordSuccess, RecordSuccessFails, RecordFailure, Settle
    <2>3. \A t \in Slots, d \in Consumers :
                handler'[t][d] # "idle" => handler[t][d] # "idle"
      BY <2>1, <2>2 DEF TypeOK
    <2>4. UNCHANGED <<slot, batch, timers, rows, discarded>>
      BY <1>4 DEF ListenerStep, HasProcessed, HandlerRuns, HandlerThrows,
         RecordSuccess, RecordSuccessFails, RecordFailure
    <2> QED BY <1>0, <2>3, <2>4
  <1>5. ASSUME NEW s \in Slots, DispatchStep(s) PROVE RowsExist'
    <2>1. slot[s].pc # "free"
      BY <1>5 DEF DispatchStep, EmitResolves, EmitRejects, MarkPublished,
         MarkPublishedFails, ReadRetryCount, RecordRetry, RecordDeadLetter,
         PublishAlert, PublishAlertFails
    <2>b. handler' = handler \/ Detach(s)
      BY <1>5 DEF DispatchStep, EmitResolves, EmitRejects, MarkPublished,
         MarkPublishedFails, ReadRetryCount, RecordRetry, RecordDeadLetter,
         PublishAlert, PublishAlertFails
    <2>2. /\ \A t \in Slots : slot'[t].event = slot[t].event
          /\ \A t \in Slots : slot'[t].pc # "free" => slot[t].pc # "free"
      BY <1>5, DispatchKeepsEvent
    <2>c. \A t \in Slots, d \in Consumers :
                handler'[t][d] # "idle" => handler[t][d] # "idle"
      <3>1. ASSUME Detach(s), NEW t \in Slots, NEW d \in Consumers,
                   handler'[t][d] # "idle"
            PROVE  handler[t][d] # "idle"
        BY <3>1 DEF Detach, TypeOK
      <3> QED BY <2>b, <3>1
    <2>d. UNCHANGED <<batch, discarded>>
      BY <1>5 DEF DispatchStep, EmitResolves, EmitRejects, MarkPublished,
         MarkPublishedFails, ReadRetryCount, RecordRetry, RecordDeadLetter,
         PublishAlert, PublishAlertFails
    <2>3. /\ published' \subseteq published \cup {slot[s].event}
          /\ deadLettered' \subseteq deadLettered \cup {slot[s].event}
      BY <1>5 DEF DispatchStep, EmitResolves, EmitRejects, MarkPublished,
         MarkPublishedFails, ReadRetryCount, RecordRetry, RecordDeadLetter,
         PublishAlert, PublishAlertFails
    <2>e. timers' = timers \/ timers' = [timers EXCEPT ![slot[s].event] = @ + 1]
      BY <1>5 DEF DispatchStep, EmitResolves, EmitRejects, MarkPublished,
         MarkPublishedFails, ReadRetryCount, RecordRetry, RecordDeadLetter,
         PublishAlert, PublishAlertFails
    <2>f. \A e \in Events : timers'[e] > 0 => timers[e] > 0 \/ e = slot[s].event
      BY <2>e DEF TypeOK
    <2> QED BY <1>0, <2>1, <2>2, <2>3, <2>c, <2>d, <2>f
  <1>6. ASSUME NEW e \in Events, OperatorStep(e) PROVE RowsExist'
    BY <1>0, <1>6 DEF OperatorStep, ReplayDeadLetter, DiscardDeadLetter
  <1>7. CASE Crash
    BY <1>0, <1>7 DEF Crash, UnusedSlot
  <1>8. CASE UNCHANGED vars
    BY <1>0, <1>8
  <1> QED BY <1>1, <1>2, <1>3, <1>4, <1>5, <1>6, <1>7, <1>8 DEF Next

\* Only a published source gets a row.
LEMMA SourceStep == IInv /\ [Next]_vars => RowsPublished'
  <1> SUFFICES ASSUME TypeOK, RowsPublished, [Next]_vars PROVE RowsPublished'
    BY DEF IInv
  <1>1. CASE UNCHANGED <<createdAt, source>>
    BY <1>1 DEF RowsPublished, Outbox
  <1>2. ASSUME NEW e \in Events, ProducerStep(e) PROVE RowsPublished'
    BY <1>2, RowRank DEF ProducerStep, CommitSource, Publish,
       PublishInTransaction, NewRow, RowsPublished, Outbox, TypeOK
  <1>3. CASE Crash
    BY <1>3 DEF Crash, RowsPublished, Outbox
  <1> QED
    BY <1>1, <1>2, <1>3 DEF Next, PollerStep, Poll, DispatchNext, TimerStep,
       RetrySettled, RetryPending, ListenerStep, HasProcessed, HandlerRuns,
       HandlerThrows, RecordSuccess, RecordSuccessFails, RecordFailure,
       DispatchStep, EmitResolves, EmitRejects, MarkPublished,
       MarkPublishedFails, ReadRetryCount, RecordRetry, RecordDeadLetter,
       PublishAlert, PublishAlertFails, OperatorStep, ReplayDeadLetter,
       DiscardDeadLetter

(***************************************************************************)
(* Completed runs are never taken back, and a slot changes its event only  *)
(* when it is free and all its listeners are idle.                         *)
(***************************************************************************)
LEMMA RunsGrow ==
  IInv /\ [Next]_vars =>
    \A e \in Events, c \in Consumers : runs[e][c] > 0 => runs'[e][c] > 0
  <1> SUFFICES ASSUME TypeOK, RowsExist, [Next]_vars
               PROVE  \A e \in Events, c \in Consumers :
                        runs[e][c] > 0 => runs'[e][c] > 0
    BY DEF IInv
  <1>1. CASE runs' = runs
    BY <1>1
  <1>2. ASSUME NEW s \in Slots, NEW d \in Consumers, HandlerRuns(s, d)
        PROVE  \A e \in Events, c \in Consumers :
                  runs[e][c] > 0 => runs'[e][c] > 0
    <2>1. slot[s].event \in Events
      BY <1>2 DEF HandlerRuns, RowsExist, Outbox
    <2> QED BY <1>2, <2>1 DEF HandlerRuns, TypeOK
  <1> QED
    BY <1>1, <1>2 DEF Next, ProducerStep, CommitSource, Publish,
       PublishInTransaction, PollerStep, Poll, DispatchNext, TimerStep,
       RetrySettled, RetryPending, ListenerStep, HasProcessed, HandlerThrows,
       RecordSuccess, RecordSuccessFails, RecordFailure, DispatchStep,
       EmitResolves, EmitRejects, MarkPublished, MarkPublishedFails,
       ReadRetryCount, RecordRetry, RecordDeadLetter, PublishAlert,
       PublishAlertFails, OperatorStep, ReplayDeadLetter, DiscardDeadLetter,
       Crash

\* A dispatch that starts leaves the claims of the other slots alone and
\* makes none itself.
LEMMA StartClaims ==
  ASSUME TypeOK, RowsExist, ClaimsBacked, NEW s \in Slots, NEW e \in Events,
         NEW owner \in Pollers \cup {NoPoller}, StartDispatch(s, e, owner),
         runs' = runs, consumerLog' = consumerLog
  PROVE  ClaimsBacked'
  <1>1. \A t \in Slots \ {s} : slot'[t] = slot[t] /\ handler'[t] = handler[t]
    BY DEF StartDispatch, TypeOK
  <1>2. slot'[s].pc = "emit" /\ \A c \in Consumers : handler'[s][c] = "check"
    BY DEF StartDispatch, TypeOK
  <1> QED BY <1>1, <1>2 DEF ClaimsBacked

\* Claims stay backed by runs.
LEMMA ClaimsStep == IInv /\ [Next]_vars => ClaimsBacked'
  <1> SUFFICES ASSUME IInv, [Next]_vars PROVE ClaimsBacked'
    OBVIOUS
  <1>i. TypeOK /\ RowsExist /\ ClaimsBacked
    BY DEF IInv
  <1>r. \A e \in Events, c \in Consumers : runs[e][c] > 0 => runs'[e][c] > 0
    BY RunsGrow
  <1>1. ASSUME NEW e \in Events, ProducerStep(e) PROVE ClaimsBacked'
    BY <1>i, <1>1 DEF ProducerStep, CommitSource, Publish,
       PublishInTransaction, ClaimsBacked
  <1>2. ASSUME NEW p \in Pollers, PollerStep(p) PROVE ClaimsBacked'
    <2>1. CASE Poll(p)
      BY <1>i, <2>1 DEF Poll, ClaimsBacked
    <2>2. ASSUME NEW s \in Slots, DispatchNext(p, s) PROVE ClaimsBacked'
      <3>1. PICK e \in batch[p] : StartDispatch(s, e, p)
        BY <2>2 DEF DispatchNext
      <3>2. e \in Events
        BY <1>i, <3>1 DEF TypeOK
      <3>3. runs' = runs /\ consumerLog' = consumerLog
        BY <2>2 DEF DispatchNext
      <3> QED BY <1>i, <3>1, <3>2, <3>3, StartClaims
    <2> QED BY <1>2, <2>1, <2>2 DEF PollerStep
  <1>3. ASSUME NEW e \in Events, TimerStep(e) PROVE ClaimsBacked'
    <2>1. CASE RetrySettled(e)
      BY <1>i, <2>1 DEF RetrySettled, ClaimsBacked
    <2>2. ASSUME NEW s \in Slots, RetryPending(e, s) PROVE ClaimsBacked'
      <3>1. StartDispatch(s, e, NoPoller) /\ runs' = runs
            /\ consumerLog' = consumerLog
        BY <2>2 DEF RetryPending
      <3> QED BY <1>i, <3>1, StartClaims
    <2> QED BY <1>3, <2>1, <2>2 DEF TimerStep
  <1>4. ASSUME NEW s \in Slots, NEW c \in Consumers, ListenerStep(s, c)
        PROVE ClaimsBacked'
    <2>1. slot' = slot /\ slot[s].event \in Events
      BY <1>i, <1>4 DEF ListenerStep, HasProcessed, HandlerRuns, HandlerThrows,
         RecordSuccess, RecordSuccessFails, RecordFailure, RowsExist, Outbox
    <2>2. PICK x \in HandlerStates :
                /\ handler' = [handler EXCEPT ![s][c] = x]
                /\ x \in {"applied", "done"} => runs'[slot[s].event][c] > 0
      <3>1. CASE HasProcessed(s, c)
        <4>1. runs' = runs
          BY <3>1 DEF HasProcessed
        <4>2. CASE consumerLog[slot[s].event][c] = "success"
          <5>1. runs[slot[s].event][c] > 0
            BY <1>i, <2>1, <4>2 DEF ClaimsBacked
          <5>2. PICK y \in {"done", "idle"} : handler' = [handler EXCEPT ![s][c] = y]
            BY <3>1, <4>2 DEF HasProcessed, Settle
          <5> QED BY <4>1, <5>1, <5>2 DEF HandlerStates
        <4>3. CASE consumerLog[slot[s].event][c] # "success"
          BY <3>1, <4>3 DEF HasProcessed, HandlerStates
        <4> QED BY <4>2, <4>3
      <3>2. CASE HandlerRuns(s, c)
        <4>1. runs'[slot[s].event][c] > 0
          BY <1>i, <2>1, <3>2 DEF HandlerRuns, TypeOK
        <4> QED BY <3>2, <4>1 DEF HandlerRuns, HandlerStates
      <3>3. CASE HandlerThrows(s, c) \/ RecordSuccessFails(s, c)
        BY <3>3 DEF HandlerThrows, RecordSuccessFails, HandlerStates
      <3>4. CASE RecordSuccess(s, c)
        <4>1. runs' = runs /\ runs[slot[s].event][c] > 0
          BY <1>i, <3>4 DEF RecordSuccess, ClaimsBacked
        <4>2. PICK y \in {"done", "idle"} : handler' = [handler EXCEPT ![s][c] = y]
          BY <3>4 DEF RecordSuccess, Settle
        <4> QED BY <4>1, <4>2 DEF HandlerStates
      <3>5. CASE RecordFailure(s, c)
        <4>1. PICK y \in {"failed", "idle"} :
                  handler' = [handler EXCEPT ![s][c] = y]
          BY <3>5 DEF RecordFailure, Settle
        <4> QED BY <4>1 DEF HandlerStates
      <3> QED BY <1>4, <3>1, <3>2, <3>3, <3>4, <3>5 DEF ListenerStep
    <2>3. \A e \in Events, d \in Consumers :
            consumerLog'[e][d] = "success" => runs'[e][d] > 0
      <3>1. CASE RecordSuccess(s, c)
        BY <1>i, <2>1, <3>1 DEF RecordSuccess, ClaimsBacked, TypeOK
      <3>2. CASE RecordFailure(s, c)
        BY <1>i, <2>1, <3>2 DEF RecordFailure, ClaimsBacked, TypeOK
      <3>3. CASE consumerLog' = consumerLog
        BY <1>i, <1>r, <3>3 DEF ClaimsBacked
      <3> QED BY <1>4, <3>1, <3>2, <3>3 DEF ListenerStep, HasProcessed,
              HandlerRuns, HandlerThrows, RecordSuccessFails
    <2>4. \A t \in Slots, d \in Consumers :
            handler'[t][d] \in {"applied", "done"} => runs'[slot'[t].event][d] > 0
      <3> SUFFICES ASSUME NEW t \in Slots, NEW d \in Consumers,
                          handler'[t][d] \in {"applied", "done"}
                   PROVE  runs'[slot[t].event][d] > 0
        BY <2>1
      <3>1. CASE t = s /\ d = c
        BY <1>i, <2>2, <3>1 DEF TypeOK
      <3>2. CASE ~(t = s /\ d = c)
        <4>1. handler[t][d] = handler'[t][d]
          BY <1>i, <2>2, <3>2 DEF TypeOK
        <4>2. slot[t].event \in Events
          BY <1>i, <4>1 DEF RowsExist, Outbox
        <4> QED BY <1>i, <1>r, <4>1, <4>2 DEF ClaimsBacked
      <3> QED BY <3>1, <3>2
    <2>5. \A t \in Slots, d \in Consumers :
            slot'[t].pc = "mark" /\ ~SuppressErrors =>
                runs'[slot'[t].event][d] > 0
      BY <1>i, <1>r, <2>1 DEF ClaimsBacked, RowsExist, Outbox
    <2> QED BY <2>3, <2>4, <2>5 DEF ClaimsBacked
  <1>5. ASSUME NEW s \in Slots, DispatchStep(s) PROVE ClaimsBacked'
    <2>1. runs' = runs /\ consumerLog' = consumerLog
      BY <1>5 DEF DispatchStep, EmitResolves, EmitRejects, MarkPublished,
         MarkPublishedFails, ReadRetryCount, RecordRetry, RecordDeadLetter,
         PublishAlert, PublishAlertFails
    <2>2. \A t \in Slots : slot'[t].event = slot[t].event
      BY <1>5, <1>i, DispatchKeepsEvent
    <2>3. \A t \in Slots, d \in Consumers :
            handler'[t][d] \in {"applied", "done"} => handler'[t][d] = handler[t][d]
      <3>1. CASE handler' = handler
        BY <3>1
      <3>2. ASSUME Detach(s), NEW t \in Slots, NEW d \in Consumers,
                   handler'[t][d] \in {"applied", "done"}
            PROVE  handler'[t][d] = handler[t][d]
        BY <1>i, <3>2 DEF Detach, TypeOK
      <3> QED BY <1>5, <3>1, <3>2 DEF DispatchStep, EmitResolves, EmitRejects,
         MarkPublished, MarkPublishedFails, ReadRetryCount, RecordRetry,
         RecordDeadLetter, PublishAlert, PublishAlertFails
    <2>4. \A t \in Slots : slot'[t].pc = "mark" /\ slot[t].pc # "mark" /\ ~SuppressErrors =>
             \A d \in Consumers : handler[t][d] = "done"
      <3>1. CASE EmitResolves(s)
        BY <1>i, <3>1 DEF EmitResolves, Resolved, TypeOK
      <3>2. CASE EmitRejects(s) \/ MarkPublishedFails(s)
        <4>1. slot' = [slot EXCEPT ![s].pc = "failing"]
          BY <3>2 DEF EmitRejects, MarkPublishedFails
        <4> QED BY <1>i, <4>1 DEF TypeOK, SlotRecords
      <3>3. CASE ReadRetryCount(s) \/ RecordDeadLetter(s)
        <4>1. PICK pc \in {"record", "alert"}, n \in {0, retryCount[slot[s].event]} :
                slot' = [slot EXCEPT ![s].pc = pc, ![s].seen = n]
          BY <3>3 DEF ReadRetryCount, RecordDeadLetter
        <4> QED BY <1>i, <4>1 DEF TypeOK, SlotRecords
      <3>4. CASE Return(s)
        BY <1>i, <3>4 DEF Return, TypeOK, SlotRecords
      <3> QED BY <1>5, <3>1, <3>2, <3>3, <3>4 DEF DispatchStep, MarkPublished,
              RecordRetry, PublishAlert, PublishAlertFails
    <2> QED BY <1>i, <2>1, <2>2, <2>3, <2>4 DEF ClaimsBacked
  <1>6. ASSUME NEW e \in Events, OperatorStep(e) PROVE ClaimsBacked'
    BY <1>i, <1>6
       DEF OperatorStep, ReplayDeadLetter, DiscardDeadLetter, ClaimsBacked
  <1>7. CASE Crash
    BY <1>i, <1>7 DEF Crash, UnusedSlot, ClaimsBacked
  <1>8. CASE UNCHANGED vars
    BY <1>i, <1>8 DEF ClaimsBacked
  <1> QED BY <1>1, <1>2, <1>3, <1>4, <1>5, <1>6, <1>7, <1>8 DEF Next

(***************************************************************************)
(* Retry counts trail the failures they count.                             *)
(***************************************************************************)
LEMMA CountsStep == IInv /\ [Next]_vars => CountsEarned' /\ DeadLetterEarned'
  <1> SUFFICES ASSUME IInv, [Next]_vars
               PROVE  CountsEarned' /\ DeadLetterEarned'
    OBVIOUS
  <1>i. TypeOK /\ RowsExist /\ CountsEarned /\ DeadLetterEarned
    BY DEF IInv
  <1> USE DEF CountsEarned, DeadLetterEarned
  <1>1. ASSUME UNCHANGED <<retryCount, failures, deadLettered>>,
               \A s \in Slots : slot'[s].pc = "record" => slot'[s] = slot[s]
        PROVE  CountsEarned' /\ DeadLetterEarned'
    BY <1>1, <1>i
  <1>2. ASSUME NEW e \in Events, ProducerStep(e) \/ RetrySettled(e)
        PROVE  CountsEarned' /\ DeadLetterEarned'
    BY <1>1, <1>2 DEF ProducerStep, CommitSource, Publish,
       PublishInTransaction, RetrySettled
  <1>3. ASSUME NEW s \in Slots, NEW e, NEW owner, StartDispatch(s, e, owner),
               UNCHANGED <<retryCount, failures, deadLettered>>
        PROVE  CountsEarned' /\ DeadLetterEarned'
    <2>1. \A t \in Slots : slot'[t].pc = "record" => slot'[t] = slot[t]
      BY <1>i, <1>3 DEF StartDispatch, TypeOK
    <2> QED BY <1>1, <1>3, <2>1
  <1>4. ASSUME NEW p \in Pollers, PollerStep(p)
        PROVE  CountsEarned' /\ DeadLetterEarned'
    BY <1>1, <1>3, <1>4 DEF PollerStep, Poll, DispatchNext
  <1>5. ASSUME NEW e \in Events, NEW s \in Slots, RetryPending(e, s)
        PROVE  CountsEarned' /\ DeadLetterEarned'
    BY <1>3, <1>5 DEF RetryPending
  <1>6. ASSUME NEW s \in Slots, NEW c \in Consumers, ListenerStep(s, c)
        PROVE  CountsEarned' /\ DeadLetterEarned'
    BY <1>1, <1>6 DEF ListenerStep, HasProcessed, HandlerRuns, HandlerThrows,
       RecordSuccess, RecordSuccessFails, RecordFailure
  <1>7. ASSUME NEW s \in Slots, DispatchStep(s)
        PROVE  CountsEarned' /\ DeadLetterEarned'
    <2>0. slot[s].pc # "free" => slot[s].event \in Events
      BY <1>i DEF RowsExist, Outbox
    <2>1. CASE EmitResolves(s)
      <3>1. slot' = [slot EXCEPT ![s].pc = "mark"]
        BY <2>1 DEF EmitResolves
      <3>2. \A t \in Slots : slot'[t].pc = "record" => slot'[t] = slot[t]
        BY <1>i, <3>1 DEF TypeOK, SlotRecords
      <3> QED BY <1>1, <2>1, <3>2 DEF EmitResolves
    <2>2. CASE EmitRejects(s) \/ MarkPublishedFails(s)
      <3>1. slot' = [slot EXCEPT ![s].pc = "failing"]
        BY <2>2 DEF EmitRejects, MarkPublishedFails
      <3>2. \A t \in Slots : slot'[t].pc = "record" => slot'[t] = slot[t]
        BY <1>i, <3>1 DEF TypeOK, SlotRecords
      <3> QED BY <1>1, <2>2, <3>2 DEF EmitRejects, MarkPublishedFails
    <2>r. ASSUME Return(s), NEW t \in Slots, slot'[t].pc = "record"
          PROVE  slot'[t] = slot[t]
      BY <1>i, <2>r DEF Return, TypeOK, SlotRecords
    <2>3. CASE MarkPublished(s) \/ PublishAlert(s) \/ PublishAlertFails(s)
      BY <1>1, <2>3, <2>r DEF MarkPublished, PublishAlert, PublishAlertFails
    <2>4. CASE ReadRetryCount(s)
      <3>1. slot' = [slot EXCEPT ![s].pc = "record",
                                 ![s].seen = retryCount[slot[s].event]]
            /\ UNCHANGED <<retryCount, failures, deadLettered>>
        BY <2>4 DEF ReadRetryCount
      <3>2. slot'[s].seen <= failures[slot[s].event] /\ slot'[s].event = slot[s].event
        BY <1>i, <2>0, <2>4, <3>1 DEF ReadRetryCount, TypeOK, SlotRecords
      <3>3. \A t \in Slots \ {s} : slot'[t] = slot[t]
        BY <1>i, <3>1 DEF TypeOK
      <3> QED BY <1>i, <3>1, <3>2, <3>3
    <2>5. CASE RecordRetry(s) \/ RecordDeadLetter(s)
      <3> DEFINE e == slot[s].event
      <3>1. e \in Events /\ slot[s].seen \in Nat /\ slot[s].seen <= failures[e]
        BY <1>i, <2>0, <2>5 DEF RecordRetry, RecordDeadLetter, TypeOK, SlotRecords
      <3>2. /\ retryCount' = [retryCount EXCEPT ![e] = slot[s].seen + 1]
            /\ failures' = [failures EXCEPT ![e] = @ + 1]
        BY <2>5 DEF RecordRetry, RecordDeadLetter
      <3>3. \A f \in Events : /\ failures[f] <= failures'[f]
                              /\ failures[f] \in Nat /\ failures'[f] \in Nat
                              /\ retryCount'[f] <= failures'[f]
        BY <1>i, <3>1, <3>2 DEF TypeOK
      <3>4. \A t \in Slots : slot'[t].pc = "record" => slot'[t] = slot[t]
        <4>1. CASE RecordRetry(s)
          BY <2>r, <4>1 DEF RecordRetry
        <4>2. CASE RecordDeadLetter(s)
          <5>1. slot' = [slot EXCEPT ![s].pc = "alert", ![s].seen = 0]
            BY <4>2 DEF RecordDeadLetter
          <5> QED BY <1>i, <5>1 DEF TypeOK, SlotRecords
        <4> QED BY <2>5, <4>1, <4>2
      <3>5. \A t \in Slots : slot'[t].pc = "record" =>
                slot'[t].seen <= failures'[slot'[t].event]
        <4> SUFFICES ASSUME NEW t \in Slots, slot'[t].pc = "record"
                     PROVE  slot[t].seen <= failures'[slot[t].event]
          BY <3>4
        <4>1. slot[t].pc = "record" /\ slot[t].event \in Events
          BY <1>i, <3>4 DEF RowsExist, Outbox
        <4> QED BY <1>i, <3>3, <4>1 DEF TypeOK, SlotRecords
      <3>6. \A f \in deadLettered' : failures'[f] >= MaxRetries
        <4>1. CASE RecordRetry(s)
          BY <1>i, <3>3, <4>1 DEF RecordRetry, TypeOK
        <4>2. CASE RecordDeadLetter(s)
          <5>1. failures'[e] >= MaxRetries
            BY <1>i, <3>1, <3>2, <4>2 DEF RecordDeadLetter, TypeOK
          <5>2. deadLettered' = deadLettered \cup {e}
            BY <4>2 DEF RecordDeadLetter
          <5> QED BY <1>i, <3>3, <5>1, <5>2 DEF TypeOK
        <4> QED BY <2>5, <4>1, <4>2
      <3> QED BY <3>3, <3>5, <3>6
    <2> QED BY <1>7, <2>1, <2>2, <2>3, <2>4, <2>5 DEF DispatchStep
  <1>8. ASSUME NEW e \in Events, OperatorStep(e)
        PROVE  CountsEarned' /\ DeadLetterEarned'
    <2>1. /\ retryCount' = [retryCount EXCEPT ![e] = 0] \/ retryCount' = retryCount
          /\ deadLettered' \subseteq deadLettered
          /\ failures' = failures /\ slot' = slot
      BY <1>8 DEF OperatorStep, ReplayDeadLetter, DiscardDeadLetter, memory
    <2>2. \A f \in Events : retryCount'[f] <= failures'[f]
      BY <1>i, <2>1 DEF TypeOK
    <2>3. \A s \in Slots :
              slot'[s].pc = "record" => slot'[s].seen <= failures'[slot'[s].event]
      BY <1>i, <2>1
    <2>4. \A f \in deadLettered' : failures'[f] >= MaxRetries
      BY <1>i, <2>1
    <2> QED BY <2>2, <2>3, <2>4
  <1>9. CASE Crash
    BY <1>i, <1>9 DEF Crash, UnusedSlot
  <1>10. CASE UNCHANGED vars
    BY <1>1, <1>10
  <1> QED BY <1>2, <1>4, <1>5, <1>6, <1>7, <1>8, <1>9, <1>10 DEF Next, TimerStep

(***************************************************************************)
(* A row is marked published by a dispatch all of whose listeners were     *)
(* done, or by an operator who discards it.                                *)
(***************************************************************************)
LEMMA PublishedStep ==
  ASSUME ~SuppressErrors PROVE IInv /\ [Next]_vars => PublishedWasProcessed'
  <1> SUFFICES ASSUME IInv, [Next]_vars PROVE PublishedWasProcessed'
    OBVIOUS
  <1>i. TypeOK /\ RowsExist /\ ClaimsBacked /\ PublishedWasProcessed
    BY DEF IInv
  <1>r. \A e \in Events, c \in Consumers : runs[e][c] > 0 => runs'[e][c] > 0
    BY RunsGrow
  <1>1. CASE UNCHANGED <<published, discarded>>
    BY <1>i, <1>r, <1>1 DEF PublishedWasProcessed, TypeOK
  <1>2. ASSUME NEW s \in Slots, MarkPublished(s) PROVE PublishedWasProcessed'
    <2>1. /\ published' = published \cup {slot[s].event}
          /\ discarded' = discarded
          /\ slot[s].event \in Events
          /\ \A c \in Consumers : runs[slot[s].event][c] > 0
      BY <1>i, <1>2 DEF MarkPublished, ClaimsBacked, RowsExist, Outbox
    <2> QED BY <1>i, <1>r, <2>1 DEF PublishedWasProcessed, TypeOK
  <1>3. ASSUME NEW e \in Events, OperatorStep(e) PROVE PublishedWasProcessed'
    BY <1>i, <1>r, <1>3 DEF OperatorStep, ReplayDeadLetter, DiscardDeadLetter,
       PublishedWasProcessed, TypeOK
  <1> QED
    BY <1>1, <1>2, <1>3 DEF Next, ProducerStep, CommitSource, Publish,
       PublishInTransaction, PollerStep, Poll, DispatchNext, TimerStep,
       RetrySettled, RetryPending, ListenerStep, HasProcessed, HandlerRuns,
       HandlerThrows, RecordSuccess, RecordSuccessFails, RecordFailure,
       DispatchStep, EmitResolves, EmitRejects, MarkPublishedFails,
       ReadRetryCount, RecordRetry, RecordDeadLetter, PublishAlert,
       PublishAlertFails, Crash

-----------------------------------------------------------------------------
\* IInv is an invariant of the bus: what TypeOK says of its state, and why the
\* two promises below survive every interleaving, fault and restart.
THEOREM BusInvariant == Spec => []IInv
  <1>1. IInv /\ [Next]_vars => IInv'
    BY TypeStep, RowsStep, SourceStep, ClaimsStep, CountsStep, PublishedStep DEF IInv
  <1> QED BY InitIInv, <1>1, PTL DEF Spec

\* An event marked published and not discarded was processed by every consumer.
THEOREM PublishedIsProcessed ==
  ASSUME ~SuppressErrors PROVE Spec => []PublishedWasProcessed
  <1>1. IInv => PublishedWasProcessed
    BY DEF IInv
  <1> QED BY BusInvariant, <1>1, PTL

\* Only an event that failed MAX_RETRIES times is dead-lettered.
THEOREM DeadLetterIsEarned == Spec => []DeadLetterEarned
  <1>1. IInv => DeadLetterEarned
    BY DEF IInv
  <1> QED BY BusInvariant, <1>1, PTL

-----------------------------------------------------------------------------
(***************************************************************************)
(* The bus implements Delivery: four kinds of steps map to steps of the    *)
(* abstract specification, all others to stuttering.                       *)
(***************************************************************************)
LEMMA InitImplements == Init => D!Init
  BY DEF Init, D!Init, Outbox, Processed

\* Every step is a step of Delivery, or changes nothing of it.
LEMMA StepImplements ==
  ASSUME ~SuppressErrors PROVE IInv /\ [Next]_vars => [D!Next]_(D!vars)
  <1> SUFFICES ASSUME IInv, [Next]_vars PROVE [D!Next]_(D!vars)
    OBVIOUS
  <1>i. TypeOK /\ RowsExist /\ RowsPublished /\ ClaimsBacked
    BY DEF IInv
  <1>s. ASSUME UNCHANGED <<createdAt, published, deadLettered, runs, discarded>>
        PROVE  UNCHANGED D!vars
    BY <1>s DEF D!vars, Outbox, Processed
  <1>1. ASSUME NEW e \in Events, Publish(e) \/ PublishInTransaction(e)
        PROVE  D!Next
    <2>1. e \notin Outbox
      BY <1>i, <1>1 DEF Publish, PublishInTransaction, RowsPublished
    <2>2. createdAt' = [createdAt EXCEPT ![e] = Cardinality(Outbox) + 1]
      BY <1>1 DEF Publish, PublishInTransaction, NewRow
    <2>3. Outbox' = Outbox \cup {e}
      BY <1>i, <2>2, RowRank DEF Outbox, TypeOK
    <2>4. UNCHANGED <<Processed, published, deadLettered, discarded>>
      BY <1>1 DEF Publish, PublishInTransaction, Processed
    <2>5. D!Persist(e)
      BY <2>1, <2>3, <2>4 DEF D!Persist
    <2> QED BY <2>5 DEF D!Next
  <1>2. ASSUME NEW s \in Slots, NEW c \in Consumers, HandlerRuns(s, c)
        PROVE  D!Next
    <2> DEFINE e == slot[s].event
    <2>1. e \in Outbox /\ e \in Events
      BY <1>i, <1>2 DEF HandlerRuns, RowsExist, Outbox
    <2>2. runs' = [runs EXCEPT ![e][c] = @ + 1]
      BY <1>2 DEF HandlerRuns
    <2>3. Processed' = Processed \cup {<<e, c>>}
      BY <1>i, <2>1, <2>2 DEF Processed, TypeOK
    <2>4. UNCHANGED <<Outbox, published, deadLettered, discarded>>
      BY <1>2 DEF HandlerRuns, Outbox
    <2>5. D!Process(e, c)
      BY <2>1, <2>3, <2>4 DEF D!Process
    <2> QED BY <2>1, <2>5 DEF D!Next
  <1>3. ASSUME NEW s \in Slots, MarkPublished(s) PROVE D!Next
    <2> DEFINE e == slot[s].event
    <2>1. e \in Outbox /\ e \in Events /\ \A c \in Consumers : <<e, c>> \in Processed
      BY <1>i, <1>3 DEF MarkPublished, RowsExist, ClaimsBacked, Outbox, Processed
    <2>2. D!MarkPublished(e)
      BY <1>3, <2>1 DEF MarkPublished, D!MarkPublished, Outbox, Processed
    <2> QED BY <2>1, <2>2 DEF D!Next
  <1>4. ASSUME NEW s \in Slots, RecordDeadLetter(s) PROVE D!Next
    <2> DEFINE e == slot[s].event
    <2>1. e \in Outbox /\ e \in Events
      BY <1>i, <1>4 DEF RecordDeadLetter, RowsExist, Outbox
    <2>2. D!GiveUp(e)
      BY <1>4, <2>1 DEF RecordDeadLetter, D!GiveUp, Outbox, Processed
    <2> QED BY <2>1, <2>2 DEF D!Next
  <1>5. ASSUME NEW e \in Events, OperatorStep(e) PROVE D!Next
    <2>1. D!Replay(e) \/ D!Discard(e)
      BY <1>5 DEF OperatorStep, ReplayDeadLetter, DiscardDeadLetter, D!Replay,
         D!Discard, Outbox, Processed
    <2> QED BY <2>1 DEF D!Next
  <1> QED
    BY <1>s, <1>1, <1>2, <1>3, <1>4, <1>5 DEF Next, ProducerStep, CommitSource,
       PollerStep, Poll, DispatchNext, TimerStep, RetrySettled, RetryPending,
       ListenerStep, HasProcessed, HandlerThrows, RecordSuccess,
       RecordSuccessFails, RecordFailure, DispatchStep, EmitResolves,
       EmitRejects, MarkPublishedFails, ReadRetryCount, RecordRetry,
       PublishAlert, PublishAlertFails, Crash

\* Every behaviour of the bus is a behaviour Delivery allows.
THEOREM BusImplementsDelivery ==
  ASSUME ~SuppressErrors PROVE Spec => ImplementsDelivery
  BY InitImplements, StepImplements, BusInvariant, PTL
     DEF Spec, ImplementsDelivery, D!Spec

-----------------------------------------------------------------------------
(* What nothing but a fault can break: faults are seen in the budget.       *)

\* No budget is ever refilled.
Unspent ==
    /\ budget.logFaults <= MaxLogFaults
    /\ budget.outboxFaults <= MaxOutboxFaults
    /\ budget.crashes <= MaxCrashes

\* A budget that is still whole was whole before the step, which spent nothing
\* of it.
LEMMA WholeBefore ==
  ASSUME TypeOK, Unspent, [Next]_vars
  PROVE  /\ Unspent'
         /\ budget'.logFaults = MaxLogFaults =>
                budget.logFaults = MaxLogFaults /\ ~Spend("logFaults")
         /\ budget'.outboxFaults = MaxOutboxFaults =>
                budget.outboxFaults = MaxOutboxFaults /\ ~Spend("outboxFaults")
         /\ budget'.crashes = MaxCrashes =>
                budget.crashes = MaxCrashes /\ ~Spend("crashes")
  <1>1. \/ budget' = budget
        \/ Spend("throws") \/ Spend("logFaults") \/ Spend("outboxFaults")
        \/ Spend("crashes") \/ Spend("interventions")
    BY DEF Next, ProducerStep, CommitSource, Publish, PublishInTransaction,
       PollerStep, Poll, DispatchNext, TimerStep, RetrySettled, RetryPending,
       ListenerStep, HasProcessed, HandlerRuns, HandlerThrows, RecordSuccess,
       RecordSuccessFails, RecordFailure, DispatchStep, EmitResolves, EmitRejects,
       MarkPublished, MarkPublishedFails, ReadRetryCount, RecordRetry,
       RecordDeadLetter, PublishAlert, PublishAlertFails, OperatorStep,
       ReplayDeadLetter, DiscardDeadLetter, Crash
  <1>2. /\ budget.logFaults \in Nat /\ budget.outboxFaults \in Nat
        /\ budget.crashes \in Nat
    BY DEF TypeOK, Budgets
  <1>3. ASSUME Spend("logFaults")
        PROVE  /\ budget'.logFaults = budget.logFaults - 1
               /\ budget'.outboxFaults = budget.outboxFaults
               /\ budget'.crashes = budget.crashes
    BY <1>3 DEF Spend, TypeOK, Budgets
  <1>4. ASSUME Spend("outboxFaults")
        PROVE  /\ budget'.logFaults = budget.logFaults
               /\ budget'.outboxFaults = budget.outboxFaults - 1
               /\ budget'.crashes = budget.crashes
    BY <1>4 DEF Spend, TypeOK, Budgets
  <1>5. ASSUME Spend("crashes")
        PROVE  /\ budget'.logFaults = budget.logFaults
               /\ budget'.outboxFaults = budget.outboxFaults
               /\ budget'.crashes = budget.crashes - 1
    BY <1>5 DEF Spend, TypeOK, Budgets
  <1>6. ASSUME \/ budget' = budget
               \/ Spend("throws") \/ Spend("interventions")
        PROVE  /\ budget'.logFaults = budget.logFaults
               /\ budget'.outboxFaults = budget.outboxFaults
               /\ budget'.crashes = budget.crashes
    BY <1>6 DEF Spend, TypeOK, Budgets
  <1> QED BY <1>1, <1>2, <1>3, <1>4, <1>5, <1>6 DEF Unspent

\* The announcements of dead letters, step by step: only PublishAlert and
\* PublishAlertFails leave the state "alert".
LEMMA AnnounceStep ==
  ASSUME IInv, Unspent, DeadLetterAnnounced, [Next]_vars
  PROVE  DeadLetterAnnounced'
  <1> SUFFICES ASSUME budget'.outboxFaults = MaxOutboxFaults,
                      budget'.crashes = MaxCrashes,
                      NEW e \in deadLettered'
               PROVE  \/ e \in alerts'
                      \/ \E s \in Slots : slot'[s].pc = "alert" /\ slot'[s].event = e
    BY DEF DeadLetterAnnounced
  <1>i. TypeOK /\ RowsExist
    BY DEF IInv
  <1>w. /\ budget.outboxFaults = MaxOutboxFaults /\ budget.crashes = MaxCrashes
        /\ ~Spend("outboxFaults") /\ ~Spend("crashes")
    BY <1>i, WholeBefore
  <1>d. \A f \in deadLettered :
            f \in alerts \/ \E s \in Slots : slot[s].pc = "alert" /\ slot[s].event = f
    BY <1>w DEF DeadLetterAnnounced
  <1>1. ASSUME alerts \subseteq alerts', deadLettered' \subseteq deadLettered,
               \A s \in Slots : slot[s].pc = "alert" => slot'[s] = slot[s]
        PROVE  \/ e \in alerts'
               \/ \E s \in Slots : slot'[s].pc = "alert" /\ slot'[s].event = e
    BY <1>1, <1>d
  <1>2. CASE UNCHANGED <<alerts, deadLettered, slot>>
    BY <1>1, <1>2
  <1>3. ASSUME NEW p \in Pollers, NEW s \in Slots, DispatchNext(p, s)
        PROVE  \/ e \in alerts'
               \/ \E t \in Slots : slot'[t].pc = "alert" /\ slot'[t].event = e
    BY <1>i, <1>1, <1>3 DEF DispatchNext, StartDispatch, FreeSlot, TypeOK
  <1>4. ASSUME NEW f \in Events, NEW s \in Slots, RetryPending(f, s)
        PROVE  \/ e \in alerts'
               \/ \E t \in Slots : slot'[t].pc = "alert" /\ slot'[t].event = e
    BY <1>i, <1>1, <1>4 DEF RetryPending, StartDispatch, FreeSlot, TypeOK
  <1>5. ASSUME NEW s \in Slots, DispatchStep(s)
        PROVE  \/ e \in alerts'
               \/ \E t \in Slots : slot'[t].pc = "alert" /\ slot'[t].event = e
    <2>o. \A t \in Slots \ {s} : slot'[t] = slot[t]
      BY <1>i, <1>5 DEF DispatchStep, EmitResolves, EmitRejects, MarkPublished,
         MarkPublishedFails, ReadRetryCount, RecordRetry, RecordDeadLetter,
         PublishAlert, PublishAlertFails, Return, TypeOK
    <2>1. CASE RecordDeadLetter(s)
      <3>1. /\ deadLettered' = deadLettered \cup {slot[s].event}
            /\ alerts' = alerts /\ slot[s].pc = "record"
        BY <2>1 DEF RecordDeadLetter
      <3>2. slot'[s].pc = "alert"
        BY <1>i, <2>1 DEF RecordDeadLetter, TypeOK, SlotRecords
      <3>3. slot'[s].event = slot[s].event
        BY <1>i, <1>5, DispatchKeepsEvent
      <3> QED BY <1>d, <2>o, <3>1, <3>2, <3>3
    <2>2. CASE PublishAlert(s)
      <3>1. /\ deadLettered' = deadLettered
            /\ alerts' = alerts \cup {slot[s].event}
        BY <2>2 DEF PublishAlert
      <3> QED BY <1>d, <2>o, <3>1
    <2>3. CASE ~RecordDeadLetter(s) /\ ~PublishAlert(s)
      <3>1. UNCHANGED <<alerts, deadLettered>> /\ slot[s].pc # "alert"
        BY <1>w, <1>5, <2>3 DEF DispatchStep, EmitResolves, EmitRejects, MarkPublished,
           MarkPublishedFails, ReadRetryCount, RecordRetry, PublishAlertFails
      <3> QED BY <1>1, <2>o, <3>1
    <2> QED BY <2>1, <2>2, <2>3
  <1>6. ASSUME NEW f \in Events, OperatorStep(f)
        PROVE  \/ e \in alerts'
               \/ \E t \in Slots : slot'[t].pc = "alert" /\ slot'[t].event = e
    BY <1>1, <1>6 DEF OperatorStep, ReplayDeadLetter, DiscardDeadLetter
  <1>7. ~Crash
    BY <1>w DEF Crash
  <1> QED
    BY <1>2, <1>3, <1>4, <1>5, <1>6, <1>7 DEF Next, ProducerStep, CommitSource,
       Publish, PublishInTransaction, PollerStep, Poll, TimerStep, RetrySettled,
       ListenerStep, HasProcessed, HandlerRuns, HandlerThrows, RecordSuccess,
       RecordSuccessFails, RecordFailure

\* A fresh bus has spent nothing, announced nothing and run nothing.
LEMMA InitAnnounce == Init => Unspent /\ DeadLetterAnnounced
  BY DEF Init, Unspent, DeadLetterAnnounced

\* Every dead letter is announced, or a dispatch is on its way to announcing it,
\* whatever dispatches, replays and discards overlap, until a restart or a
\* failing outbox write.
THEOREM DeadLetterIsAnnounced == Spec => []DeadLetterAnnounced
  <1>1. IInv /\ Unspent /\ DeadLetterAnnounced /\ [Next]_vars
          => Unspent' /\ DeadLetterAnnounced'
    BY WholeBefore, AnnounceStep DEF IInv
  <1> QED BY <1>1, InitAnnounce, BusInvariant, PTL DEF Spec

-----------------------------------------------------------------------------
(* The idempotency log, one dispatch of an event at a time.                 *)

AtWork(s, c) == handler[s][c] \in {"check", "run", "applied", "thrown"}

\* No consumer is at work on an event for two dispatches of it at once.
OneDispatch ==
    \A s, t \in Slots, c \in Consumers :
        AtWork(s, c) /\ AtWork(t, c) /\ slot[s].event = slot[t].event => s = t

\* A single slot, as in the run EventBus_settles, is room for no second dispatch.
LEMMA SingleSlot == ASSUME \A s, t \in Slots : s = t PROVE OneDispatch
  BY DEF OneDispatch

Whole == budget.logFaults = MaxLogFaults /\ budget.crashes = MaxCrashes

\* A run is in the log, or its listener is about to log it; a listener that is
\* about to run, or has thrown, has no run.
RunsLogged ==
    /\ \A e \in Events, c \in Consumers :
        runs[e][c] # 0 =>
            \/ consumerLog[e][c] = "success"
            \/ \E s \in Slots : slot[s].event = e /\ handler[s][c] = "applied"
    /\ \A s \in Slots, c \in Consumers :
        handler[s][c] \in {"run", "thrown"} => runs[slot[s].event][c] = 0

LEMMA InitOnce == Init => ExactlyOnce /\ (Whole => RunsLogged)
  BY DEF Init, ExactlyOnce, RunsLogged

\* Every step but a restart and a failing recordSuccess keeps the log complete.
LEMMA OnceStep ==
  ASSUME OneDispatch, IInv, Unspent, ExactlyOnce, Whole => RunsLogged, [Next]_vars
  PROVE  ExactlyOnce' /\ (Whole => RunsLogged)'
  <1> SUFFICES ASSUME Whole'
               PROVE  RunsLogged' /\ \A e \in Events, c \in Consumers : runs'[e][c] <= 1
    BY DEF ExactlyOnce, Whole
  <1> DEFINE Goal == RunsLogged' /\ \A e \in Events, c \in Consumers : runs'[e][c] <= 1
  <1>i. TypeOK /\ RowsExist
    BY DEF IInv
  <1>w. Whole /\ ~Spend("logFaults") /\ ~Spend("crashes")
    BY <1>i, WholeBefore DEF Whole
  <1>l. RunsLogged /\ \A e \in Events, c \in Consumers : runs[e][c] <= 1
    BY <1>w DEF ExactlyOnce, Whole
  <1>1. ASSUME UNCHANGED <<runs, consumerLog>>,
               \A s \in Slots, c \in Consumers :
                   /\ handler[s][c] = "applied" =>
                          handler'[s][c] = "applied" /\ slot'[s].event = slot[s].event
                   /\ handler'[s][c] \in {"run", "thrown"} =>
                          /\ handler[s][c] \in {"run", "thrown"}
                          /\ slot'[s].event = slot[s].event
        PROVE  Goal
    BY <1>1, <1>l DEF RunsLogged
  <1>2. CASE UNCHANGED <<runs, consumerLog, handler, slot>>
    BY <1>1, <1>2
  <1>3. ASSUME NEW s \in Slots, NEW e, NEW owner, StartDispatch(s, e, owner),
               UNCHANGED <<runs, consumerLog>>
        PROVE  Goal
    <2>1. \A c \in Consumers : handler[s][c] = "idle" /\ handler'[s][c] = "check"
      BY <1>i, <1>3 DEF StartDispatch, FreeSlot, TypeOK
    <2>2. \A t \in Slots \ {s} : slot'[t] = slot[t] /\ handler'[t] = handler[t]
      BY <1>i, <1>3 DEF StartDispatch, TypeOK
    <2> QED BY <1>1, <1>3, <2>1, <2>2
  <1>4. ASSUME NEW s \in Slots, NEW c \in Consumers, ListenerStep(s, c) PROVE Goal
    <2> DEFINE e == slot[s].event
    <2>e. handler[s][c] # "idle" /\ e \in Events
      BY <1>i, <1>4 DEF ListenerStep, HasProcessed, HandlerRuns, HandlerThrows,
         RecordSuccess, RecordSuccessFails, RecordFailure, RowsExist, Outbox
    <2>s. /\ slot' = slot
          /\ \A t \in Slots \ {s} : handler'[t] = handler[t]
      BY <1>i, <1>4 DEF ListenerStep, HasProcessed, HandlerRuns, HandlerThrows,
         RecordSuccess, RecordSuccessFails, RecordFailure, Settle, TypeOK
    <2>a. \A t \in Slots \ {s} :
              handler[t][c] \in {"run", "applied", "thrown"} => slot[t].event # e
      <3>1. AtWork(s, c)
        BY <1>4 DEF ListenerStep, HasProcessed, HandlerRuns, HandlerThrows,
           RecordSuccess, RecordSuccessFails, RecordFailure, AtWork
      <3> QED BY <3>1 DEF OneDispatch, AtWork
    <2>o. \A d \in Consumers \ {c} : handler'[s][d] = handler[s][d]
      BY <1>i, <1>4 DEF ListenerStep, HasProcessed, HandlerRuns, HandlerThrows,
         RecordSuccess, RecordSuccessFails, RecordFailure, Settle, TypeOK
    <2>1. CASE HasProcessed(s, c)
      <3>1. /\ handler[s][c] = "check" /\ UNCHANGED <<runs, consumerLog>>
            /\ handler'[s][c] \in {"done", "idle", "run"}
            /\ handler'[s][c] = "run" => consumerLog[e][c] # "success"
        BY <1>i, <2>1 DEF HasProcessed, Settle, TypeOK
      <3>2. handler'[s][c] = "run" => runs[e][c] = 0
        BY <1>l, <2>e, <2>a, <3>1 DEF RunsLogged
      <3> QED BY <1>l, <2>s, <2>a, <2>o, <3>1, <3>2 DEF RunsLogged
    <2>2. CASE HandlerRuns(s, c)
      <3>1. /\ handler[s][c] = "run" /\ handler'[s][c] = "applied"
            /\ consumerLog' = consumerLog
        BY <1>i, <2>2 DEF HandlerRuns, TypeOK
      <3>2. runs[e][c] = 0
        BY <1>l, <3>1 DEF RunsLogged
      <3>3. /\ runs'[e][c] = 1
            /\ \A f \in Events, d \in Consumers :
                   f # e \/ d # c => runs'[f][d] = runs[f][d]
        BY <1>i, <2>2, <2>e, <3>2 DEF HandlerRuns, TypeOK
      <3>4. ASSUME NEW f \in Events, NEW d \in Consumers, runs'[f][d] # 0
            PROVE  \/ consumerLog'[f][d] = "success"
                   \/ \E t \in Slots : slot'[t].event = f /\ handler'[t][d] = "applied"
        <4>1. CASE f = e /\ d = c
          BY <2>s, <3>1, <4>1
        <4>2. CASE f # e \/ d # c
          <5>1. \/ consumerLog[f][d] = "success"
                \/ \E t \in Slots : slot[t].event = f /\ handler[t][d] = "applied"
            BY <1>l, <3>3, <3>4, <4>2 DEF RunsLogged
          <5> QED BY <2>s, <2>o, <3>1, <4>2, <5>1
        <4> QED BY <4>1, <4>2
      <3>5. ASSUME NEW t \in Slots, NEW d \in Consumers, handler'[t][d] \in {"run", "thrown"}
            PROVE  runs'[slot'[t].event][d] = 0
        <4>1. ~(t = s /\ d = c)
          BY <3>1, <3>5
        <4>2. handler[t][d] \in {"run", "thrown"} /\ slot'[t] = slot[t]
          BY <2>s, <2>o, <3>5, <4>1
        <4>3. slot[t].event # e \/ d # c
          BY <2>a, <4>1, <4>2
        <4>4. runs[slot[t].event][d] = 0 /\ slot[t].event \in Events
          BY <1>i, <1>l, <4>2 DEF RunsLogged, RowsExist, Outbox
        <4> QED BY <3>3, <4>2, <4>3, <4>4
      <3>6. \A f \in Events, d \in Consumers : runs'[f][d] <= 1
        BY <1>l, <3>3
      <3> QED BY <3>4, <3>5, <3>6 DEF RunsLogged
    <2>3. CASE HandlerThrows(s, c)
      <3>1. /\ handler[s][c] = "run" /\ handler'[s][c] = "thrown"
            /\ UNCHANGED <<runs, consumerLog>>
        BY <1>i, <2>3 DEF HandlerThrows, TypeOK
      <3> QED BY <1>l, <2>s, <2>a, <2>o, <3>1 DEF RunsLogged
    <2>4. CASE RecordSuccess(s, c)
      <3>1. /\ handler[s][c] = "applied" /\ handler'[s][c] \in {"done", "idle"}
            /\ runs' = runs
        BY <1>i, <2>4 DEF RecordSuccess, Settle, TypeOK
      <3>2. /\ consumerLog'[e][c] = "success"
            /\ \A f \in Events, d \in Consumers :
                   f # e \/ d # c => consumerLog'[f][d] = consumerLog[f][d]
        BY <1>i, <2>4, <2>e DEF RecordSuccess, TypeOK
      <3> QED BY <1>l, <2>e, <2>s, <2>a, <2>o, <3>1, <3>2 DEF RunsLogged
    <2>5. CASE RecordFailure(s, c)
      <3>1. /\ handler[s][c] = "thrown" /\ handler'[s][c] \in {"failed", "idle"}
            /\ runs' = runs
        BY <1>i, <2>5 DEF RecordFailure, Settle, TypeOK
      <3>2. /\ runs[e][c] = 0
            /\ \A f \in Events, d \in Consumers :
                   f # e \/ d # c => consumerLog'[f][d] = consumerLog[f][d]
        BY <1>i, <1>l, <2>5, <2>e, <3>1 DEF RecordFailure, RunsLogged, TypeOK
      <3> QED BY <1>l, <2>e, <2>s, <2>a, <2>o, <3>1, <3>2 DEF RunsLogged
    <2>6. ~RecordSuccessFails(s, c)
      BY <1>w DEF RecordSuccessFails
    <2> QED BY <1>4, <2>1, <2>2, <2>3, <2>4, <2>5, <2>6 DEF ListenerStep
  <1>5. ASSUME NEW s \in Slots, DispatchStep(s) PROVE Goal
    <2>1. \A t \in Slots : slot'[t].event = slot[t].event
      BY <1>i, <1>5, DispatchKeepsEvent
    <2>2. UNCHANGED <<runs, consumerLog>>
      BY <1>5 DEF DispatchStep, EmitResolves, EmitRejects, MarkPublished,
         MarkPublishedFails, ReadRetryCount, RecordRetry, RecordDeadLetter,
         PublishAlert, PublishAlertFails
    <2>3. handler' = handler \/ Detach(s)
      BY <1>5 DEF DispatchStep, EmitResolves, EmitRejects, MarkPublished,
         MarkPublishedFails, ReadRetryCount, RecordRetry, RecordDeadLetter,
         PublishAlert, PublishAlertFails
    <2>4. \A t \in Slots, c \in Consumers :
              /\ handler[t][c] = "applied" => handler'[t][c] = "applied"
              /\ handler'[t][c] \in {"run", "thrown"} =>
                     handler[t][c] \in {"run", "thrown"}
      <3>1. CASE handler' = handler
        BY <3>1
      <3>2. ASSUME Detach(s), NEW t \in Slots, NEW c \in Consumers
            PROVE  \/ handler'[t][c] = handler[t][c]
                   \/ handler[t][c] \in {"done", "failed"} /\ handler'[t][c] = "idle"
        BY <1>i, <3>2 DEF Detach, TypeOK
      <3>3. CASE Detach(s)
        BY <3>2, <3>3
      <3> QED BY <2>3, <3>1, <3>3
    <2> QED BY <1>1, <2>1, <2>2, <2>4
  <1>6. ~Crash
    BY <1>w DEF Crash
  <1>7. ASSUME NEW p \in Pollers, NEW s \in Slots, DispatchNext(p, s) PROVE Goal
    BY <1>3, <1>7 DEF DispatchNext
  <1>8. ASSUME NEW e \in Events, NEW s \in Slots, RetryPending(e, s) PROVE Goal
    BY <1>3, <1>8 DEF RetryPending
  <1> QED
    BY <1>2, <1>4, <1>5, <1>6, <1>7, <1>8 DEF Next, ProducerStep, CommitSource,
       Publish, PublishInTransaction, PollerStep, Poll, TimerStep, RetrySettled,
       OperatorStep, ReplayDeadLetter, DiscardDeadLetter

\* With one dispatch of an event at a time no consumer runs twice for it, through
\* failed updates, retry timers, stale batches and replays, until a restart or a
\* failing recordSuccess comes between a run and its log row; for the emitter that
\* lets errors through and for the one that swallows them.
THEOREM RunsExactlyOnce == Spec /\ []OneDispatch => []ExactlyOnce
  <1>1. /\ OneDispatch /\ IInv /\ Unspent /\ ExactlyOnce /\ (Whole => RunsLogged) /\ [Next]_vars
             => ExactlyOnce' /\ (Whole => RunsLogged)'
        /\ IInv /\ Unspent /\ [Next]_vars => Unspent'
    BY OnceStep, WholeBefore DEF IInv
  <1>2. Init => Unspent
    BY InitAnnounce
  <1> QED BY <1>1, <1>2, InitOnce, BusInvariant, PTL DEF Spec
=============================================================================
