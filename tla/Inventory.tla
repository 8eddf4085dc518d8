----------------------------- MODULE Inventory -----------------------------
(***************************************************************************)
(* InventoryService: the stock of a workshop, changed by staff requests    *)
(* and by the consumers of job-card.completed and job-card.cancelled.      *)
(*                                                                         *)
(* A staff request and the completed handler read the quantity, compute    *)
(* the new one and write it back by id with its movement, in a transaction *)
(* that reads nothing; the cancelled handler increments.  Everything may   *)
(* run between a read and its write.  Unit costs are left out.             *)
(***************************************************************************)
EXTENDS Outbox, Integers

CONSTANTS
    Items,          \* inventory items, created with their Opening quantity
    Opening,
    Threshold,      \* InventoryItem.reorderThreshold
    ItemOf, Qty,    \* JobCardPart.inventoryItemId and .quantity
    NoItem, NoPart,
    Staff,          \* staff requests that can be in flight at once
    Amounts,        \* the quantities staff type in
    Handlers,       \* handler invocations that can be in flight at once
    MaxDeliveries,  \* the bus' attempts at an event
    MaxStock,       \* bound: the quantity a staff request may write
    MaxOps,         \* bound: staff requests
    MaxStockFaults  \* bound: rejected database calls and restarts

ASSUME InventoryAssumption ==
    /\ Opening \in [Items -> Nat] /\ Threshold \in [Items -> Int]
    /\ ItemOf \in [Parts -> Items] /\ Qty \in [Parts -> Nat \ {0}]
    /\ NoItem \notin Items /\ NoPart \notin Parts
    /\ Amounts \subseteq Nat
    /\ MaxDeliveries \in Nat /\ MaxStock \in Nat
    /\ MaxOps \in Nat /\ MaxStockFaults \in Nat

VARIABLES
    quantity,       \* InventoryItem.quantity
    ledger,         \* per item, the sum of InventoryMovement.quantityDelta
    attempts,       \* per event, the deliveries started
    processed,      \* events with a successful EventConsumerLog row
    posted,         \* per event and part, the movements its handler wrote
    alerted,        \* items with an inventory.low-stock event in the outbox
    staff,          \* the staff requests in flight, with what they read
    run,            \* the handler invocations in flight, with what they read
    ops,            \* staff requests started
    stockFaults     \* rejected database calls and restarts so far

stock == <<quantity, ledger, posted>>
bus == <<outbox, attempts, processed>>
consumerVars ==
    <<stock, attempts, processed, alerted, staff, run, ops, stockFaults>>
stockVars == <<stock, bus, alerted, staff, run, ops, stockFaults>>

-----------------------------------------------------------------------------
EventIds == 1..MaxEvents

Operations == {"purchase", "consume", "return", "adjust"}
StaffRecords == [pc: {"idle", "write", "alert"}, op: Operations,
                 item: Items \cup {NoItem}, amount: Nat, read: Nat]
HandlerRecords == [pc: {"idle", "part", "write", "alert", "failing"},
                   event: EventIds \cup {0}, todo: SUBSET Parts,
                   part: Parts \cup {NoPart}, read: Nat]

NoRequest == [pc |-> "idle", op |-> "purchase", item |-> NoItem,
              amount |-> 0, read |-> 0]
AlertFor(i) == [pc |-> "alert", op |-> "purchase", item |-> i,
                amount |-> 0, read |-> 0]
NoRun == [pc |-> "idle", event |-> 0, todo |-> {}, part |-> NoPart, read |-> 0]

StockInit ==
    /\ quantity = Opening
    /\ ledger = [i \in Items |-> 0]
    /\ outbox = <<>>
    /\ attempts = [e \in EventIds |-> 0]
    /\ processed = {}
    /\ posted = [e \in EventIds |-> [p \in Parts |-> 0]]
    /\ alerted = {}
    /\ staff = [s \in Staff |-> NoRequest]
    /\ run = [h \in Handlers |-> NoRun]
    /\ ops = 0
    /\ stockFaults = 0

-----------------------------------------------------------------------------
(* Staff requests: purchase, consume, return, adjust. *)

NewQuantity(op, read, amount) ==
    CASE op \in {"purchase", "return"} -> read + amount
      [] op = "consume"                -> read - amount
      [] op = "adjust"                 -> amount

\* Mutant: no reorder at the threshold itself.
ReorderBelow(op, item, new) ==
    op \in {"consume", "adjust"} /\ new < Threshold[item]

\* checkReorderThreshold runs after a consumption and an adjustment only.
ReorderDue(op, item, new) ==
    op \in {"consume", "adjust"} /\ new <= Threshold[item]

StaffRead(s, op, i, n) ==
    /\ staff[s].pc = "idle"
    /\ ops < MaxOps
    /\ op # "adjust" => n > 0
    /\ NewQuantity(op, quantity[i], n) \in 0..MaxStock
    /\ staff' = [staff EXCEPT ![s] = [pc |-> "write", op |-> op, item |-> i,
                                      amount |-> n, read |-> quantity[i]]]
    /\ ops' = ops + 1
    /\ UNCHANGED <<stock, bus, alerted, run, stockFaults>>

StaffWrite(s) ==
    LET q == staff[s]
        new == NewQuantity(q.op, q.read, q.amount)
    IN
    /\ q.pc = "write"
    /\ quantity' = [quantity EXCEPT ![q.item] = new]
    /\ ledger' = [ledger EXCEPT ![q.item] = @ + (new - q.read)]
    /\ staff' = [staff EXCEPT ![s] =
                   IF ReorderDue(q.op, q.item, new)
                     THEN AlertFor(q.item)
                     ELSE NoRequest]
    /\ UNCHANGED <<posted, bus, alerted, run, ops, stockFaults>>

StaffAlert(s) ==
    /\ staff[s].pc = "alert"
    /\ alerted' = alerted \cup {staff[s].item}
    /\ staff' = [staff EXCEPT ![s] = NoRequest]
    /\ UNCHANGED <<stock, bus, run, ops, stockFaults>>

-----------------------------------------------------------------------------
(* handleJobCardCompleted and handleJobCardCancelled. *)

\* The rest of the system publishes an event.
Receive(e) ==
    /\ Len(outbox) < MaxEvents
    /\ outbox' = Append(outbox, e)
    /\ UNCHANGED consumerVars

\* The bus delivers, and delivers again what has not succeeded;
\* processWithIdempotency skips an event it has a successful row for.
Deliver(h, e) ==
    /\ run[h].pc = "idle"
    /\ e <= Len(outbox)
    /\ attempts[e] < MaxDeliveries
    /\ e \notin processed
    /\ attempts' = [attempts EXCEPT ![e] = @ + 1]
    /\ run' = [run EXCEPT ![h] = [pc |-> "part", event |-> e, part |-> NoPart,
                                  todo |-> outbox[e].parts, read |-> 0]]
    /\ UNCHANGED <<stock, outbox, processed, alerted, staff, ops, stockFaults>>

\* Handler h goes on to another step of its event.
Go(h, pc, todo, part, read) ==
    [run EXCEPT ![h] = [pc |-> pc, event |-> run[h].event, todo |-> todo,
                        part |-> part, read |-> read]]
Fail(h) == Go(h, "failing", run[h].todo, run[h].part, 0)

\* The payload lists its parts in one order, the same at every delivery.
NextPart(todo) == CHOOSE p \in todo : TRUE

\* Mutant: a part out of stock is skipped.
ReadOrSkip(h) ==
    LET p == NextPart(run[h].todo) IN
    /\ run[h].pc = "part"
    /\ run[h].todo # {}
    /\ outbox[run[h].event].type = "completed"
    /\ run' = IF quantity[ItemOf[p]] < Qty[p]
                THEN Go(h, "part", run[h].todo \ {p}, NoPart, 0)
                ELSE Go(h, "write", run[h].todo \ {p}, p, quantity[ItemOf[p]])
    /\ UNCHANGED <<stock, bus, alerted, staff, ops, stockFaults>>

ReadKeepingOne(h) ==
    LET p == NextPart(run[h].todo) IN
    /\ run[h].pc = "part"
    /\ run[h].todo # {}
    /\ outbox[run[h].event].type = "completed"
    /\ run' = IF quantity[ItemOf[p]] <= Qty[p]
                THEN Fail(h)
                ELSE Go(h, "write", run[h].todo \ {p}, p, quantity[ItemOf[p]])
    /\ UNCHANGED <<stock, bus, alerted, staff, ops, stockFaults>>

\* Completed: read the part's item; too little stock throws.
ReadPart(h) ==
    LET p == NextPart(run[h].todo) IN
    /\ run[h].pc = "part"
    /\ run[h].todo # {}
    /\ outbox[run[h].event].type = "completed"
    /\ run' = IF quantity[ItemOf[p]] < Qty[p]
                THEN Fail(h)
                ELSE Go(h, "write", run[h].todo \ {p}, p, quantity[ItemOf[p]])
    /\ UNCHANGED <<stock, bus, alerted, staff, ops, stockFaults>>

\* Mutant: the quantity is decremented, as the cancelled handler increments it.
Decrement(h) ==
    LET p == run[h].part
        new == run[h].read - Qty[p]
    IN
    /\ run[h].pc = "write"
    /\ quantity' = [quantity EXCEPT ![ItemOf[p]] = @ - Qty[p]]
    /\ ledger' = [ledger EXCEPT ![ItemOf[p]] = @ - Qty[p]]
    /\ posted' = [posted EXCEPT ![run[h].event][p] = @ + 1]
    /\ run' = Go(h, IF new <= Threshold[ItemOf[p]] THEN "alert" ELSE "part",
                 run[h].todo, p, 0)
    /\ UNCHANGED <<bus, alerted, staff, ops, stockFaults>>

\* ... and write the quantity and its movement.
DeductPart(h) ==
    LET p == run[h].part
        new == run[h].read - Qty[p]
    IN
    /\ run[h].pc = "write"
    /\ quantity' = [quantity EXCEPT ![ItemOf[p]] = new]
    /\ ledger' = [ledger EXCEPT ![ItemOf[p]] = @ - Qty[p]]
    /\ posted' = [posted EXCEPT ![run[h].event][p] = @ + 1]
    /\ run' = Go(h, IF new <= Threshold[ItemOf[p]] THEN "alert" ELSE "part",
                 run[h].todo, p, 0)
    /\ UNCHANGED <<bus, alerted, staff, ops, stockFaults>>

HandlerAlert(h) ==
    /\ run[h].pc = "alert"
    /\ alerted' = alerted \cup {ItemOf[run[h].part]}
    /\ run' = Go(h, "part", run[h].todo, NoPart, 0)
    /\ UNCHANGED <<stock, bus, staff, ops, stockFaults>>

\* Cancelled: increment the quantity and write the movement.
ReturnPart(h) ==
    LET p == NextPart(run[h].todo) IN
    /\ run[h].pc = "part"
    /\ run[h].todo # {}
    /\ outbox[run[h].event].type = "cancelled"
    /\ quantity' = [quantity EXCEPT ![ItemOf[p]] = @ + Qty[p]]
    /\ ledger' = [ledger EXCEPT ![ItemOf[p]] = @ + Qty[p]]
    /\ posted' = [posted EXCEPT ![run[h].event][p] = @ + 1]
    /\ run' = Go(h, "part", run[h].todo \ {p}, NoPart, 0)
    /\ UNCHANGED <<bus, alerted, staff, ops, stockFaults>>

RecordSuccess(h) ==
    /\ run[h].pc = "part"
    /\ run[h].todo = {}
    /\ processed' = processed \cup {run[h].event}
    /\ run' = [run EXCEPT ![h] = NoRun]
    /\ UNCHANGED <<stock, outbox, attempts, alerted, staff, ops, stockFaults>>

\* The failure is upserted over whatever the row said.
RecordFailure(h) ==
    /\ run[h].pc = "failing"
    /\ processed' = processed \ {run[h].event}
    /\ run' = [run EXCEPT ![h] = NoRun]
    /\ UNCHANGED <<stock, outbox, attempts, alerted, staff, ops, stockFaults>>

\* Any database call of a handler may reject, recordSuccess included; those of
\* a staff request end the request.
HandlerFault(h) ==
    /\ stockFaults < MaxStockFaults
    /\ stockFaults' = stockFaults + 1
    /\ run[h].pc \in {"part", "write", "alert"}
    /\ run' = Fail(h)
    /\ UNCHANGED <<stock, bus, alerted, staff, ops>>

StaffFault(s) ==
    /\ stockFaults < MaxStockFaults
    /\ stockFaults' = stockFaults + 1
    /\ staff[s].pc # "idle"
    /\ staff' = [staff EXCEPT ![s] = NoRequest]
    /\ UNCHANGED <<stock, bus, alerted, run, ops>>

Restart ==
    /\ stockFaults < MaxStockFaults
    /\ stockFaults' = stockFaults + 1
    /\ staff' = [s \in Staff |-> NoRequest]
    /\ run' = [h \in Handlers |-> NoRun]
    /\ UNCHANGED <<stock, bus, alerted, ops>>

-----------------------------------------------------------------------------
StaffStep(s) ==
    \/ \E op \in Operations, i \in Items, n \in Amounts : StaffRead(s, op, i, n)
    \/ StaffWrite(s)
    \/ StaffAlert(s)

HandlerStep(h) ==
    \/ ReadPart(h) \/ DeductPart(h) \/ HandlerAlert(h) \/ ReturnPart(h)
    \/ RecordSuccess(h) \/ RecordFailure(h)

\* All but the arrival of events, for the modules that compose this one.
Work ==
    \/ \E s \in Staff : StaffStep(s) \/ StaffFault(s)
    \/ \E h \in Handlers, e \in EventIds : Deliver(h, e)
    \/ \E h \in Handlers : HandlerStep(h) \/ HandlerFault(h)
    \/ Restart

StockNext == (\E e \in EventRecords : Receive(e)) \/ Work

StockSpec == StockInit /\ [][StockNext]_stockVars

-----------------------------------------------------------------------------
(* Properties. *)

\* The types of the stock, the bus and of what requests and handlers carry.
StockTypeOK ==
    /\ quantity \in [Items -> Int]
    /\ ledger \in [Items -> Int]
    /\ outbox \in Seq(EventRecords)
    /\ attempts \in [EventIds -> Nat]
    /\ processed \subseteq EventIds
    /\ posted \in [EventIds -> [Parts -> Nat]]
    /\ alerted \subseteq Items
    /\ staff \in [Staff -> StaffRecords]
    /\ run \in [Handlers -> HandlerRecords]
    /\ ops \in Nat /\ stockFaults \in Nat

\* However many stale writes overlap, no quantity goes below zero: consume and
\* handleJobCardCompleted check the value they compute from, and write it.
StockNeverNegative == \A i \in Items : quantity[i] >= 0

\* An event with a successful log row had every one of its parts posted, retries,
\* failures half-way and overlapping deliveries notwithstanding.
ProcessedWasPosted ==
    \A e \in processed :
        e <= Len(outbox) /\ \A p \in outbox[e].parts : posted[e][p] > 0

\* A request or a handler is about to announce item i.
AlertDue(i) ==
    \/ \E s \in Staff : staff[s].pc = "alert" /\ staff[s].item = i
    \/ \E h \in Handlers : run[h].pc = "alert" /\ ItemOf[run[h].part] = i

\* Stock that fell to the threshold was announced, or is about to be; a stale
\* purchase or return, which do not check, cannot take it there unannounced.
LowStockAnnounced ==
    stockFaults = 0 =>
        \A i \in Items :
            Threshold[i] < Opening[i] /\ quantity[i] <= Threshold[i] =>
                i \in alerted \/ AlertDue(i)

\* As long as no two writers meet on an item, its quantity is what the movements add
\* up to, across redeliveries, failures half-way and restarts.
LedgerBalances == \A i \in Items : quantity[i] = Opening[i] + ledger[i]

\* What is in flight, in the inductive invariant: the computed quantities are
\* not negative, and a handler's remaining parts are all that is not posted.
WritesChecked ==
    /\ \A s \in Staff :
        staff[s].pc = "write" =>
            /\ staff[s].item \in Items
            /\ NewQuantity(staff[s].op, staff[s].read, staff[s].amount) >= 0
    /\ \A s \in Staff : staff[s].pc = "alert" => staff[s].item \in Items
    /\ \A h \in Handlers :
        /\ run[h].pc \in {"write", "alert"} => run[h].part \in Parts
        /\ run[h].pc = "write" => run[h].read >= Qty[run[h].part]

Accounted(h) ==
    run[h].pc # "idle" =>
        /\ run[h].event \in EventIds
        /\ run[h].event <= Len(outbox)
        /\ run[h].todo \subseteq outbox[run[h].event].parts
        /\ \A p \in outbox[run[h].event].parts \ run[h].todo :
               \/ posted[run[h].event][p] > 0
               \/ run[h].pc \in {"write", "failing"} /\ p = run[h].part
RunsAccounted == \A h \in Handlers : Accounted(h)

\* The inductive invariant behind StockNeverNegative and ProcessedWasPosted.
StockIInv ==
    /\ StockTypeOK
    /\ StockNeverNegative
    /\ ProcessedWasPosted
    /\ WritesChecked
    /\ RunsAccounted
=============================================================================
