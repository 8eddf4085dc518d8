------------------------------ MODULE Workshop ------------------------------
(***************************************************************************)
(* JobCards and Inventory together: what the one appends to the outbox the *)
(* other consumes, delivered at least once.                                *)
(***************************************************************************)
EXTENDS JobCards, Inventory

wvars == <<vars, stockVars>>

WInit == Init /\ StockInit

\* The card side moves; the outbox has room for the inventory's log.
CardSide == Next /\ Len(outbox') <= MaxEvents /\ UNCHANGED consumerVars

\* The inventory side moves; it never publishes to these consumers.
StockSide == Work /\ UNCHANGED vars

WNext == CardSide \/ StockSide

WSpec == WInit /\ [][WNext]_wvars

\* The bus delivers until success or exhaustion, and a handler runs to its end.
WFairSpec ==
    /\ WSpec
    /\ \A r \in Requests : WF_wvars(WriteStep(r) /\ CardSide)
    /\ \A h \in Handlers : WF_wvars(/\ \/ HandlerStep(h)
                                       \/ \E e \in 1..MaxEvents : Deliver(h, e)
                                    /\ StockSide)

-----------------------------------------------------------------------------
(* Properties. *)

\* The movements a part caused, as events of the given type.
Moved(p, type) ==
    \E e \in DOMAIN outbox : outbox[e].type = type /\ posted[e][p] > 0

\* A completed card whose event the inventory has processed had every part
\* logged on it deducted: none was left out of the payload, none skipped by the
\* handler (no two requests meet on a card).
CompletedPartsDeducted ==
    \A e \in processed :
        outbox[e].type = "completed" =>
            \A p \in Attached(outbox[e].card) : posted[e][p] > 0

\* No part of a cancelled card was deducted for it (as above).
CancelledNeverDeducted ==
    \A c \in Cards, p \in Parts :
        status[c] = "CANCELLED" /\ partOf[p] = c => ~Moved(p, "completed")

\* The bus has made its last attempt at an event of card c.
GivenUp(c) ==
    \E e \in DOMAIN outbox : outbox[e].card = c /\ attempts[e] = MaxDeliveries

\* A completed card's parts leave the stock in the end, through the request, the
\* bus and the handler, unless a fault struck or the bus used up its attempts.
CompletionDeducts ==
    \A c \in Cards, p \in Parts :
        status[c] = "COMPLETED" /\ partOf[p] = c ~>
            Moved(p, "completed") \/ GivenUp(c) \/ faults + stockFaults > 0

\* What the cards owe their parts (as above): the completion event
\* carries all of them, a part is carried by one event at most, and the parts of
\* a cancelled card are announced.
PartsAccounted == CompletedCarriesItsParts /\ PartCarriedOnce /\ ReversedAreAnnounced

\* The stock follows the cards: what was processed is deducted, what was
\* cancelled is not, and the quantity is what the movements add up to.
StockFollowsCards == CompletedPartsDeducted /\ CancelledNeverDeducted /\ LedgerBalances
=============================================================================
