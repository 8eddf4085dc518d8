------------------------------- MODULE Outbox -------------------------------
(***************************************************************************)
(* The events job cards publish for the inventory: all that the two share. *)
(***************************************************************************)
EXTENDS Sequences, Naturals

CONSTANTS
    Cards,          \* job cards that may be created
    Parts,          \* part rows that may be logged
    MaxEvents       \* bound: events in the outbox

ASSUME OutboxAssumption == MaxEvents \in Nat

VARIABLE
    outbox          \* the job-card events published, in order

EventTypes == {"completed", "cancelled"}
EventRecords == [type: EventTypes, card: Cards, parts: SUBSET Parts]
=============================================================================
