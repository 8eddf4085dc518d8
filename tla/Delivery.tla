------------------------------ MODULE Delivery ------------------------------
(***************************************************************************)
(* What the event bus promises about the events that reached its outbox:   *)
(* an event is settled as published only when every consumer processed it, *)
(* or an operator waived it; it may instead be given up on, replayed or    *)
(* discarded; nothing a consumer processed is ever forgotten.  How many    *)
(* attempts that takes, who makes them and in which order is left open.    *)
(***************************************************************************)
CONSTANTS Events, Consumers

VARIABLES
    persisted,      \* events with an outbox row
    processed,      \* <<event, consumer>> pairs that took effect
    published,      \* events the bus is done with
    deadLettered,   \* events the bus gave up on
    waived          \* events an operator discarded

vars == <<persisted, processed, published, deadLettered, waived>>

Init ==
    /\ persisted = {}
    /\ processed = {}
    /\ published = {}
    /\ deadLettered = {}
    /\ waived = {}

Persist(e) ==
    /\ e \notin persisted
    /\ persisted' = persisted \cup {e}
    /\ UNCHANGED <<processed, published, deadLettered, waived>>

Process(e, c) ==
    /\ e \in persisted
    /\ processed' = processed \cup {<<e, c>>}
    /\ UNCHANGED <<persisted, published, deadLettered, waived>>

MarkPublished(e) ==
    /\ e \in persisted
    /\ \A c \in Consumers : <<e, c>> \in processed
    /\ published' = published \cup {e}
    /\ UNCHANGED <<persisted, processed, deadLettered, waived>>

GiveUp(e) ==
    /\ e \in persisted
    /\ deadLettered' = deadLettered \cup {e}
    /\ UNCHANGED <<persisted, processed, published, waived>>

Replay(e) ==
    /\ e \in deadLettered
    /\ published' = published \ {e}
    /\ deadLettered' = deadLettered \ {e}
    /\ waived' = waived \ {e}
    /\ UNCHANGED <<persisted, processed>>

Discard(e) ==
    /\ e \in deadLettered
    /\ published' = published \cup {e}
    /\ waived' = waived \cup {e}
    /\ UNCHANGED <<persisted, processed, deadLettered>>

Next ==
    \/ \E e \in Events :
        Persist(e) \/ MarkPublished(e) \/ GiveUp(e) \/ Replay(e) \/ Discard(e)
    \/ \E e \in Events, c \in Consumers : Process(e, c)

Spec == Init /\ [][Next]_vars
=============================================================================
