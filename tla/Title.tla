-------------------------------- MODULE Title --------------------------------
(***************************************************************************)
(* What the ownership of a vehicle promises: who holds it, and how it may  *)
(* change hands.  Every step is atomic.  The holders of a vehicle are      *)
(* those whose ownership is open; the latest one is its owner.             *)
(***************************************************************************)
EXTENDS Integers

CONSTANTS Vehicles, Users, NoUser,
          Moments   \* when an ownership may begin

VARIABLES
    holders,        \* per vehicle, the open ownerships: user, kind, and since when
    offered         \* the user a transfer is offered to, or NoUser

vars == <<holders, offered>>

Init ==
    /\ holders = [v \in Vehicles |-> {}]
    /\ offered = [v \in Vehicles |-> NoUser]

Owns(v, u) ==
    \E h \in holders[v] : h.user = u /\ \A other \in holders[v] : other.since <= h.since

Holder(u, kind, since) == [user |-> u, kind |-> kind, since |-> since]

\* Somebody registers the vehicle or takes it into a fleet.
Acquire(v, u, kind) ==
    /\ \E since \in Moments :
        /\ \A h \in holders[v] : h.since < since
        /\ holders' = [holders EXCEPT ![v] = @ \cup {Holder(u, kind, since)}]
    /\ UNCHANGED offered

\* The owner of the legacy system is the oldest holder there is.
Inherit(v, u) ==
    /\ \E since \in Moments :
        /\ \A h \in holders[v] : since < h.since
        /\ holders' = [holders EXCEPT ![v] = @ \cup {Holder(u, "LEGACY_MIGRATION", since)}]
    /\ UNCHANGED offered

\* Only the owner offers the vehicle, and to one user at a time.
Offer(v, u) ==
    /\ offered[v] = NoUser
    /\ \E from \in Users : Owns(v, from)
    /\ offered' = [offered EXCEPT ![v] = u]
    /\ UNCHANGED holders

\* The vehicle is the recipient's alone.
Accept(v, kind) ==
    /\ offered[v] # NoUser
    /\ \E since \in Moments :
        holders' = [holders EXCEPT ![v] = {Holder(offered[v], kind, since)}]
    /\ offered' = [offered EXCEPT ![v] = NoUser]

\* Declined or expired.
Withdraw(v) ==
    /\ offered' = [offered EXCEPT ![v] = NoUser]
    /\ UNCHANGED holders

\* A vehicle that leaves a fleet goes back to whom it belonged to.
Return(v, u) ==
    /\ holders' = [holders EXCEPT ![v] =
                     {h \in @ : h.user # u \/ h.kind # "FLEET_ASSIGNMENT"}]
    /\ UNCHANGED offered

Next ==
    \E v \in Vehicles :
        \/ Withdraw(v)
        \/ \E kind \in {"SALE", "FLEET_ASSIGNMENT", "LEGACY_MIGRATION"} : Accept(v, kind)
        \/ \E u \in Users :
            \/ \E kind \in {"SALE", "FLEET_ASSIGNMENT"} : Acquire(v, u, kind)
            \/ Inherit(v, u) \/ Offer(v, u) \/ Return(v, u)

Spec == Init /\ [][Next]_vars
=============================================================================
