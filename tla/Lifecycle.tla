------------------------------ MODULE Lifecycle ------------------------------
(***************************************************************************)
(* The life of a job card as its state machine describes it: one atomic    *)
(* move at a time, each along ValidTransitions, every return from the      *)
(* quality check to the workshop counted as a rework.                      *)
(***************************************************************************)
EXTENDS Naturals

CONSTANT Cards

VARIABLES status, reworkCount

vars == <<status, reworkCount>>

Statuses == {"absent", "CREATED", "ASSIGNED", "IN_PROGRESS", "QUALITY_CHECK",
             "COMPLETED", "INVOICED", "CANCELLED"}

ValidTransitions ==
    [s \in Statuses |->
        CASE s = "CREATED"       -> {"ASSIGNED", "CANCELLED"}
          [] s = "ASSIGNED"      -> {"IN_PROGRESS", "CANCELLED"}
          [] s = "IN_PROGRESS"   -> {"QUALITY_CHECK", "CANCELLED"}
          [] s = "QUALITY_CHECK" -> {"COMPLETED", "IN_PROGRESS", "CANCELLED"}
          [] s = "COMPLETED"     -> {"INVOICED"}
          [] OTHER               -> {}]

IsRework(from, to) == from = "QUALITY_CHECK" /\ to = "IN_PROGRESS"

Init ==
    /\ status = [c \in Cards |-> "absent"]
    /\ reworkCount = [c \in Cards |-> 0]

Create(c) ==
    /\ status[c] = "absent"
    /\ status' = [status EXCEPT ![c] = "CREATED"]
    /\ UNCHANGED reworkCount

Move(c, target) ==
    /\ target \in ValidTransitions[status[c]]
    /\ status' = [status EXCEPT ![c] = target]
    /\ reworkCount' = IF IsRework(status[c], target)
                        THEN [reworkCount EXCEPT ![c] = @ + 1]
                        ELSE reworkCount

Next == \E c \in Cards : Create(c) \/ \E target \in Statuses : Move(c, target)

Spec == Init /\ [][Next]_vars
=============================================================================
