--------------------------- MODULE Notifications ---------------------------
(***************************************************************************)
(* NotificationsService: the handler of an event sends to its recipients   *)
(* one after the other; to send, a row is created PENDING and dispatched,  *)
(* with PUSH as the fallback; a job that runs every minute retries what    *)
(* FAILED.  The channel providers are stubs in the code that may become    *)
(* anything: they may fail.  The 15 minutes between retries pass before a  *)
(* run of the job, in no time of the model.  All recipients enable the     *)
(* same channels, and one event is handled at a time.                      *)
(***************************************************************************)
EXTENDS Naturals, Sequences, FiniteSets

CONSTANTS
    Preferences,    \* sets of channels a recipient may have enabled
    Managers,       \* the managers of the garage
    Runs,           \* runs of the retry job that can be in flight at once
    MAX_RETRIES,
    MaxNotes,       \* bound: notification rows
    MaxFaults       \* bound: rejected database calls and restarts

\* What Care assumes of them.
NotificationsConstants ==
    /\ Preferences \subseteq SUBSET {"WHATSAPP", "EMAIL", "SMS", "PUSH"}
    /\ MAX_RETRIES \in Nat \ {0} /\ MaxNotes \in Nat /\ MaxFaults \in Nat

VARIABLES
    inbox,          \* the types of the events to notify of, in order
    owned,          \* the vehicle has a current owner
    enabled,        \* the channels the recipients have enabled
    notes,          \* the notification rows, in order of creation
    noteSeen,       \* events the bus has delivered here
    audience,       \* the recipients the handler has still to send to
    sending,        \* the row send is dispatching, 0 if none
    batch,          \* per run of the job, the rows it is to retry and the counts it read
    faults

noteVars == <<enabled, notes, noteSeen, audience, sending, batch>>

Channels == <<"WHATSAPP", "EMAIL", "SMS", "PUSH">>

NoteInit ==
    /\ enabled \in Preferences
    /\ notes = <<>>
    /\ noteSeen = 0
    /\ audience = {} /\ sending = 0
    /\ batch = [r \in Runs |-> <<>>]

\* The first enabled channel in order of priority, PUSH if none is.
getPreferredChannel ==
    LET on == {i \in DOMAIN Channels : Channels[i] \in enabled}
    IN  IF on = {} THEN "PUSH" ELSE Channels[CHOOSE i \in on : \A j \in on : i <= j]

updatePreferences(channels) ==
    /\ enabled # channels
    /\ enabled' = channels
    /\ UNCHANGED <<notes, noteSeen, audience, sending, batch, faults>>

-----------------------------------------------------------------------------
(* send. *)

Handling == audience # {} \/ sending # 0

\* Whom the handler of an event of the given type sends to: the managers, the
\* owner if there is one, else the user its payload names.
Recipients(type) ==
    CASE type = "inventory.low-stock" -> Managers
      [] type = "service-event.created" -> IF owned THEN {"owner"} ELSE {}
      [] type \notin {"inventory.low-stock", "service-event.created"} -> {"user"}

\* A handler is given its event, and reads whom to send to.
Receive ==
    /\ ~Handling
    /\ noteSeen < Len(inbox)
    /\ noteSeen' = noteSeen + 1
    /\ audience' = Recipients(inbox[noteSeen'])
    /\ UNCHANGED <<enabled, notes, sending, batch, faults>>

\* send creates the row before the dispatch.
CreateNote(to) ==
    /\ sending = 0 /\ to \in audience
    /\ Len(notes) < MaxNotes
    /\ audience' = audience \ {to}
    /\ notes' = Append(notes, [event |-> noteSeen, to |-> to, channel |-> getPreferredChannel,
                             status |-> "PENDING", retryCount |-> 0])
    /\ sending' = Len(notes')
    /\ UNCHANGED <<enabled, noteSeen, batch, faults>>

\* send writes the final status.
Conclude(status) ==
    /\ notes' = [notes EXCEPT ![sending].status = status]
    /\ sending' = 0

\* Mutant: the last failure is not written.
SendFailsSilently ==
    /\ sending # 0
    /\ IF notes[sending].channel = "PUSH"
         THEN sending' = 0 /\ UNCHANGED notes
         ELSE notes' = [notes EXCEPT ![sending].channel = "PUSH"] /\ UNCHANGED sending
    /\ UNCHANGED <<enabled, noteSeen, audience, batch, faults>>

\* dispatchToChannel fails: PUSH is tried next, if it was not PUSH.
SendFails ==
    /\ sending # 0
    /\ IF notes[sending].channel = "PUSH"
         THEN Conclude("FAILED")
         ELSE notes' = [notes EXCEPT ![sending].channel = "PUSH"] /\ UNCHANGED sending
    /\ UNCHANGED <<enabled, noteSeen, audience, batch, faults>>

SendDelivers ==
    /\ sending # 0
    /\ Conclude("DELIVERED")
    /\ UNCHANGED <<enabled, noteSeen, audience, batch, faults>>

\* A call of the handler is rejected: a row stays PENDING, the recipients left
\* are sent nothing, and the event is not retried.
SendRejected ==
    /\ Handling
    /\ faults < MaxFaults
    /\ audience' = {} /\ sending' = 0
    /\ faults' = faults + 1
    /\ UNCHANGED <<enabled, notes, noteSeen, batch>>

-----------------------------------------------------------------------------
(* retryFailedNotifications. *)

Retryable(i) == notes[i].status = "FAILED" /\ notes[i].retryCount < MAX_RETRIES

\* The run reads the rows to retry, and their counts.
StartRun(r) ==
    /\ batch[r] = <<>>
    /\ \E i \in DOMAIN notes : Retryable(i)
    /\ batch' = [batch EXCEPT ![r] = [i \in {i \in DOMAIN notes : Retryable(i)} |->
                                        notes[i].retryCount]]
    /\ UNCHANGED <<enabled, notes, noteSeen, audience, sending, faults>>

\* The status after a retry, numbered by the count the run read.
AfterRetry(status, success, count) ==
    CASE success -> "DELIVERED"
      [] ~success /\ count >= MAX_RETRIES -> "PERMANENTLY_FAILED"
      [] ~success /\ count < MAX_RETRIES -> status

\* The oldest row of the run.
retryNotification(r, success) ==
    /\ \E i \in DOMAIN batch[r] :
        /\ \A j \in DOMAIN batch[r] : i <= j
        /\ notes' = [notes EXCEPT ![i] =
                       [@ EXCEPT !.retryCount = batch[r][i] + 1,
                                 !.status = AfterRetry(notes[i].status, success,
                                                       batch[r][i] + 1)]]
        /\ batch' = [batch EXCEPT ![r] = [j \in DOMAIN @ \ {i} |-> @[j]]]
    /\ UNCHANGED <<enabled, noteSeen, audience, sending, faults>>

\* A rejected write ends the run.
RunRejected(r) ==
    /\ batch[r] # <<>>
    /\ faults < MaxFaults
    /\ batch' = [batch EXCEPT ![r] = <<>>]
    /\ faults' = faults + 1
    /\ UNCHANGED <<enabled, notes, noteSeen, audience, sending>>

\* A restart: an event whose handler had not returned is delivered again.
RestartNotifications ==
    /\ audience' = {} /\ sending' = 0
    /\ noteSeen' = IF Handling THEN noteSeen - 1 ELSE noteSeen
    /\ batch' = [r \in Runs |-> <<>>]
    /\ UNCHANGED <<enabled, notes>>

SendStep == Receive \/ (\E to \in audience : CreateNote(to)) \/ SendDelivers \/ SendFails
RetryStep(r) == StartRun(r) \/ \E success \in BOOLEAN : retryNotification(r, success)

NotificationWork ==
    \/ \E channels \in Preferences : updatePreferences(channels)
    \/ SendStep \/ SendRejected
    \/ \E r \in Runs : RetryStep(r) \/ RunRejected(r)

-----------------------------------------------------------------------------
(* Properties. *)

\* No row is left behind: PENDING means that its send is still running, and
\* FAILED that the job has retries left for it, whatever the channels answer and
\* however runs of the job overlap; a send cut off by a fault is the exception.
RowsConcluded ==
    \A i \in DOMAIN notes :
        /\ notes[i].status = "PENDING" => sending = i \/ faults > 0
        /\ notes[i].status = "FAILED" => notes[i].retryCount < MAX_RETRIES

\* Each recipient of an event that was handled has been sent one notification of
\* it, or is about to be (without a fault).
AllSentTo ==
    faults = 0 =>
        \A e \in 1 .. noteSeen : \A to \in Recipients(inbox[e]) :
            IF e = noteSeen /\ to \in audience
              THEN \A i \in DOMAIN notes : notes[i].event # e \/ notes[i].to # to
              ELSE Cardinality({i \in DOMAIN notes : notes[i].event = e /\ notes[i].to = to}) = 1

\* Nobody is left behind: no row, and no recipient.
NoneLeftBehind == RowsConcluded /\ AllSentTo
=============================================================================
