--------------------------- MODULE WorkshopProofs ---------------------------
(***************************************************************************)
(* Proofs about the job cards, the inventory, and the two together: what   *)
(* survives any interleaving of requests, handlers, redeliveries, faults   *)
(* and restarts, and what needs requests that do not meet on a card.       *)
(***************************************************************************)
EXTENDS Workshop, TLAPS

\* A tenant without cards satisfies the invariant.
LEMMA InitInvariant == Init => IInv
<1> SUFFICES ASSUME Init PROVE IInv
  OBVIOUS
<1>1. \A r \in Requests : req[r].pc = "idle"
  BY DEF Init, Idle
<1>2. TypeOK
  BY JobCardsAssumption, OutboxAssumption
     DEF Init, TypeOK, L!Init, Idle, RequestRecords, Steps, Statuses, L!Statuses
<1>3. CompletionAnnounced
  BY DEF Init, L!Init, CompletionAnnounced
<1> QED BY <1>1, <1>2, <1>3 DEF IInv, NamesCard, TargetsAllowed, ReadsAnnounced

\* The transition table leads to statuses.
LEMMA TransitionsTyped ==
    ASSUME NEW s \in Statuses
    PROVE  L!ValidTransitions[s] \in SUBSET Statuses
BY DEF L!ValidTransitions, Statuses, L!Statuses

\* Every step is well typed.
LEMMA TypeNext ==
    ASSUME TypeOK, NamesCard, [Next]_vars PROVE TypeOK' /\ NamesCard'
<1> USE JobCardsAssumption, OutboxAssumption
<1>1. ASSUME NEW c \in Cards, CreateCard(c) PROVE TypeOK' /\ NamesCard'
  BY <1>1 DEF TypeOK, NamesCard, CreateCard, L!Create, Statuses, L!Statuses
<1>2. ASSUME NEW r \in Requests, NEW c \in Cards, NEW target \in Statuses,
             ReadTransition(r, c, target)
      PROVE  TypeOK' /\ NamesCard'
  <2>1. [pc |-> "transition", card |-> c, from |-> status[c], target |-> target,
         rework |-> reworkCount[c], parts |-> Attached(c)] \in RequestRecords
    BY DEF TypeOK, RequestRecords, Steps, Attached
  <2> QED BY <1>2, <2>1 DEF TypeOK, NamesCard, At, Idle, ReadTransition, cardVars
<1>3. ASSUME NEW r \in Requests, NEW c \in Cards, NEW pc \in {"logParts", "addNote"},
             ReadForLogging(r, c, pc)
      PROVE  TypeOK' /\ NamesCard'
  <2>1. At(pc, c, {}) \in RequestRecords
    BY DEF At, Idle, RequestRecords, Steps, Statuses, L!Statuses
  <2> QED BY <1>3, <2>1 DEF TypeOK, NamesCard, At, Idle, ReadForLogging, cardVars
<1>4. ASSUME NEW r \in Requests, NEW c \in Cards, ReadCancel(r,
c) PROVE TypeOK' /\ NamesCard'
  <2>1. At("cancel", c, Attached(c) \ reversed) \in RequestRecords
    BY DEF At, Idle, RequestRecords, Steps, Statuses, L!Statuses, Attached
  <2> QED BY <1>4, <2>1 DEF TypeOK, NamesCard, At, Idle, ReadCancel, cardVars
<1>5. Idle \in RequestRecords
  BY DEF Idle, RequestRecords, Steps, Statuses, L!Statuses
<1>6. ASSUME NEW r \in Requests, WriteTransition(r) PROVE TypeOK' /\ NamesCard'
  <2>1. req[r] \in RequestRecords /\ req[r].card \in Cards
    BY <1>6 DEF TypeOK, NamesCard, WriteTransition
  <2>2. At("announceCompleted", req[r].card, req[r].parts) \in RequestRecords
    BY <2>1 DEF At, Idle, RequestRecords, Steps, Statuses, L!Statuses
  <2>3. req' \in [Requests -> RequestRecords]
    BY <1>6, <2>2, <1>5 DEF TypeOK, WriteTransition
  <2>4. status' \in [Cards -> Statuses]
    BY <1>6, <2>1 DEF TypeOK, WriteTransition, RequestRecords
  <2>5. reworkCount' \in [Cards -> Nat]
    <3>1. req[r].rework + 1 \in Nat
      BY <2>1 DEF RequestRecords
    <3>2. \/ reworkCount' = reworkCount
          \/ reworkCount' = [reworkCount EXCEPT ![req[r].card] = req[r].rework + 1]
      BY <1>6 DEF WriteTransition
    <3> QED BY <3>1, <3>2 DEF TypeOK
  <2>6. NamesCard'
    BY <1>6, <2>1 DEF TypeOK, NamesCard, WriteTransition, At, Idle
  <2> QED BY <1>6, <2>3, <2>4, <2>5, <2>6 DEF TypeOK, WriteTransition
<1>7. ASSUME NEW r \in Requests, NEW type \in EventTypes, req[r].card \in Cards,
             outbox' = Append(outbox, [type |-> type, card |-> req[r].card,
                                       parts |-> req[r].parts])
      PROVE  outbox' \in Seq(EventRecords)
  <2>1. req[r].parts \in SUBSET Parts
    BY DEF TypeOK, RequestRecords
  <2>2. [type |-> type, card |-> req[r].card, parts |-> req[r].parts]
            \in EventRecords
    BY <1>7, <2>1 DEF EventRecords
  <2> QED BY <1>7, <2>2 DEF TypeOK
<1>8. ASSUME NEW r \in Requests, AnnounceCompleted(r) PROVE TypeOK' /\ NamesCard'
  <2>1. outbox' \in Seq(EventRecords)
    BY <1>7, <1>8 DEF AnnounceCompleted, NamesCard, EventTypes
  <2> QED BY <1>8, <2>1, <1>5
          DEF TypeOK, NamesCard, AnnounceCompleted, cardVars, Idle
<1>9. ASSUME NEW r \in Requests, AnnounceCancelled(r) PROVE TypeOK' /\ NamesCard'
  <2>1. outbox' \in Seq(EventRecords)
    BY <1>7, <1>9 DEF AnnounceCancelled, NamesCard, EventTypes
  <2> QED BY <1>9, <2>1, <1>5
          DEF TypeOK, NamesCard, AnnounceCancelled, cardVars, Idle
<1>10. ASSUME NEW r \in Requests, NEW p \in Parts, LogPart(r, p)
       PROVE  TypeOK' /\ NamesCard'
  BY <1>10, <1>5 DEF TypeOK, NamesCard, LogPart, Idle
<1>11. ASSUME NEW r \in Requests, AddNote(r) PROVE TypeOK' /\ NamesCard'
  BY <1>11, <1>5 DEF TypeOK, NamesCard, AddNote, Idle
<1>12. ASSUME NEW r \in Requests, WriteCancel(r) PROVE TypeOK' /\ NamesCard'
  <2>1. req[r] \in RequestRecords /\ req[r].card \in Cards
    BY <1>12 DEF TypeOK, NamesCard, WriteCancel
  <2>2. At("announceCancelled", req[r].card, req[r].parts) \in RequestRecords
    BY <2>1 DEF At, Idle, RequestRecords, Steps, Statuses, L!Statuses
  <2>3. req' \in [Requests -> RequestRecords] /\ NamesCard'
    BY <1>12, <2>1, <2>2, <1>5 DEF TypeOK, NamesCard, WriteCancel, At, Idle
  <2>4. status' \in [Cards -> Statuses] /\ reversed' \subseteq Parts
    BY <1>12 DEF TypeOK, WriteCancel, Statuses, L!Statuses, Attached
  <2> QED BY <1>12, <2>3, <2>4 DEF TypeOK, WriteCancel
<1>13. ASSUME NEW lost \in SUBSET Requests, LoseRequests(lost)
       PROVE  TypeOK' /\ NamesCard'
  BY <1>13, <1>5 DEF TypeOK, NamesCard, LoseRequests, cardVars, Idle
<1>14. CASE UNCHANGED vars
  BY <1>14 DEF TypeOK, NamesCard, vars, cardVars
<1> QED
  BY <1>1, <1>2, <1>3, <1>4, <1>6, <1>8, <1>9, <1>10, <1>11, <1>12, <1>13, <1>14
     DEF Next, ReadStep, WriteStep

-----------------------------------------------------------------------------
\* Without a fault, what is published or owed stays so.
LEMMA AnnouncedStays ==
    ASSUME TypeOK, NamesCard, [Next]_vars, faults' = 0,
           NEW c \in Cards, Announced(c)
    PROVE  faults = 0 /\ Announced(c)'
<1>1. CASE \E lost \in SUBSET Requests : LoseRequests(lost)
  BY <1>1 DEF LoseRequests, TypeOK
<1>2. ASSUME outbox' = outbox,
             \A r \in Requests : req[r].pc = "announceCompleted" => req'[r] = req[r]
      PROVE  Announced(c)'
  BY <1>2 DEF Announced, Published, Owed
<1>3. ASSUME NEW e \in EventRecords, outbox' = Append(outbox, e)
      PROVE  /\ Published("completed", c) => Published("completed", c)'
             /\ e.type = "completed" /\ e.card = c => Published("completed", c)'
  <2>1. /\ DOMAIN outbox = 1..Len(outbox) /\ Len(outbox) \in Nat
        /\ DOMAIN outbox' = 1..(Len(outbox) + 1)
        /\ \A i \in DOMAIN outbox : outbox'[i] = outbox[i]
        /\ outbox'[Len(outbox) + 1] = e
    BY <1>3 DEF TypeOK
  <2> QED BY <2>1 DEF Published
<1>4. ASSUME NEW r \in Requests,
AnnounceCompleted(r) PROVE Announced(c)' /\ faults' = faults
  <2> DEFINE e == [type |-> "completed", card |-> req[r].card, parts |-> req[r].parts]
  <2>1. e \in EventRecords /\ outbox' = Append(outbox, e) /\ faults' = faults
    BY <1>4 DEF AnnounceCompleted, NamesCard, TypeOK, EventRecords, EventTypes,
                RequestRecords
  <2>2. CASE Published("completed", c) \/ req[r].card = c
    BY <1>3, <2>1, <2>2 DEF Announced
  <2>3. CASE ~Published("completed", c) /\ req[r].card # c
    <3>1. PICK o \in Requests : req[o].pc = "announceCompleted" /\ req[o].card = c
      BY <2>3 DEF Announced, Owed
    <3>2. req'[o] = req[o]
      BY <1>4, <2>3, <3>1 DEF AnnounceCompleted, TypeOK
    <3> QED BY <2>1, <3>1, <3>2 DEF Announced, Owed
  <2> QED BY <2>1, <2>2, <2>3
<1>5. ASSUME NEW r \in Requests,
AnnounceCancelled(r) PROVE Announced(c)' /\ faults' = faults
  <2> DEFINE e == [type |-> "cancelled", card |-> req[r].card, parts |-> req[r].parts]
  <2>1. e \in EventRecords /\ outbox' = Append(outbox, e)
    BY <1>5 DEF AnnounceCancelled, NamesCard, TypeOK, EventRecords, EventTypes,
                RequestRecords
  <2>2. \A o \in Requests : req[o].pc = "announceCompleted" => req'[o] = req[o]
    BY <1>5 DEF AnnounceCancelled, TypeOK
  <2> QED BY <1>3, <1>5, <2>1, <2>2
          DEF Announced, Owed, AnnounceCancelled
<1>6. ASSUME NEW r \in Requests, NEW d \in Cards, NEW q, req[r].pc = "idle",
             req' = [req EXCEPT ![r] = q], outbox' = outbox
      PROVE  Announced(c)'
  BY <1>2, <1>6 DEF TypeOK
<1>7. CASE \E r \in Requests : ReadStep(r)
  BY <1>6, <1>7 DEF ReadStep, ReadTransition, ReadForLogging, ReadCancel, Idle
<1>8. CASE \E d \in Cards : CreateCard(d)
  BY <1>2, <1>8 DEF CreateCard
<1>9. ASSUME NEW r \in Requests,
             WriteTransition(r) \/ AddNote(r) \/ WriteCancel(r)
                \/ \E p \in Parts : LogPart(r, p)
      PROVE  Announced(c)' /\ faults' = faults
  BY <1>2, <1>9 DEF WriteTransition, AddNote, WriteCancel, LogPart, TypeOK
<1>10. CASE UNCHANGED vars
  BY <1>2, <1>10 DEF vars
<1> QED
  BY <1>1, <1>4, <1>5, <1>7, <1>8, <1>9, <1>10
     DEF Next, WriteStep, ReadStep, ReadTransition, ReadForLogging, ReadCancel,
         CreateCard, vars

\* INVOICED is reached from COMPLETED only, in the table.
LEMMA InvoicedFromCompleted ==
    ASSUME NEW s \in Statuses, "INVOICED" \in L!ValidTransitions[s]
    PROVE  s = "COMPLETED"
BY DEF L!ValidTransitions, Statuses, L!Statuses

\* What one step does to one request, and that no fault is forgotten.
LEMMA StepShape ==
    ASSUME TypeOK, [Next]_vars, NEW r \in Requests
    PROVE  /\ \/ req'[r] = req[r]
              \/ req'[r].pc # "transition"
              \/ \E c \in Cards, target \in Statuses : ReadTransition(r, c, target)
           /\ faults' = 0 => faults = 0
<1>1. ASSUME NEW o \in Requests, NEW q, q.pc # "transition",
             req' = [req EXCEPT ![o] = q]
      PROVE  req'[r] = req[r] \/ req'[r].pc # "transition"
  BY <1>1 DEF TypeOK
<1>2. Idle.pc # "transition"
  BY DEF Idle
<1>3. \A pc, c, parts : At(pc, c, parts).pc = pc
  BY DEF At, Idle
<1>4. CASE \E c \in Cards : CreateCard(c)
  BY <1>4 DEF CreateCard
<1>5. ASSUME NEW o \in Requests, NEW c \in Cards, NEW target \in Statuses,
             ReadTransition(o, c, target)
      PROVE  (r = o \/ req'[r] = req[r]) /\ faults' = faults
  BY <1>5 DEF ReadTransition, TypeOK
<1>6. ASSUME NEW o \in Requests, NEW c \in Cards, NEW pc \in {"logParts", "addNote"},
             ReadForLogging(o, c, pc)
      PROVE  (req'[r] = req[r] \/ req'[r].pc # "transition") /\ faults' = faults
  BY <1>1, <1>3, <1>6 DEF ReadForLogging
<1>7. ASSUME NEW o \in Requests, NEW c \in Cards, ReadCancel(o, c)
      PROVE  (req'[r] = req[r] \/ req'[r].pc # "transition") /\ faults' = faults
  BY <1>1, <1>3, <1>7 DEF ReadCancel
<1>8. ASSUME NEW o \in Requests, WriteStep(o)
      PROVE  (req'[r] = req[r] \/ req'[r].pc # "transition") /\ faults' = faults
  <2>1. CASE WriteTransition(o)
    BY <1>1, <1>2, <1>3, <2>1 DEF WriteTransition
  <2>2. CASE AnnounceCompleted(o)
    BY <1>1, <1>2, <2>2 DEF AnnounceCompleted
  <2>3. CASE \E p \in Parts : LogPart(o, p)
    BY <1>1, <1>2, <2>3 DEF LogPart
  <2>4. CASE AddNote(o)
    BY <1>1, <1>2, <2>4 DEF AddNote
  <2>5. CASE WriteCancel(o)
    BY <1>1, <1>2, <1>3, <2>5 DEF WriteCancel
  <2>6. CASE AnnounceCancelled(o)
    BY <1>1, <1>2, <2>6 DEF AnnounceCancelled
  <2> QED BY <1>8, <2>1, <2>2, <2>3, <2>4, <2>5, <2>6 DEF WriteStep
<1>9. ASSUME NEW lost \in SUBSET Requests, LoseRequests(lost)
      PROVE  (req'[r] = req[r] \/ req'[r].pc # "transition") /\ faults' # 0
  BY <1>2, <1>9 DEF LoseRequests, TypeOK
<1>10. CASE UNCHANGED vars
  BY <1>10 DEF vars
<1> QED BY <1>4, <1>5, <1>6, <1>7, <1>8, <1>9, <1>10 DEF Next, ReadStep, CreateCard

\* Faults are never taken back.
LEMMA FaultsOnlyGrow ==
    ASSUME TypeOK, [Next]_vars, faults' = 0 PROVE faults = 0
<1>1. CASE \E lost \in SUBSET Requests : LoseRequests(lost)
  BY <1>1 DEF LoseRequests, TypeOK
<1>2. CASE \E c \in Cards : CreateCard(c)
  BY <1>2 DEF CreateCard
<1>3. CASE \E r \in Requests : ReadStep(r) \/ WriteStep(r)
  BY <1>3, StepShape
<1>4. CASE UNCHANGED vars
  BY <1>4 DEF vars
<1> QED BY <1>1, <1>2, <1>3, <1>4 DEF Next

\* A card's status changes only when it is created, written by a transition, or
\* cancelled.
LEMMA StatusStep ==
    ASSUME TypeOK, [Next]_vars, NEW c \in Cards
    PROVE  \/ status'[c] = status[c]
           \/ status'[c] \in {"CREATED", "CANCELLED"}
           \/ \E r \in Requests : /\ WriteTransition(r)
                                 /\ req[r].card = c
                                 /\ status'[c] = req[r].target
<1>1. CASE \E r \in Requests : WriteTransition(r)
  BY <1>1 DEF WriteTransition, TypeOK
<1>2. CASE \E d \in Cards : CreateCard(d)
  BY <1>2 DEF CreateCard, L!Create, TypeOK
<1>3. CASE \E r \in Requests : WriteCancel(r)
  BY <1>3 DEF WriteCancel, TypeOK
<1>4. CASE \E r \in Requests : ReadStep(r)
  BY <1>4 DEF ReadStep, ReadTransition, ReadForLogging, ReadCancel, cardVars
<1>5. CASE \E r \in Requests : AnnounceCompleted(r) \/ AddNote(r)
             \/ AnnounceCancelled(r) \/ \E p \in Parts : LogPart(r, p)
  BY <1>5 DEF AnnounceCompleted, AddNote, AnnounceCancelled, LogPart, cardVars
<1>6. CASE (\E lost \in SUBSET Requests : LoseRequests(lost)) \/ UNCHANGED vars
  BY <1>6 DEF LoseRequests, vars, cardVars
<1> QED BY <1>1, <1>2, <1>3, <1>4, <1>5, <1>6 DEF Next, WriteStep

\* Every step keeps the invariant.
LEMMA NextInvariant == ASSUME IInv, [Next]_vars PROVE IInv'
<1> USE DEF IInv
<1>1. TypeOK' /\ NamesCard'
  BY TypeNext
<1>2. TargetsAllowed'
  <2> SUFFICES ASSUME NEW r \in Requests, req'[r].pc = "transition"
               PROVE  req'[r].target \in L!ValidTransitions[req'[r].from]
    BY DEF TargetsAllowed
  <2>1. CASE req'[r] = req[r]
    BY <2>1 DEF TargetsAllowed
  <2>2. CASE \E c \in Cards, target \in Statuses : ReadTransition(r, c, target)
    BY <2>2 DEF ReadTransition, TypeOK
  <2> QED BY <2>1, <2>2, StepShape
<1>3. ReadsAnnounced'
  <2> SUFFICES ASSUME faults' = 0, NEW r \in Requests, req'[r].pc = "transition",
                      req'[r].from = "COMPLETED"
               PROVE  Announced(req[r].card)'
    BY DEF ReadsAnnounced
  <2>1. faults = 0
    BY FaultsOnlyGrow
  <2>2. req'[r].card \in Cards /\ Announced(req'[r].card)
    <3>1. CASE req'[r] = req[r]
      BY <2>1, <3>1 DEF ReadsAnnounced, NamesCard
    <3>2. CASE \E c \in Cards, target \in Statuses : ReadTransition(r, c, target)
      BY <2>1, <3>2 DEF ReadTransition, TypeOK, CompletionAnnounced
    <3> QED BY <3>1, <3>2, StepShape
  <2>3. PICK c \in Cards : c = req'[r].card /\ Announced(c)
    BY <2>2
  <2>4. Announced(c)'
    BY <2>3, AnnouncedStays
  <2> QED BY <2>3, <2>4 DEF Announced, Published, Owed
<1>4. CompletionAnnounced'
  <2> SUFFICES ASSUME faults' = 0, NEW c \in Cards,
                      status'[c] \in {"COMPLETED", "INVOICED"}
               PROVE  Announced(c)'
    BY DEF CompletionAnnounced
  <2>1. faults = 0
    BY FaultsOnlyGrow
  <2>2. CASE status'[c] = status[c]
    BY <2>1, <2>2, AnnouncedStays DEF CompletionAnnounced
  <2>3. ASSUME NEW r \in Requests, WriteTransition(r), req[r].card = c,
               status'[c] = req[r].target
        PROVE  Announced(c)'
    <3>1. CASE req[r].target = "COMPLETED"
      <4>1. req' = [req EXCEPT ![r] = At("announceCompleted", c, req[r].parts)]
        BY <2>3, <3>1 DEF WriteTransition
      <4>2. req'[r].pc = "announceCompleted" /\ req'[r].card = c
        BY <4>1 DEF TypeOK, At, Idle
      <4> QED BY <4>2 DEF Announced, Owed
    <3>2. CASE req[r].target = "INVOICED"
      <4>1. req[r].from \in Statuses /\ "INVOICED" \in L!ValidTransitions[req[r].from]
        BY <2>3, <3>2 DEF WriteTransition, TargetsAllowed, TypeOK, RequestRecords
      <4>2. Announced(c)
        BY <2>1, <2>3, <4>1, InvoicedFromCompleted DEF WriteTransition, ReadsAnnounced
      <4> QED BY <4>2, AnnouncedStays
    <3> QED BY <2>3, <3>1, <3>2
  <2> QED BY <2>2, <2>3, StatusStep
<1> QED BY <1>1, <1>2, <1>3, <1>4

\* Every reachable state satisfies the inductive invariant, for any number of
\* cards, parts and overlapping requests (transition, cancel, logParts).
THEOREM CardsInvariant == Spec => []IInv
BY InitInvariant, NextInvariant, PTL DEF Spec

\* However requests overlap, a completed or invoiced card has its
\* job-card.completed event published or about to be, unless a fault occurred.
THEOREM CompletionIsAnnounced == Spec => []CompletionAnnounced
BY CardsInvariant, PTL DEF IInv

-----------------------------------------------------------------------------
(* Requests that do not meet on a card. *)

\* No card has two requests in flight.
CardsAlone ==
    \A r, o \in Requests :
        req[r].pc # "idle" /\ req[o].pc # "idle" /\ req[r].card = req[o].card => r = o

\* A single request, as in the run of Workshop, meets none.
LEMMA SingleRequest ==
    ASSUME \A r, o \in Requests : r = o PROVE CardsAlone
BY DEF CardsAlone

\* Nothing moved between the read of a request and its write.
ReadsCurrent ==
    \A r \in Requests :
        /\ req[r].pc = "transition" =>
               /\ req[r].from = status[req[r].card]
               /\ req[r].rework = reworkCount[req[r].card]
        /\ req[r].pc = "cancel" => status[req[r].card] \in CancellableStatuses

\* A request in flight names a card.
LEMMA CardKnown ==
    ASSUME IInv, NEW r \in Requests, req[r].pc # "idle"
    PROVE  /\ req[r].card \in Cards
           /\ req[r].target \in Statuses
           /\ status[req[r].card] \in Statuses
BY DEF IInv, NamesCard, TypeOK, RequestRecords

\* No request has read anything yet.
LEMMA CurrentInit == Init => ReadsCurrent
BY DEF Init, ReadsCurrent, Idle

\* What a request read is current until it has written.
LEMMA CurrentNext ==
    ASSUME CardsAlone, IInv, ReadsCurrent, [Next]_vars
    PROVE  ReadsCurrent'
<1> SUFFICES ASSUME NEW r \in Requests
             PROVE  /\ req'[r].pc = "transition" =>
                           /\ req'[r].from = status'[req'[r].card]
                           /\ req'[r].rework = reworkCount'[req'[r].card]
                    /\ req'[r].pc = "cancel" =>
                           status'[req'[r].card] \in CancellableStatuses
  BY DEF ReadsCurrent
<1>1. TypeOK /\ NamesCard
  BY DEF IInv
<1>2. CASE \E c \in Cards : CreateCard(c)
  <2>1. PICK c \in Cards : CreateCard(c)
    BY <1>2
  <2>2. CASE req[r].pc = "idle"
    BY <2>1, <2>2 DEF CreateCard
  <2>3. CASE req[r].pc # "idle"
    <3>1. req[r].pc = "transition" => req[r].card # c
      BY <1>1, <2>1
         DEF CreateCard, L!Create, ReadsCurrent, IInv, TargetsAllowed,
             L!ValidTransitions, Statuses, L!Statuses
    <3>2. req[r].pc = "cancel" => req[r].card # c
      BY <2>1 DEF CreateCard, L!Create, ReadsCurrent, CancellableStatuses
    <3> QED BY <1>1, <2>1, <2>3, <3>1, <3>2, CardKnown
            DEF CreateCard, L!Create, ReadsCurrent, TypeOK
  <2> QED BY <2>2, <2>3
<1>3. ASSUME NEW o \in Requests, ReadStep(o)
      PROVE  /\ req'[r].pc = "transition" =>
                    /\ req'[r].from = status'[req'[r].card]
                    /\ req'[r].rework = reworkCount'[req'[r].card]
             /\ req'[r].pc = "cancel" =>
                    status'[req'[r].card] \in CancellableStatuses
  <2>1. CASE r # o
    <3>1. req'[r] = req[r] /\ UNCHANGED cardVars
      BY <1>1, <1>3, <2>1 DEF ReadStep, ReadTransition, ReadForLogging, ReadCancel, TypeOK
    <3> QED BY <3>1 DEF ReadsCurrent, cardVars
  <2>2. ASSUME NEW c \in Cards, NEW target \in Statuses, ReadTransition(r, c, target)
        PROVE  /\ req'[r].pc = "transition" /\ req'[r].card = c
               /\ req'[r].from = status'[c] /\ req'[r].rework = reworkCount'[c]
    BY <1>1, <2>2 DEF ReadTransition, TypeOK, cardVars
  <2>3. ASSUME NEW c \in Cards, NEW pc \in {"logParts", "addNote"},
               ReadForLogging(r, c, pc)
        PROVE  req'[r].pc \notin {"transition", "cancel"}
    BY <1>1, <2>3 DEF ReadForLogging, TypeOK, At, Idle
  <2>4. ASSUME NEW c \in Cards, ReadCancel(r, c)
        PROVE  /\ req'[r].pc = "cancel" /\ req'[r].card = c
               /\ status'[c] \in CancellableStatuses
    BY <1>1, <2>4 DEF ReadCancel, TypeOK, At, Idle, cardVars
  <2> QED BY <1>3, <2>1, <2>2, <2>3, <2>4 DEF ReadStep
<1>4. ASSUME NEW o \in Requests, WriteStep(o), r = o
      PROVE  req'[r].pc \notin {"transition", "cancel"}
  <2>1. ASSUME NEW q, q.pc \notin {"transition", "cancel"}, req' = [req EXCEPT ![r] = q]
        PROVE  req'[r].pc \notin {"transition", "cancel"}
    BY <1>1, <2>1 DEF TypeOK
  <2>2. Idle.pc \notin {"transition", "cancel"}
    BY DEF Idle
  <2>3. \A pc, c, parts : At(pc, c, parts).pc = pc
    BY DEF At, Idle
  <2> QED BY <1>4, <2>1, <2>2, <2>3
          DEF WriteStep, WriteTransition, AnnounceCompleted, LogPart, AddNote,
              WriteCancel, AnnounceCancelled
<1>o. ASSUME NEW o \in Requests, WriteStep(o), r # o
      PROVE  /\ req'[r].pc = "transition" =>
                    /\ req'[r].from = status'[req'[r].card]
                    /\ req'[r].rework = reworkCount'[req'[r].card]
             /\ req'[r].pc = "cancel" =>
                    status'[req'[r].card] \in CancellableStatuses
  <2>1. req'[r] = req[r] /\ req[o].pc # "idle"
    BY <1>1, <1>o
       DEF WriteStep, WriteTransition, AnnounceCompleted, LogPart, AddNote,
           WriteCancel, AnnounceCancelled, TypeOK
  <2>2. ASSUME NEW c \in Cards, c # req[o].card
        PROVE  status'[c] = status[c] /\ reworkCount'[c] = reworkCount[c]
    BY <1>1, <1>o, <2>2
       DEF WriteStep, WriteTransition, AnnounceCompleted, LogPart, AddNote,
           WriteCancel, AnnounceCancelled, TypeOK, cardVars
  <2>3. req[r].pc # "idle" => req[r].card \in Cards /\ req[r].card # req[o].card
    BY <1>1, <1>o, <2>1 DEF CardsAlone, NamesCard
  <2> QED BY <2>1, <2>2, <2>3 DEF ReadsCurrent
<1>5. CASE \E lost \in SUBSET Requests : LoseRequests(lost)
  BY <1>1, <1>5 DEF LoseRequests, cardVars, ReadsCurrent, TypeOK, Idle
<1>6. CASE UNCHANGED vars
  BY <1>6 DEF vars, cardVars, ReadsCurrent
<1> QED BY <1>2, <1>3, <1>4, <1>o, <1>5, <1>6 DEF Next

\* Every cancellation from a cancellable status is a move of the table.
LEMMA CancelIsAMove ==
    ASSUME NEW s \in CancellableStatuses
    PROVE  s \in Statuses /\ "CANCELLED" \in L!ValidTransitions[s]
           /\ ~L!IsRework(s, "CANCELLED")
BY DEF CancellableStatuses, L!ValidTransitions, L!IsRework, Statuses, L!Statuses

\* With current reads every write is a move of the state machine.
LEMMA StepIsAMove ==
    ASSUME IInv, ReadsCurrent, [Next]_vars PROVE [L!Next]_(L!vars)
<1>1. CASE \E c \in Cards : CreateCard(c)
  BY <1>1 DEF CreateCard, L!Next
<1>2. ASSUME NEW r \in Requests, WriteTransition(r) PROVE L!Next
  <2>1. req[r].card \in Cards /\ req[r].target \in L!Statuses
    BY <1>2, CardKnown DEF WriteTransition, Statuses
  <2>2. L!Move(req[r].card, req[r].target)
    BY <1>2, <2>1
       DEF WriteTransition, L!Move, IInv, TypeOK, TargetsAllowed, ReadsCurrent
  <2> QED BY <2>1, <2>2 DEF L!Next
<1>3. ASSUME NEW r \in Requests, WriteCancel(r) PROVE L!Next
  <2>1. req[r].card \in Cards /\ "CANCELLED" \in L!Statuses
    BY <1>3, CardKnown DEF WriteCancel, L!Statuses
  <2>2. L!Move(req[r].card, "CANCELLED")
    BY <1>3, <2>1, CancelIsAMove DEF WriteCancel, L!Move, ReadsCurrent
  <2> QED BY <2>1, <2>2 DEF L!Next
<1>4. CASE \E r \in Requests : ReadStep(r)
  BY <1>4 DEF ReadStep, ReadTransition, ReadForLogging, ReadCancel, cardVars, L!vars
<1>5. CASE \E r \in Requests : AnnounceCompleted(r) \/ AddNote(r)
             \/ AnnounceCancelled(r) \/ \E p \in Parts : LogPart(r, p)
  BY <1>5 DEF AnnounceCompleted, AddNote, AnnounceCancelled, LogPart, cardVars, L!vars
<1>6. CASE (\E lost \in SUBSET Requests : LoseRequests(lost)) \/ UNCHANGED vars
  BY <1>6 DEF LoseRequests, vars, cardVars, L!vars
<1> QED BY <1>1, <1>2, <1>3, <1>4, <1>5, <1>6 DEF Next, WriteStep

\* As long as no two requests meet on a card, job cards implement the atomic state
\* machine: whatever transition and cancel write is a move from the current status,
\* and reworks are counted. (Requests that meet break it: a cancellation read
\* before a completion and written after it cancels a completed card.)
THEOREM LifecycleIsImplemented == Spec /\ []CardsAlone => ImplementsLifecycle
<1>1. Init => L!Init
  BY DEF Init
<1>2. CardsAlone /\ IInv /\ ReadsCurrent /\ [Next]_vars => ReadsCurrent'
  BY CurrentNext
<1>3. IInv /\ ReadsCurrent /\ [Next]_vars => [L!Next]_(L!vars)
  BY StepIsAMove
<1> QED
  BY <1>1, <1>2, <1>3, CurrentInit, CardsInvariant, PTL
     DEF Spec, ImplementsLifecycle, L!Spec

-----------------------------------------------------------------------------
(* The inventory. *)

\* The opening stock satisfies the invariant.
LEMMA StockInitInvariant == StockInit => StockIInv
<1> SUFFICES ASSUME StockInit PROVE StockIInv
  OBVIOUS
<1>1. /\ NoRequest \in StaffRecords /\ NoRequest.pc = "idle"
      /\ NoRun \in HandlerRecords /\ NoRun.pc = "idle"
  BY DEF NoRequest, StaffRecords, NoRun, HandlerRecords, Operations
<1>2. StockTypeOK
  BY <1>1, InventoryAssumption, OutboxAssumption DEF StockInit, StockTypeOK
<1>3. StockNeverNegative /\ ProcessedWasPosted
  BY InventoryAssumption, OutboxAssumption DEF StockInit, StockNeverNegative,
                                               ProcessedWasPosted
<1>4. WritesChecked /\ RunsAccounted
  BY <1>1 DEF StockInit, WritesChecked, RunsAccounted, Accounted
<1> QED BY <1>2, <1>3, <1>4 DEF StockIInv

-----------------------------------------------------------------------------
(* Types. *)

\* Every operation computes an integer.
LEMMA NewQuantityTyped ==
    ASSUME NEW op \in Operations, NEW read \in Nat, NEW amount \in Nat
    PROVE  NewQuantity(op, read, amount) \in Int
BY DEF NewQuantity, Operations

\* The records of finished requests and handlers are well formed.
LEMMA ResetsTyped ==
    /\ NoRequest \in StaffRecords
    /\ NoRun \in HandlerRecords
    /\ \A i \in Items : AlertFor(i) \in StaffRecords
BY DEF NoRequest, AlertFor, StaffRecords, NoRun, HandlerRecords, Operations

\* A handler that goes on is well formed.
LEMMA GoTyped ==
    ASSUME StockTypeOK, NEW h \in Handlers,
           NEW pc \in {"part", "write", "alert", "failing"},
           NEW todo \in SUBSET Parts, NEW part \in Parts \cup {NoPart},
           NEW read \in Nat
    PROVE  Go(h, pc, todo, part, read) \in [Handlers -> HandlerRecords]
BY DEF Go, StockTypeOK, HandlerRecords

\* A handler that fails is well formed.
LEMMA FailTyped ==
    ASSUME StockTypeOK, NEW h \in Handlers
    PROVE  Fail(h) \in [Handlers -> HandlerRecords]
<1>1. run[h].todo \in SUBSET Parts /\ run[h].part \in Parts \cup {NoPart}
  BY DEF StockTypeOK, HandlerRecords
<1> QED BY <1>1, GoTyped DEF Fail

\* Every step is well typed.
LEMMA StockTypeNext == ASSUME StockIInv, [StockNext]_stockVars PROVE StockTypeOK'
<1> USE InventoryAssumption, OutboxAssumption, ResetsTyped
<1> StockTypeOK
  BY DEF StockIInv
<1>1. ASSUME NEW s \in Staff, NEW op \in Operations, NEW i \in Items,
             NEW n \in Amounts, StaffRead(s, op, i, n)
      PROVE  StockTypeOK'
  <2>1. [pc |-> "write", op |-> op, item |-> i, amount |-> n, read |-> quantity[i]]
           \in StaffRecords
    BY DEF StaffRecords, StockTypeOK, StockIInv, StockNeverNegative
  <2> QED BY <1>1, <2>1 DEF StaffRead, StockTypeOK, stock, bus
<1>2. ASSUME NEW s \in Staff, StaffWrite(s) PROVE StockTypeOK'
  <2>1. staff[s] \in StaffRecords /\ staff[s].item \in Items
    BY <1>2 DEF StaffWrite, StockTypeOK, StockIInv, WritesChecked
  <2>2. NewQuantity(staff[s].op, staff[s].read, staff[s].amount) \in Int
        /\ staff[s].read \in Int
    BY <2>1, NewQuantityTyped DEF StaffRecords
  <2>3. quantity' \in [Items -> Int] /\ ledger' \in [Items -> Int]
    BY <1>2, <2>1, <2>2 DEF StaffWrite, StockTypeOK
  <2>4. staff' \in [Staff -> StaffRecords]
    BY <1>2, <2>1 DEF StaffWrite, StockTypeOK
  <2> QED BY <1>2, <2>3, <2>4 DEF StaffWrite, StockTypeOK, bus
<1>3. ASSUME NEW s \in Staff, StaffAlert(s) \/ StaffFault(s) PROVE StockTypeOK'
  <2>1. staff' \in [Staff -> StaffRecords]
    BY <1>3 DEF StaffAlert, StaffFault, StockTypeOK
  <2>2. alerted' \subseteq Items
    BY <1>3 DEF StaffAlert, StaffFault, StockTypeOK, StockIInv, WritesChecked
  <2> QED BY <1>3, <2>1, <2>2 DEF StaffAlert, StaffFault, StockTypeOK, stock, bus
<1>4. ASSUME NEW e \in EventRecords, Receive(e) PROVE StockTypeOK'
  BY <1>4 DEF Receive, consumerVars, StockTypeOK, stock
<1>5. ASSUME NEW h \in Handlers, NEW e \in EventIds, Deliver(h, e) PROVE StockTypeOK'
  <2>0. outbox[e] \in EventRecords
    BY <1>5 DEF Deliver, StockTypeOK, EventIds
  <2>1. outbox[e].parts \in SUBSET Parts
    BY <2>0 DEF EventRecords
  <2>2. [pc |-> "part", event |-> e, part |-> NoPart, todo |-> outbox[e].parts,
         read |-> 0] \in HandlerRecords
    BY <2>1 DEF NoRun, HandlerRecords
  <2> QED BY <1>5, <2>2 DEF Deliver, StockTypeOK, stock
<1>6. ASSUME NEW h \in Handlers
      PROVE  /\ run[h].todo \in SUBSET Parts
             /\ run[h].event \in EventIds \cup {0}
             /\ run[h].todo # {} => NextPart(run[h].todo) \in run[h].todo
  BY DEF StockTypeOK, HandlerRecords, NextPart
<1>7. ASSUME NEW h \in Handlers, ReadPart(h) PROVE StockTypeOK'
  <2> DEFINE p == NextPart(run[h].todo)
  <2>1. p \in Parts /\ quantity[ItemOf[p]] \in Nat
    BY <1>6, <1>7 DEF ReadPart, StockTypeOK, StockIInv, StockNeverNegative
  <2>2. run' \in [Handlers -> HandlerRecords]
    <3>1. CASE run' = Fail(h)
      BY <3>1, FailTyped
    <3>2. CASE run' = Go(h, "write", run[h].todo \ {p}, p, quantity[ItemOf[p]])
      BY <1>6, <2>1, <3>2, GoTyped
    <3> QED BY <1>7, <3>1, <3>2 DEF ReadPart
  <2> QED BY <1>7, <2>2 DEF ReadPart, StockTypeOK, stock, bus
<1>8. ASSUME NEW e \in EventIds \cup {0}, NEW p \in Parts,
             posted' = [posted EXCEPT ![e][p] = @ + 1]
      PROVE  posted' \in [EventIds -> [Parts -> Nat]]
  <2>1. CASE e \in EventIds
    <3>1. posted[e] \in [Parts -> Nat] /\ posted[e][p] \in Nat
      BY <2>1 DEF StockTypeOK
    <3>2. [posted[e] EXCEPT ![p] = posted[e][p] + 1] \in [Parts -> Nat]
      BY <3>1
    <3>3. posted' = [posted EXCEPT ![e] = [posted[e] EXCEPT ![p] = posted[e][p] + 1]]
      BY <1>8
    <3> QED BY <3>2, <3>3 DEF StockTypeOK
  <2>2. CASE e \notin EventIds
    BY <1>8, <2>2 DEF StockTypeOK
  <2> QED BY <2>1, <2>2
<1>9. ASSUME NEW h \in Handlers, DeductPart(h) PROVE StockTypeOK'
  <2>1. run[h].part \in Parts /\ run[h].read \in Nat
    BY <1>9 DEF DeductPart, StockTypeOK, StockIInv, WritesChecked, HandlerRecords
  <2>2. quantity' \in [Items -> Int] /\ ledger' \in [Items -> Int]
    BY <1>9, <2>1 DEF DeductPart, StockTypeOK
  <2>3. run' \in [Handlers -> HandlerRecords]
    <3>1. PICK pc \in {"alert", "part"} : run' = Go(h, pc, run[h].todo, run[h].part, 0)
      BY <1>9 DEF DeductPart
    <3> QED BY <1>6, <2>1, <3>1, GoTyped
  <2>4. posted' \in [EventIds -> [Parts -> Nat]]
    BY <1>6, <1>8, <1>9, <2>1 DEF DeductPart
  <2> QED BY <1>9, <2>2, <2>3, <2>4 DEF DeductPart, StockTypeOK, bus
<1>10. ASSUME NEW h \in Handlers, HandlerAlert(h) PROVE StockTypeOK'
  <2>1. run' \in [Handlers -> HandlerRecords]
    BY <1>6, <1>10, GoTyped DEF HandlerAlert
  <2>2. alerted' \subseteq Items
    BY <1>10 DEF HandlerAlert, StockTypeOK, StockIInv, WritesChecked
  <2> QED BY <1>10, <2>1, <2>2 DEF HandlerAlert, StockTypeOK, stock, bus
<1>11. ASSUME NEW h \in Handlers, ReturnPart(h) PROVE StockTypeOK'
  <2>1. NextPart(run[h].todo) \in Parts
    BY <1>6, <1>11 DEF ReturnPart
  <2>2. quantity' \in [Items -> Int] /\ ledger' \in [Items -> Int]
    BY <1>11, <2>1 DEF ReturnPart, StockTypeOK
  <2>3. run' \in [Handlers -> HandlerRecords]
    BY <1>6, <1>11, GoTyped DEF ReturnPart
  <2>4. posted' \in [EventIds -> [Parts -> Nat]]
    BY <1>6, <1>8, <1>11, <2>1 DEF ReturnPart
  <2> QED BY <1>11, <2>2, <2>3, <2>4 DEF ReturnPart, StockTypeOK, bus
<1>12. ASSUME NEW h \in Handlers, RecordSuccess(h) PROVE StockTypeOK'
  BY <1>12 DEF RecordSuccess, StockTypeOK, StockIInv, RunsAccounted, Accounted, stock
<1>13. ASSUME NEW h \in Handlers, RecordFailure(h) PROVE StockTypeOK'
  BY <1>13 DEF RecordFailure, StockTypeOK, stock
<1>14. ASSUME NEW h \in Handlers, HandlerFault(h) PROVE StockTypeOK'
  BY <1>14, FailTyped DEF HandlerFault, StockTypeOK, stock, bus
<1>15. CASE Restart
  BY <1>15 DEF Restart, StockTypeOK, stock, bus
<1>16. CASE UNCHANGED stockVars
  BY <1>16 DEF stockVars, StockTypeOK, stock, bus
<1> QED
  BY <1>1, <1>2, <1>3, <1>4, <1>5, <1>7, <1>9, <1>10, <1>11, <1>12, <1>13,
     <1>14, <1>15, <1>16 DEF StockNext, Work, StaffStep, HandlerStep

-----------------------------------------------------------------------------
(* Stock. *)

\* What a step does to the stock and to the staff requests and runs.
LEMMA QuantityNext == ASSUME StockIInv, [StockNext]_stockVars PROVE StockNeverNegative'
<1> USE InventoryAssumption, OutboxAssumption
<1>1. StockTypeOK /\ StockNeverNegative /\ WritesChecked
  BY DEF StockIInv
<1>2. ASSUME NEW s \in Staff, StaffWrite(s) PROVE StockNeverNegative'
  BY <1>1, <1>2 DEF StaffWrite, StockNeverNegative, WritesChecked, StockTypeOK
<1>3. ASSUME NEW h \in Handlers, DeductPart(h) PROVE StockNeverNegative'
  <2>1. run[h].part \in Parts /\ run[h].read - Qty[run[h].part] >= 0
    BY <1>1, <1>3 DEF DeductPart, WritesChecked, StockTypeOK, HandlerRecords
  <2> QED BY <1>1, <1>3, <2>1 DEF DeductPart, StockNeverNegative, StockTypeOK
<1>4. ASSUME NEW h \in Handlers, ReturnPart(h) PROVE StockNeverNegative'
  <2>1. NextPart(run[h].todo) \in Parts
    BY <1>1, <1>4 DEF ReturnPart, NextPart, StockTypeOK, HandlerRecords
  <2> QED BY <1>1, <1>4, <2>1 DEF ReturnPart, StockNeverNegative, StockTypeOK
<1>5. CASE UNCHANGED quantity
  BY <1>1, <1>5 DEF StockNeverNegative
<1> QED
  BY <1>2, <1>3, <1>4, <1>5
     DEF StockNext, Work, StaffStep, HandlerStep, stockVars, stock, StaffRead, StaffAlert,
         StaffFault, Receive, consumerVars, Deliver, ReadPart, HandlerAlert,
         RecordSuccess,
         RecordFailure, HandlerFault, Restart

\* Movements are never taken back, and events stay where they are.
LEMMA StockMonotone ==
    ASSUME StockIInv, [StockNext]_stockVars
    PROVE  /\ \A e \in EventIds, p \in Parts :
                  posted[e][p] > 0 => posted'[e][p] > 0
           /\ \A e \in EventIds :
                  e <= Len(outbox) => e <= Len(outbox') /\ outbox'[e] = outbox[e]
<1>1. StockTypeOK
  BY DEF StockIInv
<1>2. ASSUME NEW d \in EventIds \cup {0}, NEW q \in Parts,
             posted' = [posted EXCEPT ![d][q] = @ + 1]
      PROVE  \A e \in EventIds, p \in Parts :
                  posted[e][p] > 0 => posted'[e][p] > 0
  <2> TAKE e \in EventIds, p \in Parts
  <2>1. CASE e # d
    BY <1>1, <1>2, <2>1 DEF StockTypeOK
  <2>2. CASE e = d
    <3>1. posted'[e] = [posted[e] EXCEPT ![q] = posted[e][q] + 1]
      BY <1>1, <1>2, <2>2 DEF StockTypeOK
    <3> QED BY <1>1, <3>1 DEF StockTypeOK
  <2> QED BY <2>1, <2>2
<1>3. ASSUME NEW h \in Handlers, DeductPart(h) \/ ReturnPart(h)
      PROVE  /\ \A e \in EventIds, p \in Parts :
                    posted[e][p] > 0 => posted'[e][p] > 0
             /\ outbox' = outbox
  <2>1. run[h].event \in EventIds \cup {0}
    BY <1>1 DEF StockTypeOK, HandlerRecords
  <2>2. CASE DeductPart(h)
    BY <1>2, <2>1, <2>2 DEF DeductPart, StockIInv, WritesChecked, bus
  <2>3. CASE ReturnPart(h)
    <3>1. NextPart(run[h].todo) \in Parts
      BY <1>1, <2>3 DEF ReturnPart, NextPart, StockTypeOK, HandlerRecords
    <3> QED BY <1>2, <2>1, <2>3, <3>1 DEF ReturnPart, bus
  <2> QED BY <1>3, <2>2, <2>3
<1>4. CASE \E e \in EventRecords : Receive(e)
  BY <1>1, <1>4 DEF Receive, consumerVars, StockTypeOK, stock, EventIds
<1>5. CASE UNCHANGED <<posted, outbox>>
  BY <1>5
<1> QED
  BY <1>3, <1>4, <1>5
     DEF StockNext, Work, StaffStep, HandlerStep, stockVars, stock, bus, StaffRead,
         StaffWrite,
         StaffAlert, StaffFault, Deliver, ReadPart, HandlerAlert, RecordSuccess,
         RecordFailure, HandlerFault, Restart

-----------------------------------------------------------------------------
(* Requests and handlers in flight. *)

\* What Go and Fail leave of a handler, and of the others.
LEMMA GoSteps ==
    ASSUME StockTypeOK, NEW h \in Handlers, NEW pc, NEW todo, NEW part, NEW read,
           run' = Go(h, pc, todo, part, read)
    PROVE  /\ run'[h] = [pc |-> pc, event |-> run[h].event, todo |-> todo,
                         part |-> part, read |-> read]
           /\ \A o \in Handlers : o # h => run'[o] = run[o]
BY DEF Go, StockTypeOK

\* The conjuncts of WritesChecked, for one request and for one handler.
StaffChecked(s) ==
    /\ staff[s].pc = "write" =>
          /\ staff[s].item \in Items
          /\ NewQuantity(staff[s].op, staff[s].read, staff[s].amount) >= 0
    /\ staff[s].pc = "alert" => staff[s].item \in Items
RunChecked(h) ==
    /\ run[h].pc \in {"write", "alert"} => run[h].part \in Parts
    /\ run[h].pc = "write" => run[h].read >= Qty[run[h].part]

\* WritesChecked, one request or handler at a time.
LEMMA CheckedEach ==
    WritesChecked <=> /\ \A s \in Staff : StaffChecked(s)
                      /\ \A h \in Handlers : RunChecked(h)
BY DEF WritesChecked, StaffChecked, RunChecked

\* Staff steps write checked quantities only.
LEMMA StaffNext ==
    ASSUME StockIInv, [StockNext]_stockVars, NEW s \in Staff PROVE StaffChecked(s)'
<1> USE InventoryAssumption, OutboxAssumption
<1>1. StockTypeOK /\ StaffChecked(s)
  BY CheckedEach DEF StockIInv
<1>2. CASE staff'[s] = staff[s]
  BY <1>1, <1>2 DEF StaffChecked
<1>3. ASSUME NEW op \in Operations, NEW i \in Items, NEW n \in Amounts,
             StaffRead(s, op, i, n)
      PROVE  StaffChecked(s)'
  BY <1>1, <1>3 DEF StaffRead, StaffChecked, StockTypeOK
<1>4. ASSUME NEW i \in Items
      PROVE  NoRequest.pc = "idle" /\ AlertFor(i).pc = "alert" /\ AlertFor(i).item = i
  BY DEF NoRequest, AlertFor
<1>5. CASE StaffWrite(s)
  BY <1>1, <1>4, <1>5 DEF StaffWrite, StaffChecked, StockTypeOK, NoRequest
<1>6. CASE StaffAlert(s) \/ StaffFault(s) \/ Restart
  BY <1>1, <1>6 DEF StaffAlert, StaffFault, Restart, StaffChecked, StockTypeOK, NoRequest
<1>7. ASSUME NEW o \in Staff, o # s, StaffStep(o) \/ StaffFault(o)
      PROVE  staff'[s] = staff[s]
  BY <1>1, <1>7
     DEF StaffStep, StaffRead, StaffWrite, StaffAlert, StaffFault, StockTypeOK
<1>8. ASSUME NEW h \in Handlers, HandlerStep(h) \/ HandlerFault(h)
                \/ \E e \in EventIds : Deliver(h, e)
      PROVE  staff'[s] = staff[s]
  BY <1>8 DEF HandlerStep, HandlerFault, Deliver, ReadPart, DeductPart, HandlerAlert,
              ReturnPart, RecordSuccess, RecordFailure
<1>9. CASE (\E e \in EventRecords : Receive(e)) \/ UNCHANGED stockVars
  BY <1>2, <1>9 DEF Receive, consumerVars, stockVars
<1> QED
  BY <1>2, <1>3, <1>5, <1>6, <1>7, <1>8, <1>9 DEF StockNext, Work, StaffStep

\* Accounted after a step of h itself, from what it says before.
LEMMA AccountedStep ==
    ASSUME NEW h \in Handlers, Accounted(h), run[h].pc # "idle",
           NEW pc, NEW todo, NEW part, NEW read,
           run'[h] = [pc |-> pc, event |-> run[h].event, todo |-> todo,
                      part |-> part, read |-> read],
           outbox' = outbox,
           todo \subseteq outbox[run[h].event].parts,
           \A p \in outbox[run[h].event].parts \ todo :
               \/ posted'[run[h].event][p] > 0
               \/ pc \in {"write", "failing"} /\ p = part
    PROVE  Accounted(h)'
BY DEF Accounted

\* Handlers keep account of the parts they have posted.
LEMMA RunNext ==
    ASSUME StockIInv, [StockNext]_stockVars, NEW h \in Handlers
    PROVE  RunChecked(h)' /\ Accounted(h)'
<1> USE InventoryAssumption, OutboxAssumption
<1>1. StockTypeOK /\ StockNeverNegative /\ RunChecked(h) /\ Accounted(h)
  BY CheckedEach DEF StockIInv, RunsAccounted
<1>2. run[h].event \in EventIds \cup {0} /\ run[h].todo \subseteq Parts
      /\ (run[h].pc # "idle" => outbox[run[h].event] \in EventRecords
                               /\ outbox[run[h].event].parts \subseteq Parts)
  <2>1. run[h] \in HandlerRecords
    BY <1>1 DEF StockTypeOK
  <2>2. ASSUME run[h].pc # "idle" PROVE outbox[run[h].event] \in EventRecords
    BY <1>1, <2>2 DEF StockTypeOK, Accounted, EventIds
  <2> QED BY <2>1, <2>2 DEF HandlerRecords, EventRecords
<1>3. CASE run'[h] = run[h]
  BY <1>1, <1>2, <1>3, StockMonotone DEF RunChecked, Accounted
<1>4. ASSUME NEW e \in EventIds, Deliver(h, e) PROVE RunChecked(h)' /\ Accounted(h)'
  <2>1. run'[h] = [pc |-> "part", event |-> e, part |-> NoPart,
                   todo |-> outbox[e].parts, read |-> 0]
    BY <1>1, <1>4 DEF Deliver, StockTypeOK
  <2> QED BY <1>4, <2>1 DEF Deliver, RunChecked, Accounted
<1>5. CASE ReadPart(h)
  <2> DEFINE p == NextPart(run[h].todo)
  <2>1. p \in run[h].todo /\ p \in Parts /\ UNCHANGED <<posted, outbox>>
    BY <1>2, <1>5 DEF ReadPart, NextPart, stock, bus
  <2>2. CASE run' = Fail(h)
    <3>1. run'[h] = [pc |-> "failing", event |-> run[h].event, todo |-> run[h].todo,
                     part |-> run[h].part, read |-> 0]
      BY <1>1, <2>2, GoSteps DEF Fail
    <3>2. \A q \in outbox[run[h].event].parts \ run[h].todo :
             posted'[run[h].event][q] > 0
      BY <1>1, <1>5, <2>1 DEF ReadPart, Accounted
    <3>3. Accounted(h)'
      <4>1. run[h].pc # "idle" /\ run[h].todo \subseteq outbox[run[h].event].parts
        BY <1>1, <1>5 DEF ReadPart, Accounted
      <4> QED BY <1>1, <2>1, <3>1, <3>2, <4>1, AccountedStep
    <3> QED BY <3>1, <3>3 DEF RunChecked
  <2>3. CASE /\ run' = Go(h, "write", run[h].todo \ {p}, p, quantity[ItemOf[p]])
             /\ ~(quantity[ItemOf[p]] < Qty[p])
    <3>1. run'[h] = [pc |-> "write", event |-> run[h].event,
                     todo |-> run[h].todo \ {p}, part |-> p,
                     read |-> quantity[ItemOf[p]]]
      BY <1>1, <2>3 DEF Go, StockTypeOK
    <3>2. quantity[ItemOf[p]] \in Int /\ Qty[p] \in Nat
      BY <1>1, <2>1 DEF StockTypeOK
    <3>3. RunChecked(h)'
      BY <2>1, <2>3, <3>1, <3>2 DEF RunChecked
    <3>4. Accounted(h)'
      <4>1. \A q \in outbox[run[h].event].parts \ (run[h].todo \ {p}) :
               posted'[run[h].event][q] > 0 \/ q = p
        BY <1>1, <1>5, <2>1 DEF ReadPart, Accounted
      <4>2. run[h].pc # "idle"
            /\ run[h].todo \ {p} \subseteq outbox[run[h].event].parts
        BY <1>1, <1>5 DEF ReadPart, Accounted
      <4> QED BY <1>1, <2>1, <3>1, <4>1, <4>2, AccountedStep
    <3> QED BY <3>3, <3>4
  <2> QED BY <1>5, <2>2, <2>3 DEF ReadPart
<1>6. ASSUME NEW q \in Parts, run[h].event \in EventIds,
             posted' = [posted EXCEPT ![run[h].event][q] = @ + 1]
      PROVE  posted'[run[h].event][q] > 0
  <2>1. posted[run[h].event] \in [Parts -> Nat]
    BY <1>1, <1>6 DEF StockTypeOK
  <2>2. posted'[run[h].event] = [posted[run[h].event] EXCEPT
                                   ![q] = posted[run[h].event][q] + 1]
    BY <1>1, <1>6 DEF StockTypeOK
  <2> QED BY <2>1, <2>2
<1>7. CASE DeductPart(h)
  <2>1. PICK pc \in {"alert", "part"} : run' = Go(h, pc, run[h].todo, run[h].part, 0)
    BY <1>7 DEF DeductPart
  <2>2. run'[h] = [pc |-> pc, event |-> run[h].event, todo |-> run[h].todo,
                   part |-> run[h].part, read |-> 0]
    BY <1>1, <2>1, GoSteps
  <2>3. run[h].part \in Parts /\ run[h].event \in EventIds /\ outbox' = outbox
    BY <1>1, <1>7 DEF DeductPart, RunChecked, Accounted, bus
  <2>4. posted'[run[h].event][run[h].part] > 0
    BY <1>6, <1>7, <2>3 DEF DeductPart
  <2>5. \A p \in Parts : posted[run[h].event][p] > 0 => posted'[run[h].event][p] > 0
    BY <2>3, StockMonotone
  <2>6. RunChecked(h)'
    BY <2>2, <2>3 DEF RunChecked
  <2>7. Accounted(h)'
    <3>1. run[h].pc = "write" /\ run[h].todo \subseteq outbox[run[h].event].parts
          /\ \A q \in outbox[run[h].event].parts \ run[h].todo :
                 posted'[run[h].event][q] > 0
      BY <1>1, <1>2, <1>7, <2>4, <2>5 DEF DeductPart, Accounted
    <3> QED BY <1>1, <2>2, <2>3, <3>1, AccountedStep
  <2> QED BY <2>6, <2>7
<1>8. CASE HandlerAlert(h)
  <2>1. run'[h] = [pc |-> "part", event |-> run[h].event, todo |-> run[h].todo,
                   part |-> NoPart, read |-> 0]
    BY <1>1, <1>8, GoSteps DEF HandlerAlert
  <2>2. /\ run[h].pc = "alert" /\ outbox' = outbox /\ posted' = posted
        /\ run[h].todo \subseteq outbox[run[h].event].parts
        /\ \A q \in outbox[run[h].event].parts \ run[h].todo :
               posted[run[h].event][q] > 0
    BY <1>1, <1>8 DEF HandlerAlert, Accounted, stock, bus
  <2>3. Accounted(h)'
    BY <1>1, <2>1, <2>2, AccountedStep
  <2> QED BY <2>1, <2>3 DEF RunChecked
<1>9. CASE ReturnPart(h)
  <2> DEFINE q == NextPart(run[h].todo)
  <2>1. run'[h] = [pc |-> "part", event |-> run[h].event, todo |-> run[h].todo \ {q},
                   part |-> NoPart, read |-> 0]
    BY <1>1, <1>9 DEF ReturnPart, Go, StockTypeOK
  <2>2. q \in Parts /\ run[h].event \in EventIds /\ outbox' = outbox
    BY <1>1, <1>2, <1>9 DEF ReturnPart, NextPart, Accounted, bus
  <2>3. posted'[run[h].event][q] > 0
    BY <1>6, <1>9, <2>2 DEF ReturnPart
  <2>4. \A p \in Parts : posted[run[h].event][p] > 0 => posted'[run[h].event][p] > 0
    BY <2>2, StockMonotone
  <2>5. RunChecked(h)'
    BY <2>1 DEF RunChecked
  <2>6. Accounted(h)'
    <3>1. run[h].pc = "part"
          /\ run[h].todo \ {q} \subseteq outbox[run[h].event].parts
          /\ \A p \in outbox[run[h].event].parts \ (run[h].todo \ {q}) :
                 posted'[run[h].event][p] > 0
      BY <1>1, <1>2, <1>9, <2>3, <2>4 DEF ReturnPart, Accounted
    <3> QED BY <1>1, <2>1, <2>2, <3>1, AccountedStep
  <2> QED BY <2>5, <2>6
<1>10. CASE RecordSuccess(h) \/ RecordFailure(h) \/ Restart
  <2>1. run'[h] = NoRun
    BY <1>1, <1>10 DEF RecordSuccess, RecordFailure, Restart, StockTypeOK
  <2> QED BY <2>1 DEF NoRun, RunChecked, Accounted
<1>11. CASE HandlerFault(h)
  <2>1. run'[h] = [pc |-> "failing", event |-> run[h].event, todo |-> run[h].todo,
                   part |-> run[h].part, read |-> 0]
    BY <1>1, <1>11, GoSteps DEF HandlerFault, Fail
  <2> QED BY <1>1, <1>11, <2>1 DEF HandlerFault, RunChecked, Accounted, stock, bus
<1>12. ASSUME NEW o \in Handlers, o # h,
              HandlerStep(o) \/ HandlerFault(o) \/ \E e \in EventIds : Deliver(o, e)
       PROVE  run'[h] = run[h]
  BY <1>1, <1>12
     DEF HandlerStep, HandlerFault, Deliver, ReadPart, DeductPart, HandlerAlert,
         ReturnPart, RecordSuccess, RecordFailure, Go, Fail, StockTypeOK
<1>13. CASE (\E s \in Staff : StaffStep(s) \/ StaffFault(s))
              \/ (\E e \in EventRecords : Receive(e)) \/ UNCHANGED stockVars
  <2>1. run' = run
    BY <1>13 DEF StaffStep, StaffRead, StaffWrite, StaffAlert, StaffFault, Receive,
                 consumerVars, stockVars
  <2> QED BY <1>3, <2>1
<1> QED
  BY <1>3, <1>4, <1>5, <1>7, <1>8, <1>9, <1>10, <1>11, <1>12, <1>13
     DEF StockNext, Work, HandlerStep

-----------------------------------------------------------------------------
(* The consumer log. *)

\* A processed event stays posted.
LEMMA ProcessedNext == ASSUME StockIInv, [StockNext]_stockVars PROVE ProcessedWasPosted'
<1>1. StockTypeOK /\ ProcessedWasPosted /\ processed \subseteq EventIds
  BY DEF StockIInv, StockTypeOK
<1>2. ASSUME NEW e \in processed
      PROVE  e <= Len(outbox') /\ \A p \in outbox'[e].parts : posted'[e][p] > 0
  <2>0. e \in EventIds /\ e <= Len(outbox) /\ outbox[e] \in EventRecords
    BY <1>1, <1>2 DEF ProcessedWasPosted, StockTypeOK, EventIds
  <2>1. outbox[e].parts \subseteq Parts
    BY <2>0 DEF EventRecords
  <2> QED BY <1>1, <1>2, <2>0, <2>1, StockMonotone DEF ProcessedWasPosted
<1>3. ASSUME NEW h \in Handlers, RecordSuccess(h) PROVE ProcessedWasPosted'
  <2>1. \A p \in outbox[run[h].event].parts : posted[run[h].event][p] > 0
    BY <1>3 DEF RecordSuccess, StockIInv, RunsAccounted, Accounted
  <2>2. run[h].event <= Len(outbox) /\ UNCHANGED <<posted, outbox>>
        /\ processed' = processed \cup {run[h].event}
    BY <1>3 DEF RecordSuccess, StockIInv, RunsAccounted, Accounted, stock
  <2> QED BY <1>1, <2>1, <2>2 DEF ProcessedWasPosted
<1>4. CASE processed' \subseteq processed
  BY <1>2, <1>4 DEF ProcessedWasPosted
<1> QED
  BY <1>3, <1>4
     DEF StockNext, Work, StaffStep, HandlerStep, stockVars, bus, StaffRead, StaffWrite,
         StaffAlert, StaffFault, Receive, consumerVars, Deliver, ReadPart, DeductPart,
         HandlerAlert,
         ReturnPart, RecordFailure, HandlerFault, Restart

\* Every step keeps the invariant.
LEMMA StockNextInvariant == ASSUME StockIInv, [StockNext]_stockVars PROVE StockIInv'
<1>1. WritesChecked'
  BY StaffNext, RunNext DEF WritesChecked, StaffChecked, RunChecked
<1>2. RunsAccounted'
  BY RunNext DEF RunsAccounted
<1> QED BY <1>1, <1>2, StockTypeNext, QuantityNext, ProcessedNext DEF StockIInv

\* Every reachable state satisfies the inductive invariant.
THEOREM InventoryInvariant == StockSpec => []StockIInv
BY StockInitInvariant, StockNextInvariant, PTL DEF StockSpec

\* No interleaving of staff requests and event handlers, no redelivery and no
\* crash takes a quantity below zero.
THEOREM StockIsNeverNegative == StockSpec => []StockNeverNegative
BY InventoryInvariant, PTL DEF StockIInv

\* A successful log row means every part of the event was moved at least once.
THEOREM ProcessedIsPosted == StockSpec => []ProcessedWasPosted
BY InventoryInvariant, PTL DEF StockIInv

-----------------------------------------------------------------------------
(* Low stock. *)

\* Item i was announced, or is about to be.
Known(i) == i \in alerted \/ AlertDue(i)

\* A purchase or a return computed from low stock, which will not check what it
\* writes, is about an item already announced.
LowReadsKnown ==
    stockFaults = 0 =>
        \A s \in Staff :
            /\ staff[s].pc = "write" /\ staff[s].op \in {"purchase", "return"}
            /\ Threshold[staff[s].item] < Opening[staff[s].item]
            /\ staff[s].read <= Threshold[staff[s].item]
            => Known(staff[s].item)

\* Every item starts above its threshold or is none of the property's.
LEMMA LowStockInit == StockInit => LowStockAnnounced /\ LowReadsKnown
<1> SUFFICES ASSUME StockInit PROVE LowStockAnnounced /\ LowReadsKnown
  OBVIOUS
<1>1. \A i \in Items : Opening[i] \in Int /\ Threshold[i] \in Int
  BY InventoryAssumption
<1> QED BY <1>1 DEF StockInit, LowStockAnnounced, LowReadsKnown, NoRequest

\* Without a fault, an announcement made or due is not lost.
LEMMA KnownStays ==
    ASSUME StockIInv, [StockNext]_stockVars, stockFaults' = 0,
           NEW i \in Items, Known(i)
    PROVE  stockFaults = 0 /\ Known(i)'
<1>1. StockTypeOK
  BY DEF StockIInv
<1>2. ASSUME alerted' = alerted,
             \A s \in Staff : staff[s].pc = "alert" => staff'[s] = staff[s],
             \A h \in Handlers : run[h].pc = "alert" => run'[h] = run[h]
      PROVE  Known(i)'
  BY <1>2 DEF Known, AlertDue
<1>3. ASSUME NEW s \in Staff, StaffStep(s) \/ StaffFault(s)
      PROVE  stockFaults = 0 /\ Known(i)'
  <2>1. CASE StaffAlert(s)
    <3>1. CASE staff[s].item = i
      BY <2>1, <3>1 DEF StaffAlert, Known
    <3>2. CASE staff[s].item # i
      BY <1>1, <2>1, <3>2 DEF StaffAlert, Known, AlertDue, StockTypeOK
    <3> QED BY <2>1, <3>1, <3>2 DEF StaffAlert
  <2>2. CASE StaffWrite(s)
    BY <1>1, <1>2, <2>2 DEF StaffWrite, StockTypeOK
  <2>3. CASE \E op \in Operations, j \in Items, n \in Amounts : StaffRead(s, op, j, n)
    BY <1>1, <1>2, <2>3 DEF StaffRead, StockTypeOK
  <2>4. CASE StaffFault(s)
    BY <1>1, <2>4 DEF StaffFault, StockTypeOK
  <2> QED BY <1>3, <2>1, <2>2, <2>3, <2>4 DEF StaffStep
<1>4. ASSUME NEW h \in Handlers,
             HandlerStep(h) \/ HandlerFault(h) \/ \E e \in EventIds : Deliver(h, e)
      PROVE  stockFaults = 0 /\ Known(i)'
  <2>1. CASE HandlerAlert(h)
    <3>1. CASE ItemOf[run[h].part] = i
      BY <2>1, <3>1 DEF HandlerAlert, Known
    <3>2. CASE ItemOf[run[h].part] # i
      BY <1>1, <2>1, <3>2 DEF HandlerAlert, Known, AlertDue, StockTypeOK, Go
    <3> QED BY <2>1, <3>1, <3>2 DEF HandlerAlert
  <2>2. CASE HandlerFault(h)
    BY <1>1, <2>2 DEF HandlerFault, StockTypeOK
  <2>3. CASE ReadPart(h) \/ DeductPart(h) \/ ReturnPart(h) \/ RecordSuccess(h)
               \/ RecordFailure(h) \/ \E e \in EventIds : Deliver(h, e)
    <3>1. \A o \in Handlers : run[o].pc = "alert" => run'[o] = run[o]
      BY <1>1, <2>3
         DEF ReadPart, DeductPart, ReturnPart, RecordSuccess, RecordFailure, Deliver,
             Go, Fail, StockTypeOK
    <3>2. UNCHANGED <<alerted, staff, stockFaults>>
      BY <2>3
         DEF ReadPart, DeductPart, ReturnPart, RecordSuccess, RecordFailure, Deliver
    <3> QED BY <1>2, <3>1, <3>2
  <2> QED BY <1>4, <2>1, <2>2, <2>3 DEF HandlerStep
<1>5. CASE Restart
  BY <1>1, <1>5 DEF Restart, StockTypeOK
<1>6. CASE (\E e \in EventRecords : Receive(e)) \/ UNCHANGED stockVars
  BY <1>2, <1>6 DEF Receive, consumerVars, stockVars
<1> QED BY <1>3, <1>4, <1>5, <1>6 DEF StockNext, Work

\* A step that takes a quantity to or below its threshold announces the item, or
\* finds it announced.
LEMMA LowStockNext ==
    ASSUME StockIInv, LowStockAnnounced, LowReadsKnown, [StockNext]_stockVars
    PROVE  LowStockAnnounced' /\ LowReadsKnown'
<1> SUFFICES ASSUME stockFaults' = 0 PROVE LowStockAnnounced' /\ LowReadsKnown'
  BY DEF LowStockAnnounced, LowReadsKnown
<1> USE InventoryAssumption
<1>1. StockTypeOK /\ WritesChecked /\ stockFaults \in Nat
  BY DEF StockIInv, StockTypeOK
<1>2. stockFaults = 0
  <2>1. stockFaults' = stockFaults \/ stockFaults' = stockFaults + 1
    BY DEF StockNext, Work, StaffStep, HandlerStep, StaffRead, StaffWrite, StaffAlert,
           StaffFault, Receive, consumerVars, Deliver, ReadPart, DeductPart,
           HandlerAlert, ReturnPart, RecordSuccess, RecordFailure, HandlerFault,
           Restart, stockVars
  <2> QED BY <1>1, <2>1
<1>3. ASSUME NEW i \in Items, Known(i) PROVE Known(i)'
  BY <1>3, KnownStays
<1>4. ASSUME NEW i \in Items, Threshold[i] < Opening[i], quantity[i] <= Threshold[i]
      PROVE  Known(i)
  BY <1>2, <1>4 DEF LowStockAnnounced, Known
<1>5. ASSUME NEW s \in Staff, staff[s].pc = "write"
      PROVE  staff[s].item \in Items /\ staff[s].read \in Nat /\ staff[s].amount \in Nat
             /\ staff[s].op \in Operations
  BY <1>1, <1>5 DEF WritesChecked, StockTypeOK, StaffRecords
<1>6. ASSUME NEW i \in Items, Threshold[i] < Opening[i], quantity'[i] <= Threshold[i]
      PROVE  Known(i)'
  <2>1. CASE quantity'[i] = quantity[i] \/ quantity'[i] > quantity[i]
    <3>1. quantity[i] \in Int /\ Threshold[i] \in Int /\ quantity[i] <= quantity'[i]
          /\ quantity'[i] \in Int
      BY <1>1, <2>1, StockTypeNext DEF StockTypeOK
    <3> QED BY <1>3, <1>4, <1>6, <3>1
  <2>2. ASSUME NEW s \in Staff, StaffWrite(s), staff[s].item = i PROVE Known(i)'
    <3> DEFINE q == staff[s]
               new == NewQuantity(q.op, q.read, q.amount)
    <3>1. quantity'[i] = new /\ q.pc = "write"
      BY <1>1, <2>2 DEF StaffWrite, StockTypeOK
    <3>2. CASE q.op \in {"consume", "adjust"}
      <4>1. ReorderDue(q.op, i, new)
        BY <1>6, <3>1, <3>2 DEF ReorderDue
      <4>2. staff'[s] = AlertFor(i)
        BY <1>1, <2>2, <4>1 DEF StaffWrite, StockTypeOK
      <4> QED BY <4>2 DEF Known, AlertDue, AlertFor
    <3>3. CASE q.op \in {"purchase", "return"}
      <4>1. new = q.read + q.amount
        BY <3>3 DEF NewQuantity
      <4>2. q.read <= Threshold[i]
        BY <1>5, <1>6, <3>1, <4>1
      <4>3. Known(i)
        BY <1>2, <1>6, <2>2, <3>1, <3>3, <4>2 DEF LowReadsKnown
      <4> QED BY <1>3, <4>3
    <3> QED BY <1>5, <3>1, <3>2, <3>3 DEF Operations
  <2>3. ASSUME NEW h \in Handlers, DeductPart(h), ItemOf[run[h].part] = i PROVE Known(i)'
    <3>1. quantity'[i] = run[h].read - Qty[run[h].part]
      BY <1>1, <2>3 DEF DeductPart, StockTypeOK
    <3>2. run' = Go(h, "alert", run[h].todo, run[h].part, 0)
      BY <1>6, <2>3, <3>1 DEF DeductPart
    <3>3. run'[h].pc = "alert" /\ run'[h].part = run[h].part
      BY <1>1, <3>2 DEF Go, StockTypeOK
    <3> QED BY <2>3, <3>3 DEF Known, AlertDue
  <2>4. ASSUME NEW h \in Handlers, ReturnPart(h)
        PROVE  quantity'[i] = quantity[i] \/ quantity'[i] > quantity[i]
    <3>1. NextPart(run[h].todo) \in Parts
      BY <1>1, <2>4 DEF ReturnPart, NextPart, StockTypeOK, HandlerRecords
    <3> QED BY <1>1, <2>4, <3>1 DEF ReturnPart, StockTypeOK
  <2>5. ASSUME NEW s \in Staff, StaffWrite(s), staff[s].item # i
        PROVE  quantity'[i] = quantity[i]
    BY <1>1, <2>5 DEF StaffWrite, StockTypeOK
  <2>6. ASSUME NEW h \in Handlers, DeductPart(h), ItemOf[run[h].part] # i
        PROVE  quantity'[i] = quantity[i]
    BY <1>1, <2>6 DEF DeductPart, StockTypeOK
  <2>7. CASE UNCHANGED quantity
    BY <2>1, <2>7
  <2> QED
    BY <2>1, <2>2, <2>3, <2>4, <2>5, <2>6, <2>7
       DEF StockNext, Work, StaffStep, HandlerStep, stockVars, stock, StaffRead,
           StaffAlert, StaffFault, Receive, consumerVars, Deliver, ReadPart,
           HandlerAlert, RecordSuccess, RecordFailure, HandlerFault, Restart
<1>7. LowStockAnnounced'
  BY <1>6 DEF LowStockAnnounced, Known
<1>8. ASSUME NEW s \in Staff, staff'[s].pc = "write",
             staff'[s].op \in {"purchase", "return"},
             Threshold[staff'[s].item] < Opening[staff'[s].item],
             staff'[s].read <= Threshold[staff'[s].item]
      PROVE  \E i \in Items : i = staff'[s].item /\ Known(i)
  <2>1. CASE staff'[s] = staff[s]
    BY <1>2, <1>5, <1>8, <2>1 DEF LowReadsKnown
  <2>2. ASSUME NEW op \in Operations, NEW i \in Items, NEW n \in Amounts,
               StaffRead(s, op, i, n)
        PROVE  \E j \in Items : j = staff'[s].item /\ Known(j)
    <3>1. staff'[s].item = i /\ staff'[s].read = quantity[i]
      BY <1>1, <2>2 DEF StaffRead, StockTypeOK
    <3> QED BY <1>4, <1>8, <3>1
  <2>3. CASE StaffWrite(s) \/ StaffAlert(s) \/ StaffFault(s) \/ Restart
    <3>1. staff'[s] = NoRequest \/ \E i \in Items : staff'[s] = AlertFor(i)
      BY <1>1, <1>5, <2>3 DEF StaffWrite, StaffAlert, StaffFault, Restart, StockTypeOK
    <3>2. NoRequest.pc = "idle" /\ \A i \in Items : AlertFor(i).pc = "alert"
      BY DEF NoRequest, AlertFor
    <3> QED BY <1>8, <3>1, <3>2
  <2>4. ASSUME NEW o \in Staff, o # s, StaffStep(o) \/ StaffFault(o)
        PROVE  staff'[s] = staff[s]
    BY <1>1, <2>4
       DEF StaffStep, StaffRead, StaffWrite, StaffAlert, StaffFault, StockTypeOK
  <2>5. ASSUME NEW h \in Handlers,
               HandlerStep(h) \/ HandlerFault(h) \/ \E e \in EventIds : Deliver(h, e)
        PROVE  staff'[s] = staff[s]
    BY <2>5
       DEF HandlerStep, HandlerFault, Deliver, ReadPart, DeductPart, HandlerAlert,
           ReturnPart, RecordSuccess, RecordFailure
  <2>6. CASE (\E e \in EventRecords : Receive(e)) \/ UNCHANGED stockVars
    BY <2>1, <2>6 DEF Receive, consumerVars, stockVars
  <2> QED
    BY <2>1, <2>2, <2>3, <2>4, <2>5, <2>6 DEF StockNext, Work, StaffStep
<1>9. LowReadsKnown'
  <2> SUFFICES ASSUME NEW s \in Staff, staff'[s].pc = "write",
                      staff'[s].op \in {"purchase", "return"},
                      Threshold[staff'[s].item] < Opening[staff'[s].item],
                      staff'[s].read <= Threshold[staff'[s].item]
               PROVE  Known(staff[s].item)'
    BY DEF LowReadsKnown
  <2>1. PICK i \in Items : i = staff'[s].item /\ Known(i)
    BY <1>8
  <2>2. Known(i)'
    BY <1>3, <2>1
  <2> QED BY <2>1, <2>2 DEF Known, AlertDue
<1> QED BY <1>7, <1>9

\* As long as nothing fails, stock at or below its threshold has been announced or
\* is about to be, however stale the quantity a request or a handler wrote: those
\* that check do so on what they write, the others only raise what they read.
THEOREM LowStockIsAnnounced == StockSpec => []LowStockAnnounced
<1>1. StockIInv /\ LowStockAnnounced /\ LowReadsKnown /\ [StockNext]_stockVars
        => LowStockAnnounced' /\ LowReadsKnown'
  BY LowStockNext
<1> QED BY <1>1, LowStockInit, InventoryInvariant, PTL DEF StockSpec

-----------------------------------------------------------------------------
(* The parts of a card, when no two requests meet on it. *)

EventOf(c) == \E i \in DOMAIN outbox : outbox[i].card = c

\* An event carries parts of its card only, and its card is where the event
\* says; a card has one event at most.
EventsMatchCards ==
    \A i \in DOMAIN outbox :
        /\ \A p \in outbox[i].parts : partOf[p] = outbox[i].card
        /\ outbox[i].type = "completed" =>
               status[outbox[i].card] \in {"COMPLETED", "INVOICED"}
        /\ outbox[i].type = "cancelled" => status[outbox[i].card] = "CANCELLED"
OneEventEach ==
    \A i, j \in DOMAIN outbox : outbox[i].card = outbox[j].card => i = j

\* What a request carries are its card's parts as they are.
Carries(r) ==
    LET c == req[r].card
    IN  /\ req[r].pc = "transition" => req[r].parts = Attached(c)
        /\ req[r].pc = "cancel" => req[r].parts = Attached(c) \ reversed
        /\ req[r].pc = "logParts" => status[c] = "IN_PROGRESS"
        /\ req[r].pc = "announceCompleted" =>
               /\ status[c] = "COMPLETED" /\ ~EventOf(c)
               /\ req[r].parts = Attached(c)
        /\ req[r].pc = "announceCancelled" =>
               /\ status[c] = "CANCELLED" /\ ~EventOf(c)
               /\ req[r].parts \subseteq Attached(c)
RequestsCarry == \A r \in Requests : Carries(r)

\* The inductive invariant behind PartsAccounted.
PartsInv ==
    /\ CompletedCarriesItsParts
    /\ EventsMatchCards
    /\ OneEventEach
    /\ RequestsCarry
    /\ ReversedAreAnnounced

\* No card, no event, no request to start with.
LEMMA PartsInit == Init => PartsInv
<1> SUFFICES ASSUME Init PROVE PartsInv
  OBVIOUS
<1>1. DOMAIN outbox = {} /\ reversed = {}
  BY DEF Init
<1>2. \A r \in Requests : req[r].pc = "idle"
  BY DEF Init, Idle
<1> QED BY <1>1, <1>2
        DEF PartsInv, CompletedCarriesItsParts, EventsMatchCards, OneEventEach,
            RequestsCarry, Carries, ReversedAreAnnounced

\* An event is about a card whose life is over, but for the invoice.
LEMMA EventsAtTheEnd ==
    ASSUME TypeOK, EventsMatchCards, NEW c, EventOf(c)
    PROVE  /\ c \in Cards
           /\ status[c] \in {"COMPLETED", "INVOICED", "CANCELLED"}
<1>1. PICK i \in DOMAIN outbox : outbox[i].card = c
  BY DEF EventOf
<1>2. outbox[i] \in EventRecords
  BY <1>1 DEF TypeOK
<1> QED BY <1>1, <1>2 DEF EventRecords, EventTypes, EventsMatchCards

\* The events published stay right when a step leaves their cards where they are,
\* or invoices them, and no part joins or leaves these cards.
LEMMA EventsStayRight ==
    ASSUME TypeOK, outbox' = outbox,
           CompletedCarriesItsParts, EventsMatchCards, OneEventEach,
           \A c \in Cards : EventOf(c) =>
               /\ \/ status'[c] = status[c]
                  \/ status[c] = "COMPLETED" /\ status'[c] = "INVOICED"
               /\ \A p \in Parts : partOf'[p] = c <=> partOf[p] = c
    PROVE  CompletedCarriesItsParts' /\ EventsMatchCards' /\ OneEventEach'
<1>1. ASSUME NEW i \in DOMAIN outbox
      PROVE  /\ outbox[i] \in EventRecords /\ outbox[i].card \in Cards
             /\ outbox[i].parts \subseteq Parts /\ EventOf(outbox[i].card)
  <2>1. outbox[i] \in EventRecords
    BY DEF TypeOK
  <2>2. EventOf(outbox[i].card)
    BY DEF EventOf
  <2> QED BY <2>1, <2>2 DEF EventRecords
<1>2. CompletedCarriesItsParts'
  BY <1>1 DEF CompletedCarriesItsParts, Attached
<1>3. EventsMatchCards'
  <2> SUFFICES ASSUME NEW i \in DOMAIN outbox
               PROVE  /\ \A p \in outbox[i].parts : partOf'[p] = outbox[i].card
                      /\ outbox[i].type = "completed" =>
                             status'[outbox[i].card] \in {"COMPLETED", "INVOICED"}
                      /\ outbox[i].type = "cancelled" =>
                             status'[outbox[i].card] = "CANCELLED"
    BY DEF EventsMatchCards
  <2> QED BY <1>1 DEF EventsMatchCards
<1>4. OneEventEach'
  BY DEF OneEventEach
<1> QED BY <1>2, <1>3, <1>4

\* Publishing the event of a card that has none yet, with parts of the card.
LEMMA EventAdded ==
    ASSUME TypeOK, NEW type \in EventTypes, NEW c \in Cards, NEW parts \in SUBSET Parts,
           outbox' = Append(outbox, [type |-> type, card |-> c, parts |-> parts]),
           UNCHANGED <<status, partOf>>,
           CompletedCarriesItsParts, EventsMatchCards, OneEventEach,
           ~EventOf(c), parts \subseteq Attached(c),
           type = "completed" => status[c] = "COMPLETED" /\ parts = Attached(c),
           type = "cancelled" => status[c] = "CANCELLED"
    PROVE  /\ CompletedCarriesItsParts' /\ EventsMatchCards' /\ OneEventEach'
           /\ \A i \in DOMAIN outbox : i \in DOMAIN outbox' /\ outbox'[i] = outbox[i]
           /\ \E i \in DOMAIN outbox' : outbox'[i].type = type /\ outbox'[i].parts = parts
<1> DEFINE e == [type |-> type, card |-> c, parts |-> parts]
           n == Len(outbox) + 1
<1>0. e.type = type /\ e.card = c /\ e.parts = parts
  OBVIOUS
<1> HIDE DEF e
<1>1. /\ n \in Nat /\ DOMAIN outbox' = DOMAIN outbox \cup {n} /\ n \notin DOMAIN outbox
      /\ outbox'[n] = e /\ \A i \in DOMAIN outbox : outbox'[i] = outbox[i]
  BY DEF TypeOK, e
<1> HIDE DEF n
<1>2. \A d : Attached(d)' = Attached(d)
  BY DEF Attached
<1>3. CompletedCarriesItsParts'
  <2> SUFFICES ASSUME NEW i \in DOMAIN outbox', outbox'[i].type = "completed"
               PROVE  outbox'[i].parts = {p \in Parts : partOf'[p] = outbox'[i].card}
    BY DEF CompletedCarriesItsParts, Attached
  <2>1. CASE i \in DOMAIN outbox
    BY <1>1, <2>1 DEF CompletedCarriesItsParts, Attached
  <2>2. CASE i = n
    BY <1>0, <1>1, <2>2 DEF Attached
  <2> QED BY <1>1, <2>1, <2>2
<1>4. EventsMatchCards'
  <2> SUFFICES ASSUME NEW i \in DOMAIN outbox'
               PROVE  /\ \A p \in outbox'[i].parts : partOf[p] = outbox'[i].card
                      /\ outbox'[i].type = "completed" =>
                             status[outbox'[i].card] \in {"COMPLETED", "INVOICED"}
                      /\ outbox'[i].type = "cancelled" =>
                             status[outbox'[i].card] = "CANCELLED"
    BY DEF EventsMatchCards
  <2>1. CASE i \in DOMAIN outbox
    BY <1>1, <2>1 DEF EventsMatchCards
  <2>2. CASE i = n
    BY <1>0, <1>1, <2>2 DEF Attached
  <2> QED BY <1>1, <2>1, <2>2
<1>5. OneEventEach'
  BY <1>0, <1>1 DEF OneEventEach, EventOf
<1>6. \E i \in DOMAIN outbox' : outbox'[i].type = type /\ outbox'[i].parts = parts
  BY <1>0, <1>1
<1> QED BY <1>1, <1>3, <1>4, <1>5, <1>6

\* What the other requests carry is not touched by a step about another card.
LEMMA OthersCarry ==
    ASSUME CardsAlone, NamesCard, RequestsCarry,
           NEW r \in Requests, req[r].pc # "idle", Carries(r)',
           \A o \in Requests \ {r} : req'[o] = req[o],
           \A d \in Cards \ {req[r].card} :
               /\ status'[d] = status[d]
               /\ \A p \in Parts : partOf'[p] = d <=> partOf[p] = d
               /\ Attached(d) \ reversed' = Attached(d) \ reversed
               /\ EventOf(d)' => EventOf(d)
    PROVE  RequestsCarry'
<1> SUFFICES ASSUME NEW o \in Requests \ {r}, req[o].pc # "idle" PROVE Carries(o)'
  BY DEF RequestsCarry, Carries
<1>1. req[o].card \in Cards \ {req[r].card} /\ Carries(o) /\ req'[o] = req[o]
  BY DEF CardsAlone, NamesCard, RequestsCarry
<1>2. Attached(req[o].card)' = Attached(req[o].card)
  BY <1>1 DEF Attached
<1>3. (Attached(req[o].card) \ reversed)' = Attached(req[o].card) \ reversed
  BY <1>1, <1>2
<1>4. EventOf(req[o].card)' => EventOf(req[o].card)
  BY <1>1 DEF EventOf
<1> QED BY <1>1, <1>2, <1>3, <1>4 DEF Carries

\* What was written off stays announced by a step of a request that owes nothing.
LEMMA ReversalsStay ==
    ASSUME ReversedAreAnnounced, faults' = faults, reversed' = reversed,
           NEW r \in Requests, req[r].pc # "announceCancelled",
           \A o \in Requests \ {r} : req'[o] = req[o],
           \A i \in DOMAIN outbox : i \in DOMAIN outbox' /\ outbox'[i] = outbox[i]
    PROVE  ReversedAreAnnounced'
<1> SUFFICES ASSUME faults = 0, NEW p \in reversed
             PROVE  \/ \E i \in DOMAIN outbox' :
                           outbox'[i].type = "cancelled" /\ p \in outbox'[i].parts
                    \/ \E o \in Requests :
                           req'[o].pc = "announceCancelled" /\ p \in req'[o].parts
  BY DEF ReversedAreAnnounced
<1>1. CASE \E i \in DOMAIN outbox : outbox[i].type = "cancelled" /\ p \in outbox[i].parts
  BY <1>1
<1>2. ASSUME NEW o \in Requests, req[o].pc = "announceCancelled", p \in req[o].parts
      PROVE  req'[o] = req[o]
  BY <1>2
<1> QED BY <1>1, <1>2 DEF ReversedAreAnnounced

\* One event more is an event of its own card only.
LEMMA OnlyItsEvent ==
    ASSUME TypeOK, NEW e, outbox' = Append(outbox, e), NEW d, d # e.card
    PROVE  EventOf(d)' => EventOf(d)
<1> SUFFICES ASSUME NEW i \in DOMAIN outbox', outbox'[i].card = d PROVE EventOf(d)
  BY DEF EventOf
<1>1. i = Len(outbox) + 1 => outbox'[i] = e
  BY DEF TypeOK
<1>2. i \in DOMAIN outbox /\ outbox'[i] = outbox[i]
  BY <1>1 DEF TypeOK
<1> QED BY <1>2 DEF EventOf

\* The table leads to COMPLETED from the quality check only, and from the end of a
\* life to an invoice only.
LEMMA TableEnds ==
    ASSUME NEW s \in Statuses, NEW t \in L!ValidTransitions[s]
    PROVE  /\ t = "COMPLETED" => s = "QUALITY_CHECK"
           /\ s \in {"COMPLETED", "INVOICED", "CANCELLED"} =>
                  s = "COMPLETED" /\ t = "INVOICED"
BY DEF L!ValidTransitions, Statuses, L!Statuses

\* Every step keeps account of the parts.
LEMMA PartsNext ==
    ASSUME CardsAlone, IInv, ReadsCurrent, PartsInv, [Next]_vars
    PROVE  PartsInv'
<1> USE JobCardsAssumption
<1>1. /\ TypeOK /\ NamesCard /\ TargetsAllowed
      /\ CompletedCarriesItsParts /\ EventsMatchCards /\ OneEventEach
      /\ RequestsCarry /\ ReversedAreAnnounced
  BY DEF IInv, PartsInv
<1>2. ASSUME NEW c \in Cards, EventOf(c)
      PROVE  status[c] \in {"COMPLETED", "INVOICED", "CANCELLED"}
  BY <1>1, <1>2, EventsAtTheEnd
<1>3. ASSUME NEW r \in Requests
      PROVE  /\ req[r] \in RequestRecords /\ Carries(r)
             /\ req[r].pc # "idle" => req[r].card \in Cards
             /\ req[r].parts \subseteq Parts
  BY <1>1 DEF TypeOK, RequestRecords, RequestsCarry, NamesCard
<1>4. ASSUME NEW d \in Cards, CreateCard(d) PROVE PartsInv'
  <2>1. /\ \A c \in Cards \ {d} : status'[c] = status[c]
        /\ status[d] = "absent" /\ UNCHANGED <<partOf, reversed, outbox, req, faults>>
    BY <1>1, <1>4 DEF CreateCard, L!Create, TypeOK
  <2>2. CompletedCarriesItsParts' /\ EventsMatchCards' /\ OneEventEach'
    BY <1>1, <1>2, <2>1, EventsStayRight
  <2>3. RequestsCarry'
    BY <1>3, <2>1 DEF RequestsCarry, Carries, Attached, EventOf
  <2> QED BY <1>1, <2>1, <2>2, <2>3 DEF PartsInv, ReversedAreAnnounced
<1>5. ASSUME NEW r \in Requests, ReadStep(r) PROVE PartsInv'
  <2>1. UNCHANGED <<status, partOf, reversed, outbox, faults>> /\ req[r].pc = "idle"
    BY <1>5 DEF ReadStep, ReadTransition, ReadForLogging, ReadCancel, cardVars, Idle
  <2>2. CompletedCarriesItsParts' /\ EventsMatchCards' /\ OneEventEach'
    BY <1>1, <2>1, EventsStayRight
  <2>3. Carries(r)'
    <3>1. ASSUME NEW c \in Cards, NEW target \in Statuses, ReadTransition(r, c, target)
          PROVE  req'[r].pc = "transition" /\ req'[r].card = c
                 /\ req'[r].parts = Attached(c)
      BY <1>1, <3>1 DEF ReadTransition, TypeOK
    <3>2. ASSUME NEW c \in Cards, NEW pc \in {"logParts", "addNote"},
                 ReadForLogging(r, c, pc)
          PROVE  req'[r].pc = pc /\ req'[r].card = c /\ status[c] = "IN_PROGRESS"
      BY <1>1, <3>2 DEF ReadForLogging, TypeOK, At, Idle
    <3>3. ASSUME NEW c \in Cards, ReadCancel(r, c)
          PROVE  req'[r].pc = "cancel" /\ req'[r].card = c
                 /\ req'[r].parts = Attached(c) \ reversed
      BY <1>1, <3>3 DEF ReadCancel, TypeOK, At, Idle
    <3>4. \A c : Attached(c)' = Attached(c)
      BY <2>1 DEF Attached
    <3> QED BY <1>5, <2>1, <3>1, <3>2, <3>3, <3>4 DEF ReadStep, Carries
  <2>4. \A o \in Requests \ {r} : req'[o] = req[o]
    BY <1>1, <1>5 DEF ReadStep, ReadTransition, ReadForLogging, ReadCancel, TypeOK
  <2>5. ASSUME NEW o \in Requests \ {r} PROVE Carries(o)'
    BY <1>3, <2>1, <2>4 DEF Carries, Attached, EventOf
  <2>6. RequestsCarry'
    BY <2>3, <2>5 DEF RequestsCarry
  <2>7. ReversedAreAnnounced'
    BY <1>1, <2>1, <2>4, ReversalsStay
  <2> QED BY <2>2, <2>6, <2>7 DEF PartsInv
<1>6. ASSUME NEW r \in Requests, WriteTransition(r) PROVE PartsInv'
  <2> DEFINE c == req[r].card
             t == req[r].target
  <2>1. /\ c \in Cards /\ status[c] \in Statuses /\ req[r].pc = "transition"
        /\ t \in L!ValidTransitions[status[c]] /\ req[r].parts = Attached(c)
    BY <1>1, <1>3, <1>6 DEF WriteTransition, TargetsAllowed, ReadsCurrent, Carries, TypeOK
  <2>2. /\ status' = [status EXCEPT ![c] = t]
        /\ UNCHANGED <<partOf, reversed, outbox, faults>>
    BY <1>6 DEF WriteTransition
  <2>3. CompletedCarriesItsParts' /\ EventsMatchCards' /\ OneEventEach'
    <3>1. ASSUME NEW d \in Cards, EventOf(d)
          PROVE  \/ status'[d] = status[d]
                 \/ status[d] = "COMPLETED" /\ status'[d] = "INVOICED"
      BY <1>1, <1>2, <2>1, <2>2, <3>1, TableEnds DEF TypeOK
    <3> QED BY <1>1, <2>2, <3>1, EventsStayRight
  <2>4. Carries(r)'
    <3>1. CASE t = "COMPLETED"
      <4>1. req'[r] = At("announceCompleted", c, req[r].parts)
        BY <1>1, <1>6, <3>1 DEF WriteTransition, TypeOK
      <4>2. req'[r].pc = "announceCompleted" /\ req'[r].card = c
            /\ req'[r].parts = Attached(c)
        BY <2>1, <4>1 DEF At, Idle
      <4>3. ~EventOf(c) /\ status'[c] = "COMPLETED"
        BY <1>1, <1>2, <2>1, <2>2, <3>1, TableEnds DEF TypeOK
      <4> QED BY <2>2, <4>2, <4>3 DEF Carries, Attached, EventOf
    <3>2. CASE t # "COMPLETED"
      BY <1>1, <1>6, <3>2 DEF WriteTransition, TypeOK, Idle, Carries
    <3> QED BY <3>1, <3>2
  <2>5. \A o \in Requests \ {r} : req'[o] = req[o]
    BY <1>1, <1>6 DEF WriteTransition, TypeOK
  <2>6. RequestsCarry'
    <3>1. ASSUME NEW d \in Cards \ {c} PROVE status'[d] = status[d] /\ EventOf(d)' = EventOf(d)
      BY <1>1, <2>2 DEF TypeOK, EventOf
    <3> QED BY <1>1, <2>1, <2>2, <2>4, <2>5, <3>1, OthersCarry
  <2>7. ReversedAreAnnounced'
    BY <1>1, <2>1, <2>2, <2>5, ReversalsStay
  <2> QED BY <2>3, <2>6, <2>7 DEF PartsInv
<1>7. ASSUME NEW r \in Requests, AnnounceCompleted(r) PROVE PartsInv'
  <2> DEFINE c == req[r].card
  <2>1. /\ c \in Cards /\ req[r].parts \in SUBSET Parts /\ status[c] = "COMPLETED"
        /\ req[r].parts = Attached(c) /\ ~EventOf(c)
        /\ req[r].pc = "announceCompleted"
    BY <1>3, <1>7 DEF AnnounceCompleted, Carries
  <2>2. /\ outbox' = Append(outbox, [type |-> "completed", card |-> c,
                                     parts |-> req[r].parts])
        /\ UNCHANGED <<status, partOf, reversed, faults>> /\ req'[r].pc = "idle"
    BY <1>1, <1>7 DEF AnnounceCompleted, cardVars, TypeOK, Idle
  <2>3. /\ CompletedCarriesItsParts' /\ EventsMatchCards' /\ OneEventEach'
        /\ \A i \in DOMAIN outbox : i \in DOMAIN outbox' /\ outbox'[i] = outbox[i]
    BY <1>1, <2>1, <2>2, EventAdded DEF EventTypes
  <2>4. \A o \in Requests \ {r} : req'[o] = req[o]
    BY <1>1, <1>7 DEF AnnounceCompleted, TypeOK
  <2>5. RequestsCarry'
    <3>1. ASSUME NEW d \in Cards \ {c} PROVE EventOf(d)' => EventOf(d)
      BY <1>1, <2>1, <2>2, OnlyItsEvent
    <3> QED BY <1>1, <2>1, <2>2, <2>4, <3>1, OthersCarry DEF Carries
  <2>6. ReversedAreAnnounced'
    BY <1>1, <2>1, <2>2, <2>3, <2>4, ReversalsStay
  <2> QED BY <2>3, <2>5, <2>6 DEF PartsInv
<1>8. ASSUME NEW r \in Requests, NEW p \in Parts, LogPart(r, p) PROVE PartsInv'
  <2> DEFINE c == req[r].card
  <2>1. c \in Cards /\ status[c] = "IN_PROGRESS" /\ ~EventOf(c)
    BY <1>2, <1>3, <1>8 DEF LogPart, Carries
  <2>2. /\ partOf[p] = NoCard /\ partOf' = [partOf EXCEPT ![p] = c]
        /\ UNCHANGED <<status, reversed, outbox, faults>> /\ req'[r].pc = "idle"
        /\ req[r].pc = "logParts"
    BY <1>1, <1>8 DEF LogPart, TypeOK, Idle
  <2>3. \A d \in Cards : EventOf(d) =>
            \A q \in Parts : partOf'[q] = d <=> partOf[q] = d
    BY <1>1, <2>1, <2>2 DEF TypeOK
  <2>4. CompletedCarriesItsParts' /\ EventsMatchCards' /\ OneEventEach'
    BY <1>1, <2>2, <2>3, EventsStayRight
  <2>5. \A o \in Requests \ {r} : req'[o] = req[o]
    BY <1>1, <1>8 DEF LogPart, TypeOK
  <2>6. RequestsCarry'
    <3>1. ASSUME NEW d \in Cards \ {c}, NEW q \in Parts
          PROVE  partOf'[q] = d <=> partOf[q] = d
      BY <1>1, <2>2 DEF TypeOK
    <3>2. \A d : EventOf(d)' = EventOf(d)
      BY <2>2 DEF EventOf
    <3> QED BY <1>1, <2>2, <2>5, <3>1, <3>2, OthersCarry DEF Carries
  <2>7. ReversedAreAnnounced'
    BY <1>1, <2>2, <2>5, ReversalsStay
  <2> QED BY <2>4, <2>6, <2>7 DEF PartsInv
<1>9. ASSUME NEW r \in Requests, AddNote(r) PROVE PartsInv'
  <2>1. /\ UNCHANGED <<status, partOf, reversed, outbox, faults>>
        /\ req'[r].pc = "idle" /\ req[r].pc = "addNote"
    BY <1>1, <1>9 DEF AddNote, TypeOK, Idle
  <2>2. CompletedCarriesItsParts' /\ EventsMatchCards' /\ OneEventEach'
    BY <1>1, <2>1, EventsStayRight
  <2>3. \A o \in Requests \ {r} : req'[o] = req[o]
    BY <1>1, <1>9 DEF AddNote, TypeOK
  <2>4. ASSUME NEW o \in Requests PROVE Carries(o)'
    BY <1>3, <2>1, <2>3 DEF Carries, Attached, EventOf
  <2>5. RequestsCarry'
    BY <2>4 DEF RequestsCarry
  <2>6. ReversedAreAnnounced'
    BY <1>1, <2>1, <2>3, ReversalsStay
  <2> QED BY <2>2, <2>5, <2>6 DEF PartsInv
<1>10. ASSUME NEW r \in Requests, WriteCancel(r) PROVE PartsInv'
  <2> DEFINE c == req[r].card
             carried == req[r].parts
  <2>1. /\ c \in Cards /\ status[c] \in CancellableStatuses /\ req[r].pc = "cancel"
        /\ carried = Attached(c) \ reversed /\ ~EventOf(c)
    BY <1>2, <1>3, <1>10 DEF WriteCancel, ReadsCurrent, Carries, CancellableStatuses
  <2>2. /\ status' = [status EXCEPT ![c] = "CANCELLED"]
        /\ UNCHANGED <<partOf, outbox, faults>>
        /\ reversed' = reversed \cup carried
    BY <1>10, <2>1 DEF WriteCancel
  <2>3. /\ carried # {} => /\ req'[r].pc = "announceCancelled" /\ req'[r].card = c
                           /\ req'[r].parts = carried
        /\ carried = {} => req'[r].pc = "idle"
    BY <1>1, <1>10 DEF WriteCancel, TypeOK, At, Idle
  <2>4. CompletedCarriesItsParts' /\ EventsMatchCards' /\ OneEventEach'
    <3>1. ASSUME NEW d \in Cards, EventOf(d) PROVE status'[d] = status[d]
      BY <1>1, <2>1, <2>2, <3>1 DEF TypeOK
    <3> QED BY <1>1, <2>2, <3>1, EventsStayRight
  <2>5. Carries(r)'
    <3>1. status'[c] = "CANCELLED"
      BY <1>1, <2>1, <2>2 DEF TypeOK
    <3>2. carried \subseteq Attached(c)
      BY <2>1
    <3>3. \A d : Attached(d)' = Attached(d)
      BY <2>2 DEF Attached
    <3> QED BY <2>1, <2>2, <2>3, <3>1, <3>2, <3>3 DEF Carries, EventOf
  <2>6. \A o \in Requests \ {r} : req'[o] = req[o]
    BY <1>1, <1>10 DEF WriteCancel, TypeOK
  <2>7. RequestsCarry'
    <3>1. ASSUME NEW d \in Cards \ {c}
          PROVE  /\ status'[d] = status[d] /\ EventOf(d)' = EventOf(d)
                 /\ Attached(d) \ reversed' = Attached(d) \ reversed
      BY <1>1, <2>1, <2>2 DEF TypeOK, EventOf, Attached
    <3> QED BY <1>1, <2>1, <2>2, <2>5, <2>6, <3>1, OthersCarry
  <2>8. ReversedAreAnnounced'
    <3> SUFFICES ASSUME faults = 0, NEW p \in reversed \cup carried
                 PROVE  \/ \E i \in DOMAIN outbox :
                               outbox[i].type = "cancelled" /\ p \in outbox[i].parts
                        \/ \E o \in Requests :
                               req'[o].pc = "announceCancelled" /\ p \in req'[o].parts
      BY <2>2 DEF ReversedAreAnnounced
    <3>1. CASE p \in carried
      BY <2>3, <3>1
    <3>2. CASE p \in reversed
      BY <1>1, <2>1, <2>6, <3>2 DEF ReversedAreAnnounced
    <3> QED BY <3>1, <3>2
  <2> QED BY <2>4, <2>7, <2>8 DEF PartsInv
<1>11. ASSUME NEW r \in Requests, AnnounceCancelled(r) PROVE PartsInv'
  <2> DEFINE c == req[r].card
  <2>1. /\ c \in Cards /\ req[r].parts \in SUBSET Parts /\ status[c] = "CANCELLED"
        /\ req[r].parts \subseteq Attached(c) /\ ~EventOf(c)
    BY <1>3, <1>11 DEF AnnounceCancelled, Carries
  <2>2. /\ outbox' = Append(outbox, [type |-> "cancelled", card |-> c,
                                     parts |-> req[r].parts])
        /\ UNCHANGED <<status, partOf, reversed, faults>> /\ req'[r].pc = "idle"
    BY <1>1, <1>11 DEF AnnounceCancelled, cardVars, TypeOK, Idle
  <2>3. /\ CompletedCarriesItsParts' /\ EventsMatchCards' /\ OneEventEach'
        /\ \A i \in DOMAIN outbox : i \in DOMAIN outbox' /\ outbox'[i] = outbox[i]
        /\ \E i \in DOMAIN outbox' :
               outbox'[i].type = "cancelled" /\ outbox'[i].parts = req[r].parts
    BY <1>1, <2>1, <2>2, EventAdded DEF EventTypes
  <2>4. \A o \in Requests \ {r} : req'[o] = req[o]
    BY <1>1, <1>11 DEF AnnounceCancelled, TypeOK
  <2>5. RequestsCarry'
    <3>1. ASSUME NEW d \in Cards \ {c} PROVE EventOf(d)' => EventOf(d)
      BY <1>1, <2>1, <2>2, OnlyItsEvent
    <3>2. req[r].pc # "idle"
      BY <1>11 DEF AnnounceCancelled
    <3> QED BY <1>1, <2>2, <2>4, <3>1, <3>2, OthersCarry DEF Carries
  <2>6. ReversedAreAnnounced'
    <3> SUFFICES ASSUME faults = 0, NEW p \in reversed
                 PROVE  \/ \E i \in DOMAIN outbox' :
                               outbox'[i].type = "cancelled" /\ p \in outbox'[i].parts
                        \/ \E o \in Requests :
                               req'[o].pc = "announceCancelled" /\ p \in req'[o].parts
      BY <2>2 DEF ReversedAreAnnounced
    <3>1. CASE \E i \in DOMAIN outbox :
                  outbox[i].type = "cancelled" /\ p \in outbox[i].parts
      BY <2>3, <3>1
    <3>2. CASE p \in req[r].parts
      BY <2>3, <3>2
    <3>3. ASSUME NEW o \in Requests \ {r}, req[o].pc = "announceCancelled",
                 p \in req[o].parts
          PROVE  req'[o].pc = "announceCancelled" /\ p \in req'[o].parts
      BY <2>4, <3>3
    <3> QED BY <1>1, <3>1, <3>2, <3>3 DEF ReversedAreAnnounced
  <2> QED BY <2>3, <2>5, <2>6 DEF PartsInv
<1>12. ASSUME NEW lost \in SUBSET Requests, LoseRequests(lost) PROVE PartsInv'
  <2>1. /\ UNCHANGED <<status, partOf, reversed, outbox>> /\ faults' # 0
        /\ \A r \in Requests : req'[r] = req[r] \/ req'[r].pc = "idle"
    BY <1>1, <1>12 DEF LoseRequests, cardVars, TypeOK, Idle
  <2>2. CompletedCarriesItsParts' /\ EventsMatchCards' /\ OneEventEach'
    BY <1>1, <2>1, EventsStayRight
  <2>3. \A r \in Requests : Carries(r)'
    BY <1>3, <2>1 DEF Carries, Attached, EventOf
  <2> QED BY <2>1, <2>2, <2>3 DEF PartsInv, RequestsCarry, ReversedAreAnnounced
<1>13. CASE UNCHANGED vars
  BY <1>1, <1>13
     DEF vars, cardVars, PartsInv, CompletedCarriesItsParts, EventsMatchCards,
         OneEventEach, RequestsCarry, Carries, Attached, EventOf, ReversedAreAnnounced
<1> QED
  BY <1>4, <1>5, <1>6, <1>7, <1>8, <1>9, <1>10, <1>11, <1>12, <1>13 DEF Next, WriteStep

\* A card has one event at most, and it carries parts of the card only.
LEMMA CarriedOnce == PartsInv => PartCarriedOnce
BY DEF PartsInv, EventsMatchCards, OneEventEach, PartCarriedOnce

\* As long as no two requests meet on a card, job cards owe their parts what they
\* publish: a completion names every part logged, no part is in two events, and
\* parts written off by a cancellation are announced, unless a fault loses the event.
THEOREM PartsAreAccounted == Spec /\ []CardsAlone => []PartsAccounted
<1>1. CardsAlone /\ IInv /\ ReadsCurrent /\ PartsInv /\ [Next]_vars => ReadsCurrent' /\ PartsInv'
  BY CurrentNext, PartsNext
<1>2. PartsInv => PartsAccounted
  BY CarriedOnce DEF PartsInv, PartsAccounted
<1> QED BY <1>1, <1>2, CurrentInit, PartsInit, CardsInvariant, PTL DEF Spec

-----------------------------------------------------------------------------
(* The quantity and its movements, when no reading of a quantity is stale. *)

\* Handler h, or request s, is about to move item i: it has read the quantity, or
\* its next part is one to give back.
HandlerMoves(h, i) ==
    \/ run[h].pc = "write" /\ ItemOf[run[h].part] = i
    \/ /\ run[h].pc = "part" /\ run[h].todo # {}
       /\ outbox[run[h].event].type = "cancelled"
       /\ ItemOf[NextPart(run[h].todo)] = i
StaffMoves(s, i) == staff[s].pc = "write" /\ staff[s].item = i

\* Between the reading of a quantity and the write, nobody else is about to move it.
WritersApart ==
    /\ \A h \in Handlers : run[h].pc = "write" =>
           /\ \A o \in Handlers \ {h} : ~HandlerMoves(o, ItemOf[run[h].part])
           /\ \A s \in Staff : ~StaffMoves(s, ItemOf[run[h].part])
    /\ \A s \in Staff : staff[s].pc = "write" =>
           /\ \A o \in Staff \ {s} : ~StaffMoves(o, staff[s].item)
           /\ \A h \in Handlers : ~HandlerMoves(h, staff[s].item)

\* A single handler and no staff, as in the run of Workshop, are always apart.
LEMMA SingleWriter ==
    ASSUME \A h, o \in Handlers : h = o, Staff = {}
    PROVE  WritersApart
BY DEF WritersApart

\* What has been read is still the quantity.
QuantitiesCurrent ==
    /\ \A h \in Handlers : run[h].pc = "write" => run[h].read = quantity[ItemOf[run[h].part]]
    /\ \A s \in Staff : staff[s].pc = "write" => staff[s].read = quantity[staff[s].item]

\* Nothing has moved yet.
LEMMA BalanceInit == StockInit => LedgerBalances /\ QuantitiesCurrent
<1> SUFFICES ASSUME StockInit PROVE LedgerBalances /\ QuantitiesCurrent
  OBVIOUS
<1>1. LedgerBalances
  BY InventoryAssumption DEF StockInit, LedgerBalances
<1>2. QuantitiesCurrent
  BY DEF StockInit, QuantitiesCurrent, NoRun, NoRequest
<1> QED BY <1>1, <1>2

\* Every movement changes the quantity by what it says.
LEMMA BalanceNext ==
    ASSUME WritersApart, StockIInv, LedgerBalances, QuantitiesCurrent,
           [StockNext]_stockVars
    PROVE  LedgerBalances' /\ QuantitiesCurrent'
<1> USE InventoryAssumption
<1>1. StockTypeOK /\ WritesChecked
  BY DEF StockIInv
<1>2. ASSUME UNCHANGED <<quantity, ledger>>,
             \A h \in Handlers : run'[h].pc = "write" =>
                 run'[h] = run[h] \/ run'[h].read = quantity[ItemOf[run'[h].part]],
             \A s \in Staff : staff'[s].pc = "write" =>
                 staff'[s] = staff[s] \/ staff'[s].read = quantity[staff'[s].item]
      PROVE  LedgerBalances' /\ QuantitiesCurrent'
  BY <1>2 DEF LedgerBalances, QuantitiesCurrent
<1>3. ASSUME NEW h \in Handlers, ReadPart(h) PROVE LedgerBalances' /\ QuantitiesCurrent'
  <2> DEFINE p == NextPart(run[h].todo)
  <2>0. UNCHANGED <<quantity, ledger, staff>>
    BY <1>3 DEF ReadPart, stock
  <2>1. CASE run' = Fail(h)
    <3>1. run'[h].pc = "failing" /\ \A o \in Handlers \ {h} : run'[o] = run[o]
      BY <1>1, <2>1 DEF Fail, Go, StockTypeOK
    <3> QED BY <1>2, <2>0, <3>1
  <2>2. CASE run' = Go(h, "write", run[h].todo \ {p}, p, quantity[ItemOf[p]])
    <3>1. /\ run'[h].part = p /\ run'[h].read = quantity[ItemOf[p]]
          /\ \A o \in Handlers \ {h} : run'[o] = run[o]
      BY <1>1, <2>2 DEF Go, StockTypeOK
    <3> QED BY <1>2, <2>0, <3>1
  <2> QED BY <1>3, <2>1, <2>2 DEF ReadPart
<1>4. ASSUME NEW i \in Items, NEW new \in Int, NEW newLedger \in Int,
             quantity' = [quantity EXCEPT ![i] = new],
             ledger' = [ledger EXCEPT ![i] = newLedger],
             new - quantity[i] = newLedger - ledger[i],
             \A h \in Handlers : run'[h].pc = "write" =>
                 run'[h] = run[h] /\ ItemOf[run[h].part] # i,
             \A s \in Staff : staff'[s].pc = "write" =>
                 staff'[s] = staff[s] /\ staff[s].item # i
      PROVE  LedgerBalances' /\ QuantitiesCurrent'
  <2>1. ASSUME NEW j \in Items PROVE quantity'[j] = Opening[j] + ledger'[j]
    <3>1. /\ quantity[j] = Opening[j] + ledger[j]
          /\ quantity[j] \in Int /\ ledger[j] \in Int /\ Opening[j] \in Int
      BY <1>1 DEF LedgerBalances, StockTypeOK
    <3>2. CASE i = j
      <4>1. quantity'[j] = new /\ ledger'[j] = newLedger
        BY <1>1, <1>4, <3>2 DEF StockTypeOK
      <4> QED BY <1>4, <3>1, <3>2, <4>1
    <3>3. CASE i # j
      BY <1>1, <1>4, <3>1, <3>3 DEF StockTypeOK
    <3> QED BY <3>2, <3>3
  <2>2. LedgerBalances'
    BY <2>1 DEF LedgerBalances
  <2>3. \A j \in Items \ {i} : quantity'[j] = quantity[j]
    BY <1>1, <1>4 DEF StockTypeOK
  <2>4. ASSUME NEW h \in Handlers, run'[h].pc = "write"
        PROVE  run'[h].read = quantity'[ItemOf[run'[h].part]]
    <3>1. /\ run'[h] = run[h] /\ ItemOf[run[h].part] # i
          /\ run[h].part \in Parts /\ run[h].read = quantity[ItemOf[run[h].part]]
      BY <1>1, <1>4, <2>4 DEF WritesChecked, QuantitiesCurrent
    <3> QED BY <2>3, <3>1
  <2>5. ASSUME NEW s \in Staff, staff'[s].pc = "write"
        PROVE  staff'[s].read = quantity'[staff'[s].item]
    BY <1>1, <1>4, <2>3, <2>5 DEF WritesChecked, QuantitiesCurrent
  <2> QED BY <2>2, <2>4, <2>5 DEF QuantitiesCurrent
\* A handler that moves an item meets nobody who has read its quantity.
<1>h. ASSUME NEW h \in Handlers, NEW i, HandlerMoves(h, i), staff' = staff,
             run'[h].pc # "write", \A o \in Handlers \ {h} : run'[o] = run[o]
      PROVE  /\ \A o \in Handlers : run'[o].pc = "write" =>
                     run'[o] = run[o] /\ ItemOf[run[o].part] # i
             /\ \A s \in Staff : staff'[s].pc = "write" =>
                     staff'[s] = staff[s] /\ staff[s].item # i
  <2>1. ASSUME NEW o \in Handlers, run'[o].pc = "write"
        PROVE  run'[o] = run[o] /\ ItemOf[run[o].part] # i
    <3>1. o # h /\ run'[o] = run[o]
      BY <1>h, <2>1
    <3> QED BY <1>h, <2>1, <3>1 DEF WritersApart
  <2>2. ASSUME NEW s \in Staff, staff'[s].pc = "write"
        PROVE  staff'[s] = staff[s] /\ staff[s].item # i
    BY <1>h, <2>2 DEF WritersApart
  <2> QED BY <2>1, <2>2
<1>5. ASSUME NEW h \in Handlers, DeductPart(h) PROVE LedgerBalances' /\ QuantitiesCurrent'
  <2> DEFINE p == run[h].part
  <2>1. p \in Parts /\ run[h].read = quantity[ItemOf[p]] /\ Qty[p] \in Nat
    BY <1>1, <1>5 DEF DeductPart, WritesChecked, QuantitiesCurrent
  <2>2. ItemOf[p] \in Items /\ quantity[ItemOf[p]] \in Int /\ ledger[ItemOf[p]] \in Int
    BY <1>1, <2>1 DEF StockTypeOK
  <2>3. /\ quantity' = [quantity EXCEPT ![ItemOf[p]] = run[h].read - Qty[p]]
        /\ ledger' = [ledger EXCEPT ![ItemOf[p]] = ledger[ItemOf[p]] - Qty[p]]
    BY <1>5 DEF DeductPart
  <2>4. /\ run[h].read - Qty[p] \in Int /\ ledger[ItemOf[p]] - Qty[p] \in Int
        /\ (run[h].read - Qty[p]) - quantity[ItemOf[p]]
              = (ledger[ItemOf[p]] - Qty[p]) - ledger[ItemOf[p]]
    BY <2>1, <2>2
  <2>5. HandlerMoves(h, ItemOf[p]) /\ staff' = staff
    BY <1>5 DEF DeductPart, HandlerMoves
  <2>6. run'[h].pc # "write" /\ \A o \in Handlers \ {h} : run'[o] = run[o]
    BY <1>1, <1>5 DEF DeductPart, Go, StockTypeOK
  <2> HIDE DEF p
  <2> QED BY <1>4, <1>h, <2>2, <2>3, <2>4, <2>5, <2>6
<1>6. ASSUME NEW h \in Handlers, ReturnPart(h) PROVE LedgerBalances' /\ QuantitiesCurrent'
  <2> DEFINE p == NextPart(run[h].todo)
  <2>1. p \in Parts /\ Qty[p] \in Int
    BY <1>1, <1>6 DEF ReturnPart, NextPart, StockTypeOK, HandlerRecords
  <2>2. ItemOf[p] \in Items /\ quantity[ItemOf[p]] \in Int /\ ledger[ItemOf[p]] \in Int
    BY <1>1, <2>1 DEF StockTypeOK
  <2>3. /\ quantity' = [quantity EXCEPT ![ItemOf[p]] = quantity[ItemOf[p]] + Qty[p]]
        /\ ledger' = [ledger EXCEPT ![ItemOf[p]] = ledger[ItemOf[p]] + Qty[p]]
    BY <1>6 DEF ReturnPart
  <2>4. /\ quantity[ItemOf[p]] + Qty[p] \in Int /\ ledger[ItemOf[p]] + Qty[p] \in Int
        /\ (quantity[ItemOf[p]] + Qty[p]) - quantity[ItemOf[p]]
              = (ledger[ItemOf[p]] + Qty[p]) - ledger[ItemOf[p]]
    BY <2>1, <2>2
  <2>5. HandlerMoves(h, ItemOf[p]) /\ staff' = staff
    BY <1>6 DEF ReturnPart, HandlerMoves
  <2>6. run'[h].pc # "write" /\ \A o \in Handlers \ {h} : run'[o] = run[o]
    BY <1>1, <1>6 DEF ReturnPart, Go, StockTypeOK
  <2> HIDE DEF p
  <2> QED BY <1>4, <1>h, <2>2, <2>3, <2>4, <2>5, <2>6
<1>7. ASSUME NEW h \in Handlers,
             HandlerAlert(h) \/ RecordSuccess(h) \/ RecordFailure(h) \/ HandlerFault(h)
                \/ \E e \in EventIds : Deliver(h, e)
      PROVE  LedgerBalances' /\ QuantitiesCurrent'
  <2>1. run'[h].pc # "write" /\ \A o \in Handlers \ {h} : run'[o] = run[o]
    BY <1>1, <1>7
       DEF HandlerAlert, RecordSuccess, RecordFailure, HandlerFault, Deliver, Go, Fail,
           NoRun, StockTypeOK
  <2>2. UNCHANGED <<quantity, ledger, staff>>
    BY <1>7 DEF HandlerAlert, RecordSuccess, RecordFailure, HandlerFault, Deliver, stock
  <2> QED BY <1>2, <2>1, <2>2
<1>8. ASSUME NEW s \in Staff, NEW op \in Operations, NEW i \in Items, NEW n \in Amounts,
             StaffRead(s, op, i, n)
      PROVE  LedgerBalances' /\ QuantitiesCurrent'
  <2>1. /\ staff'[s].read = quantity[staff'[s].item]
        /\ \A o \in Staff \ {s} : staff'[o] = staff[o]
    BY <1>1, <1>8 DEF StaffRead, StockTypeOK
  <2>2. UNCHANGED <<quantity, ledger, run>>
    BY <1>8 DEF StaffRead, stock
  <2> QED BY <1>2, <2>1, <2>2
<1>9. ASSUME NEW s \in Staff, StaffWrite(s) PROVE LedgerBalances' /\ QuantitiesCurrent'
  <2>1. PICK i, new : i = staff[s].item
                      /\ new = NewQuantity(staff[s].op, staff[s].read, staff[s].amount)
    OBVIOUS
  <2>2. /\ i \in Items /\ staff[s].read = quantity[i] /\ staff[s] \in StaffRecords
        /\ quantity[i] \in Int /\ ledger[i] \in Int
    BY <1>1, <1>9, <2>1 DEF StaffWrite, WritesChecked, QuantitiesCurrent, StockTypeOK
  <2>3. new \in Int
    BY <2>1, <2>2, NewQuantityTyped DEF StaffRecords
  <2>4. /\ quantity' = [quantity EXCEPT ![i] = new]
        /\ ledger' = [ledger EXCEPT ![i] = ledger[i] + (new - quantity[i])]
    BY <1>9, <2>1, <2>2 DEF StaffWrite
  <2>5. staff'[s].pc # "write" /\ run' = run /\ \A o \in Staff \ {s} : staff'[o] = staff[o]
    BY <1>1, <1>9 DEF StaffWrite, AlertFor, NoRequest, StockTypeOK
  <2>6. /\ \A o \in Handlers : run'[o].pc = "write" =>
                run'[o] = run[o] /\ ItemOf[run[o].part] # i
        /\ \A o \in Staff : staff'[o].pc = "write" =>
                staff'[o] = staff[o] /\ staff[o].item # i
    BY <1>9, <2>1, <2>5 DEF StaffWrite, WritersApart, HandlerMoves, StaffMoves
  <2>7. /\ ledger[i] + (new - quantity[i]) \in Int
        /\ new - quantity[i] = (ledger[i] + (new - quantity[i])) - ledger[i]
    BY <2>2, <2>3
  <2> QED BY <1>4, <2>2, <2>3, <2>4, <2>6, <2>7
<1>10. ASSUME NEW s \in Staff, StaffAlert(s) \/ StaffFault(s)
       PROVE  LedgerBalances' /\ QuantitiesCurrent'
  <2>1. staff'[s].pc # "write" /\ \A o \in Staff \ {s} : staff'[o] = staff[o]
    BY <1>1, <1>10 DEF StaffAlert, StaffFault, NoRequest, StockTypeOK
  <2>2. UNCHANGED <<quantity, ledger, run>>
    BY <1>10 DEF StaffAlert, StaffFault, stock
  <2> QED BY <1>2, <2>1, <2>2
<1>11. CASE Restart
  BY <1>2, <1>11 DEF Restart, stock, NoRun, NoRequest
<1>12. CASE (\E e \in EventRecords : Receive(e)) \/ UNCHANGED stockVars
  BY <1>2, <1>12 DEF Receive, consumerVars, stockVars, stock
<1> QED BY <1>3, <1>5, <1>6, <1>7, <1>8, <1>9, <1>10, <1>11, <1>12
        DEF StockNext, Work, StaffStep, HandlerStep

\* As long as no two writers meet on an item, its quantity is what the movements add
\* up to, whatever is delivered again, fails half-way or restarts. (Writers that meet
\* break it: the quantity is written over, the movement is kept.)
THEOREM MovementsAddUp == StockSpec /\ []WritersApart => []LedgerBalances
<1>1. WritersApart /\ StockIInv /\ LedgerBalances /\ QuantitiesCurrent /\ [StockNext]_stockVars
        => LedgerBalances' /\ QuantitiesCurrent'
  BY BalanceNext
<1> QED BY <1>1, BalanceInit, InventoryInvariant, PTL DEF StockSpec

-----------------------------------------------------------------------------
(* Every movement is of a part its event names. *)

PostedFromEvent ==
    /\ Len(outbox) <= MaxEvents
    /\ \A h \in Handlers :
           run[h].pc = "write" => run[h].part \in outbox[run[h].event].parts
    /\ \A e \in EventIds, p \in Parts :
           posted[e][p] > 0 => e <= Len(outbox) /\ p \in outbox[e].parts

\* Nothing is posted to start with.
LEMMA PostedInit == StockInit => PostedFromEvent
<1> SUFFICES ASSUME StockInit PROVE PostedFromEvent
  OBVIOUS
<1>1. Len(outbox) <= MaxEvents
  BY OutboxAssumption DEF StockInit
<1>2. \A h \in Handlers : run[h].pc # "write"
  BY DEF StockInit, NoRun
<1>3. \A e \in EventIds, p \in Parts : ~(posted[e][p] > 0)
  BY DEF StockInit
<1> QED BY <1>1, <1>2, <1>3 DEF PostedFromEvent

\* One more movement of part q for event d.
LEMMA PostedOne ==
    ASSUME StockIInv, NEW d \in EventIds, NEW q \in Parts,
           posted' = [posted EXCEPT ![d][q] = @ + 1],
           NEW e \in EventIds, NEW p \in Parts, posted'[e][p] > 0
    PROVE  posted[e][p] > 0 \/ (e = d /\ p = q)
<1>1. posted \in [EventIds -> [Parts -> Nat]]
  BY DEF StockIInv, StockTypeOK
<1>2. CASE e # d
  BY <1>1, <1>2
<1>3. CASE e = d /\ p # q
  <2>1. posted'[e] = [posted[e] EXCEPT ![q] = posted[e][q] + 1]
    BY <1>1, <1>3
  <2> QED BY <1>1, <1>3, <2>1
<1> QED BY <1>2, <1>3

\* Every step posts parts of the event it handles.
LEMMA PostedNext ==
    ASSUME StockIInv, PostedFromEvent, [StockNext]_stockVars
    PROVE  PostedFromEvent'
<1> USE InventoryAssumption, OutboxAssumption
<1>1. StockTypeOK /\ RunsAccounted /\ WritesChecked
  BY DEF StockIInv
<1>2. ASSUME outbox' = outbox, posted' = posted,
             \A h \in Handlers :
                 run'[h].pc = "write" => run'[h].part \in outbox[run'[h].event].parts
      PROVE  PostedFromEvent'
  BY <1>2 DEF PostedFromEvent
<1>3. ASSUME NEW h \in Handlers, NEW q \in outbox[run[h].event].parts,
             run[h].pc # "idle", outbox' = outbox,
             posted' = [posted EXCEPT ![run[h].event][q] = @ + 1],
             run'[h].pc # "write", \A o \in Handlers \ {h} : run'[o] = run[o]
      PROVE  PostedFromEvent'
  <2>1. run[h].event \in EventIds /\ run[h].event <= Len(outbox)
    BY <1>1, <1>3 DEF RunsAccounted, Accounted
  <2>2. outbox[run[h].event] \in EventRecords
    BY <1>1, <2>1 DEF StockTypeOK, EventIds
  <2>3. q \in Parts
    BY <1>3, <2>2 DEF EventRecords
  <2>4. ASSUME NEW e \in EventIds, NEW p \in Parts, posted'[e][p] > 0
        PROVE  e <= Len(outbox) /\ p \in outbox[e].parts
    BY <1>3, <2>1, <2>3, <2>4, PostedOne DEF PostedFromEvent
  <2> QED BY <1>3, <2>4 DEF PostedFromEvent
<1>4. ASSUME NEW h \in Handlers, DeductPart(h) PROVE PostedFromEvent'
  <2>1. run[h].part \in outbox[run[h].event].parts /\ run[h].pc = "write"
    BY <1>4 DEF DeductPart, PostedFromEvent
  <2>2. run'[h].pc # "write" /\ \A o \in Handlers \ {h} : run'[o] = run[o]
    BY <1>1, <1>4 DEF DeductPart, Go, StockTypeOK
  <2>3. outbox' = outbox /\ posted' = [posted EXCEPT ![run[h].event][run[h].part] = @ + 1]
    BY <1>4 DEF DeductPart, bus
  <2> QED BY <1>3, <2>1, <2>2, <2>3
<1>5. ASSUME NEW h \in Handlers, ReturnPart(h) PROVE PostedFromEvent'
  <2> DEFINE p == NextPart(run[h].todo)
  <2>1. run[h].pc = "part" /\ p \in outbox[run[h].event].parts
    BY <1>1, <1>5 DEF ReturnPart, NextPart, RunsAccounted, Accounted
  <2>2. run'[h].pc # "write" /\ \A o \in Handlers \ {h} : run'[o] = run[o]
    BY <1>1, <1>5 DEF ReturnPart, Go, StockTypeOK
  <2>3. outbox' = outbox /\ posted' = [posted EXCEPT ![run[h].event][p] = @ + 1]
    BY <1>5 DEF ReturnPart, bus
  <2> QED BY <1>3, <2>1, <2>2, <2>3
<1>6. ASSUME NEW h \in Handlers, ReadPart(h) PROVE PostedFromEvent'
  <2> DEFINE p == NextPart(run[h].todo)
  <2>1. p \in outbox[run[h].event].parts
    BY <1>1, <1>6 DEF ReadPart, NextPart, RunsAccounted, Accounted
  <2>2. /\ run'[h].event = run[h].event /\ \A o \in Handlers \ {h} : run'[o] = run[o]
        /\ run'[h].pc = "write" => run'[h].part = p
    <3>1. CASE run' = Fail(h)
      BY <1>1, <3>1 DEF Fail, Go, StockTypeOK
    <3>2. CASE run' = Go(h, "write", run[h].todo \ {p}, p, quantity[ItemOf[p]])
      BY <1>1, <3>2 DEF Go, StockTypeOK
    <3> QED BY <1>6, <3>1, <3>2 DEF ReadPart
  <2>3. outbox' = outbox /\ posted' = posted
    BY <1>6 DEF ReadPart, stock, bus
  <2> QED BY <1>2, <2>1, <2>2, <2>3 DEF PostedFromEvent
<1>7. ASSUME NEW h \in Handlers,
             HandlerAlert(h) \/ RecordSuccess(h) \/ RecordFailure(h) \/ HandlerFault(h)
                \/ \E e \in EventIds : Deliver(h, e)
      PROVE  PostedFromEvent'
  <2>1. run'[h].pc # "write" /\ \A o \in Handlers \ {h} : run'[o] = run[o]
    BY <1>1, <1>7
       DEF HandlerAlert, RecordSuccess, RecordFailure, HandlerFault, Deliver, Go, Fail,
           NoRun, StockTypeOK
  <2>2. outbox' = outbox /\ posted' = posted
    BY <1>7 DEF HandlerAlert, RecordSuccess, RecordFailure, HandlerFault, Deliver,
                stock, bus
  <2> QED BY <1>2, <2>1, <2>2 DEF PostedFromEvent
<1>8. CASE Restart
  BY <1>2, <1>8 DEF Restart, stock, bus, NoRun
<1>9. ASSUME NEW e \in EventRecords, Receive(e) PROVE PostedFromEvent'
  <2>1. /\ Len(outbox') = Len(outbox) + 1 /\ Len(outbox) \in Nat
        /\ Len(outbox) < MaxEvents
        /\ \A i \in 1..Len(outbox) : outbox'[i] = outbox[i]
    BY <1>1, <1>9 DEF Receive, StockTypeOK
  <2>2. UNCHANGED <<posted, run>>
    BY <1>9 DEF Receive, consumerVars, stock
  <2>3. ASSUME NEW h \in Handlers, run[h].pc = "write"
        PROVE  outbox'[run[h].event] = outbox[run[h].event]
    BY <1>1, <2>1, <2>3 DEF RunsAccounted, Accounted, EventIds
  <2>4. ASSUME NEW d \in EventIds, NEW p \in Parts, posted[d][p] > 0
        PROVE  d <= Len(outbox') /\ p \in outbox'[d].parts
    <3>1. d \in 1..Len(outbox) /\ p \in outbox[d].parts
      BY <2>1, <2>4 DEF PostedFromEvent, EventIds
    <3> QED BY <2>1, <3>1
  <2> QED BY <2>1, <2>2, <2>3, <2>4 DEF PostedFromEvent
<1>10. CASE (\E s \in Staff : StaffStep(s) \/ StaffFault(s)) \/ UNCHANGED stockVars
  <2>1. UNCHANGED <<outbox, posted, run>>
    BY <1>10
       DEF StaffStep, StaffRead, StaffWrite, StaffAlert, StaffFault, stockVars, stock, bus
  <2> QED BY <1>2, <2>1 DEF PostedFromEvent
<1> QED
  BY <1>4, <1>5, <1>6, <1>7, <1>8, <1>9, <1>10 DEF StockNext, Work, HandlerStep

-----------------------------------------------------------------------------
(* Cards and stock together. *)

\* What the card side appends to the outbox is an event the inventory may receive.
LEMMA CardSideReceives ==
    ASSUME IInv, CardSide PROVE [StockNext]_stockVars
<1>1. TypeOK /\ NamesCard /\ UNCHANGED consumerVars /\ Len(outbox') <= MaxEvents
  BY DEF IInv, CardSide
<1>2. CASE outbox' = outbox
  BY <1>1, <1>2 DEF consumerVars, stockVars, stock, bus
<1>3. ASSUME NEW r \in Requests, AnnounceCompleted(r) \/ AnnounceCancelled(r)
      PROVE  \E e \in EventRecords : Receive(e)
  <2>1. PICK type \in EventTypes :
            outbox' = Append(outbox, [type |-> type, card |-> req[r].card,
                                      parts |-> req[r].parts])
    BY <1>3 DEF AnnounceCompleted, AnnounceCancelled, EventTypes
  <2>2. req[r].card \in Cards /\ req[r].parts \in SUBSET Parts
    BY <1>1, <1>3
       DEF AnnounceCompleted, AnnounceCancelled, NamesCard, TypeOK, RequestRecords
  <2> DEFINE e == [type |-> type, card |-> req[r].card, parts |-> req[r].parts]
  <2>3. e \in EventRecords /\ outbox' = Append(outbox, e)
    BY <2>1, <2>2 DEF EventRecords
  <2>4. Len(outbox) < MaxEvents
    BY <1>1, <2>3, OutboxAssumption DEF TypeOK
  <2>5. Receive(e)
    BY <1>1, <2>3, <2>4 DEF Receive
  <2> QED BY <2>3, <2>5
<1>4. CASE (\E r \in Requests : ReadStep(r)) \/ (\E c \in Cards : CreateCard(c))
             \/ \E lost \in SUBSET Requests : LoseRequests(lost)
  BY <1>2, <1>4
     DEF ReadStep, ReadTransition, ReadForLogging, ReadCancel, CreateCard, LoseRequests
<1>5. CASE \E r \in Requests : WriteTransition(r) \/ AddNote(r) \/ WriteCancel(r)
                                 \/ \E p \in Parts : LogPart(r, p)
  BY <1>2, <1>5 DEF WriteTransition, AddNote, WriteCancel, LogPart
<1>6. Next
  BY DEF CardSide
<1> QED BY <1>3, <1>4, <1>5, <1>6 DEF Next, WriteStep, StockNext

\* Each side of the workshop is its component: the cards as if nobody consumed
\* their events, the inventory as if anybody published to it.
THEOREM WorkshopImplementsBoth == WSpec => Spec /\ StockSpec
<1>1. WInit => Init /\ StockInit
  BY DEF WInit
<1>2. [WNext]_wvars => [Next]_vars
  BY DEF WNext, wvars, CardSide, StockSide
<1>3. IInv /\ [WNext]_wvars => [StockNext]_stockVars
  BY CardSideReceives DEF WNext, wvars, StockSide, StockNext
<1> QED BY <1>1, <1>2, <1>3, CardsInvariant, PTL DEF WSpec, Spec, StockSpec

\* A processed completion deducted every part of its card, and no part of a
\* cancelled card was deducted: what events carry is what the handler posts.
LEMMA StockAndCards ==
    ASSUME IInv, PartsInv, StockIInv, PostedFromEvent
    PROVE  CompletedPartsDeducted /\ CancelledNeverDeducted
<1>1. TypeOK /\ StockTypeOK /\ ProcessedWasPosted
  BY DEF IInv, StockIInv
<1>2. /\ CompletedCarriesItsParts /\ EventsMatchCards
      /\ Len(outbox) \in Nat /\ Len(outbox) <= MaxEvents
      /\ DOMAIN outbox = 1..Len(outbox)
  BY <1>1 DEF PartsInv, PostedFromEvent, TypeOK
<1>3. CompletedPartsDeducted
  <2> SUFFICES ASSUME NEW e \in processed, outbox[e].type = "completed",
                      NEW p \in Attached(outbox[e].card)
               PROVE  posted[e][p] > 0
    BY DEF CompletedPartsDeducted
  <2>1. e \in DOMAIN outbox
    BY <1>1, <1>2 DEF StockTypeOK, EventIds, ProcessedWasPosted
  <2> QED BY <1>1, <1>2, <2>1 DEF CompletedCarriesItsParts, ProcessedWasPosted
<1>4. CancelledNeverDeducted
  <2> SUFFICES ASSUME NEW c \in Cards, NEW p \in Parts, status[c] = "CANCELLED",
                      partOf[p] = c, NEW e \in DOMAIN outbox,
                      outbox[e].type = "completed", posted[e][p] > 0
               PROVE  FALSE
    BY DEF CancelledNeverDeducted, Moved
  <2>1. e \in EventIds
    BY <1>2, OutboxAssumption DEF EventIds
  <2>2. p \in outbox[e].parts
    BY <2>1 DEF PostedFromEvent
  <2> QED BY <1>2, <2>2 DEF EventsMatchCards
<1> QED BY <1>3, <1>4

\* As long as no two requests meet on a card, and with any number of handlers and
\* staff: a completed card's event, once processed, had all the parts logged on the
\* card deducted, and a cancelled card cost the stock nothing.
THEOREM CardsAreFollowed ==
    WSpec /\ []CardsAlone => [](CompletedPartsDeducted /\ CancelledNeverDeducted)
<1>1. Spec /\ []CardsAlone => []PartsInv
  <2>1. CardsAlone /\ IInv /\ ReadsCurrent /\ PartsInv /\ [Next]_vars => ReadsCurrent' /\ PartsInv'
    BY CurrentNext, PartsNext
  <2> QED BY <2>1, CurrentInit, PartsInit, CardsInvariant, PTL DEF Spec
<1>2. StockSpec => []PostedFromEvent
  <2>1. StockIInv /\ PostedFromEvent /\ [StockNext]_stockVars => PostedFromEvent'
    BY PostedNext
  <2> QED BY <2>1, PostedInit, InventoryInvariant, PTL DEF StockSpec
<1>3. IInv /\ PartsInv /\ StockIInv /\ PostedFromEvent
        => CompletedPartsDeducted /\ CancelledNeverDeducted
  BY StockAndCards
<1> QED
  BY <1>1, <1>2, <1>3, WorkshopImplementsBoth, CardsInvariant, InventoryInvariant, PTL

\* As long as no two requests meet on a card, and no two writers on an item: the
\* stock follows the cards, quantities included.
THEOREM StockIsWhatCardsSay ==
    WSpec /\ []CardsAlone /\ []WritersApart => []StockFollowsCards
<1>1. WSpec /\ []CardsAlone => [](CompletedPartsDeducted /\ CancelledNeverDeducted)
  BY CardsAreFollowed
<1>2. StockSpec /\ []WritersApart => []LedgerBalances
  BY MovementsAddUp
<1>3. CompletedPartsDeducted /\ CancelledNeverDeducted /\ LedgerBalances
        => StockFollowsCards
  BY DEF StockFollowsCards
<1> QED BY <1>1, <1>2, <1>3, WorkshopImplementsBoth, PTL
=============================================================================
