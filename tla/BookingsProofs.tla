--------------------------- MODULE BookingsProofs ---------------------------
(***************************************************************************)
(* Proofs about Bookings: what no interleaving of requests can break, and  *)
(* that requests served one at a time respect the documented gates.        *)
(***************************************************************************)
EXTENDS Bookings, TLAPS

\* The statuses and kinds, once expanded.
USE BookingsAssumption DEF G!Statuses, G!Kinds

\* An empty shop satisfies the invariant.
LEMMA InitInvariant == Init => IInv
<1> SUFFICES ASSUME Init PROVE IInv
  OBVIOUS
<1>1. \A b \in Bookings : status[b] = "absent" /\ service[b] = Nobody
  BY DEF Init, G!Init
<1>2. TypeOK
  BY DEF Init, G!Init, TypeOK, TripStatuses, RequestRecords, Idle
<1>3. RequestsKnow
  BY <1>1 DEF Init, G!Init, RequestsKnow, Knows, Idle
<1> QED BY <1>1, <1>2, <1>3 DEF Init, IInv, WorkIsApproved, StaffAreEmployed

\* A step that only moves a request on keeps the invariant, if what the request
\* knows now is true.
LEMMA GoesKeeps ==
    ASSUME IInv, NEW r \in Requests, NEW q \in RequestRecords, Knows(q), Goes(r, q)
    PROVE  IInv'
<1>0. overlapped' \in BOOLEAN
  BY DEF Goes
<1>1. TypeOK'
  BY <1>0 DEF IInv, TypeOK, Goes, gateVars, staffVars
<1>2. \A s \in Requests : req'[s] = IF s = r THEN q ELSE req[s]
  BY DEF IInv, TypeOK, Goes
<1>3. RequestsKnow'
  BY <1>2 DEF IInv, RequestsKnow, Knows, Goes, gateVars, staffVars
<1> QED BY <1>1, <1>3 DEF IInv, WorkIsApproved, StaffAreEmployed, Goes, gateVars, staffVars

\* What a request in flight is, by its step.
LEMMA Requested ==
    ASSUME TypeOK, NEW r \in Requests
    PROVE  /\ req[r].pc \notin {"idle", "remove"} => req[r].booking \in Bookings
           /\ req[r].pc = "verify" =>
                  req[r].kind \in G!Kinds /\ req[r].from \in G!Statuses
           /\ req[r].pc = "report" => req[r].kind \in G!Kinds
           /\ req[r].pc = "assign" =>
                  req[r].pickup \in Choices /\ req[r].service \in Choices
           /\ req[r].pc = "remove" => req[r].employee \in Employees
           /\ req[r].pc = "toggle" => req[r].item \in Items
           /\ req[r].pc = "trip" => req[r].trip \in TripStatuses
<1>1. req[r] \in RequestRecords
  BY DEF TypeOK
<1> QED BY <1>1 DEF RequestRecords

\* A request that only names its booking is well formed.
LEMMA AtTyped ==
    ASSUME NEW b \in Bookings, NEW pc \in {"cancel", "assigned", "advance", "push"}
    PROVE  At(pc, b) \in RequestRecords
BY DEF At, RequestRecords

\* A request that has ended is well formed and claims nothing.
LEMMA IdleKnows == Idle \in RequestRecords /\ Knows(Idle)
BY DEF Idle, RequestRecords, Knows

\* The customer's reads keep the invariant.
LEMMA CustomerReads ==
    ASSUME IInv, NEW r \in Requests, NEW b \in Bookings,
           ReadCancel(r, b) \/ \E k \in G!Kinds : ReadVerify(r, b, k)
    PROVE  IInv'
<1>1. CASE ReadCancel(r, b)
  BY <1>1, AtTyped, GoesKeeps DEF ReadCancel, Free, Knows, At
<1>2. ASSUME NEW k \in G!Kinds, ReadVerify(r, b, k) PROVE IInv'
  <2> DEFINE q == [pc |-> "verify", booking |-> b, kind |-> k, from |-> status[b]]
  <2>1. q \in RequestRecords
    BY DEF IInv, TypeOK, RequestRecords
  <2>2. Knows(q)
    BY <1>2 DEF ReadVerify, Free, Knows
  <2> QED BY <1>2, <2>1, <2>2, GoesKeeps DEF ReadVerify
<1> QED BY <1>1, <1>2

\* The manager's reads, and the requests the database rejects, keep it.
LEMMA ManagerReads ==
    ASSUME IInv, NEW r \in Requests,
           \/ \E b \in Bookings, p, s \in Choices : ReadAssign(r, b, p, s)
           \/ \E e \in Employees : ReadRemove(r, e)
           \/ AssignRejected(r) \/ ReadAssigned(r) \/ RemoveRejected(r)
    PROVE  IInv'
<1>1. ASSUME NEW b \in Bookings, NEW p \in Choices, NEW s \in Choices,
             ReadAssign(r, b, p, s)
      PROVE  IInv'
  <2> DEFINE q == [pc |-> "assign", booking |-> b, pickup |-> p, service |-> s]
  <2>1. q \in RequestRecords
    BY DEF RequestRecords
  <2>2. Knows(q)
    BY <1>1 DEF ReadAssign, Free, Knows
  <2> QED BY <1>1, <2>1, <2>2, GoesKeeps DEF ReadAssign
<1>2. ASSUME NEW e \in Employees, ReadRemove(r, e) PROVE IInv'
  <2> DEFINE q == [pc |-> "remove", employee |-> e]
  <2>1. q \in RequestRecords /\ Knows(q)
    BY DEF RequestRecords, Knows
  <2> QED BY <1>2, <2>1, GoesKeeps DEF ReadRemove
<1>3. CASE AssignRejected(r) \/ RemoveRejected(r)
  BY <1>3, IdleKnows, GoesKeeps DEF AssignRejected, RemoveRejected
<1>4. CASE ReadAssigned(r)
  <2>1. req[r].booking \in Bookings /\ status[req[r].booking] # "absent"
    BY <1>4, Requested DEF IInv, RequestsKnow, Knows, ReadAssigned
  <2>2. /\ At("advance", req[r].booking) \in RequestRecords
        /\ Knows(At("advance", req[r].booking))
    BY <2>1, AtTyped DEF Knows, At
  <2> QED BY <1>4, <2>2, IdleKnows, GoesKeeps DEF ReadAssigned
<1> QED BY <1>1, <1>2, <1>3, <1>4

\* The staff's reads keep it: what submitReport read was approved already.
LEMMA StaffReads ==
    ASSUME IInv, NEW r \in Requests, NEW e \in Employees, NEW b \in Bookings,
           \/ \E k \in G!Kinds : ReadReport(r, e, b, k)
           \/ \E i \in Items : ReadToggle(r, e, b, i)
           \/ ReadTripStart(r, e, b) \/ ReadArrive(r, e, b) \/ ReadPush(r, e, b)
    PROVE  IInv'
<1>1. ASSUME NEW k \in G!Kinds, ReadReport(r, e, b, k) PROVE IInv'
  <2> DEFINE q == [pc |-> "report", booking |-> b, kind |-> k]
  <2>1. q \in RequestRecords
    BY DEF RequestRecords
  <2>2. k = "DELIVERY" => status[b] = "IN_PROGRESS"
    BY <1>1 DEF ReadReport, G!Gate
  <2>3. k = "DELIVERY" => <<b, "PICKUP">> \in verified
    BY <2>2 DEF IInv, WorkIsApproved
  <2>4. Knows(q)
    BY <1>1, <2>3 DEF ReadReport, Free, Knows
  <2> QED BY <1>1, <2>1, <2>4, GoesKeeps DEF ReadReport
<1>2. ASSUME NEW i \in Items, ReadToggle(r, e, b, i) PROVE IInv'
  <2> DEFINE q == [pc |-> "toggle", booking |-> b, item |-> i]
  <2>1. q \in RequestRecords
    BY DEF RequestRecords
  <2>2. Knows(q)
    BY <1>2 DEF ReadToggle, Free, Knows
  <2> QED BY <1>2, <2>1, <2>2, GoesKeeps DEF ReadToggle
<1>3. ASSUME NEW t \in TripStatuses, Free(r, b),
             Goes(r, [pc |-> "trip", booking |-> b, trip |-> t])
      PROVE  IInv'
  <2> DEFINE q == [pc |-> "trip", booking |-> b, trip |-> t]
  <2>1. q \in RequestRecords /\ Knows(q)
    BY <1>3 DEF RequestRecords, Free, Knows
  <2> QED BY <1>3, <2>1, GoesKeeps
<1>4. CASE ReadTripStart(r, e, b) \/ ReadArrive(r, e, b)
  BY <1>3, <1>4 DEF ReadTripStart, ReadArrive, TripStatuses
<1>5. CASE ReadPush(r, e, b)
  BY <1>5, AtTyped, GoesKeeps DEF ReadPush, Free, Knows, At
<1> QED BY <1>1, <1>2, <1>4, <1>5

\* A request that ends, or is done with its assignment.
LEMMA OthersKnow ==
    ASSUME IInv, NEW r \in Requests, NEW q \in RequestRecords,
           req' = [req EXCEPT ![r] = q],
           Knows(q)', submitted \subseteq submitted', verified \subseteq verified',
           \A b \in Bookings : status[b] # "absent" => status'[b] # "absent"
    PROVE  /\ req' \in [Requests -> RequestRecords]
           /\ (\A s \in Requests : Knows(req[s]))'
<1>1. req' \in [Requests -> RequestRecords]
  BY DEF IInv, TypeOK
<1>2. req'[r] = q /\ \A s \in Requests \ {r} : req'[s] = req[s]
  BY DEF IInv, TypeOK
<1>3. ASSUME NEW s \in Requests, s # r PROVE Knows(req[s])'
  <2>1. Knows(req[s])
    BY DEF IInv, RequestsKnow
  <2>2. req[s].pc \notin {"idle", "remove"} => req[s].booking \in Bookings
    BY Requested DEF IInv
  <2>3. req'[s] = req[s]
    BY <1>2, <1>3
  <2> QED BY <2>1, <2>2, <2>3 DEF Knows
<1>4. Knows(req[r])'
  BY <1>2 DEF Knows
<1> QED BY <1>1, <1>3, <1>4

\* The gates of the two kinds of photos, spelled out.
LEMMA GatesTyped ==
    ASSUME NEW k \in G!Kinds
    PROVE  /\ G!Sent[k] = IF k = "PICKUP" THEN "CONDITION_PENDING" ELSE "DONE_PENDING"
           /\ G!Approved[k] = IF k = "PICKUP" THEN "IN_PROGRESS" ELSE "COMPLETED"
           /\ G!Gate[k] = IF k = "PICKUP" THEN "ASSIGNED" ELSE "IN_PROGRESS"
BY DEF G!Sent, G!Approved, G!Gate

\* A new booking has no staff, no report and no request in flight.
LEMMA CreateKeeps == ASSUME IInv, NEW b \in Bookings, Create(b) PROVE IInv'
<1>1. TypeOK'
  BY DEF IInv, TypeOK, Create, G!Book, staffVars
<1>2. RequestsKnow'
  <2>1. \A c \in Bookings : status'[c] = "absent" => status[c] = "absent"
    BY DEF IInv, TypeOK, Create, G!Book
  <2>2. ASSUME NEW s \in Requests PROVE Knows(req[s])'
    BY <2>1, Requested DEF IInv, RequestsKnow, Knows, Create, G!Book
  <2> QED BY <2>1, <2>2 DEF IInv, RequestsKnow, Create, G!Book, staffVars
<1> QED BY <1>1, <1>2
        DEF IInv, TypeOK, WorkIsApproved, StaffAreEmployed, Create, G!Book, staffVars

\* A request that has ended claims nothing after a step either.
LEMMA IdleKnowsLater == Knows(Idle)'
BY DEF Idle, Knows

\* The customer's writes.
LEMMA CustomerWrites ==
    ASSUME IInv, NEW r \in Requests, WriteCancel(r) \/ WriteVerify(r) PROVE IInv'
<1>1. CASE WriteCancel(r)
  <2> DEFINE b == req[r].booking
  <2>1. b \in Bookings /\ status[b] # "absent"
    BY <1>1, Requested DEF IInv, RequestsKnow, Knows, WriteCancel
  <2>2. \A c \in Bookings : status[c] # "absent" <=> status'[c] # "absent"
    BY <1>1, <2>1 DEF IInv, TypeOK, WriteCancel
  <2>3. req' \in [Requests -> RequestRecords] /\ (\A s \in Requests : Knows(req[s]))'
    BY <1>1, <2>2, OthersKnow, IdleKnows, IdleKnowsLater DEF WriteCancel
  <2>4. TypeOK'
    BY <1>1, <2>1, <2>3 DEF IInv, TypeOK, WriteCancel, staffVars
  <2>5. RequestsKnow'
    BY <1>1, <2>2, <2>3 DEF IInv, RequestsKnow, WriteCancel, staffVars
  <2> QED BY <1>1, <2>1, <2>4, <2>5
          DEF IInv, TypeOK, WorkIsApproved, StaffAreEmployed, WriteCancel, staffVars
<1>2. CASE WriteVerify(r)
  <2> DEFINE b == req[r].booking
             k == req[r].kind
  <2>1. b \in Bookings /\ k \in G!Kinds /\ status[b] # "absent" /\ <<b, k>> \in submitted
    BY <1>2, Requested DEF IInv, RequestsKnow, Knows, WriteVerify
  <2>2. /\ status' = [status EXCEPT ![b] = G!Approved[k]] \/ status' = status
        /\ verified' = verified \cup {<<b, k>>}
        /\ req' = [req EXCEPT ![r] = Idle]
        /\ UNCHANGED <<submitted, pickup, service, employed, done, trip, overlapped, faults>>
    BY <1>2 DEF WriteVerify, staffVars
  <2>3. /\ G!Approved[k] \in G!Statuses \ {"absent"}
        /\ G!Approved[k] # "DONE_PENDING"
        /\ G!Approved[k] = "COMPLETED" => k = "DELIVERY"
        /\ G!Approved[k] = "IN_PROGRESS" => k = "PICKUP"
    BY <2>1, GatesTyped
  <2>4. \A c \in Bookings : status[c] # "absent" <=> status'[c] # "absent"
    BY <2>1, <2>2, <2>3 DEF IInv, TypeOK
  <2>5. req' \in [Requests -> RequestRecords] /\ (\A s \in Requests : Knows(req[s]))'
    BY <2>2, <2>4, OthersKnow, IdleKnows, IdleKnowsLater
  <2>6. TypeOK'
    <3>1. status' \in [Bookings -> G!Statuses]
      BY <2>1, <2>2, <2>3 DEF IInv, TypeOK
    <3>2. verified' \subseteq Bookings \X G!Kinds
      BY <2>1, <2>2 DEF IInv, TypeOK
    <3> QED BY <2>2, <2>5, <3>1, <3>2 DEF IInv, TypeOK
  <2>7. RequestsKnow'
    BY <2>2, <2>4, <2>5 DEF IInv, RequestsKnow
  <2>8. WorkIsApproved'
    <3>1. k = "DELIVERY" => <<b, "PICKUP">> \in verified
      BY <2>1 DEF IInv, RequestsKnow
    <3>2. CASE status' = status
      BY <2>2, <3>2 DEF IInv, WorkIsApproved
    <3>3. CASE status' = [status EXCEPT ![b] = G!Approved[k]]
      BY <2>1, <2>2, <2>3, <3>1, <3>3 DEF IInv, TypeOK, WorkIsApproved
    <3> QED BY <2>2, <3>2, <3>3
  <2> QED BY <2>2, <2>6, <2>7, <2>8 DEF IInv, StaffAreEmployed
<1> QED BY <1>1, <1>2

\* The manager's writes.
LEMMA ManagerWrites ==
    ASSUME IInv, NEW r \in Requests, WriteAssign(r) \/ Advance(r) \/ WriteRemove(r)
    PROVE  IInv'
<1>1. CASE WriteAssign(r)
  <2>1. PICK b \in Bookings :
               /\ b = req[r].booking /\ status[b] # "absent"
               /\ req[r].pickup \in Choices /\ req[r].service \in Choices
    BY <1>1, Requested DEF IInv, RequestsKnow, Knows, WriteAssign
  <2>2. At("assigned", b) \in RequestRecords /\ Knows(At("assigned", b))'
    BY <1>1, <2>1, AtTyped DEF Knows, At, WriteAssign, gateVars
  <2>3. req' \in [Requests -> RequestRecords] /\ (\A s \in Requests : Knows(req[s]))'
    BY <1>1, <2>1, <2>2, OthersKnow DEF WriteAssign, gateVars
  <2>e. /\ pickup' = [pickup EXCEPT ![b] = Chosen(req[r].pickup, pickup[b])]
        /\ service' = [service EXCEPT ![b] = Chosen(req[r].service, service[b])]
        /\ UNCHANGED employed
    BY <1>1, <2>1 DEF WriteAssign
  <2>b. /\ pickup[b] \in Employees \cup {Nobody}
        /\ service[b] \in Employees \cup {Nobody}
        /\ {pickup[b], service[b]} \subseteq employed \cup {Nobody}
    BY <2>1 DEF IInv, TypeOK, StaffAreEmployed
  <2>c. /\ Chosen(req[r].pickup, pickup[b]) \in Employees \cup {Nobody}
        /\ Chosen(req[r].service, service[b]) \in Employees \cup {Nobody}
    BY <2>1, <2>b DEF Chosen, Choices
  <2>d. /\ Chosen(req[r].pickup, pickup[b]) \in employed \cup {Nobody}
        /\ Chosen(req[r].service, service[b]) \in employed \cup {Nobody}
    BY <1>1, <2>b DEF Chosen, WriteAssign
  <2>4. /\ pickup' \in [Bookings -> Employees \cup {Nobody}]
        /\ service' \in [Bookings -> Employees \cup {Nobody}]
    BY <2>1, <2>e, <2>c DEF IInv, TypeOK
  <2>5. TypeOK'
    BY <1>1, <2>3, <2>4 DEF IInv, TypeOK, WriteAssign, gateVars
  <2>6. StaffAreEmployed'
    BY <2>1, <2>e, <2>d DEF IInv, TypeOK, StaffAreEmployed
  <2>7. RequestsKnow'
    BY <1>1, <2>1, <2>3 DEF IInv, TypeOK, RequestsKnow, WriteAssign, gateVars
  <2> QED BY <1>1, <2>5, <2>6, <2>7 DEF IInv, WorkIsApproved, WriteAssign, gateVars
<1>2. CASE Advance(r)
  <2> DEFINE b == req[r].booking
  <2>1. b \in Bookings /\ status[b] # "absent"
    BY <1>2, Requested DEF IInv, RequestsKnow, Knows, Advance
  <2>2. \A c \in Bookings : status[c] # "absent" <=> status'[c] # "absent"
    BY <1>2, <2>1 DEF IInv, TypeOK, Advance
  <2>3. req' \in [Requests -> RequestRecords] /\ (\A s \in Requests : Knows(req[s]))'
    BY <1>2, <2>2, OthersKnow, IdleKnows, IdleKnowsLater DEF Advance
  <2>4. TypeOK'
    BY <1>2, <2>1, <2>3 DEF IInv, TypeOK, Advance, staffVars
  <2>5. RequestsKnow'
    BY <1>2, <2>2, <2>3 DEF IInv, RequestsKnow, Advance, staffVars
  <2> QED BY <1>2, <2>1, <2>4, <2>5
          DEF IInv, TypeOK, WorkIsApproved, StaffAreEmployed, Advance, staffVars
<1>3. CASE WriteRemove(r)
  <2>1. req' \in [Requests -> RequestRecords] /\ (\A s \in Requests : Knows(req[s]))'
    BY <1>3, OthersKnow, IdleKnows, IdleKnowsLater DEF WriteRemove, gateVars
  <2>2. TypeOK'
    BY <1>3, <2>1 DEF IInv, TypeOK, WriteRemove, gateVars
  <2>3. StaffAreEmployed'
    BY <1>3 DEF IInv, TypeOK, StaffAreEmployed, WriteRemove
  <2>4. RequestsKnow'
    BY <1>3, <2>1 DEF IInv, TypeOK, RequestsKnow, WriteRemove, gateVars
  <2> QED BY <1>3, <2>2, <2>3, <2>4 DEF IInv, WorkIsApproved, WriteRemove, gateVars
<1> QED BY <1>1, <1>2, <1>3

\* The writes of the staff.
LEMMA StaffWrites ==
    ASSUME IInv, NEW r \in Requests,
           \/ WriteReport(r) \/ WriteTrip(r)
           \/ \E ticked \in BOOLEAN : WriteToggle(r, ticked)
    PROVE  IInv'
<1>1. CASE WriteReport(r)
  <2>1. PICK b \in Bookings, k \in G!Kinds :
               /\ b = req[r].booking /\ k = req[r].kind /\ status[b] # "absent"
               /\ k = "DELIVERY" => <<b, "PICKUP">> \in verified
    BY <1>1, Requested DEF IInv, RequestsKnow, Knows, WriteReport
  <2>2. /\ status' = [status EXCEPT ![b] = G!Sent[k]]
        /\ submitted' = submitted \cup {<<b, k>>}
        /\ req' = [req EXCEPT ![r] = Idle]
        /\ UNCHANGED <<verified, pickup, service, employed, done, trip, overlapped, faults>>
    BY <1>1, <2>1 DEF WriteReport, staffVars
  <2>3. /\ G!Sent[k] \in {"CONDITION_PENDING", "DONE_PENDING"}
        /\ G!Sent[k] = "DONE_PENDING" => k = "DELIVERY"
    BY GatesTyped
  <2>4. \A c \in Bookings : status[c] # "absent" <=> status'[c] # "absent"
    BY <2>1, <2>2, <2>3 DEF IInv, TypeOK
  <2>5. req' \in [Requests -> RequestRecords] /\ (\A s \in Requests : Knows(req[s]))'
    BY <2>2, <2>4, OthersKnow, IdleKnows, IdleKnowsLater
  <2>6. TypeOK'
    <3>1. status' \in [Bookings -> G!Statuses]
      BY <2>2, <2>3 DEF IInv, TypeOK
    <3>2. submitted' \subseteq Bookings \X G!Kinds
      BY <2>2 DEF IInv, TypeOK
    <3> QED BY <2>2, <2>5, <3>1, <3>2 DEF IInv, TypeOK
  <2>7. RequestsKnow'
    <3>1. ASSUME NEW c \in Bookings, <<c, "DELIVERY">> \in submitted'
          PROVE  <<c, "PICKUP">> \in verified'
      BY <2>1, <2>2, <3>1 DEF IInv, RequestsKnow
    <3> QED BY <2>2, <2>4, <2>5, <3>1 DEF IInv, RequestsKnow
  <2>8. WorkIsApproved'
    BY <2>1, <2>2, <2>3 DEF IInv, TypeOK, WorkIsApproved
  <2> QED BY <2>2, <2>6, <2>7, <2>8 DEF IInv, StaffAreEmployed
<1>2. ASSUME WriteTrip(r) \/ \E ticked \in BOOLEAN : WriteToggle(r, ticked)
      PROVE  IInv'
  <2>1. UNCHANGED <<status, submitted, verified, pickup, service, employed, overlapped,
                    faults>>
        /\ req' = [req EXCEPT ![r] = Idle]
    BY <1>2 DEF WriteTrip, WriteToggle, gateVars, staffVars
  <2>2. req' \in [Requests -> RequestRecords] /\ (\A s \in Requests : Knows(req[s]))'
    BY <2>1, OthersKnow, IdleKnows, IdleKnowsLater
  <2>3. done' \in [Bookings -> SUBSET Items]
    BY <1>2, Requested DEF IInv, TypeOK, WriteTrip, WriteToggle
  <2>4. trip' \in [Bookings -> TripStatuses]
    BY <1>2, Requested DEF IInv, TypeOK, WriteTrip, WriteToggle
  <2>5. TypeOK'
    BY <2>1, <2>2, <2>3, <2>4 DEF IInv, TypeOK
  <2>6. RequestsKnow'
    BY <2>1, <2>2 DEF IInv, RequestsKnow
  <2> QED BY <2>1, <2>5, <2>6 DEF IInv, WorkIsApproved, StaffAreEmployed
<1> QED BY <1>1, <1>2

\* Requests that are lost, and steps that change nothing.
LEMMA LosingKeeps ==
    ASSUME IInv, (\E lost \in SUBSET Requests : LoseRequests(lost)) \/ UNCHANGED vars
    PROVE  IInv'
<1>1. CASE UNCHANGED vars
  BY <1>1 DEF vars, gateVars, staffVars, IInv, TypeOK, WorkIsApproved,
              StaffAreEmployed, RequestsKnow, Knows
<1>2. ASSUME NEW lost \in SUBSET Requests, LoseRequests(lost) PROVE IInv'
  <2>1. \A s \in Requests : req'[s] = Idle \/ req'[s] = req[s]
    BY <1>2 DEF LoseRequests
  <2>2. TypeOK'
    BY <1>2, IdleKnows DEF IInv, TypeOK, LoseRequests, gateVars, staffVars
  <2>3. (\A s \in Requests : Knows(req[s]))'
    BY <1>2, <2>1 DEF IInv, RequestsKnow, Knows, Idle, LoseRequests, gateVars
  <2> QED BY <1>2, <2>2, <2>3
          DEF IInv, RequestsKnow, WorkIsApproved, StaffAreEmployed, LoseRequests,
              gateVars, staffVars
<1> QED BY <1>1, <1>2

\* pushPickupLocation's second read.
LEMMA ReadTripKeeps == ASSUME IInv, NEW r \in Requests, ReadTrip(r) PROVE IInv'
<1>1. req[r].booking \in Bookings /\ status[req[r].booking] # "absent"
  BY Requested DEF IInv, RequestsKnow, Knows, ReadTrip
<1> DEFINE q == [pc |-> "trip", booking |-> req[r].booking,
                 trip |-> "IN_TRANSIT_TO_GARAGE"]
<1>2. q \in RequestRecords /\ Knows(q)
  BY <1>1 DEF RequestRecords, TripStatuses, Knows
<1> QED BY <1>2, IdleKnows, GoesKeeps DEF ReadTrip

\* Every step keeps the invariant.
LEMMA NextInvariant == IInv /\ [Next]_vars => IInv'
<1> SUFFICES ASSUME IInv, [Next]_vars PROVE IInv'
  OBVIOUS
<1>1. ASSUME NEW r \in Requests, CustomerStep(r) PROVE IInv'
  BY <1>1, CustomerReads, CustomerWrites DEF CustomerStep
<1>2. ASSUME NEW r \in Requests, ManagerStep(r) PROVE IInv'
  BY <1>2, ManagerReads, ManagerWrites DEF ManagerStep
<1>3. ASSUME NEW r \in Requests, StaffStep(r) PROVE IInv'
  BY <1>3, StaffReads, StaffWrites, ReadTripKeeps DEF StaffStep
<1> QED BY <1>1, <1>2, <1>3, CreateKeeps, LosingKeeps DEF Next

\* The inductive invariant holds in every reachable state.
THEOREM BookingsInvariant == Spec => []IInv
BY InitInvariant, NextInvariant, PTL DEF Spec

\* However requests of the customer, the manager and the staff interleave, work
\* and completion wait for the customer's approval of the photos.
THEOREM WorkAwaitsApproval == Spec => []WorkIsApproved
<1>1. IInv => WorkIsApproved
  BY DEF IInv
<1> QED BY BookingsInvariant, <1>1, PTL

\* No booking keeps an employee whose membership is gone.
THEOREM AssignedAreEmployed == Spec => []StaffAreEmployed
<1>1. IInv => StaffAreEmployed
  BY DEF IInv
<1> QED BY BookingsInvariant, <1>1, PTL

-----------------------------------------------------------------------------
(* No assignment gets stuck. *)

\* The request an assignment waits for.
Advancing(r, b) == req[r].pc \in {"assigned", "advance"} /\ req[r].booking = b

\* A step of request o that changes neither specialists nor makes a booking
\* BOOKED, and does not take o away from an assignment it still owes.
LEMMA StillAdvancing ==
    ASSUME TypeOK, AssignmentAdvances, NEW o \in Requests, faults' = faults,
           \A r \in Requests \ {o} : req'[r] = req[r],
           \A b \in Bookings :
               service'[b] # Nobody /\ status'[b] = "BOOKED" =>
                   \/ /\ service[b] # Nobody /\ status[b] = "BOOKED"
                      /\ ~Advancing(o, b)
                   \/ Advancing(o, b)'
    PROVE  AssignmentAdvances'
<1> SUFFICES ASSUME faults' = 0, NEW b \in Bookings,
                    service'[b] # Nobody, status'[b] = "BOOKED"
             PROVE  \E r \in Requests :
                        req'[r].pc \in {"assigned", "advance"} /\ req'[r].booking = b
  BY DEF AssignmentAdvances
<1>1. CASE Advancing(o, b)'
  BY <1>1 DEF Advancing
<1>2. CASE service[b] # Nobody /\ status[b] = "BOOKED" /\ ~Advancing(o, b)
  <2>1. PICK r \in Requests : Advancing(r, b)
    BY <1>2 DEF AssignmentAdvances, Advancing
  <2>2. r # o /\ req'[r] = req[r]
    BY <1>2, <2>1
  <2> QED BY <2>1, <2>2 DEF Advancing
<1> QED BY <1>1, <1>2

\* Every step keeps AssignmentAdvances.
LEMMA AssignmentStep ==
    IInv /\ AssignmentAdvances /\ [Next]_vars => AssignmentAdvances'
<1> SUFFICES ASSUME IInv, AssignmentAdvances, [Next]_vars PROVE AssignmentAdvances'
  OBVIOUS
<1>i. TypeOK /\ RequestsKnow
  BY DEF IInv
<1>1. ASSUME NEW b \in Bookings, Create(b) PROVE AssignmentAdvances'
  BY <1>i, <1>1 DEF Create, G!Book, staffVars, TypeOK, RequestsKnow, AssignmentAdvances
<1>2. ASSUME NEW o \in Requests, req[o].pc \notin {"assigned", "advance"},
             UNCHANGED <<service, faults>>,
             \A r \in Requests \ {o} : req'[r] = req[r],
             \A b \in Bookings : status'[b] = "BOOKED" => status[b] = "BOOKED"
      PROVE  AssignmentAdvances'
  BY <1>i, <1>2, StillAdvancing DEF Advancing
<1>3. ASSUME NEW o \in Requests, CustomerStep(o) PROVE AssignmentAdvances'
  <2>1. req[o].pc \notin {"assigned", "advance"} /\ UNCHANGED <<service, faults>>
    BY <1>3 DEF CustomerStep, ReadCancel, ReadVerify, WriteCancel, WriteVerify,
                Free, Goes, staffVars
  <2>2. \A r \in Requests \ {o} : req'[r] = req[r]
    BY <1>i, <1>3 DEF TypeOK, CustomerStep, ReadCancel, ReadVerify, WriteCancel,
                      WriteVerify, Goes
  <2>3. \A b \in Bookings : status'[b] = "BOOKED" => status[b] = "BOOKED"
    <3>1. CASE WriteVerify(o)
      <4>1. G!Approved[req[o].kind] # "BOOKED"
        BY <1>i, <3>1, Requested, GatesTyped DEF WriteVerify
      <4> QED BY <1>i, <3>1, <4>1 DEF TypeOK, WriteVerify
    <3>2. CASE WriteCancel(o)
      BY <1>i, <3>2 DEF TypeOK, WriteCancel
    <3> QED BY <1>3, <3>1, <3>2 DEF CustomerStep, ReadCancel, ReadVerify, Goes, gateVars
  <2> QED BY <1>2, <2>1, <2>2, <2>3
<1>4. ASSUME NEW o \in Requests, StaffStep(o) PROVE AssignmentAdvances'
  <2>1. req[o].pc \notin {"assigned", "advance"} /\ UNCHANGED <<service, faults>>
    BY <1>4 DEF StaffStep, ReadReport, ReadToggle, ReadTripStart, ReadArrive, ReadPush,
                WriteReport, WriteToggle, ReadTrip, WriteTrip, Free, Goes, staffVars
  <2>2. \A r \in Requests \ {o} : req'[r] = req[r]
    BY <1>i, <1>4 DEF TypeOK, StaffStep, ReadReport, ReadToggle, ReadTripStart,
                      ReadArrive, ReadPush, WriteReport, WriteToggle, ReadTrip,
                      WriteTrip, Goes
  <2>3. \A b \in Bookings : status'[b] = "BOOKED" => status[b] = "BOOKED"
    <3>1. CASE WriteReport(o)
      <4>1. G!Sent[req[o].kind] # "BOOKED"
        BY <1>i, <3>1, Requested, GatesTyped DEF WriteReport
      <4> QED BY <1>i, <3>1, <4>1 DEF TypeOK, WriteReport
    <3> QED BY <1>4, <3>1
            DEF StaffStep, ReadReport, ReadToggle, ReadTripStart, ReadArrive, ReadPush,
                WriteToggle, ReadTrip, WriteTrip, Goes, gateVars
  <2> QED BY <1>2, <2>1, <2>2, <2>3
<1>5. ASSUME NEW o \in Requests, ManagerStep(o) PROVE AssignmentAdvances'
  <2>1. \A r \in Requests \ {o} : req'[r] = req[r]
    BY <1>i, <1>5 DEF TypeOK, ManagerStep, ReadAssign, ReadRemove, WriteAssign,
                      AssignRejected, ReadAssigned, Advance, WriteRemove,
                      RemoveRejected, Goes
  <2>2. CASE WriteAssign(o)
    <3>1. PICK b \in Bookings : b = req[o].booking
      BY <1>i, <2>2, Requested DEF WriteAssign
    <3>2. Advancing(o, b)'
      BY <1>i, <2>2, <3>1 DEF Advancing, TypeOK, WriteAssign, At
    <3>3. \A c \in Bookings \ {b} : service'[c] = service[c] /\ ~Advancing(o, c)
      BY <1>i, <2>2, <3>1 DEF TypeOK, WriteAssign, Advancing
    <3>4. UNCHANGED <<status, faults>>
      BY <2>2 DEF WriteAssign, gateVars
    <3> QED BY <1>i, <2>1, <3>2, <3>3, <3>4, StillAdvancing
  <2>3. CASE ReadAssigned(o)
    <3>1. PICK b \in Bookings : b = req[o].booking
      BY <1>i, <2>3, Requested DEF ReadAssigned
    <3>2. service[b] # Nobody /\ status[b] = "BOOKED" => Advancing(o, b)'
      BY <1>i, <2>3, <3>1 DEF Advancing, TypeOK, ReadAssigned, Goes, At
    <3>3. \A c \in Bookings \ {b} : ~Advancing(o, c)
      BY <3>1 DEF Advancing
    <3>4. UNCHANGED <<status, service, faults>>
      BY <2>3 DEF ReadAssigned, Goes, gateVars, staffVars
    <3> QED BY <1>i, <2>1, <3>2, <3>3, <3>4, StillAdvancing
  <2>4. CASE Advance(o)
    <3>1. PICK b \in Bookings : b = req[o].booking
      BY <1>i, <2>4, Requested DEF Advance
    <3>2. \A c \in Bookings : status'[c] = "BOOKED" => c # b /\ status[c] = "BOOKED"
      BY <1>i, <2>4, <3>1 DEF TypeOK, Advance
    <3>3. \A c \in Bookings \ {b} : ~Advancing(o, c)
      BY <3>1 DEF Advancing
    <3>4. UNCHANGED <<service, faults>>
      BY <2>4 DEF Advance, staffVars
    <3> QED BY <1>i, <2>1, <3>2, <3>3, <3>4, StillAdvancing
  <2>5. CASE WriteRemove(o)
    <3>1. \A b \in Bookings : service'[b] # Nobody => service[b] # Nobody
      BY <1>i, <2>5 DEF TypeOK, WriteRemove
    <3>2. UNCHANGED <<status, faults>> /\ req[o].pc = "remove"
      BY <2>5 DEF WriteRemove, gateVars
    <3> QED BY <1>i, <2>1, <3>1, <3>2, StillAdvancing DEF Advancing
  <2>6. ASSUME \/ \E b \in Bookings, p, s \in Choices : ReadAssign(o, b, p, s)
               \/ \E e \in Employees : ReadRemove(o, e)
               \/ AssignRejected(o) \/ RemoveRejected(o)
        PROVE  AssignmentAdvances'
    <3>1. /\ req[o].pc \notin {"assigned", "advance"}
          /\ UNCHANGED <<status, service, faults>>
      BY <2>6 DEF ReadAssign, ReadRemove, AssignRejected, RemoveRejected, Free, Goes,
                  gateVars, staffVars
    <3> QED BY <1>2, <2>1, <3>1
  <2> QED BY <1>5, <2>2, <2>3, <2>4, <2>5, <2>6 DEF ManagerStep
<1>6. CASE \E lost \in SUBSET Requests : LoseRequests(lost)
  BY <1>i, <1>6 DEF TypeOK, LoseRequests, AssignmentAdvances
<1>7. CASE UNCHANGED vars
  BY <1>7 DEF vars, gateVars, staffVars, AssignmentAdvances
<1> QED BY <1>1, <1>3, <1>4, <1>5, <1>6, <1>7 DEF Next

\* As long as nothing rejects and the process stays up, a booking with a
\* specialist is advanced past BOOKED by an assign that is still in flight.
THEOREM AssignmentsAdvance == Spec => []AssignmentAdvances
<1>1. Init => AssignmentAdvances
  BY DEF Init, AssignmentAdvances
<1>2. IInv /\ AssignmentAdvances /\ [Next]_vars => AssignmentAdvances'
  BY AssignmentStep
<1> QED BY <1>1, <1>2, BookingsInvariant, PTL DEF Spec

-----------------------------------------------------------------------------
(* As long as no two requests overlapped. *)

\* What a request in flight has read is still so.
Current(q) ==
    /\ q.pc = "cancel" => status[q.booking] \in G!CANCELLABLE_STATUSES
    /\ q.pc = "verify" => status[q.booking] = q.from
    /\ q.pc = "report" => status[q.booking] = G!Gate[q.kind]
    /\ q.pc = "advance" => status[q.booking] = "BOOKED"

\* Without overlap there is one request in flight, and its reads are current.
ReadsCurrent ==
    ~overlapped =>
        /\ \A r, s \in Requests : r # s => req[r].pc = "idle" \/ req[s].pc = "idle"
        /\ \A r \in Requests : Current(req[r])

\* A request that runs alone leaves the others idle, and only its own reads matter.
LEMMA AloneCurrent ==
    ASSUME IInv, ReadsCurrent, NEW r \in Requests, NEW q \in RequestRecords,
           req' = [req EXCEPT ![r] = q],
           \/ Goes(r, q)
           \/ req[r].pc # "idle" /\ UNCHANGED overlapped,
           ~overlapped' => Current(q)'
    PROVE  ReadsCurrent'
<1> SUFFICES ASSUME ~overlapped'
             PROVE  /\ \A o, s \in Requests :
                           o # s => req'[o].pc = "idle" \/ req'[s].pc = "idle"
                    /\ \A o \in Requests : Current(req[o])'
  BY DEF ReadsCurrent
<1>1. ASSUME NEW o \in Requests, o # r PROVE req[o].pc = "idle"
  <2>1. CASE Goes(r, q)
    BY <1>1, <2>1 DEF Goes
  <2>2. CASE req[r].pc # "idle" /\ UNCHANGED overlapped
    BY <1>1, <2>2 DEF ReadsCurrent
  <2> QED BY <2>1, <2>2
<1>2. req'[r] = q /\ \A o \in Requests \ {r} : req'[o] = req[o]
  BY DEF IInv, TypeOK
<1>3. ASSUME NEW o \in Requests, o # r PROVE Current(req[o])'
  <2>1. req'[o].pc = "idle"
    BY <1>1, <1>2, <1>3
  <2> QED BY <2>1 DEF Current
<1>4. Current(req[r])'
  BY <1>2 DEF Current
<1> QED BY <1>1, <1>2, <1>3, <1>4

\* An ended request has read nothing.
LEMMA IdleCurrent == Idle \in RequestRecords /\ Current(Idle)'
BY DEF Idle, RequestRecords, Current

\* A step that leaves its request with nothing to be current about.
LEMMA UnreadCurrent ==
    ASSUME IInv, ReadsCurrent, NEW r \in Requests, NEW q \in RequestRecords,
           Goes(r, q), q.pc \notin {"cancel", "verify", "report", "advance"}
    PROVE  ReadsCurrent'
<1>1. Current(q)'
  BY DEF Current
<1> QED BY <1>1, AloneCurrent DEF Goes

\* A write ends its request.
LEMMA EndedCurrent ==
    ASSUME IInv, ReadsCurrent, NEW r \in Requests, req[r].pc # "idle",
           UNCHANGED overlapped,
           \/ req' = [req EXCEPT ![r] = Idle]
           \/ /\ req' = [req EXCEPT ![r] = At("assigned", req[r].booking)]
              /\ req[r].booking \in Bookings
    PROVE  ReadsCurrent'
<1>1. CASE req' = [req EXCEPT ![r] = Idle]
  BY <1>1, IdleCurrent, AloneCurrent
<1>2. CASE /\ req' = [req EXCEPT ![r] = At("assigned", req[r].booking)]
           /\ req[r].booking \in Bookings
  <2> PICK b \in Bookings : b = req[r].booking
    BY <1>2
  <2>1. At("assigned", b) \in RequestRecords
    BY AtTyped
  <2>2. Current(At("assigned", b))'
    BY DEF Current, At
  <2> QED BY <1>2, <2>1, <2>2, AloneCurrent
<1> QED BY <1>1, <1>2

\* Steps that read keep what the only request in flight has read current.
LEMMA CurrentReads ==
    ASSUME IInv, ReadsCurrent, NEW r \in Requests
    PROVE  /\ \A b \in Bookings : ReadCancel(r, b) => ReadsCurrent'
           /\ \A b \in Bookings, k \in G!Kinds : ReadVerify(r, b, k) => ReadsCurrent'
           /\ \A e \in Employees, b \in Bookings, k \in G!Kinds :
                  ReadReport(r, e, b, k) => ReadsCurrent'
           /\ ReadAssigned(r) => ReadsCurrent'
<1>i. TypeOK
  BY DEF IInv
<1>1. ASSUME NEW b \in Bookings, ReadCancel(r, b) PROVE ReadsCurrent'
  <2>1. Goes(r, At("cancel", b)) /\ status'[b] \in G!CANCELLABLE_STATUSES
    BY <1>1 DEF ReadCancel, Goes, gateVars
  <2>2. Current(At("cancel", b))'
    BY <2>1 DEF Current, At
  <2> QED BY <2>1, <2>2, AtTyped, AloneCurrent DEF Goes
<1>2. ASSUME NEW b \in Bookings, NEW k \in G!Kinds, ReadVerify(r, b, k)
      PROVE  ReadsCurrent'
  <2> DEFINE q == [pc |-> "verify", booking |-> b, kind |-> k, from |-> status[b]]
  <2>1. Goes(r, q) /\ status' = status /\ status[b] \in G!Statuses
    BY <1>i, <1>2 DEF ReadVerify, Goes, gateVars, TypeOK
  <2>2. q \in RequestRecords /\ Current(q)'
    BY <2>1 DEF RequestRecords, Current
  <2> QED BY <2>1, <2>2, AloneCurrent DEF Goes
<1>3. ASSUME NEW e \in Employees, NEW b \in Bookings, NEW k \in G!Kinds,
             ReadReport(r, e, b, k)
      PROVE  ReadsCurrent'
  <2> DEFINE q == [pc |-> "report", booking |-> b, kind |-> k]
  <2>1. Goes(r, q) /\ status'[b] = G!Gate[k]
    BY <1>3 DEF ReadReport, Goes, gateVars
  <2>2. q \in RequestRecords /\ Current(q)'
    BY <2>1 DEF RequestRecords, Current
  <2> QED BY <2>1, <2>2, AloneCurrent DEF Goes
<1>4. ASSUME ReadAssigned(r) PROVE ReadsCurrent'
  <2>1. PICK b \in Bookings : b = req[r].booking
    BY <1>i, <1>4, Requested DEF ReadAssigned
  <2>2. CASE Goes(r, At("advance", b)) /\ status[b] = "BOOKED"
    <3>1. Current(At("advance", b))'
      BY <2>2 DEF Current, At, Goes, gateVars
    <3> QED BY <2>1, <2>2, <3>1, AtTyped, AloneCurrent DEF Goes
  <2>3. CASE Goes(r, Idle)
    BY <2>3, IdleCurrent, AloneCurrent DEF Goes
  <2>4. \/ Goes(r, At("advance", b)) /\ status[b] = "BOOKED"
        \/ Goes(r, Idle)
    BY <1>4, <2>1 DEF ReadAssigned
  <2> QED BY <2>2, <2>3, <2>4
<1> QED BY <1>1, <1>2, <1>3, <1>4

\* Every step keeps the reads current, until two requests overlap.
LEMMA CurrentStep ==
    ASSUME IInv, ReadsCurrent, [Next]_vars PROVE ReadsCurrent'
<1>i. TypeOK
  BY DEF IInv
<1>1. ASSUME NEW b \in Bookings, Create(b) PROVE ReadsCurrent'
  <2>1. ASSUME NEW r \in Requests, Current(req[r]) PROVE Current(req[r])'
    <3>1. req[r].pc \notin {"idle", "remove"} => req[r].booking # b
      BY <1>1 DEF IInv, RequestsKnow, Knows, Create, G!Book
    <3> QED BY <1>i, <1>1, <2>1, <3>1, Requested DEF Current, Create, G!Book, TypeOK
  <2>2. UNCHANGED <<req, overlapped>>
    BY <1>1 DEF Create
  <2> QED BY <2>1, <2>2 DEF ReadsCurrent
<1>2. ASSUME NEW r \in Requests, CustomerStep(r) PROVE ReadsCurrent'
  <2>1. CASE WriteCancel(r) \/ WriteVerify(r)
    BY <2>1, EndedCurrent DEF WriteCancel, WriteVerify
  <2> QED BY <1>2, <2>1, CurrentReads DEF CustomerStep
<1>3. ASSUME NEW r \in Requests, ManagerStep(r) PROVE ReadsCurrent'
  <2>1. ASSUME NEW b \in Bookings, NEW p \in Choices, NEW s \in Choices,
               ReadAssign(r, b, p, s)
        PROVE  ReadsCurrent'
    <3> DEFINE q == [pc |-> "assign", booking |-> b, pickup |-> p, service |-> s]
    <3>1. q \in RequestRecords /\ Goes(r, q)
      BY <2>1 DEF RequestRecords, ReadAssign
    <3> QED BY <3>1, UnreadCurrent
  <2>2. ASSUME NEW e \in Employees, ReadRemove(r, e) PROVE ReadsCurrent'
    <3> DEFINE q == [pc |-> "remove", employee |-> e]
    <3>1. q \in RequestRecords /\ Goes(r, q)
      BY <2>2 DEF RequestRecords, ReadRemove
    <3> QED BY <3>1, UnreadCurrent
  <2>3. CASE AssignRejected(r) \/ RemoveRejected(r)
    BY <2>3, IdleCurrent, UnreadCurrent DEF AssignRejected, RemoveRejected, Idle
  <2>4. CASE Advance(r) \/ WriteRemove(r)
    BY <2>4, EndedCurrent DEF Advance, WriteRemove
  <2>5. CASE WriteAssign(r)
    BY <1>i, <2>5, EndedCurrent, Requested DEF WriteAssign
  <2> QED BY <1>3, <2>1, <2>2, <2>3, <2>4, <2>5, CurrentReads DEF ManagerStep
<1>4. ASSUME NEW r \in Requests, StaffStep(r) PROVE ReadsCurrent'
  <2>1. ASSUME NEW b \in Bookings, NEW i \in Items, NEW e \in Employees,
               ReadToggle(r, e, b, i)
        PROVE  ReadsCurrent'
    <3> DEFINE q == [pc |-> "toggle", booking |-> b, item |-> i]
    <3>1. q \in RequestRecords /\ Goes(r, q)
      BY <2>1 DEF RequestRecords, ReadToggle
    <3> QED BY <3>1, UnreadCurrent
  <2>2. ASSUME NEW b \in Bookings, NEW t \in TripStatuses,
               Goes(r, [pc |-> "trip", booking |-> b, trip |-> t])
        PROVE  ReadsCurrent'
    <3> DEFINE q == [pc |-> "trip", booking |-> b, trip |-> t]
    <3>1. q \in RequestRecords
      BY DEF RequestRecords
    <3> QED BY <2>2, <3>1, UnreadCurrent
  <2>3. ASSUME NEW e \in Employees, NEW b \in Bookings,
               ReadTripStart(r, e, b) \/ ReadArrive(r, e, b)
        PROVE  ReadsCurrent'
    BY <2>2, <2>3 DEF ReadTripStart, ReadArrive, TripStatuses
  <2>4. ASSUME NEW e \in Employees, NEW b \in Bookings, ReadPush(r, e, b)
        PROVE  ReadsCurrent'
    <3>1. At("push", b).pc = "push"
      BY DEF At
    <3> QED BY <2>4, <3>1, AtTyped, UnreadCurrent DEF ReadPush
  <2>5. CASE ReadTrip(r)
    <3>1. req[r].booking \in Bookings
      BY <1>i, <2>5, Requested DEF ReadTrip
    <3>2. CASE Goes(r, Idle)
      BY <3>2, IdleCurrent, UnreadCurrent DEF Idle
    <3> QED BY <2>2, <2>5, <3>1, <3>2 DEF ReadTrip, TripStatuses
  <2>6. CASE \/ WriteReport(r) \/ WriteTrip(r)
             \/ \E ticked \in BOOLEAN : WriteToggle(r, ticked)
    BY <2>6, EndedCurrent DEF WriteReport, WriteTrip, WriteToggle
  <2> QED BY <1>4, <2>1, <2>3, <2>4, <2>5, <2>6, CurrentReads DEF StaffStep
<1>5. CASE \E lost \in SUBSET Requests : LoseRequests(lost)
  <2>1. /\ UNCHANGED <<status, overlapped>>
        /\ \A r \in Requests : req'[r] = Idle \/ req'[r] = req[r]
    BY <1>5 DEF LoseRequests, gateVars
  <2> QED BY <2>1 DEF ReadsCurrent, Current, Idle
<1>6. CASE UNCHANGED vars
  BY <1>6 DEF vars, gateVars, ReadsCurrent, Current
<1> QED BY <1>1, <1>2, <1>3, <1>4, <1>5, <1>6 DEF Next

\* With current reads every write is a step of the gates.
LEMMA StepRespectsGates ==
    ASSUME IInv, ReadsCurrent, [Next]_vars
    PROVE  [~overlapped' => G!Next]_gateVars
<1> SUFFICES ASSUME ~overlapped' PROVE G!Next \/ UNCHANGED gateVars
  OBVIOUS
<1>i. TypeOK
  BY DEF IInv
<1>1. CASE \E b \in Bookings : Create(b)
  BY <1>1 DEF Create, G!Next
<1>2. ASSUME NEW r \in Requests, WriteCancel(r) \/ Advance(r) PROVE G!Next
  BY <1>i, <1>2, Requested
     DEF WriteCancel, Advance, ReadsCurrent, Current, G!Next, G!Cancel, G!Assign
<1>3. ASSUME NEW r \in Requests, WriteVerify(r) PROVE G!Next
  <2>1. PICK b \in Bookings, k \in G!Kinds :
               b = req[r].booking /\ k = req[r].kind /\ <<b, k>> \in submitted
    BY <1>i, <1>3, Requested DEF IInv, RequestsKnow, Knows, WriteVerify
  <2>2. status[b] = req[r].from
    BY <1>3, <2>1 DEF ReadsCurrent, Current, WriteVerify
  <2>3. G!Approve(b, k)
    BY <1>3, <2>1, <2>2 DEF WriteVerify, G!Approve
  <2> QED BY <2>3 DEF G!Next
<1>4. ASSUME NEW r \in Requests, WriteReport(r) PROVE G!Next
  <2>1. PICK b \in Bookings, k \in G!Kinds : b = req[r].booking /\ k = req[r].kind
    BY <1>i, <1>4, Requested DEF WriteReport
  <2>2. G!Submit(b, k)
    BY <1>4, <2>1 DEF WriteReport, G!Submit, ReadsCurrent, Current
  <2> QED BY <2>2 DEF G!Next
<1>5. ASSUME NEW r \in Requests, CustomerStep(r) PROVE G!Next \/ UNCHANGED gateVars
  BY <1>5, <1>2, <1>3 DEF CustomerStep, ReadCancel, ReadVerify, Goes
<1>6. ASSUME NEW r \in Requests, ManagerStep(r) PROVE G!Next \/ UNCHANGED gateVars
  BY <1>6, <1>2
     DEF ManagerStep, ReadAssign, ReadRemove, WriteAssign, AssignRejected,
         ReadAssigned, WriteRemove, RemoveRejected, Goes
<1>7. ASSUME NEW r \in Requests, StaffStep(r) PROVE G!Next \/ UNCHANGED gateVars
  BY <1>7, <1>4
     DEF StaffStep, ReadReport, ReadToggle, ReadTripStart, ReadArrive, ReadPush,
         WriteToggle, ReadTrip, WriteTrip, Goes
<1>8. CASE (\E lost \in SUBSET Requests : LoseRequests(lost)) \/ UNCHANGED vars
  BY <1>8 DEF LoseRequests, vars
<1> QED BY <1>1, <1>5, <1>6, <1>7, <1>8 DEF Next

\* As long as no two requests overlapped, bookings implement the documented gates.
\* (Overlapping requests break them: a booking cancelled between the read and the
\* write of a report comes back.)
THEOREM GatesAreRespected == Spec => GatesRespected
<1>1. Init => ReadsCurrent
  BY DEF Init, ReadsCurrent, Current, Idle
<1>2. IInv /\ ReadsCurrent /\ [Next]_vars => ReadsCurrent'
  BY CurrentStep
<1>3. IInv /\ ReadsCurrent /\ [Next]_vars => [~overlapped' => G!Next]_gateVars
  BY StepRespectsGates
<1> QED
  BY <1>1, <1>2, <1>3, BookingsInvariant, PTL DEF Spec, GatesRespected
=============================================================================
