--------------------------- MODULE MigrationProofs ---------------------------
(***************************************************************************)
(* Proofs about Ownership and the migration into it: a vehicle's fleet and *)
(* the ownership of the fleet's owner go together; the odometer falls by a *)
(* transfer only; a run carries everything over, and nothing twice; the    *)
(* rows change as the abstract title does.                                 *)
(***************************************************************************)
EXTENDS Migration, SequenceTheorems, FiniteSetTheorems, TLAPS

-----------------------------------------------------------------------------
(* The inductive invariant. *)

\* What a request has read, and what still holds of it when it writes.
Shape(q) ==
    /\ q.pc \in {"offer", "confirm", "refuse", "link", "join", "leave"} =>
         q.vehicle \in Vehicles
    /\ q.pc = "offer" => q.user \in Users /\ q.type \in OfferTypes /\ q.km \in Kms
    /\ q.pc \in {"confirm", "refuse"} =>
         /\ q.row \in DOMAIN rows[q.vehicle]
         /\ rows[q.vehicle][q.row].offered = TRUE
    /\ q.pc \in {"link", "create"} => q.user \in Users
    /\ q.pc \in {"join", "leave"} => q.fleet \in Fleets
    /\ q.pc = "leave" => fleet[q.vehicle] = q.fleet

RowsTyped ==
    /\ rows \in [Vehicles -> Seq(Rows)]
    /\ \A v \in Vehicles : \A i \in DOMAIN rows[v] :
           IsPending(rows[v][i]) => rows[v][i].offered = TRUE

FleetsTyped ==
    /\ fleet \in [Vehicles -> Fleets \cup {NoFleet}]
    /\ removed = [v \in Vehicles |-> removed[v]]
    /\ \A v \in Vehicles : fleet[v] = NoFleet => ~removed[v]

RequestsTyped ==
    /\ req = [r \in Requests |-> req[r]]
    /\ \A r \in Requests : Shape(req[r])

RunsTyped ==
    /\ run \in [Runs -> RunRecords]
    /\ \A m \in Runs : run[m].pass \in {1, 4} =>
           run[m].todo \subseteq Legacy /\ run[m].item \in Legacy \cup {NoItem}

OwnInv == RowsTyped /\ FleetsTyped /\ RequestsTyped /\ FleetRowsMatch

\* An open ownership that addVehicle made.
Assigned(row) == row.type = "FLEET_ASSIGNMENT" /\ row.offered = FALSE /\ IsOpen(row)

LEMMA RowTypes ==
    ASSUME OwnInv, NEW v \in Vehicles
    PROVE  /\ rows[v] \in Seq(Rows) /\ Len(rows[v]) \in Nat
           /\ DOMAIN rows[v] = 1 .. Len(rows[v])
           /\ \A i \in DOMAIN rows[v] : rows[v][i] \in Rows
<1>1. rows[v] \in Seq(Rows)
  BY DEF OwnInv, RowsTyped
<1>2. Len(rows[v]) \in Nat /\ DOMAIN rows[v] = 1 .. Len(rows[v])
  BY <1>1
<1>3. ASSUME NEW i \in 1 .. Len(rows[v]) PROVE rows[v][i] \in Rows
  BY <1>1, ElementOfSeq
<1> QED BY <1>1, <1>2, <1>3

LEMMA NewRowTypes ==
    ASSUME NEW u \in Users, NEW type \in TransferTypes
    PROVE  /\ NewRow(u, type) \in Rows
           /\ NewRow(u, type).status = "CONFIRMED"
           /\ NewRow(u, type).type = type /\ NewRow(u, type).user = u
           /\ NewRow(u, type).offered = FALSE
BY DEF NewRow, Rows, TransferStatuses

LEMMA InitOwn == Init => OwnInv
<1> SUFFICES ASSUME Init PROVE OwnInv
  OBVIOUS
<1>1. RowsTyped /\ FleetRowsMatch
  <2>1. \A v \in Vehicles : rows[v] = <<>>
    BY DEF Init, OwnershipInit
  <2>2. \A v \in Vehicles : rows[v] \in Seq(Rows) /\ DOMAIN rows[v] = {}
    <3>1. <<>> \in Seq(Rows) /\ DOMAIN <<>> = {}
      OBVIOUS
    <3> QED BY <2>1, <3>1
  <2>3. rows \in [Vehicles -> Seq(Rows)]
    BY <2>2 DEF Init, OwnershipInit
  <2> QED BY <2>2, <2>3 DEF RowsTyped, FleetRowsMatch
<1>2. FleetsTyped
  BY DEF Init, OwnershipInit, FleetsTyped
<1>3. RequestsTyped
  BY DEF Init, OwnershipInit, RequestsTyped, Shape, Idle
<1> QED BY <1>1, <1>2, <1>3 DEF OwnInv

\* What a request has read is kept by steps that take no row away and no vehicle
\* out of a fleet's records.
LEMMA ShapeStays ==
    ASSUME NEW q, Shape(q),
           \A v \in Vehicles : fleet[v] \in Fleets => fleet'[v] = fleet[v],
           \A v \in Vehicles : \A i \in DOMAIN rows[v] :
               i \in DOMAIN rows'[v] /\ rows'[v][i].offered = rows[v][i].offered
    PROVE  Shape(q)'
BY DEF Shape

\* A request reads; nothing else changes.
LEMMA ReadStep ==
    ASSUME OwnInv, NEW r \in Requests, NEW next, req' = [req EXCEPT ![r] = next],
           Shape(next), UNCHANGED <<rows, fleet, removed>>
    PROVE  OwnInv'
<1>1. RequestsTyped'
  <2>1. \A o \in Requests : req'[o] = next \/ req'[o] = req[o]
    BY DEF OwnInv, RequestsTyped
  <2>2. \A o \in Requests : Shape(req[o])'
    BY <2>1 DEF OwnInv, RequestsTyped, Shape
  <2> QED BY <2>2 DEF OwnInv, RequestsTyped
<1>2. RowsTyped' /\ FleetsTyped' /\ FleetRowsMatch'
  BY DEF OwnInv, RowsTyped, FleetsTyped, FleetRowsMatch, IsPending, IsOpen
<1> QED BY <1>1, <1>2 DEF OwnInv

\* The rows of v become new, and with that a request may end.
RowsBecome(v, new) ==
    /\ rows' = [rows EXCEPT ![v] = new]
    /\ UNCHANGED req \/ \E r \in Requests : req' = [req EXCEPT ![r] = Idle]

\* The rows that were there keep their origin, and what is pending was offered.
OriginsStay(v, new) ==
    /\ \A i \in DOMAIN rows[v] : i \in DOMAIN new /\ new[i].offered = rows[v][i].offered
    /\ \A i \in DOMAIN new : IsPending(new[i]) => new[i].offered = TRUE

\* The fleets of the other vehicles stay.
OthersStay(v) ==
    /\ \A w \in Vehicles \ {v} : fleet'[w] = fleet[w] /\ removed'[w] = removed[w]
    /\ fleet[v] \in Fleets => fleet'[v] = fleet[v]

\* The open assignment in row is to the fleet that has v after the step.
Matches(v, row) ==
    Assigned(row) => fleet'[v] # NoFleet /\ ~removed'[v] /\ row.user = FleetOwner[fleet'[v]]

\* The rows of v change: those there were keep their origin.
LEMMA WriteStep ==
    ASSUME OwnInv, NEW v \in Vehicles, NEW new \in Seq(Rows), RowsBecome(v, new),
           OriginsStay(v, new), FleetsTyped', OthersStay(v),
           \A i \in DOMAIN new : Matches(v, new[i])
    PROVE  OwnInv'
<1>1. rows'[v] = new /\ \A w \in Vehicles \ {v} : rows'[w] = rows[w]
  BY DEF OwnInv, RowsTyped, RowsBecome
<1> USE DEF OriginsStay, OthersStay, Matches
<1>2. RowsTyped'
  <2>1. rows' \in [Vehicles -> Seq(Rows)]
    BY DEF OwnInv, RowsTyped, RowsBecome
  <2> QED BY <1>1, <2>1 DEF OwnInv, RowsTyped
<1>3. RequestsTyped'
  <2>1. \A o \in Requests : req'[o] = Idle \/ req'[o] = req[o]
    BY DEF OwnInv, RequestsTyped, RowsBecome
  <2>2. ASSUME NEW o \in Requests PROVE Shape(req[o])'
    <3>1. CASE req'[o] = req[o]
      <4>1. PICK q : q = req[o]
        OBVIOUS
      <4>2. Shape(q)'
        BY <1>1, <4>1, ShapeStays DEF OwnInv, RequestsTyped
      <4> QED BY <3>1, <4>1, <4>2
    <3>2. CASE req'[o] = Idle
      BY <3>2 DEF Shape, Idle
    <3> QED BY <2>1, <3>1, <3>2
  <2> QED BY <2>2 DEF OwnInv, RequestsTyped, RowsBecome
<1>4. FleetRowsMatch'
  <2>1. ASSUME NEW w \in Vehicles, NEW i \in DOMAIN rows'[w],
               rows'[w][i].type = "FLEET_ASSIGNMENT", ~rows'[w][i].offered,
               IsOpen(rows[w][i])'
        PROVE  /\ fleet'[w] # NoFleet /\ ~removed'[w]
               /\ rows'[w][i].user = FleetOwner[fleet'[w]]
    <3>1. CASE w = v
      <4>1. new[i] \in Rows /\ new[i].offered = FALSE /\ IsOpen(new[i])
        <5>1. new[i] \in Rows
          BY <1>1, <2>1, <3>1, ElementOfSeq
        <5> QED BY <1>1, <2>1, <3>1, <5>1 DEF Rows, IsOpen
      <4> QED BY <1>1, <2>1, <3>1, <4>1 DEF Assigned
    <3>2. CASE w # v
      BY <1>1, <2>1, <3>2 DEF OwnInv, FleetRowsMatch, IsOpen
    <3> QED BY <3>1, <3>2
  <2> QED BY <2>1 DEF FleetRowsMatch
<1> QED BY <1>2, <1>3, <1>4 DEF OwnInv

LEMMA SameFleets ==
    ASSUME OwnInv, UNCHANGED <<fleet, removed>>
    PROVE  FleetsTyped'
BY DEF OwnInv, FleetsTyped

\* What the rows of v say of its fleet, from the invariant.
LEMMA AssignedMatch ==
    ASSUME OwnInv, NEW v \in Vehicles, NEW i \in DOMAIN rows[v], Assigned(rows[v][i])
    PROVE  fleet[v] # NoFleet /\ ~removed[v] /\ rows[v][i].user = FleetOwner[fleet[v]]
BY DEF OwnInv, FleetRowsMatch, Assigned

\* A row is added.
LEMMA AppendStep ==
    ASSUME OwnInv, NEW v \in Vehicles, NEW row \in Rows,
           RowsBecome(v, Append(rows[v], row)), FleetsTyped', OthersStay(v),
           fleet[v] # NoFleet => fleet'[v] = fleet[v] /\ removed'[v] = removed[v],
           IsPending(row) => row.offered = TRUE, Matches(v, row)
    PROVE  OwnInv'
<1>1. PICK new : new = Append(rows[v], row)
  OBVIOUS
<1>2. /\ new \in Seq(Rows) /\ DOMAIN rows[v] \subseteq DOMAIN new
      /\ \A i \in DOMAIN rows[v] : new[i] = rows[v][i]
      /\ \A i \in DOMAIN new : i \in DOMAIN rows[v] \/ new[i] = row
  <2>1. /\ rows[v] \in Seq(Rows) /\ Len(rows[v]) \in Nat
        /\ DOMAIN rows[v] = 1 .. Len(rows[v])
    BY RowTypes
  <2>2. /\ new \in Seq(Rows) /\ Len(new) = Len(rows[v]) + 1
        /\ \A i \in 1 .. Len(rows[v]) : new[i] = rows[v][i]
        /\ new[Len(rows[v]) + 1] = row
    BY <1>1, <2>1, AppendProperties
  <2>3. DOMAIN new = 1 .. Len(rows[v]) + 1
    BY <2>2
  <2> QED BY <2>1, <2>2, <2>3
<1>3. OriginsStay(v, new)
  BY <1>2 DEF OwnInv, RowsTyped, OriginsStay
<1>4. \A i \in DOMAIN new : Matches(v, new[i])
  BY <1>2, AssignedMatch DEF Matches
<1>5. RowsBecome(v, new) /\ new \in Seq(Rows)
  BY <1>1, <1>2
<1> QED BY <1>3, <1>4, <1>5, WriteStep

\* A row that is no open fleet assignment of addVehicle.
LEMMA PlainAppend ==
    ASSUME OwnInv, NEW v \in Vehicles, NEW row \in Rows,
           RowsBecome(v, Append(rows[v], row)), UNCHANGED <<fleet, removed>>,
           IsPending(row) => row.offered = TRUE, ~Assigned(row)
    PROVE  OwnInv'
<1>1. OthersStay(v) /\ Matches(v, row)
  BY DEF OthersStay, Matches
<1> QED BY <1>1, SameFleets, AppendStep

\* Rows are rewritten in place: none begins as a transfer that did not, and none
\* becomes an open fleet assignment.
LEMMA RewriteStep ==
    ASSUME OwnInv, NEW v \in Vehicles, NEW new, RowsBecome(v, new),
           new \in [DOMAIN rows[v] -> Rows], UNCHANGED <<fleet, removed>>,
           \A i \in DOMAIN rows[v] :
               /\ new[i].offered = rows[v][i].offered
               /\ IsPending(new[i]) => new[i].offered = TRUE
               /\ Assigned(new[i]) => Assigned(rows[v][i]) /\ new[i].user = rows[v][i].user
    PROVE  OwnInv'
<1>1. new \in Seq(Rows) /\ DOMAIN new = DOMAIN rows[v]
  BY RowTypes
<1>2. \A i \in DOMAIN new : Matches(v, new[i])
  BY <1>1, AssignedMatch DEF Matches
<1>3. OriginsStay(v, new) /\ OthersStay(v)
  BY <1>1 DEF OriginsStay, OthersStay
<1> QED BY <1>1, <1>2, <1>3, SameFleets, WriteStep

-----------------------------------------------------------------------------
(* The steps. *)

LEMMA SettledRow ==
    ASSUME NEW row \in Rows, NEW status \in {"CONFIRMED", "OVER"}
    PROVE  /\ Settled(row, status) \in Rows
           /\ Settled(row, status).offered = row.offered
           /\ Settled(row, status).status = status
BY DEF Settled, Rows, TransferStatuses

LEMMA TransferKeeps ==
    ASSUME OwnInv, NEW r \in Requests, TransferStep(r)
    PROVE  OwnInv'
<1>0. Shape(req[r])
  BY DEF OwnInv, RequestsTyped
<1>1. ASSUME NEW v \in Vehicles, NEW u \in Users, NEW type \in OfferTypes, NEW km \in Kms,
             ReadOffer(r, v, u, type, km)
      PROVE  OwnInv'
  <2>1. Shape([pc |-> "offer", vehicle |-> v, user |-> u, type |-> type, km |-> km])
    BY DEF Shape
  <2> QED BY <1>1, <2>1, ReadStep DEF ReadOffer, Goes
<1>2. ASSUME NEW v \in Vehicles, NEW i \in 1 .. MaxRows, ReadConfirm(r, v, i) \/ ReadDecline(r, v, i)
      PROVE  OwnInv'
  <2>1. i \in DOMAIN rows[v] /\ rows[v][i].offered = TRUE
    BY <1>2 DEF ReadConfirm, ReadDecline, OwnInv, RowsTyped
  <2>2. /\ Shape([pc |-> "refuse", vehicle |-> v, row |-> i])
        /\ Shape([pc |-> "confirm", vehicle |-> v, row |-> i, km |-> rows[v][i].km])
    BY <2>1 DEF Shape
  <2> QED BY <1>2, <2>2, ReadStep DEF ReadConfirm, ReadDecline, Goes
<1>3. CASE WriteOffer(r)
  <2> DEFINE q == req[r]
  <2>1. /\ q.vehicle \in Vehicles /\ q.user \in Users /\ q.type \in TransferTypes /\ q.km \in Kms
    BY <1>0, <1>3, OwnershipAssumption DEF WriteOffer, Shape, TransferTypes
  <2>2. PICK row : row = [NewRow(q.user, q.type) EXCEPT
                            !.status = "PENDING", !.offered = TRUE, !.km = q.km]
    OBVIOUS
  <2>3. row \in Rows /\ row.offered = TRUE
    BY <2>1, <2>2 DEF NewRow, Rows, TransferStatuses
  <2>4. ~Assigned(row)
    BY <2>3 DEF Assigned
  <2>5. /\ RowsBecome(q.vehicle, Append(rows[q.vehicle], row))
        /\ UNCHANGED <<fleet, removed>>
    BY <1>3, <2>2 DEF WriteOffer, Writes, RowsBecome
  <2> HIDE DEF q
  <2> QED BY <2>1, <2>3, <2>4, <2>5, PlainAppend
<1>4. CASE WriteConfirm(r)
  <2> DEFINE q == req[r]
             old == rows[q.vehicle]
  <2>1. q.vehicle \in Vehicles /\ q.row \in DOMAIN old /\ old[q.row].offered = TRUE
    BY <1>0, <1>4 DEF WriteConfirm, Shape
  <2>2. PICK new : new = [i \in DOMAIN old |->
                 IF i = q.row THEN Settled(old[i], "CONFIRMED")
                 ELSE IF IsOpen(old[i]) THEN [old[i] EXCEPT !.open = FALSE]
                 ELSE old[i]]
    OBVIOUS
  <2>3. RowsBecome(q.vehicle, new) /\ UNCHANGED <<fleet, removed>>
    BY <1>4, <2>2 DEF WriteConfirm, Writes, RowsBecome
  <2>4. ASSUME NEW i \in DOMAIN old
        PROVE  /\ new[i] \in Rows /\ new[i].offered = old[i].offered
               /\ IsPending(new[i]) => new[i].offered = TRUE
               /\ ~Assigned(new[i])
    <3>1. old[i] \in Rows /\ (IsPending(old[i]) => old[i].offered = TRUE)
      BY <2>1, RowTypes DEF OwnInv, RowsTyped
    <3>2. CASE i = q.row
      BY <2>1, <2>2, <3>1, <3>2, SettledRow DEF IsPending, Assigned
    <3>3. CASE i # q.row /\ IsOpen(old[i])
      BY <2>2, <3>1, <3>3 DEF IsOpen, IsPending, Assigned, Rows
    <3>4. CASE i # q.row /\ ~IsOpen(old[i])
      BY <2>2, <3>1, <3>4 DEF Assigned
    <3> QED BY <3>2, <3>3, <3>4
  <2>5. new \in [DOMAIN old -> Rows]
    BY <2>2, <2>4
  <2> QED BY <2>1, <2>3, <2>4, <2>5, RewriteStep
<1>5. CASE WriteRefusal(r)
  <2> DEFINE q == req[r]
             old == rows[q.vehicle]
  <2>1. q.vehicle \in Vehicles /\ q.row \in DOMAIN old
    BY <1>0, <1>5 DEF WriteRefusal, Shape
  <2>2. PICK new : new = [old EXCEPT ![q.row] = Settled(old[q.row], "OVER")]
    OBVIOUS
  <2>3. RowsBecome(q.vehicle, new) /\ UNCHANGED <<fleet, removed>>
    BY <1>5, <2>2 DEF WriteRefusal, Writes, RowsBecome
  <2>a. old = [i \in DOMAIN old |-> old[i]]
    BY <2>1, RowTypes
  <2>b. new = [i \in DOMAIN old |-> IF i = q.row THEN Settled(old[i], "OVER") ELSE old[i]]
    BY <2>1, <2>2, <2>a
  <2>4. ASSUME NEW i \in DOMAIN old
        PROVE  /\ new[i] \in Rows /\ new[i].offered = old[i].offered
               /\ IsPending(new[i]) => new[i].offered = TRUE
               /\ Assigned(new[i]) => Assigned(old[i]) /\ new[i].user = old[i].user
    <3>1. old[i] \in Rows /\ (IsPending(old[i]) => old[i].offered = TRUE)
      BY <2>1, RowTypes DEF OwnInv, RowsTyped
    <3>2. CASE i = q.row
      BY <2>b, <3>1, <3>2, SettledRow DEF IsPending, Assigned, IsOpen
    <3>3. CASE i # q.row
      BY <2>b, <3>1, <3>3
    <3> QED BY <3>2, <3>3
  <2>5. new \in [DOMAIN old -> Rows]
    BY <2>b, <2>4
  <2> HIDE DEF q
  <2> QED BY <2>1, <2>3, <2>4, <2>5, RewriteStep
<1> QED BY <1>1, <1>2, <1>3, <1>4, <1>5 DEF TransferStep

LEMMA RecordKeeps ==
    ASSUME OwnInv, NEW r \in Requests, RecordStep(r)
    PROVE  OwnInv'
<1>0. Shape(req[r])
  BY DEF OwnInv, RequestsTyped
<1>1. ASSUME NEW u \in Users, ReadRegister(r, u) PROVE OwnInv'
  <2>1. /\ Shape([pc |-> "create", user |-> u])
        /\ \A v \in Vehicles : Shape([pc |-> "link", vehicle |-> v, user |-> u])
    BY DEF Shape
  <2> QED BY <1>1, <2>1, ReadStep DEF ReadRegister, WithPlate, Goes
<1>2. ASSUME NEW v \in Vehicles, CreateVehicle(r, v) PROVE OwnInv'
  <2>1. Shape([pc |-> "link", vehicle |-> v, user |-> req[r].user])
    BY <1>0, <1>2 DEF Shape, CreateVehicle
  <2> QED BY <1>2, <2>1, ReadStep DEF CreateVehicle
<1>3. ASSUME NEW v \in Vehicles, NEW km \in Kms, ReadReport(r, v, km) PROVE OwnInv'
  <2>1. Shape([pc |-> "report", vehicle |-> v, km |-> km])
    BY DEF Shape
  <2> QED BY <1>3, <2>1, ReadStep DEF ReadReport, Goes
<1>4. CASE LinkOwner(r)
  <2>1. req[r].vehicle \in Vehicles /\ req[r].user \in Users
    BY <1>0, <1>4 DEF LinkOwner, Shape
  <2>2. PICK row : row = NewRow(req[r].user, "SALE")
    OBVIOUS
  <2>3. row \in Rows /\ ~Assigned(row) /\ ~IsPending(row)
    BY <2>1, <2>2, NewRowTypes DEF TransferTypes, Assigned, IsPending
  <2>4. /\ RowsBecome(req[r].vehicle, Append(rows[req[r].vehicle], row))
        /\ UNCHANGED <<fleet, removed>>
    BY <1>4, <2>2 DEF LinkOwner, Writes, RowsBecome
  <2> QED BY <2>1, <2>3, <2>4, PlainAppend
<1>5. CASE WriteReport(r)
  <2>1. Shape(Idle)
    BY DEF Shape, Idle
  <2> QED BY <1>5, <2>1, ReadStep DEF WriteReport
<1> QED BY <1>1, <1>2, <1>3, <1>4, <1>5 DEF RecordStep

LEMMA FleetKeeps ==
    ASSUME OwnInv, NEW r \in Requests, FleetStep(r)
    PROVE  OwnInv'
<1>0. Shape(req[r]) /\ FleetsTyped /\ NoFleet \notin Fleets
  BY OwnershipAssumption DEF OwnInv, RequestsTyped
<1>1. ASSUME NEW v \in Vehicles, NEW f \in Fleets, ReadJoin(r, v, f) \/ ReadLeave(r, v, f)
      PROVE  OwnInv'
  <2>1. /\ Shape([pc |-> "join", vehicle |-> v, fleet |-> f])
        /\ fleet[v] = f => Shape([pc |-> "leave", vehicle |-> v, fleet |-> f])
    BY DEF Shape
  <2> QED BY <1>1, <2>1, ReadStep DEF ReadJoin, ReadLeave, Goes
<1>2. CASE JoinRejected(r)
  <2>1. Shape(Idle)
    BY DEF Shape, Idle
  <2> QED BY <1>2, <2>1, ReadStep DEF JoinRejected, Goes
<1>3. CASE WriteJoin(r)
  <2>1. PICK v \in Vehicles, f \in Fleets : v = req[r].vehicle /\ f = req[r].fleet
    BY <1>0, <1>3 DEF WriteJoin, Shape
  <2>2. PICK row : row = NewRow(FleetOwner[f], "FLEET_ASSIGNMENT")
    OBVIOUS
  <2>3. row \in Rows /\ row.user = FleetOwner[f] /\ ~IsPending(row)
    <3>1. FleetOwner[f] \in Users /\ "FLEET_ASSIGNMENT" \in TransferTypes
      BY OwnershipAssumption DEF TransferTypes
    <3> QED BY <2>2, <3>1, NewRowTypes DEF IsPending
  <2>4. /\ fleet[v] = NoFleet /\ fleet' = [fleet EXCEPT ![v] = f] /\ UNCHANGED removed
        /\ RowsBecome(v, Append(rows[v], row))
    BY <1>3, <2>1, <2>2 DEF WriteJoin, Writes, RowsBecome
  <2>5. FleetsTyped' /\ fleet'[v] = f /\ ~removed'[v] /\ OthersStay(v)
    BY <1>0, <2>4 DEF FleetsTyped, OthersStay
  <2>6. Matches(v, row)
    BY <1>0, <2>3, <2>5 DEF Matches
  <2> QED BY <2>3, <2>4, <2>5, <2>6, AppendStep
<1>4. CASE WriteLeave(r)
  <2>1. PICK v \in Vehicles, f \in Fleets : v = req[r].vehicle /\ f = req[r].fleet
    BY <1>0, <1>4 DEF WriteLeave, Shape
  <2>2. PICK new : new = [i \in DOMAIN rows[v] |->
              IF rows[v][i].user = FleetOwner[f] /\ rows[v][i].type = "FLEET_ASSIGNMENT"
                THEN [rows[v][i] EXCEPT !.open = FALSE] ELSE rows[v][i]]
    OBVIOUS
  <2>3. /\ fleet[v] = f /\ UNCHANGED fleet /\ removed' = [removed EXCEPT ![v] = TRUE]
        /\ RowsBecome(v, new)
    BY <1>0, <1>4, <2>1, <2>2 DEF WriteLeave, Writes, Shape, RowsBecome
  <2>4. ASSUME NEW i \in DOMAIN rows[v]
        PROVE  /\ new[i] \in Rows /\ new[i].offered = rows[v][i].offered
               /\ IsPending(new[i]) => new[i].offered = TRUE
               /\ ~Assigned(new[i])
    <3>1. rows[v][i] \in Rows /\ (IsPending(rows[v][i]) => rows[v][i].offered = TRUE)
      BY RowTypes DEF OwnInv, RowsTyped
    <3>2. CASE rows[v][i].user = FleetOwner[f] /\ rows[v][i].type = "FLEET_ASSIGNMENT"
      BY <2>2, <3>1, <3>2 DEF IsOpen, IsPending, Assigned, Rows
    <3>3. CASE ~(rows[v][i].user = FleetOwner[f] /\ rows[v][i].type = "FLEET_ASSIGNMENT")
      <4>1. new[i] = rows[v][i]
        BY <2>2, <3>3
      <4>2. ~Assigned(rows[v][i])
        BY <2>3, <3>3, AssignedMatch DEF Assigned
      <4> QED BY <3>1, <4>1, <4>2
    <3> QED BY <3>2, <3>3
  <2>5. new \in Seq(Rows) /\ DOMAIN new = DOMAIN rows[v]
    <3>1. new \in [DOMAIN rows[v] -> Rows]
      BY <2>2, <2>4
    <3> QED BY <3>1, RowTypes
  <2>6. FleetsTyped' /\ OthersStay(v)
    BY <1>0, <2>1, <2>3 DEF FleetsTyped, OthersStay
  <2>7. OriginsStay(v, new) /\ \A i \in DOMAIN new : Matches(v, new[i])
    BY <2>4, <2>5 DEF OriginsStay, Matches
  <2> QED BY <2>3, <2>5, <2>6, <2>7, WriteStep
<1> QED BY <1>1, <1>2, <1>3, <1>4 DEF FleetStep

\* The first and the last pass look at legacy vehicles.
LEMMA RunStep == RunsTyped /\ [Next]_vars => RunsTyped'
<1> SUFFICES ASSUME RunsTyped, [Next]_vars PROVE RunsTyped'
  OBVIOUS
<1>1. CASE UNCHANGED run
  BY <1>1 DEF RunsTyped
<1>2. ASSUME NEW m \in Runs, NextPass(m) PROVE RunsTyped'
  <2>1. PICK pass \in 0 .. 4 : pass = (run[m].pass + 1) % 5
    BY DEF RunsTyped, RunRecords
  <2>2. pass # 0 => /\ Items(pass) \subseteq Legacy \cup LegacyBookings
                    /\ pass \in {1, 4} => Items(pass) \subseteq Legacy
    BY <2>1 DEF Items
  <2>3. PICK next : next = [pass |-> pass, item |-> NoItem,
                            todo |-> IF pass = 0 THEN {} ELSE Items(pass),
                            clean |-> pass = 1 \/ run[m].clean]
    OBVIOUS
  <2>4. next \in RunRecords /\ (next.pass \in {1, 4} => next.todo \subseteq Legacy)
    BY <2>2, <2>3 DEF RunRecords
  <2>5. run' = [run EXCEPT ![m] = next]
    BY <1>2, <2>1, <2>3 DEF NextPass
  <2> QED BY <2>3, <2>4, <2>5 DEF RunsTyped
<1>3. ASSUME NEW m \in Runs, NEW x, Look(m, x) PROVE RunsTyped'
  <2>1. /\ run' = [run EXCEPT ![m].todo = @ \ {x},
                              ![m].item = IF NeedsRow(run[m].pass, x) THEN x ELSE NoItem]
        /\ x \in run[m].todo
    BY <1>3 DEF Look
  <2>2. PICK item : item = IF NeedsRow(run[m].pass, x) THEN x ELSE NoItem
    OBVIOUS
  <2>3. run[m] \in RunRecords /\ x \in Legacy \cup LegacyBookings
    BY <2>1 DEF RunsTyped, RunRecords
  <2>4. PICK next : next = [run[m] EXCEPT !.todo = @ \ {x}, !.item = item]
    OBVIOUS
  <2>5. /\ next \in RunRecords /\ next.pass = run[m].pass
        /\ next.todo \subseteq run[m].todo /\ next.item \in run[m].todo \cup {NoItem}
    BY <2>1, <2>2, <2>3, <2>4 DEF RunRecords
  <2>6. run'[m] = next /\ \A o \in Runs \ {m} : run'[o] = run[o]
    BY <2>1, <2>2, <2>4 DEF RunsTyped
  <2>7. run' \in [Runs -> RunRecords]
    <3>1. run' = [o \in Runs |-> run'[o]]
      BY <2>1 DEF RunsTyped
    <3> QED BY <2>5, <2>6, <3>1 DEF RunsTyped
  <2> QED BY <2>5, <2>6, <2>7 DEF RunsTyped
<1>4. ASSUME NEW m \in Runs, Inserted(m) PROVE RunsTyped'
  BY <1>4 DEF Inserted, RunsTyped, RunRecords
<1>5. ASSUME NEW m \in Runs, Interrupt(m) PROVE RunsTyped'
  <2>1. NoRun \in RunRecords /\ NoRun.pass = 0
    BY DEF NoRun, RunRecords
  <2> QED BY <1>5, <2>1 DEF Interrupt, RunsTyped
<1>6. ASSUME NEW b \in LegacyBookings, LegacyMoves(b) PROVE RunsTyped'
  BY <1>6 DEF LegacyMoves, RunsTyped, RunRecords
<1>7. CASE MigrationNext
  BY <1>2, <1>3, <1>4, <1>5, <1>6, <1>7
     DEF MigrationNext, InsertRecord, InsertEvent, InsertCard, InsertOwner
<1>8. CASE UNCHANGED vars \/ UNCHANGED migrationVars
  BY <1>1, <1>8 DEF vars, migrationVars
<1> QED BY <1>7, <1>8 DEF Next

\* Every step keeps the invariant.
LEMMA OwnStep == RunsTyped /\ OwnInv /\ [Next]_vars => OwnInv'
<1> SUFFICES ASSUME RunsTyped, OwnInv, [Next]_vars PROVE OwnInv'
  OBVIOUS
<1>1. ASSUME UNCHANGED <<rows, fleet, removed, req>> PROVE OwnInv'
  BY <1>1 DEF OwnInv, RowsTyped, FleetsTyped, RequestsTyped, Shape, FleetRowsMatch, IsPending,
              IsOpen
<1>2. CASE UNCHANGED vars
  BY <1>1, <1>2 DEF vars, ownVars
<1>3. CASE \E r \in Requests : TransferStep(r) \/ RecordStep(r) \/ FleetStep(r)
  BY <1>3, TransferKeeps, RecordKeeps, FleetKeeps
<1>4. ASSUME NEW v \in Vehicles, PassWeek(v) PROVE OwnInv'
  <2>1. PICK new : new = [i \in DOMAIN rows[v] |-> IF IsPending(rows[v][i])
                            THEN [rows[v][i] EXCEPT !.overdue = TRUE] ELSE rows[v][i]]
    OBVIOUS
  <2>2. RowsBecome(v, new) /\ UNCHANGED <<fleet, removed>>
    BY <1>4, <2>1 DEF PassWeek, RowsBecome
  <2>3. ASSUME NEW i \in DOMAIN rows[v]
        PROVE  /\ new[i] \in Rows /\ new[i].offered = rows[v][i].offered
               /\ IsPending(new[i]) => new[i].offered = TRUE
               /\ Assigned(new[i]) => Assigned(rows[v][i]) /\ new[i].user = rows[v][i].user
    <3>1. rows[v][i] \in Rows /\ (IsPending(rows[v][i]) => rows[v][i].offered = TRUE)
      BY RowTypes DEF OwnInv, RowsTyped
    <3>2. CASE IsPending(rows[v][i])
      BY <2>1, <3>1, <3>2 DEF IsPending, Assigned, IsOpen, Rows
    <3>3. CASE ~IsPending(rows[v][i])
      BY <2>1, <3>1, <3>3
    <3> QED BY <3>2, <3>3
  <2>4. new \in [DOMAIN rows[v] -> Rows]
    BY <2>1, <2>3
  <2> QED BY <2>2, <2>3, <2>4, RewriteStep
<1>5. ASSUME NEW lost \in SUBSET Requests, LoseRequests(lost) PROVE OwnInv'
  <2>1. /\ req' = [r \in Requests |-> IF r \in lost THEN Idle ELSE req[r]]
        /\ UNCHANGED <<rows, fleet, removed>>
    BY <1>5 DEF LoseRequests
  <2>2. \A r \in Requests : Shape(req[r])'
    BY <2>1 DEF OwnInv, RequestsTyped, Shape, Idle
  <2>3. RequestsTyped'
    BY <2>1, <2>2 DEF RequestsTyped
  <2> QED BY <2>1, <2>3
          DEF OwnInv, RowsTyped, FleetsTyped, FleetRowsMatch, IsPending, IsOpen
<1>6. ASSUME NEW m \in Runs, InsertOwner(m) PROVE OwnInv'
  <2>1. PICK l \in Legacy : l = run[m].item
    BY <1>6 DEF InsertOwner, RunsTyped
  <2>2. PICK row : row = NewRow(LegacyOwner[l], "LEGACY_MIGRATION")
    OBVIOUS
  <2>3. PICK v \in Vehicles : RowsBecome(v, Append(rows[v], row))
    BY <1>6, <2>1, <2>2 DEF InsertOwner, RecordsOf, RowsBecome
  <2>4. row \in Rows /\ ~Assigned(row) /\ ~IsPending(row)
    <3>1. LegacyOwner[l] \in Users /\ "LEGACY_MIGRATION" \in TransferTypes
      BY MigrationAssumption DEF TransferTypes
    <3> QED BY <2>2, <3>1, NewRowTypes DEF Assigned, IsPending
  <2> QED BY <1>6, <2>3, <2>4, PlainAppend DEF InsertOwner
<1>7. CASE MigrationNext
  BY <1>1, <1>6, <1>7
     DEF MigrationNext, NextPass, Look, InsertRecord, InsertEvent, InsertCard, Interrupt,
         LegacyMoves, ownVars
<1> QED BY <1>2, <1>3, <1>4, <1>5, <1>7 DEF Next, OwnershipNext

\* Whatever requests and migration runs overlap, an open fleet assignment that
\* addVehicle made is one of a fleet that has the vehicle now.
THEOREM FleetRowsAlwaysMatch == Spec => []FleetRowsMatch
<1>1. Init => RunsTyped
  BY DEF Init, RunsTyped, NoRun, RunRecords
<1>2. OwnInv => FleetRowsMatch
  BY DEF OwnInv
<1> QED BY <1>1, <1>2, InitOwn, OwnStep, RunStep, PTL DEF Spec

-----------------------------------------------------------------------------
(* The odometer falls by a transfer only. *)

\* What a request that was never alone has read is of the right kind anyhow.
ReadingsTyped ==
    /\ odometer \in [Vehicles -> Nat] /\ overlapped \in BOOLEAN
    /\ \A r \in Requests :
        /\ req[r].pc = "report" => req[r].vehicle \in Vehicles
        /\ req[r].pc \in {"report", "confirm"} => req[r].km \in Nat

\* What the one request in flight has read has not changed since.
Current(q) ==
    /\ q.pc = "report" => q.km >= odometer[q.vehicle]
    /\ q.pc = "confirm" => /\ IsPending(rows[q.vehicle][q.row])
                           /\ rows[q.vehicle][q.row].km = q.km

Alone == \A r, o \in Requests : req[r] # Idle /\ req[o] # Idle => r = o

ReadingsInv ==
    ReadingsTyped /\ (~overlapped => Alone /\ \A r \in Requests : Current(req[r]))

LEMMA IdleCurrent ==
    /\ Idle.pc = "idle"
    /\ \A r \in Requests : req'[r] = Idle => Current(req[r])'
BY DEF Idle, Current

LEMMA ReadCurrent ==
    ASSUME OwnInv, ReadingsInv, NEW r \in Requests, NEW next, req[r] = Idle, Goes(r, next),
           next.pc = "report" => next.vehicle \in Vehicles,
           next.pc \in {"report", "confirm"} => next.km \in Nat, Current(next)
    PROVE  ReadingsInv'
<1>1. req'[r] = next /\ \A o \in Requests \ {r} : req'[o] = req[o]
  BY DEF Goes, OwnInv, RequestsTyped
<1>2. UNCHANGED <<odometer, rows>> /\ overlapped' \in BOOLEAN
  BY DEF Goes
<1>3. ReadingsTyped'
  BY <1>1, <1>2 DEF ReadingsInv, ReadingsTyped
<1>4. ASSUME ~overlapped' PROVE Alone' /\ \A o \in Requests : Current(req[o])'
  <2>1. ~overlapped /\ (next # Idle => \A o \in Requests : req[o] = Idle)
    BY <1>4 DEF Goes
  <2>2. Alone'
    BY <1>1, <2>1 DEF Alone, ReadingsInv
  <2>3. Current(req[r])'
    BY <1>1, <1>2 DEF Current
  <2>4. ASSUME NEW o \in Requests \ {r} PROVE Current(req[o])'
    BY <1>1, <1>2, <2>1 DEF Current, ReadingsInv
  <2> QED BY <2>2, <2>3, <2>4
<1> QED BY <1>3, <1>4 DEF ReadingsInv

\* The request in flight writes, and ends or goes on with nothing it relies on.
LEMMA WriteCurrent ==
    ASSUME OwnInv, ReadingsInv, NEW r \in Requests, NEW next, req[r].pc # "idle",
           req' = [req EXCEPT ![r] = next], next.pc \notin {"report", "confirm"},
           odometer' \in [Vehicles -> Nat], UNCHANGED overlapped
    PROVE  ReadingsInv'
<1>1. req'[r] = next /\ \A o \in Requests \ {r} : req'[o] = req[o]
  BY DEF OwnInv, RequestsTyped
<1>2. ReadingsTyped'
  BY <1>1 DEF ReadingsInv, ReadingsTyped
<1>3. ASSUME ~overlapped' PROVE Alone' /\ \A o \in Requests : Current(req[o])'
  <2>1. req[r] # Idle
    BY DEF Idle
  <2>2. \A o \in Requests \ {r} : req'[o] = Idle
    BY <1>1, <1>3, <2>1 DEF ReadingsInv, Alone
  <2>3. Current(req[r])'
    BY <1>1 DEF Current
  <2> QED BY <2>2, <2>3, IdleCurrent DEF Alone
<1> QED BY <1>2, <1>3 DEF ReadingsInv

\* What is pending stays so, with its reading.
LEMMA PendingStays ==
    ASSUME OwnInv, ReadingsInv, UNCHANGED <<req, odometer, overlapped>>,
           \A v \in Vehicles : \A i \in DOMAIN rows[v] : IsPending(rows[v][i]) =>
               rows'[v][i].status = "PENDING" /\ rows'[v][i].km = rows[v][i].km
    PROVE  ReadingsInv'
<1>1. ReadingsTyped' /\ (~overlapped => Alone')
  BY DEF ReadingsInv, ReadingsTyped, Alone
<1>2. ASSUME NEW o \in Requests, Current(req[o]) PROVE Current(req[o])'
  <2>1. req[o].pc = "confirm" =>
            req[o].vehicle \in Vehicles /\ req[o].row \in DOMAIN rows[req[o].vehicle]
    BY DEF OwnInv, RequestsTyped, Shape
  <2> QED BY <1>2, <2>1 DEF Current, IsPending
<1> QED BY <1>1, <1>2 DEF ReadingsInv

LEMMA TransferCurrent ==
    ASSUME OwnInv, ReadingsInv, NEW r \in Requests, TransferStep(r)
    PROVE  ReadingsInv'
<1>0. ReadingsTyped /\ Shape(req[r])
  BY DEF ReadingsInv, OwnInv, RequestsTyped
<1>1. ASSUME NEW v \in Vehicles, NEW u \in Users, NEW type \in OfferTypes, NEW km \in Kms,
             ReadOffer(r, v, u, type, km)
      PROVE  ReadingsInv'
  <2>1. PICK next : next = [pc |-> "offer", vehicle |-> v, user |-> u, type |-> type, km |-> km]
    OBVIOUS
  <2>2. next.pc = "offer" /\ Current(next)
    BY <2>1 DEF Current
  <2> QED BY <1>1, <2>1, <2>2, ReadCurrent DEF ReadOffer
<1>2. ASSUME NEW v \in Vehicles, NEW i \in 1 .. MaxRows, ReadConfirm(r, v, i)
      PROVE  ReadingsInv'
  <2>1. PICK next : next = IF rows[v][i].overdue
                 THEN [pc |-> "refuse", vehicle |-> v, row |-> i]
                 ELSE [pc |-> "confirm", vehicle |-> v, row |-> i, km |-> rows[v][i].km]
    OBVIOUS
  <2>2. rows[v][i] \in Rows /\ Kms \subseteq Nat
    BY <1>2, RowTypes, OwnershipAssumption DEF ReadConfirm
  <2>3. next.pc \in {"refuse", "confirm"} /\ (next.pc = "confirm" => next.km \in Nat)
    <3>1. rows[v][i].km \in Nat
      <4>1. rows[v][i].km \in Kms \cup {0}
        BY <2>2 DEF Rows
      <4>2. \A k \in Kms \cup {0} : k \in Nat
        BY <2>2
      <4> QED BY <4>1, <4>2
    <3>2. CASE rows[v][i].overdue
      BY <2>1, <3>2
    <3>3. CASE ~rows[v][i].overdue
      BY <2>1, <3>1, <3>3
    <3> QED BY <3>2, <3>3
  <2>4. Current(next)
    BY <1>2, <2>1 DEF Current, ReadConfirm
  <2> QED BY <1>2, <2>1, <2>3, <2>4, ReadCurrent DEF ReadConfirm
<1>3. ASSUME NEW v \in Vehicles, NEW i \in 1 .. MaxRows, ReadDecline(r, v, i)
      PROVE  ReadingsInv'
  <2>1. PICK next : next = [pc |-> "refuse", vehicle |-> v, row |-> i]
    OBVIOUS
  <2>2. next.pc = "refuse" /\ Current(next)
    BY <2>1 DEF Current
  <2> QED BY <1>3, <2>1, <2>2, ReadCurrent DEF ReadDecline
<1>4. CASE WriteOffer(r) \/ WriteRefusal(r)
  BY <1>0, <1>4, IdleCurrent, WriteCurrent DEF WriteOffer, WriteRefusal, Writes, ReadingsTyped
<1>5. CASE WriteConfirm(r)
  <2>1. odometer' \in [Vehicles -> Nat]
    BY <1>0, <1>5 DEF WriteConfirm, ReadingsTyped
  <2> QED BY <1>5, <2>1, IdleCurrent, WriteCurrent DEF WriteConfirm, Writes
<1> QED BY <1>1, <1>2, <1>3, <1>4, <1>5 DEF TransferStep

LEMMA RecordCurrent ==
    ASSUME OwnInv, ReadingsInv, NEW r \in Requests, RecordStep(r)
    PROVE  ReadingsInv'
<1>0. ReadingsTyped /\ Kms \subseteq Nat
  BY OwnershipAssumption DEF ReadingsInv
<1>1. ASSUME NEW u \in Users, ReadRegister(r, u) PROVE ReadingsInv'
  <2>1. PICK next : Goes(r, next) /\ next.pc \in {"create", "link"}
    <3>1. CASE WithPlate = {}
      BY <1>1, <3>1 DEF ReadRegister
    <3>2. CASE WithPlate # {}
      <4>1. PICK v \in WithPlate : Goes(r, [pc |-> "link", vehicle |-> v, user |-> u])
        BY <1>1, <3>2 DEF ReadRegister
      <4> QED BY <4>1
    <3> QED BY <3>1, <3>2
  <2>2. Current(next)
    BY <2>1 DEF Current
  <2> QED BY <1>1, <2>1, <2>2, ReadCurrent DEF ReadRegister
<1>2. ASSUME NEW v \in Vehicles, CreateVehicle(r, v) PROVE ReadingsInv'
  <2>1. PICK next : next = [pc |-> "link", vehicle |-> v, user |-> req[r].user]
    OBVIOUS
  <2>2. next.pc = "link"
    BY <2>1
  <2> QED BY <1>0, <1>2, <2>1, <2>2, WriteCurrent DEF CreateVehicle, ReadingsTyped
<1>3. ASSUME NEW v \in Vehicles, NEW km \in Kms, ReadReport(r, v, km) PROVE ReadingsInv'
  <2>1. PICK next : next = [pc |-> "report", vehicle |-> v, km |-> km]
    OBVIOUS
  <2>2. /\ next.pc = "report" /\ next.vehicle \in Vehicles /\ next.km \in Nat
        /\ Current(next)
    BY <1>0, <1>3, <2>1 DEF Current, ReadReport
  <2> QED BY <1>3, <2>1, <2>2, ReadCurrent DEF ReadReport
<1>4. CASE LinkOwner(r)
  BY <1>0, <1>4, IdleCurrent, WriteCurrent DEF LinkOwner, Writes, ReadingsTyped
<1>5. CASE WriteReport(r)
  <2>1. odometer' \in [Vehicles -> Nat]
    BY <1>0, <1>5 DEF WriteReport, ReadingsTyped
  <2> QED BY <1>5, <2>1, IdleCurrent, WriteCurrent DEF WriteReport
<1> QED BY <1>1, <1>2, <1>3, <1>4, <1>5 DEF RecordStep

LEMMA FleetCurrent ==
    ASSUME OwnInv, ReadingsInv, NEW r \in Requests, FleetStep(r)
    PROVE  ReadingsInv'
<1>0. ReadingsTyped
  BY DEF ReadingsInv
<1>1. ASSUME NEW v \in Vehicles, NEW f \in Fleets, ReadJoin(r, v, f) \/ ReadLeave(r, v, f)
      PROVE  ReadingsInv'
  <2>1. PICK next : Goes(r, next) /\ next.pc \in {"join", "leave"}
    BY <1>1 DEF ReadJoin, ReadLeave
  <2>2. Current(next)
    BY <2>1 DEF Current
  <2> QED BY <1>1, <2>1, <2>2, ReadCurrent DEF ReadJoin, ReadLeave
<1>2. CASE WriteJoin(r) \/ WriteLeave(r)
  BY <1>0, <1>2, IdleCurrent, WriteCurrent DEF WriteJoin, WriteLeave, Writes, ReadingsTyped
<1>3. CASE JoinRejected(r)
  <2>1. UNCHANGED overlapped
    BY <1>0, <1>3 DEF JoinRejected, Goes, ReadingsTyped
  <2> QED BY <1>0, <1>3, <2>1, IdleCurrent, WriteCurrent DEF JoinRejected, Goes, ReadingsTyped
<1> QED BY <1>1, <1>2, <1>3 DEF FleetStep

\* A row is added to those there are.
RowAdded(v, row) ==
    /\ \A w \in Vehicles \ {v} : rows'[w] = rows[w]
    /\ \A i \in DOMAIN rows[v] : i \in DOMAIN rows'[v] /\ rows'[v][i] = rows[v][i]
    /\ \E i \in DOMAIN rows'[v] :
         rows'[v][i] = row /\ \A j \in DOMAIN rows'[v] : j \in DOMAIN rows[v] \/ j = i

LEMMA AppendAdds ==
    ASSUME OwnInv, NEW v \in Vehicles, NEW row \in Rows,
           rows' = [rows EXCEPT ![v] = Append(rows[v], row)]
    PROVE  RowAdded(v, row)
<1>1. rows[v] \in Seq(Rows) /\ Len(rows[v]) \in Nat /\ DOMAIN rows[v] = 1 .. Len(rows[v])
  BY RowTypes
<1>2. PICK new : new = Append(rows[v], row)
  OBVIOUS
<1>3. /\ new \in Seq(Rows) /\ Len(new) = Len(rows[v]) + 1
      /\ \A i \in 1 .. Len(rows[v]) : new[i] = rows[v][i]
      /\ new[Len(rows[v]) + 1] = row
  BY <1>1, <1>2, AppendProperties
<1>4. DOMAIN new = 1 .. Len(rows[v]) + 1
  BY <1>3
<1>5. rows'[v] = new /\ \A w \in Vehicles \ {v} : rows'[w] = rows[w]
  BY <1>2 DEF OwnInv, RowsTyped
<1>6. /\ DOMAIN rows[v] \subseteq DOMAIN new
      /\ Len(rows[v]) + 1 \in DOMAIN new
      /\ \A j \in DOMAIN new : j \in DOMAIN rows[v] \/ j = Len(rows[v]) + 1
  BY <1>1, <1>4
<1> QED BY <1>1, <1>3, <1>5, <1>6 DEF RowAdded

LEMMA OwnerInserted ==
    ASSUME OwnInv, RunsTyped, NEW m \in Runs, InsertOwner(m)
    PROVE  /\ run[m].item \in Legacy
           /\ \E v \in RecordsOf(run[m].item) :
               RowAdded(v, NewRow(LegacyOwner[run[m].item], "LEGACY_MIGRATION"))
<1>1. PICK row : row = NewRow(LegacyOwner[run[m].item], "LEGACY_MIGRATION")
  OBVIOUS
<1>2. PICK v \in RecordsOf(run[m].item) : rows' = [rows EXCEPT ![v] = Append(rows[v], row)]
  BY <1>1 DEF InsertOwner
<1>3. v \in Vehicles
  BY DEF RecordsOf
<1>4. run[m].item \in Legacy /\ row \in Rows
  <2>1. run[m].item \in Legacy
    BY DEF InsertOwner, RunsTyped
  <2>2. LegacyOwner[run[m].item] \in Users /\ "LEGACY_MIGRATION" \in TransferTypes
    BY <2>1, MigrationAssumption DEF TransferTypes
  <2> QED BY <1>1, <2>1, <2>2, NewRowTypes
<1>5. RowAdded(v, row)
  BY <1>2, <1>3, <1>4, AppendAdds
<1> QED BY <1>1, <1>4, <1>5

\* Every step keeps what the request in flight has read.
LEMMA CurrentStep ==
    ASSUME RunsTyped, OwnInv, ReadingsInv, [Next]_vars
    PROVE  ReadingsInv'
<1>1. ASSUME UNCHANGED <<rows, odometer, req, overlapped>> PROVE ReadingsInv'
  BY <1>1 DEF ReadingsInv, ReadingsTyped, Alone, Current, IsPending
<1>2. CASE UNCHANGED vars
  BY <1>1, <1>2 DEF vars, ownVars
<1>3. CASE \E r \in Requests : TransferStep(r) \/ RecordStep(r) \/ FleetStep(r)
  BY <1>3, TransferCurrent, RecordCurrent, FleetCurrent
<1>4. ASSUME NEW v \in Vehicles, PassWeek(v) PROVE ReadingsInv'
  <2>1. PICK new : new = [i \in DOMAIN rows[v] |-> IF IsPending(rows[v][i])
                            THEN [rows[v][i] EXCEPT !.overdue = TRUE] ELSE rows[v][i]]
    OBVIOUS
  <2>2. rows'[v] = new /\ \A w \in Vehicles \ {v} : rows'[w] = rows[w]
    BY <1>4, <2>1 DEF PassWeek, OwnInv, RowsTyped
  <2>3. ASSUME NEW i \in DOMAIN rows[v], IsPending(rows[v][i])
        PROVE  new[i].status = "PENDING" /\ new[i].km = rows[v][i].km
    <3>1. rows[v][i] \in Rows
      BY RowTypes
    <3> QED BY <2>1, <2>3, <3>1 DEF IsPending, Rows
  <2>4. ASSUME NEW w \in Vehicles, NEW i \in DOMAIN rows[w], IsPending(rows[w][i])
        PROVE  rows'[w][i].status = "PENDING" /\ rows'[w][i].km = rows[w][i].km
    BY <2>2, <2>3, <2>4 DEF IsPending
  <2> QED BY <1>4, <2>4, PendingStays DEF PassWeek
<1>5. ASSUME NEW lost \in SUBSET Requests, LoseRequests(lost) PROVE ReadingsInv'
  <2>1. /\ req' = [r \in Requests |-> IF r \in lost THEN Idle ELSE req[r]]
        /\ UNCHANGED <<rows, odometer, overlapped>>
    BY <1>5 DEF LoseRequests
  <2>2. ReadingsTyped'
    BY <2>1, IdleCurrent DEF ReadingsInv, ReadingsTyped
  <2>3. ASSUME NEW o \in Requests, Current(req[o]) PROVE Current(req[o])'
    <3>1. CASE req'[o] = Idle
      BY <3>1, IdleCurrent
    <3>2. CASE req'[o] = req[o]
      BY <2>1, <2>3, <3>2 DEF Current
    <3> QED BY <2>1, <3>1, <3>2
  <2>4. Alone => Alone'
    BY <2>1 DEF Alone
  <2> QED BY <2>1, <2>2, <2>3, <2>4 DEF ReadingsInv
<1>6. ASSUME NEW m \in Runs, InsertOwner(m) PROVE ReadingsInv'
  <2>1. \A v \in Vehicles : \A i \in DOMAIN rows[v] : rows'[v][i] = rows[v][i]
    BY <1>6, OwnerInserted DEF RecordsOf, RowAdded
  <2> QED BY <1>6, <2>1, PendingStays DEF InsertOwner, IsPending
<1>7. ASSUME NEW m \in Runs, NextPass(m) PROVE ReadingsInv'
  <2>1. UNCHANGED <<rows, odometer, req>> /\ overlapped' \in BOOLEAN
        /\ (~overlapped' => ~overlapped)
    BY <1>7 DEF NextPass
  <2> QED BY <2>1 DEF ReadingsInv, ReadingsTyped, Alone, Current
<1>8. CASE MigrationNext
  BY <1>1, <1>6, <1>7, <1>8
     DEF MigrationNext, Look, InsertRecord, InsertEvent, InsertCard, Interrupt,
         LegacyMoves, ownVars
<1> QED BY <1>2, <1>3, <1>4, <1>5, <1>8 DEF Next, OwnershipNext

\* A step that lowers the odometer confirms what is pending.
LEMMA FallStep ==
    ASSUME OwnInv, ReadingsInv, [Next]_vars, ~overlapped', NEW v \in Vehicles,
           odometer'[v] < odometer[v]
    PROVE  \E i \in DOMAIN rows[v] :
               /\ IsPending(rows[v][i]) /\ rows'[v][i].status = "CONFIRMED"
               /\ rows[v][i].km = odometer'[v]
<1>0. odometer \in [Vehicles -> Nat]
  BY DEF ReadingsInv, ReadingsTyped
<1>1. odometer' # odometer
  BY <1>0
<1>2. PICK r \in Requests : WriteConfirm(r) \/ WriteReport(r)
  <2>1. ASSUME NEW r \in Requests, TransferStep(r) PROVE WriteConfirm(r)
    BY <1>1, <2>1 DEF TransferStep, ReadOffer, ReadConfirm, ReadDecline, WriteOffer,
       WriteRefusal, Goes
  <2>2. ASSUME NEW r \in Requests, RecordStep(r) PROVE WriteReport(r)
    BY <1>1, <2>2 DEF RecordStep, ReadRegister, CreateVehicle, ReadReport, LinkOwner, Goes
  <2>3. ASSUME NEW r \in Requests, FleetStep(r) PROVE FALSE
    BY <1>1, <2>3 DEF FleetStep, ReadJoin, ReadLeave, WriteJoin, JoinRejected, WriteLeave, Goes
  <2>4. ~MigrationNext
    BY <1>1 DEF MigrationNext, NextPass, Look, InsertRecord, InsertEvent, InsertCard,
       InsertOwner, Interrupt, LegacyMoves, ownVars
  <2>5. OwnershipNext
    BY <1>1, <2>4 DEF Next, vars, ownVars
  <2> QED BY <1>1, <2>1, <2>2, <2>3, <2>5 DEF OwnershipNext, PassWeek, LoseRequests
<1>3. ~overlapped /\ Current(req[r]) /\ Shape(req[r])
  BY <1>2 DEF WriteConfirm, WriteReport, Writes, ReadingsInv, OwnInv, RequestsTyped
<1>4. CASE WriteReport(r)
  <2>1. req[r].vehicle \in Vehicles /\ req[r].km \in Nat
    BY <1>4 DEF WriteReport, ReadingsInv, ReadingsTyped
  <2> QED BY <1>0, <1>3, <1>4, <2>1 DEF WriteReport, Current
<1>5. CASE WriteConfirm(r)
  <2> DEFINE q == req[r]
             old == rows[q.vehicle]
  <2>1. q.vehicle \in Vehicles /\ q.row \in DOMAIN old
    BY <1>3, <1>5 DEF WriteConfirm, Shape
  <2>2. v = q.vehicle /\ odometer'[v] = q.km
    BY <1>0, <1>5, <2>1 DEF WriteConfirm
  <2>3. rows'[v][q.row] = Settled(old[q.row], "CONFIRMED")
    BY <1>5, <2>1, <2>2 DEF WriteConfirm, Writes, OwnInv, RowsTyped
  <2>4. old[q.row] \in Rows
    BY <2>1, RowTypes
  <2>5. rows'[v][q.row].status = "CONFIRMED"
    BY <2>3, <2>4, SettledRow
  <2> QED BY <1>3, <1>5, <2>1, <2>2, <2>5 DEF Current, WriteConfirm
<1> QED BY <1>2, <1>4, <1>5

LEMMA InitReadings == Init => ReadingsInv
<1> SUFFICES ASSUME Init PROVE ReadingsInv
  OBVIOUS
<1>1. \A r \in Requests : req[r] = Idle /\ req[r].pc = "idle"
  BY DEF Init, OwnershipInit, Idle
<1>2. odometer \in [Vehicles -> Nat] /\ overlapped = FALSE
  BY DEF Init, OwnershipInit
<1> QED BY <1>1, <1>2 DEF ReadingsInv, ReadingsTyped, Alone, Current

\* Until two requests overlap, a reading never lowers the odometer: it falls only
\* when a transfer is confirmed, to the reading the offer was made with.
THEOREM OdometerFallsRightly == Spec => OdometerFallsByTransferOnly
<1>1. Init => RunsTyped
  BY DEF Init, RunsTyped, NoRun, RunRecords
<1>2. Init => ReadingsInv
  BY InitReadings
<1>3. OwnInv /\ ReadingsInv /\ [Next]_vars =>
        [~overlapped' =>
          \A v \in Vehicles :
            odometer'[v] < odometer[v] =>
                \E i \in DOMAIN rows[v] :
                    /\ IsPending(rows[v][i]) /\ rows'[v][i].status = "CONFIRMED"
                    /\ rows[v][i].km = odometer'[v]]_ownVars
  BY FallStep
<1>4. RunsTyped /\ OwnInv /\ ReadingsInv /\ [Next]_vars => ReadingsInv'
  BY CurrentStep
<1> QED BY <1>1, <1>2, <1>3, <1>4, InitOwn, OwnStep, RunStep, PTL
        DEF Spec, OdometerFallsByTransferOnly

-----------------------------------------------------------------------------
(* The migration carries everything over, and nothing twice. *)

SameOrigin(new, old) ==
    new.user = old.user /\ new.type = old.type /\ new.offered = old.offered

\* No row is lost, and whose it is and how it began stays.
RowsKept ==
    \A v \in Vehicles : \A i \in DOMAIN rows[v] :
        i \in DOMAIN rows'[v] /\ SameOrigin(rows'[v][i], rows[v][i])

NoneMigrated ==
    \A v \in Vehicles : \A i \in DOMAIN rows'[v] :
        IsMigrated(rows'[v][i]) => i \in DOMAIN rows[v]

LEMMA AppendKeeps ==
    ASSUME OwnInv, NEW v \in Vehicles, NEW row \in Rows,
           rows' = [rows EXCEPT ![v] = Append(rows[v], row)], ~IsMigrated(row)
    PROVE  RowsKept /\ NoneMigrated
<1>1. RowAdded(v, row)
  BY AppendAdds
<1> QED BY <1>1 DEF RowAdded, RowsKept, NoneMigrated, SameOrigin

LEMMA RewriteKeeps ==
    ASSUME OwnInv, NEW v \in Vehicles, NEW new, rows' = [rows EXCEPT ![v] = new],
           DOMAIN new = DOMAIN rows[v],
           \A i \in DOMAIN rows[v] : SameOrigin(new[i], rows[v][i])
    PROVE  RowsKept /\ NoneMigrated
<1>1. rows'[v] = new /\ \A w \in Vehicles \ {v} : rows'[w] = rows[w]
  BY DEF OwnInv, RowsTyped
<1> QED BY <1>1 DEF RowsKept, NoneMigrated, SameOrigin

LEMMA SettledOrigin ==
    ASSUME NEW row \in Rows, NEW status \in {"CONFIRMED", "OVER"}
    PROVE  SameOrigin(Settled(row, status), row)
BY DEF Settled, Rows, SameOrigin

LEMMA RequestKeepsRows ==
    ASSUME OwnInv, NEW r \in Requests, TransferStep(r) \/ RecordStep(r) \/ FleetStep(r)
    PROVE  RowsKept /\ NoneMigrated
<1>0. Shape(req[r]) /\ NoFleet \notin Fleets
  BY OwnershipAssumption DEF OwnInv, RequestsTyped
<1>1. CASE UNCHANGED rows
  BY <1>1 DEF RowsKept, NoneMigrated, SameOrigin
<1>2. CASE WriteOffer(r)
  <2> DEFINE q == req[r]
  <2>1. q.vehicle \in Vehicles /\ q.user \in Users /\ q.type \in TransferTypes /\ q.km \in Kms
    BY <1>0, <1>2, OwnershipAssumption DEF WriteOffer, Shape, TransferTypes
  <2>2. PICK row : row = [NewRow(q.user, q.type) EXCEPT
                            !.status = "PENDING", !.offered = TRUE, !.km = q.km]
    OBVIOUS
  <2>3. row \in Rows /\ row.offered = TRUE
    BY <2>1, <2>2 DEF NewRow, Rows, TransferStatuses
  <2>4. rows' = [rows EXCEPT ![q.vehicle] = Append(rows[q.vehicle], row)]
    BY <1>2, <2>2 DEF WriteOffer, Writes
  <2> HIDE DEF q
  <2> QED BY <2>1, <2>3, <2>4, AppendKeeps DEF IsMigrated
<1>3. CASE WriteConfirm(r)
  <2> DEFINE old == rows[req[r].vehicle]
  <2>1. req[r].vehicle \in Vehicles
    BY <1>0, <1>3 DEF WriteConfirm, Shape
  <2>2. PICK new : new = [i \in DOMAIN old |->
                 IF i = req[r].row THEN Settled(old[i], "CONFIRMED")
                 ELSE IF IsOpen(old[i]) THEN [old[i] EXCEPT !.open = FALSE]
                 ELSE old[i]]
    OBVIOUS
  <2>3. ASSUME NEW i \in DOMAIN old PROVE SameOrigin(new[i], old[i])
    <3>1. old[i] \in Rows
      BY <2>1, RowTypes
    <3>2. CASE i = req[r].row
      BY <2>2, <3>1, <3>2, SettledOrigin
    <3>3. CASE i # req[r].row
      BY <2>2, <3>1, <3>3 DEF SameOrigin, Rows
    <3> QED BY <3>2, <3>3
  <2>4. rows' = [rows EXCEPT ![req[r].vehicle] = new]
    BY <1>3, <2>2 DEF WriteConfirm, Writes
  <2> QED BY <2>1, <2>2, <2>3, <2>4, RewriteKeeps
<1>4. CASE WriteRefusal(r)
  <2> DEFINE old == rows[req[r].vehicle]
  <2>1. req[r].vehicle \in Vehicles /\ req[r].row \in DOMAIN old
    BY <1>0, <1>4 DEF WriteRefusal, Shape
  <2>2. PICK new : new = [old EXCEPT ![req[r].row] = Settled(old[req[r].row], "OVER")]
    OBVIOUS
  <2>a. old = [i \in DOMAIN old |-> old[i]]
    BY <2>1, RowTypes
  <2>3. ASSUME NEW i \in DOMAIN old PROVE SameOrigin(new[i], old[i])
    <3>1. old[i] \in Rows
      BY <2>1, RowTypes
    <3>2. CASE i = req[r].row
      <4>1. new[i] = Settled(old[i], "OVER")
        BY <2>1, <2>2, <2>a, <3>2
      <4> QED BY <3>1, <4>1, SettledOrigin
    <3>3. CASE i # req[r].row
      BY <2>2, <2>a, <3>3 DEF SameOrigin
    <3> QED BY <3>2, <3>3
  <2>4. rows' = [rows EXCEPT ![req[r].vehicle] = new] /\ DOMAIN new = DOMAIN old
    BY <1>4, <2>2, <2>a DEF WriteRefusal, Writes
  <2> QED BY <2>1, <2>3, <2>4, RewriteKeeps
<1>5. CASE LinkOwner(r)
  <2>1. req[r].vehicle \in Vehicles /\ req[r].user \in Users
    BY <1>0, <1>5 DEF LinkOwner, Shape
  <2>2. PICK row : row = NewRow(req[r].user, "SALE")
    OBVIOUS
  <2>3. row \in Rows /\ ~IsMigrated(row)
    BY <2>1, <2>2, NewRowTypes DEF TransferTypes, IsMigrated
  <2>4. rows' = [rows EXCEPT ![req[r].vehicle] = Append(rows[req[r].vehicle], row)]
    BY <1>5, <2>2 DEF LinkOwner, Writes
  <2> QED BY <2>1, <2>3, <2>4, AppendKeeps
<1>6. CASE WriteJoin(r)
  <2>1. PICK v \in Vehicles, f \in Fleets : v = req[r].vehicle /\ f = req[r].fleet
    BY <1>0, <1>6 DEF WriteJoin, Shape
  <2>2. PICK row : row = NewRow(FleetOwner[f], "FLEET_ASSIGNMENT")
    OBVIOUS
  <2>3. row \in Rows /\ ~IsMigrated(row)
    <3>1. FleetOwner[f] \in Users /\ "FLEET_ASSIGNMENT" \in TransferTypes
      BY OwnershipAssumption DEF TransferTypes
    <3> QED BY <2>2, <3>1, NewRowTypes DEF IsMigrated
  <2>4. rows' = [rows EXCEPT ![v] = Append(rows[v], row)]
    BY <1>6, <2>1, <2>2 DEF WriteJoin, Writes
  <2> QED BY <2>3, <2>4, AppendKeeps
<1>7. CASE WriteLeave(r)
  <2>1. PICK v \in Vehicles, f \in Fleets : v = req[r].vehicle /\ f = req[r].fleet
    BY <1>0, <1>7 DEF WriteLeave, Shape
  <2>2. PICK new : new = [i \in DOMAIN rows[v] |->
              IF rows[v][i].user = FleetOwner[f] /\ rows[v][i].type = "FLEET_ASSIGNMENT"
                THEN [rows[v][i] EXCEPT !.open = FALSE] ELSE rows[v][i]]
    OBVIOUS
  <2>3. ASSUME NEW i \in DOMAIN rows[v] PROVE SameOrigin(new[i], rows[v][i])
    <3>1. rows[v][i] \in Rows
      BY RowTypes
    <3> QED BY <2>2, <3>1 DEF SameOrigin, Rows
  <2>4. rows' = [rows EXCEPT ![v] = new]
    BY <1>7, <2>1, <2>2 DEF WriteLeave, Writes
  <2> QED BY <2>2, <2>3, <2>4, RewriteKeeps
<1>8. UNCHANGED rows \/ WriteOffer(r) \/ WriteConfirm(r) \/ WriteRefusal(r) \/ LinkOwner(r)
        \/ WriteJoin(r) \/ WriteLeave(r)
  <2>1. CASE TransferStep(r)
    BY <2>1 DEF TransferStep, ReadOffer, ReadConfirm, ReadDecline, Goes
  <2>2. CASE RecordStep(r)
    BY <2>2 DEF RecordStep, ReadRegister, CreateVehicle, ReadReport, WriteReport, Goes
  <2>3. CASE FleetStep(r)
    BY <2>3 DEF FleetStep, ReadJoin, ReadLeave, JoinRejected, Goes
  <2> QED BY <2>1, <2>2, <2>3
<1> QED BY <1>1, <1>2, <1>3, <1>4, <1>5, <1>6, <1>7, <1>8

LEMMA OwnershipKeepsRows ==
    ASSUME OwnInv, OwnershipNext
    PROVE  RowsKept /\ NoneMigrated
<1>1. ASSUME NEW v \in Vehicles, PassWeek(v) PROVE RowsKept /\ NoneMigrated
  <2>1. PICK new : new = [i \in DOMAIN rows[v] |-> IF IsPending(rows[v][i])
                            THEN [rows[v][i] EXCEPT !.overdue = TRUE] ELSE rows[v][i]]
    OBVIOUS
  <2>2. ASSUME NEW i \in DOMAIN rows[v] PROVE SameOrigin(new[i], rows[v][i])
    <3>1. rows[v][i] \in Rows
      BY RowTypes
    <3> QED BY <2>1, <3>1 DEF SameOrigin, Rows
  <2>3. rows' = [rows EXCEPT ![v] = new]
    BY <1>1, <2>1 DEF PassWeek
  <2> QED BY <2>1, <2>2, <2>3, RewriteKeeps
<1>2. CASE UNCHANGED rows
  BY <1>2 DEF RowsKept, NoneMigrated, SameOrigin
<1> QED BY <1>1, <1>2, RequestKeepsRows DEF OwnershipNext, LoseRequests

Columns ==
    /\ legacyOf \in [Vehicles -> Legacy \cup {NoLegacy}]
    /\ plate = [v \in Vehicles |-> plate[v]]
    /\ \A v \in Vehicles : legacyOf[v] # NoLegacy => Exists(v)
    /\ legacyStatus \in [LegacyBookings -> ActiveStatuses \cup {"COMPLETED"}]
    /\ events \in [LegacyBookings -> Nat] /\ cards \in [LegacyBookings -> Nat]
    /\ faults \in Nat /\ overlapped \in BOOLEAN

\* The second and the third pass look at legacy bookings.
BookingItems ==
    \A m \in Runs : run[m].pass \in {2, 3} =>
        run[m].todo \subseteq LegacyBookings /\ run[m].item \in LegacyBookings \cup {NoItem}

\* A row the migration made is that of the legacy owner of the record.
MigratedOwners ==
    \A v \in Vehicles : \A i \in DOMAIN rows[v] : IsMigrated(rows[v][i]) =>
        legacyOf[v] # NoLegacy /\ rows[v][i].user = LegacyOwner[legacyOf[v]]

LegacyTyped == Columns /\ BookingItems /\ MigratedOwners

\* The pass of m has x before it.
Left(m, x) == x \in run[m].todo \/ run[m].item = x

\* What the passes of m have behind them is there.
Carried(m) ==
    /\ run[m].pass # 0 =>
         \A l \in Legacy : (run[m].pass = 1 /\ Left(m, l)) \/ RecordsOf(l) # {}
    /\ run[m].pass = 4 =>
         \A l \in Legacy : Left(m, l) \/ \E v \in RecordsOf(l) : HasLegacyRow(v, l)
    /\ run[m].clean /\ run[m].pass \in 2 .. 4 =>
         \A b \in LegacyBookings :
             BookedVehicle[b] # NoLegacy /\ legacyStatus[b] = "COMPLETED" =>
                 (run[m].pass = 2 /\ Left(m, b)) \/ events[b] > 0
    /\ run[m].clean /\ run[m].pass \in 3 .. 4 =>
         \A b \in LegacyBookings :
             BookedVehicle[b] # NoLegacy /\ legacyStatus[b] # "COMPLETED" =>
                 (run[m].pass = 3 /\ Left(m, b)) \/ cards[b] > 0 \/ b \notin HasTenant

\* What a run has found to need a row has none yet.
Fresh(m) ==
    run[m].item # NoItem =>
        /\ run[m].pass = 1 => RecordsOf(run[m].item) = {}
        /\ run[m].pass = 2 => events[run[m].item] = 0
        /\ run[m].pass = 3 => cards[run[m].item] = 0
        /\ run[m].pass = 4 => \A v \in RecordsOf(run[m].item) : \A i \in DOMAIN rows[v] :
                                  ~IsMigrated(rows[v][i])

OneRun == \A m, o \in Runs : run[m].pass # 0 /\ run[o].pass # 0 => m = o

Once ==
    /\ \A v, w \in Vehicles : legacyOf[v] = legacyOf[w] /\ legacyOf[v] # NoLegacy => v = w
    /\ \A b \in LegacyBookings : events[b] <= 1 /\ cards[b] <= 1
    /\ \A v \in Vehicles : \A i, j \in DOMAIN rows[v] :
           IsMigrated(rows[v][i]) /\ IsMigrated(rows[v][j]) => i = j

OnceInv == ~overlapped => OneRun /\ Once /\ \A m \in Runs : Fresh(m)

MigrationInv == LegacyTyped /\ \A m \in Runs : Carried(m)

LEMMA AtMostOne ==
    ASSUME NEW S, \A x, y \in S : x = y
    PROVE  Cardinality(S) <= 1
<1>1. CASE S = {}
  BY <1>1, FS_EmptySet
<1>2. CASE S # {}
  <2>1. PICK x \in S : S = {x}
    BY <1>2
  <2> QED BY <2>1, FS_Singleton
<1> QED BY <1>1, <1>2

\* What is there stays: records, events, cards, and whose the rows are.
Persists ==
    /\ \A v \in Vehicles : legacyOf[v] # NoLegacy => legacyOf'[v] = legacyOf[v]
    /\ \A b \in LegacyBookings :
         (events[b] > 0 => events'[b] > 0) /\ (cards[b] > 0 => cards'[b] > 0)
    /\ RowsKept

LEMMA PersistStep ==
    ASSUME RunsTyped, OwnInv, LegacyTyped, [Next]_vars
    PROVE  Persists
<1>0. events \in [LegacyBookings -> Nat] /\ cards \in [LegacyBookings -> Nat]
  BY DEF LegacyTyped, Columns
<1>1. ASSUME UNCHANGED rows PROVE RowsKept
  BY <1>1 DEF RowsKept, SameOrigin
<1>2. ASSUME UNCHANGED <<rows, legacyOf, events, cards>> PROVE Persists
  BY <1>0, <1>1, <1>2 DEF Persists
<1>3. CASE UNCHANGED vars
  BY <1>2, <1>3 DEF vars, ownVars, migrationVars
<1>4. CASE OwnershipNext /\ UNCHANGED migrationVars
  BY <1>0, <1>4, OwnershipKeepsRows DEF Persists, migrationVars
<1>5. ASSUME NEW m \in Runs, NEW v \in Vehicles, InsertRecord(m, v) PROVE Persists
  <2>1. legacyOf[v] = NoLegacy
    BY <1>5 DEF InsertRecord, LegacyTyped, Columns
  <2>2. \A w \in Vehicles \ {v} : legacyOf'[w] = legacyOf[w]
    BY <1>5 DEF InsertRecord, LegacyTyped, Columns
  <2> QED BY <1>0, <1>1, <1>5, <2>1, <2>2 DEF InsertRecord, Persists
<1>6. ASSUME NEW m \in Runs, InsertEvent(m) PROVE Persists
  <2>1. \A b \in LegacyBookings : events[b] > 0 => events'[b] > 0
    BY <1>0, <1>6 DEF InsertEvent
  <2> QED BY <1>0, <1>1, <1>6, <2>1 DEF InsertEvent, Persists, ownVars
<1>7. ASSUME NEW m \in Runs, InsertCard(m) PROVE Persists
  <2>1. \A b \in LegacyBookings : cards[b] > 0 => cards'[b] > 0
    BY <1>0, <1>7 DEF InsertCard
  <2> QED BY <1>0, <1>1, <1>7, <2>1 DEF InsertCard, Persists, ownVars
<1>8. ASSUME NEW m \in Runs, InsertOwner(m) PROVE Persists
  <2>1. RowsKept
    BY <1>8, OwnerInserted DEF RecordsOf, RowAdded, RowsKept, SameOrigin
  <2> QED BY <1>0, <1>8, <2>1 DEF InsertOwner, Persists
<1>9. CASE MigrationNext
  BY <1>2, <1>5, <1>6, <1>7, <1>8, <1>9
     DEF MigrationNext, NextPass, Look, Interrupt, LegacyMoves, ownVars
<1> QED BY <1>3, <1>4, <1>9 DEF Next

\* A record and the row of the legacy owner are found again.
LEMMA PersistFacts ==
    ASSUME LegacyTyped, Persists, NEW l \in Legacy
    PROVE  /\ \A v \in RecordsOf(l) : v \in Vehicles /\ legacyOf'[v] = l
           /\ \A v \in Vehicles : HasLegacyRow(v, l) => HasLegacyRow(v, l)'
<1>1. \A v \in RecordsOf(l) : v \in Vehicles /\ legacyOf'[v] = l
  BY MigrationAssumption DEF RecordsOf, Persists
<1>2. ASSUME NEW v \in Vehicles, HasLegacyRow(v, l) PROVE HasLegacyRow(v, l)'
  BY <1>2 DEF HasLegacyRow, Persists, RowsKept, SameOrigin
<1> QED BY <1>1, <1>2

\* The run m has as much before it as it had, but for the item x, which is done.
LEMMA CarriedStays ==
    ASSUME LegacyTyped, Persists, NEW m \in Runs, Carried(m), run'[m].pass = run[m].pass,
           run'[m].clean => run[m].clean = TRUE /\ UNCHANGED legacyStatus, NEW x,
           \A y \in Legacy \cup LegacyBookings : Left(m, y) => Left(m, y)' \/ y = x,
           run[m].pass = 1 /\ x \in Legacy => Left(m, x)' \/ RecordsOf(x)' # {},
           run[m].pass = 2 /\ x \in LegacyBookings /\ BookedVehicle[x] # NoLegacy =>
               Left(m, x)' \/ events'[x] > 0,
           run[m].pass = 3 /\ x \in LegacyBookings /\ BookedVehicle[x] # NoLegacy =>
               Left(m, x)' \/ cards'[x] > 0 \/ x \notin HasTenant,
           run[m].pass = 4 /\ x \in Legacy =>
               Left(m, x)' \/ (\E v \in RecordsOf(x) : HasLegacyRow(v, x))'
    PROVE  Carried(m)'
<1>0. \A b \in LegacyBookings :
        (events[b] > 0 => events'[b] > 0) /\ (cards[b] > 0 => cards'[b] > 0)
  BY DEF Persists
<1>1. ASSUME run[m].pass # 0, NEW l \in Legacy
      PROVE  (run[m].pass = 1 /\ Left(m, l)') \/ RecordsOf(l)' # {}
  <2>1. RecordsOf(l) # {} => RecordsOf(l)' # {}
    BY PersistFacts DEF RecordsOf
  <2> QED BY <1>1, <2>1 DEF Carried
<1>2. ASSUME run[m].pass = 4, NEW l \in Legacy
      PROVE  Left(m, l)' \/ (\E v \in RecordsOf(l) : HasLegacyRow(v, l))'
  <2>1. (\E v \in RecordsOf(l) : HasLegacyRow(v, l)) =>
            (\E v \in RecordsOf(l) : HasLegacyRow(v, l))'
    <3>1. ASSUME NEW v \in RecordsOf(l), HasLegacyRow(v, l)
          PROVE  v \in RecordsOf(l)' /\ HasLegacyRow(v, l)'
      BY <3>1, PersistFacts DEF RecordsOf
    <3> QED BY <3>1
  <2> QED BY <1>2, <2>1 DEF Carried
<1>3. ASSUME run'[m].clean, run[m].pass \in 2 .. 4, NEW b \in LegacyBookings,
             BookedVehicle[b] # NoLegacy, legacyStatus'[b] = "COMPLETED"
      PROVE  (run[m].pass = 2 /\ Left(m, b)') \/ events'[b] > 0
  <2>1. (run[m].pass = 2 /\ Left(m, b)) \/ events[b] > 0
    BY <1>3 DEF Carried
  <2> QED BY <1>3, <1>0, <2>1
<1>4. ASSUME run'[m].clean, run[m].pass \in 3 .. 4, NEW b \in LegacyBookings,
             BookedVehicle[b] # NoLegacy, legacyStatus'[b] # "COMPLETED"
      PROVE  (run[m].pass = 3 /\ Left(m, b)') \/ cards'[b] > 0 \/ b \notin HasTenant
  <2>1. (run[m].pass = 3 /\ Left(m, b)) \/ cards[b] > 0 \/ b \notin HasTenant
    BY <1>4 DEF Carried
  <2> QED BY <1>0, <1>4, <2>1
<1> QED BY <1>1, <1>2, <1>3, <1>4 DEF Carried

\* The step is none of the run m.
LEMMA CarriedAnyhow ==
    ASSUME LegacyTyped, Persists, NEW m \in Runs, Carried(m), run'[m].pass = run[m].pass,
           run'[m].clean => run[m].clean = TRUE /\ UNCHANGED legacyStatus,
           run'[m].todo = run[m].todo, run'[m].item = run[m].item
    PROVE  Carried(m)'
<1>1. NoItem \notin Legacy \cup LegacyBookings
  BY MigrationAssumption DEF NoItem
<1>2. \A y : Left(m, y) => Left(m, y)'
  BY DEF Left
<1> QED BY <1>1, <1>2, CarriedStays

\* The item of the run is done with.
LEMMA CarriedInserted ==
    ASSUME RunsTyped, LegacyTyped, Persists, NEW m \in Runs, Carried(m), Inserted(m),
           UNCHANGED legacyStatus, NEW x, x = run[m].item,
           run[m].pass = 1 => RecordsOf(x)' # {},
           run[m].pass = 2 => events'[x] > 0,
           run[m].pass = 3 => cards'[x] > 0,
           run[m].pass = 4 => (\E v \in RecordsOf(x) : HasLegacyRow(v, x))'
    PROVE  Carried(m)'
<1>1. run'[m].pass = run[m].pass /\ run'[m].todo = run[m].todo /\ run'[m].clean = run[m].clean
  BY DEF Inserted, RunsTyped, RunRecords
<1>2. \A y : Left(m, y) => Left(m, y)' \/ y = x
  BY <1>1 DEF Left
<1>3. run[m].clean = TRUE \/ run[m].clean = FALSE
  BY DEF RunsTyped, RunRecords
<1> QED BY <1>1, <1>2, <1>3, CarriedStays

LEMMA CarriedLook ==
    ASSUME RunsTyped, LegacyTyped, Persists, NEW m \in Runs, Carried(m),
           NEW x \in Legacy \cup LegacyBookings, Look(m, x)
    PROVE  Carried(m)'
<1>0. NoItem \notin Legacy \cup LegacyBookings
  BY MigrationAssumption DEF NoItem
<1>1. /\ run[m].item = NoItem /\ x \in run[m].todo
      /\ UNCHANGED <<rows, legacyOf, legacyStatus, events, cards>>
  BY DEF Look, ownVars
<1>2. PICK item : item = IF NeedsRow(run[m].pass, x) THEN x ELSE NoItem
  OBVIOUS
<1>3. run' = [run EXCEPT ![m].todo = @ \ {x}, ![m].item = item]
  BY <1>2 DEF Look
<1>4. /\ run'[m].pass = run[m].pass /\ run'[m].clean = run[m].clean
      /\ run'[m].todo = run[m].todo \ {x} /\ run'[m].item = item
  BY <1>3 DEF RunsTyped, RunRecords
<1>5. \A y \in Legacy \cup LegacyBookings : Left(m, y) => Left(m, y)' \/ y = x
  BY <1>0, <1>1, <1>4 DEF Left
<1>6. CASE NeedsRow(run[m].pass, x)
  <2>1. Left(m, x)'
    BY <1>2, <1>4, <1>6 DEF Left
  <2> QED BY <1>1, <1>4, <1>5, <2>1, CarriedStays
<1>7. CASE ~NeedsRow(run[m].pass, x)
  <2>1. \A l \in Legacy : run[m].pass \in 2 .. 4 => RecordsOf(l) # {}
    BY DEF Carried
  <2>2. run[m].pass = 1 /\ x \in Legacy => RecordsOf(x)' # {}
    BY <1>1, <1>7 DEF NeedsRow, RecordsOf
  <2>3. run[m].pass \in 2 .. 3 /\ x \in LegacyBookings /\ BookedVehicle[x] # NoLegacy =>
            RecordsOf(BookedVehicle[x]) # {}
    BY <2>1, MigrationAssumption
  <2>4. run[m].pass = 2 /\ x \in LegacyBookings /\ BookedVehicle[x] # NoLegacy => events'[x] > 0
    <3>1. run[m].pass = 2 /\ x \in LegacyBookings /\ BookedVehicle[x] # NoLegacy =>
              events[x] # 0
      BY <1>7, <2>3 DEF NeedsRow
    <3> QED BY <1>1, <3>1 DEF LegacyTyped, Columns
  <2>5. run[m].pass = 3 /\ x \in LegacyBookings /\ BookedVehicle[x] # NoLegacy =>
            cards'[x] > 0 \/ x \notin HasTenant
    <3>1. run[m].pass = 3 /\ x \in LegacyBookings /\ BookedVehicle[x] # NoLegacy =>
              cards[x] # 0 \/ x \notin HasTenant
      BY <1>7, <2>3 DEF NeedsRow
    <3> QED BY <1>1, <3>1 DEF LegacyTyped, Columns
  <2>6. run[m].pass = 4 /\ x \in Legacy => (\E v \in RecordsOf(x) : HasLegacyRow(v, x))'
    <3>1. run[m].pass = 4 /\ x \in Legacy => \E v \in RecordsOf(x) : HasLegacyRow(v, x)
      BY <1>7, <2>1 DEF NeedsRow
    <3> QED BY <1>1, <3>1 DEF RecordsOf, HasLegacyRow
  <2> QED BY <1>1, <1>4, <1>5, <2>2, <2>4, <2>5, <2>6, CarriedStays
<1> QED BY <1>6, <1>7

\* A pass starts with everything it is for before it, and the one before is done.
LEMMA CarriedPass ==
    ASSUME RunsTyped, LegacyTyped, NEW m \in Runs, Carried(m), NextPass(m)
    PROVE  Carried(m)'
<1>1. PICK pass \in 0 .. 4 : pass = (run[m].pass + 1) % 5
  BY DEF RunsTyped, RunRecords
<1>2. run[m].pass \in 0 .. 4 /\ (pass # 0 => pass = run[m].pass + 1)
  BY <1>1 DEF RunsTyped, RunRecords
<1>3. PICK next : next = [pass |-> pass, item |-> NoItem,
                          todo |-> IF pass = 0 THEN {} ELSE Items(pass),
                          clean |-> pass = 1 \/ run[m].clean]
  OBVIOUS
<1>4. run' = [run EXCEPT ![m] = next]
  BY <1>1, <1>3 DEF NextPass
<1>5. /\ run'[m].pass = pass /\ (pass # 0 => run'[m].todo = Items(pass))
      /\ pass # 1 /\ run'[m].clean => run[m].clean
  BY <1>3, <1>4 DEF RunsTyped
<1>6. /\ run[m].todo = {} /\ run[m].item = NoItem
      /\ UNCHANGED <<rows, legacyOf, legacyStatus, events, cards>>
  BY DEF NextPass
<1>7. \A y \in Legacy \cup LegacyBookings : ~Left(m, y)
  BY <1>6, MigrationAssumption DEF Left, NoItem
<1>8. ASSUME pass # 0, NEW l \in Legacy
      PROVE  (pass = 1 /\ Left(m, l)') \/ RecordsOf(l)' # {}
  <2>1. CASE pass = 1
    BY <1>5, <2>1 DEF Left, Items
  <2>2. CASE pass # 1
    BY <1>2, <1>6, <1>7, <1>8, <2>2 DEF Carried, RecordsOf
  <2> QED BY <2>1, <2>2
<1>9. ASSUME pass = 4, NEW l \in Legacy PROVE Left(m, l)'
  BY <1>5, <1>9 DEF Left, Items
<1>10. ASSUME run'[m].clean, pass \in 2 .. 4, NEW b \in LegacyBookings,
              BookedVehicle[b] # NoLegacy, legacyStatus'[b] = "COMPLETED"
       PROVE  (pass = 2 /\ Left(m, b)') \/ events'[b] > 0
  <2>1. CASE pass = 2
    BY <1>5, <1>6, <1>10, <2>1 DEF Left, Items
  <2>2. CASE pass # 2
    BY <1>2, <1>5, <1>6, <1>7, <1>10, <2>2 DEF Carried
  <2> QED BY <2>1, <2>2
<1>11. ASSUME run'[m].clean, pass \in 3 .. 4, NEW b \in LegacyBookings,
              BookedVehicle[b] # NoLegacy, legacyStatus'[b] # "COMPLETED"
       PROVE  (pass = 3 /\ Left(m, b)') \/ cards'[b] > 0 \/ b \notin HasTenant
  <2>1. CASE pass = 3
    <3>1. legacyStatus[b] \in ActiveStatuses
      BY <1>6, <1>11 DEF LegacyTyped, Columns
    <3>2. b \in Items(3)
      BY <3>1 DEF Items
    <3> QED BY <1>5, <2>1, <3>2 DEF Left
  <2>2. CASE pass # 3
    BY <1>2, <1>5, <1>6, <1>7, <1>11, <2>2 DEF Carried
  <2> QED BY <2>1, <2>2
<1> QED BY <1>5, <1>8, <1>9, <1>10, <1>11 DEF Carried

LEMMA CarriedStep ==
    ASSUME RunsTyped, OwnInv, LegacyTyped, [Next]_vars, NEW m \in Runs, Carried(m)
    PROVE  Carried(m)'
<1>0. Persists /\ run[m].clean \in BOOLEAN
  BY PersistStep DEF RunsTyped, RunRecords
<1>1. ASSUME run'[m] = run[m], UNCHANGED legacyStatus PROVE Carried(m)'
  BY <1>0, <1>1, CarriedAnyhow
<1>2. CASE UNCHANGED vars \/ UNCHANGED migrationVars
  BY <1>1, <1>2 DEF vars, migrationVars
<1>3. ASSUME NEW b \in LegacyBookings, LegacyMoves(b) PROVE Carried(m)'
  <2>1. run'[m] = [run[m] EXCEPT !.clean = FALSE] /\ run[m] \in RunRecords
    BY <1>3 DEF LegacyMoves, RunsTyped
  <2>2. /\ run'[m].pass = run[m].pass /\ run'[m].clean = FALSE
        /\ run'[m].todo = run[m].todo /\ run'[m].item = run[m].item
    BY <2>1 DEF RunRecords
  <2> QED BY <1>0, <2>2, CarriedAnyhow
<1>x. PICK x : x = run[m].item
  OBVIOUS
<1>4. ASSUME NEW v \in Vehicles, InsertRecord(m, v) PROVE Carried(m)'
  <2>1. legacyOf'[v] = x
    BY <1>4, <1>x DEF InsertRecord, LegacyTyped, Columns
  <2>2. RecordsOf(x)' # {}
    BY <2>1 DEF RecordsOf
  <2>3. Inserted(m) /\ UNCHANGED legacyStatus /\ run[m].pass = 1
    BY <1>4 DEF InsertRecord
  <2> QED BY <1>0, <2>2, <1>x, <2>3, CarriedInserted
<1>5. CASE InsertEvent(m)
  <2>1. /\ Inserted(m) /\ UNCHANGED legacyStatus /\ run[m].pass = 2
        /\ run[m].item \in LegacyBookings
    BY <1>5 DEF InsertEvent, LegacyTyped, BookingItems
  <2>2. events'[x] > 0
    BY <1>5, <1>x, <2>1 DEF InsertEvent, LegacyTyped, Columns
  <2> QED BY <1>0, <1>x, <2>1, <2>2, CarriedInserted
<1>6. CASE InsertCard(m)
  <2>1. /\ Inserted(m) /\ UNCHANGED legacyStatus /\ run[m].pass = 3
        /\ run[m].item \in LegacyBookings
    BY <1>6 DEF InsertCard, LegacyTyped, BookingItems
  <2>2. cards'[x] > 0
    BY <1>6, <1>x, <2>1 DEF InsertCard, LegacyTyped, Columns
  <2> QED BY <1>0, <1>x, <2>1, <2>2, CarriedInserted
<1>7. CASE InsertOwner(m)
  <2>1. Inserted(m) /\ UNCHANGED <<legacyOf, legacyStatus>> /\ run[m].pass = 4
    BY <1>7 DEF InsertOwner
  <2>3. PICK v \in RecordsOf(x) : RowAdded(v, NewRow(LegacyOwner[x], "LEGACY_MIGRATION"))
    BY <1>7, <1>x, OwnerInserted
  <2>4. PICK i \in DOMAIN rows'[v] : rows'[v][i] = NewRow(LegacyOwner[x], "LEGACY_MIGRATION")
    BY <2>3 DEF RowAdded
  <2>5. HasLegacyRow(v, x)'
    BY <2>4 DEF HasLegacyRow, NewRow
  <2>6. (\E w \in RecordsOf(x) : HasLegacyRow(w, x))'
    <3>1. v \in RecordsOf(x)'
      BY <2>1, <2>3 DEF RecordsOf
    <3> QED BY <2>5, <3>1
  <2> QED BY <1>0, <1>x, <2>1, <2>6, CarriedInserted
<1>8. CASE Interrupt(m)
  <2>1. run'[m].pass = 0
    BY <1>8 DEF Interrupt, RunsTyped, NoRun
  <2> QED BY <2>1 DEF Carried
<1>9. ASSUME NEW o \in Runs, o # m, NextPass(o) \/ (\E y : Look(o, y)) \/ Inserted(o)
             \/ Interrupt(o)
      PROVE  run'[m] = run[m]
  BY <1>9 DEF NextPass, Look, Inserted, Interrupt, RunsTyped
<1>10. ASSUME NEW o \in Runs, o # m,
         \/ NextPass(o) \/ (\E y \in Legacy \cup LegacyBookings : Look(o, y))
         \/ \E v \in Vehicles : InsertRecord(o, v)
         \/ InsertEvent(o) \/ InsertCard(o) \/ InsertOwner(o) \/ Interrupt(o)
       PROVE  Carried(m)'
  <2>1. UNCHANGED legacyStatus
    BY <1>10 DEF NextPass, Look, InsertRecord, InsertEvent, InsertCard, InsertOwner, Interrupt
  <2>2. run'[m] = run[m]
    BY <1>9, <1>10 DEF InsertRecord, InsertEvent, InsertCard, InsertOwner
  <2> QED BY <1>1, <2>1, <2>2
<1>11. CASE MigrationNext
  BY <1>0, <1>3, <1>4, <1>5, <1>6, <1>7, <1>8, <1>10, <1>11, CarriedPass, CarriedLook
     DEF MigrationNext
<1> QED BY <1>2, <1>11 DEF Next

\* What requests do to what the migration relies on.
LEMMA RequestsKeep ==
    ASSUME LegacyTyped, OwnershipNext
    PROVE  /\ plate' = [v \in Vehicles |-> plate'[v]]
           /\ \A v \in Vehicles : Exists(v) => Exists(v)'
           /\ faults' \in Nat /\ overlapped' \in BOOLEAN
<1>0. faults \in Nat /\ overlapped \in BOOLEAN /\ plate = [v \in Vehicles |-> plate[v]]
  BY DEF LegacyTyped, Columns
<1>1. ASSUME UNCHANGED plate, faults' = faults \/ faults' = faults + 1, overlapped' \in BOOLEAN
      PROVE  /\ plate' = [v \in Vehicles |-> plate'[v]]
             /\ \A v \in Vehicles : Exists(v) => Exists(v)'
             /\ faults' \in Nat /\ overlapped' \in BOOLEAN
  BY <1>0, <1>1 DEF Exists
<1>2. ASSUME NEW r, NEW next, Goes(r, next)
      PROVE  UNCHANGED plate /\ faults' = faults /\ overlapped' \in BOOLEAN
  BY <1>2 DEF Goes
<1>3. ASSUME NEW r \in Requests, NEW v \in Vehicles, CreateVehicle(r, v)
      PROVE  /\ plate' = [w \in Vehicles |-> plate'[w]]
             /\ \A w \in Vehicles : Exists(w) => Exists(w)'
             /\ faults' \in Nat /\ overlapped' \in BOOLEAN
  BY <1>0, <1>3 DEF CreateVehicle, Exists
<1>4. ASSUME NEW r \in Requests, TransferStep(r)
      PROVE  UNCHANGED plate /\ faults' = faults /\ overlapped' \in BOOLEAN
  <2>1. CASE WriteOffer(r) \/ WriteConfirm(r) \/ WriteRefusal(r)
    BY <1>0, <2>1 DEF WriteOffer, WriteConfirm, WriteRefusal, Writes
  <2>2. CASE ~(WriteOffer(r) \/ WriteConfirm(r) \/ WriteRefusal(r))
    <3>1. \E next : Goes(r, next)
      BY <1>4, <2>2 DEF TransferStep, ReadOffer, ReadConfirm, ReadDecline
    <3> QED BY <1>2, <3>1
  <2> QED BY <2>1, <2>2
<1>5. ASSUME NEW r \in Requests, RecordStep(r), \A v \in Vehicles : ~CreateVehicle(r, v)
      PROVE  UNCHANGED plate /\ faults' = faults /\ overlapped' \in BOOLEAN
  <2>1. CASE LinkOwner(r) \/ WriteReport(r)
    BY <1>0, <2>1 DEF LinkOwner, WriteReport, Writes
  <2>2. CASE ~(LinkOwner(r) \/ WriteReport(r))
    <3>1. \E next : Goes(r, next)
      BY <1>5, <2>2 DEF RecordStep, ReadRegister, ReadReport
    <3> QED BY <1>2, <3>1
  <2> QED BY <2>1, <2>2
<1>6. ASSUME NEW r \in Requests, FleetStep(r)
      PROVE  UNCHANGED plate /\ faults' = faults /\ overlapped' \in BOOLEAN
  <2>1. CASE WriteJoin(r) \/ WriteLeave(r)
    BY <1>0, <2>1 DEF WriteJoin, WriteLeave, Writes
  <2>2. CASE ~(WriteJoin(r) \/ WriteLeave(r))
    <3>1. \E next : Goes(r, next)
      BY <1>6, <2>2 DEF FleetStep, ReadJoin, ReadLeave, JoinRejected
    <3> QED BY <1>2, <3>1
  <2> QED BY <2>1, <2>2
<1>7. CASE (\E v \in Vehicles : PassWeek(v)) \/ \E lost \in SUBSET Requests : LoseRequests(lost)
  BY <1>0, <1>1, <1>7 DEF PassWeek, LoseRequests
<1> QED BY <1>1, <1>3, <1>4, <1>5, <1>6, <1>7 DEF OwnershipNext

LEMMA OwnersStep ==
    ASSUME RunsTyped, OwnInv, LegacyTyped, [Next]_vars
    PROVE  MigratedOwners'
<1>1. MigratedOwners /\ Persists
  BY PersistStep DEF LegacyTyped
<1>2. ASSUME NoneMigrated PROVE MigratedOwners'
  <2>1. ASSUME NEW v \in Vehicles, NEW i \in DOMAIN rows'[v], IsMigrated(rows'[v][i])
        PROVE  legacyOf'[v] # NoLegacy /\ rows'[v][i].user = LegacyOwner[legacyOf'[v]]
    <3>1. i \in DOMAIN rows[v] /\ SameOrigin(rows'[v][i], rows[v][i])
      BY <1>1, <1>2, <2>1 DEF NoneMigrated, Persists, RowsKept
    <3>2. IsMigrated(rows[v][i])
      BY <2>1, <3>1 DEF IsMigrated, SameOrigin
    <3> QED BY <1>1, <3>1, <3>2 DEF MigratedOwners, Persists, SameOrigin
  <2> QED BY <2>1 DEF MigratedOwners, IsMigrated
<1>3. CASE UNCHANGED rows
  BY <1>2, <1>3 DEF NoneMigrated
<1>4. ASSUME NEW m \in Runs, InsertOwner(m) PROVE MigratedOwners'
  <2>1. PICK l \in Legacy : l = run[m].item
    BY <1>4, OwnerInserted
  <2>2. PICK row : row = NewRow(LegacyOwner[l], "LEGACY_MIGRATION")
    OBVIOUS
  <2>3. PICK w \in RecordsOf(l) : RowAdded(w, row)
    BY <1>4, <2>1, <2>2, OwnerInserted
  <2>4. /\ legacyOf'[w] = l /\ l # NoLegacy /\ row.user = LegacyOwner[l] /\ w \in Vehicles
        /\ UNCHANGED legacyOf
    BY <1>4, <2>2, <2>3, MigrationAssumption DEF InsertOwner, RecordsOf, NewRow
  <2>5. ASSUME NEW v \in Vehicles, NEW i \in DOMAIN rows'[v], IsMigrated(rows'[v][i])
        PROVE  legacyOf'[v] # NoLegacy /\ rows'[v][i].user = LegacyOwner[legacyOf'[v]]
    <3>1. CASE v = w /\ i \notin DOMAIN rows[v]
      BY <2>3, <2>4, <3>1 DEF RowAdded
    <3>2. CASE ~(v = w /\ i \notin DOMAIN rows[v])
      <4>1. i \in DOMAIN rows[v] /\ rows'[v][i] = rows[v][i]
        BY <2>3, <3>2 DEF RowAdded
      <4> QED BY <1>1, <2>4, <2>5, <4>1 DEF MigratedOwners
    <3> QED BY <3>1, <3>2
  <2> QED BY <2>5 DEF MigratedOwners, IsMigrated
<1>5. CASE OwnershipNext
  BY <1>2, <1>5, OwnershipKeepsRows
<1>6. CASE MigrationNext
  BY <1>3, <1>4, <1>6 DEF MigrationNext, NextPass, Look, InsertRecord, InsertEvent, InsertCard,
     Interrupt, LegacyMoves, ownVars
<1> QED BY <1>3, <1>5, <1>6 DEF Next, vars, ownVars

LEMMA BookingItemsStep ==
    ASSUME RunsTyped, BookingItems, [Next]_vars
    PROVE  BookingItems'
<1>1. CASE UNCHANGED run
  BY <1>1 DEF BookingItems
<1>2. ASSUME NEW m \in Runs, NextPass(m) PROVE BookingItems'
  <2>1. PICK pass \in 0 .. 4 : pass = (run[m].pass + 1) % 5
    BY DEF RunsTyped, RunRecords
  <2>2. pass \in {2, 3} => Items(pass) \subseteq LegacyBookings
    BY DEF Items
  <2>3. PICK next : next = [pass |-> pass, item |-> NoItem,
                            todo |-> IF pass = 0 THEN {} ELSE Items(pass),
                            clean |-> pass = 1 \/ run[m].clean]
    OBVIOUS
  <2>4. next.item = NoItem /\ (next.pass \in {2, 3} => next.todo \subseteq LegacyBookings)
    BY <2>2, <2>3
  <2>5. run' = [run EXCEPT ![m] = next]
    BY <1>2, <2>1, <2>3 DEF NextPass
  <2> QED BY <2>4, <2>5 DEF RunsTyped, BookingItems
<1>3. ASSUME NEW m \in Runs, NEW x, Look(m, x) PROVE BookingItems'
  <2>1. PICK item : item = IF NeedsRow(run[m].pass, x) THEN x ELSE NoItem
    OBVIOUS
  <2>2. /\ run' = [run EXCEPT ![m].todo = @ \ {x}, ![m].item = item] /\ x \in run[m].todo
        /\ run[m] \in RunRecords
    BY <1>3, <2>1 DEF Look, RunsTyped, RunRecords
  <2>3. PICK next : next = [run[m] EXCEPT !.todo = @ \ {x}, !.item = item]
    OBVIOUS
  <2>4. /\ next.pass = run[m].pass /\ next.todo \subseteq run[m].todo
        /\ next.item \in run[m].todo \cup {NoItem}
    BY <2>1, <2>2, <2>3 DEF RunRecords
  <2>5. run'[m] = next /\ \A o \in Runs \ {m} : run'[o] = run[o]
    BY <2>2, <2>3 DEF RunsTyped
  <2> QED BY <2>4, <2>5 DEF BookingItems
<1>4. ASSUME NEW m \in Runs, Inserted(m) PROVE BookingItems'
  BY <1>4 DEF Inserted, RunsTyped, RunRecords, BookingItems
<1>5. ASSUME NEW m \in Runs, Interrupt(m) PROVE BookingItems'
  <2>1. NoRun.pass = 0
    BY DEF NoRun
  <2> QED BY <1>5, <2>1 DEF Interrupt, RunsTyped, BookingItems
<1>6. ASSUME NEW b \in LegacyBookings, LegacyMoves(b) PROVE BookingItems'
  BY <1>6 DEF LegacyMoves, RunsTyped, RunRecords, BookingItems
<1>7. CASE MigrationNext
  BY <1>2, <1>3, <1>4, <1>5, <1>6, <1>7
     DEF MigrationNext, InsertRecord, InsertEvent, InsertCard, InsertOwner
<1> QED BY <1>1, <1>7 DEF Next, vars, migrationVars

LEMMA LegacyStep ==
    ASSUME RunsTyped, OwnInv, LegacyTyped, [Next]_vars
    PROVE  LegacyTyped'
<1>0. Columns /\ BookingItems
  BY DEF LegacyTyped
<1>1. MigratedOwners' /\ BookingItems'
  BY <1>0, OwnersStep, BookingItemsStep
<1>2. ASSUME UNCHANGED vars PROVE Columns'
  <2>1. UNCHANGED <<plate, legacyOf, legacyStatus, events, cards, faults, overlapped>>
    BY <1>2 DEF vars, ownVars, migrationVars
  <2> QED BY <1>0, <2>1 DEF Columns, Exists
<1>3. ASSUME OwnershipNext, UNCHANGED migrationVars PROVE Columns'
  <2>1. UNCHANGED <<legacyOf, legacyStatus, events, cards>>
    BY <1>3 DEF migrationVars
  <2>2. LegacyTyped
    OBVIOUS
  <2> QED BY <1>0, <1>3, <2>1, <2>2, RequestsKeep DEF Columns
<1>4. ASSUME NEW m \in Runs, NextPass(m) PROVE Columns'
  <2>1. overlapped' \in BOOLEAN
    BY <1>4 DEF NextPass
  <2> QED BY <1>0, <1>4, <2>1 DEF NextPass, Exists, Columns
<1>5. ASSUME NEW m \in Runs, NEW v \in Vehicles, InsertRecord(m, v) PROVE Columns'
  <2>1. run[m].item \in Legacy
    BY <1>5 DEF InsertRecord, RunsTyped
  <2>2. PICK p \in {"legacy", "TEMP"} : plate' = [plate EXCEPT ![v] = p]
    BY <1>5 DEF InsertRecord
  <2>3. legacyOf' \in [Vehicles -> Legacy \cup {NoLegacy}]
    BY <1>0, <1>5, <2>1 DEF InsertRecord, Columns
  <2>4. /\ plate' = [w \in Vehicles |-> plate'[w]]
        /\ \A w \in Vehicles : legacyOf'[w] # NoLegacy => plate'[w] # "none"
    BY <1>0, <1>5, <2>2 DEF InsertRecord, Exists, Columns
  <2> QED BY <1>0, <1>5, <2>3, <2>4 DEF InsertRecord, Exists, Columns
<1>6. ASSUME NEW m \in Runs, InsertEvent(m) \/ InsertCard(m) PROVE Columns'
  <2>1. events' \in [LegacyBookings -> Nat] /\ cards' \in [LegacyBookings -> Nat]
    BY <1>0, <1>6 DEF InsertEvent, InsertCard, Columns
  <2> QED BY <1>0, <1>6, <2>1 DEF InsertEvent, InsertCard, Exists, Columns, ownVars
<1>7. ASSUME NEW m \in Runs, InsertOwner(m) \/ Interrupt(m) PROVE Columns'
  BY <1>0, <1>7 DEF InsertOwner, Interrupt, Exists, Columns
<1>8. ASSUME NEW m \in Runs, NEW x, Look(m, x) PROVE Columns'
  BY <1>0, <1>8 DEF Look, Exists, Columns, ownVars
<1>9. ASSUME NEW b \in LegacyBookings, LegacyMoves(b) PROVE Columns'
  BY <1>0, <1>9 DEF LegacyMoves, Exists, Columns, ownVars
<1>10. ASSUME MigrationNext PROVE Columns'
  BY <1>4, <1>5, <1>6, <1>7, <1>8, <1>9, <1>10 DEF MigrationNext
<1>11. Columns'
  BY <1>2, <1>3, <1>10 DEF Next
<1> QED BY <1>1, <1>11 DEF LegacyTyped

\* Requests and the legacy application leave to a run what it has found.
LEMMA FreshStays ==
    ASSUME OwnInv, OnceInv, ~overlapped', ~overlapped, NoneMigrated, RowsKept,
           UNCHANGED <<legacyOf, events, cards>>,
           \A m \in Runs : run'[m].pass = run[m].pass /\ run'[m].item = run[m].item
    PROVE  OnceInv'
<1>1. OneRun'
  BY DEF OnceInv, OneRun
<1>2. Once'
  <2>1. ASSUME NEW v \in Vehicles, NEW i \in DOMAIN rows'[v], IsMigrated(rows'[v][i])
        PROVE  i \in DOMAIN rows[v] /\ IsMigrated(rows[v][i])
    BY <2>1 DEF NoneMigrated, RowsKept, SameOrigin, IsMigrated
  <2>2. \A v \in Vehicles : \A i, j \in DOMAIN rows'[v] :
            IsMigrated(rows'[v][i]) /\ IsMigrated(rows'[v][j]) => i = j
    BY <2>1 DEF OnceInv, Once
  <2> QED BY <2>2 DEF OnceInv, Once, IsMigrated
<1>3. ASSUME NEW m \in Runs, run'[m].item # NoItem,
             run[m].pass = 4, NEW v \in RecordsOf(run[m].item), NEW i \in DOMAIN rows'[v]
      PROVE  ~IsMigrated(rows'[v][i])
  <2>1. \A j \in DOMAIN rows[v] : ~IsMigrated(rows[v][j])
    BY <1>3 DEF OnceInv, Fresh
  <2> QED BY <2>1, <1>3 DEF NoneMigrated, RowsKept, SameOrigin, IsMigrated, RecordsOf
<1>4. ASSUME NEW m \in Runs PROVE Fresh(m)'
  <2>1. Fresh(m)
    BY DEF OnceInv
  <2> QED BY <1>3, <2>1 DEF Fresh, RecordsOf, IsMigrated
<1> QED BY <1>1, <1>2, <1>4 DEF OnceInv

\* The only run there is goes on, and rows stay.
LEMMA OnceLook ==
    ASSUME RunsTyped, OwnInv, LegacyTyped, OnceInv, ~overlapped, NEW m \in Runs,
           NEW x \in Legacy \cup LegacyBookings, Look(m, x)
    PROVE  OnceInv'
<1>1. UNCHANGED <<rows, legacyOf, events, cards>>
  BY DEF Look, ownVars
<1>2. PICK item : item = IF NeedsRow(run[m].pass, x) THEN x ELSE NoItem
  OBVIOUS
<1>3. /\ run'[m].pass = run[m].pass /\ run'[m].item = item
      /\ \A o \in Runs \ {m} : run'[o] = run[o]
  BY <1>2 DEF Look, RunsTyped, RunRecords
<1>4. OneRun'
  BY <1>3 DEF OnceInv, OneRun
<1>5. Once'
  BY <1>1 DEF OnceInv, Once, IsMigrated
<1>6. Fresh(m)'
  <2>1. ASSUME item # NoItem, run[m].pass = 4, NEW v \in RecordsOf(x), NEW i \in DOMAIN rows[v]
        PROVE  ~IsMigrated(rows[v][i])
    <3>1. PICK w \in RecordsOf(x) : ~HasLegacyRow(w, x)
      BY <1>2, <2>1 DEF NeedsRow
    <3>2. x \in Legacy
      BY <2>1 DEF Look, RunsTyped
    <3>3. v = w /\ v \in Vehicles /\ legacyOf[v] = x
      BY <3>1, <3>2, MigrationAssumption DEF RecordsOf, OnceInv, Once
    <3> QED BY <2>1, <3>1, <3>3 DEF HasLegacyRow, LegacyTyped, MigratedOwners, IsMigrated
  <2>2. item # NoItem => item = x /\ NeedsRow(run[m].pass, x)
    BY <1>2
  <2>3. item # NoItem => /\ run[m].pass = 1 => RecordsOf(x) = {}
                         /\ run[m].pass = 2 => events[x] = 0
                         /\ run[m].pass = 3 => cards[x] = 0
    <3>1. run[m].pass = 1 /\ NeedsRow(1, x) => RecordsOf(x) = {}
      BY DEF NeedsRow
    <3>2. run[m].pass = 2 /\ NeedsRow(2, x) => events[x] = 0
      BY DEF NeedsRow
    <3>3. run[m].pass = 3 /\ NeedsRow(3, x) => cards[x] = 0
      BY DEF NeedsRow
    <3> QED BY <2>2, <3>1, <3>2, <3>3
  <2> QED BY <1>1, <1>3, <2>1, <2>2, <2>3 DEF Fresh, RecordsOf, IsMigrated
<1>7. ASSUME NEW o \in Runs \ {m} PROVE Fresh(o)'
  <2>1. Fresh(o)
    BY DEF OnceInv
  <2> QED BY <1>1, <1>3, <2>1 DEF Fresh, RecordsOf, IsMigrated
<1> QED BY <1>4, <1>5, <1>6, <1>7 DEF OnceInv

LEMMA OncePass ==
    ASSUME RunsTyped, OnceInv, NEW m \in Runs, NextPass(m), ~overlapped, ~overlapped'
    PROVE  OnceInv'
<1>1. PICK pass \in 0 .. 4 : pass = (run[m].pass + 1) % 5
  BY DEF RunsTyped, RunRecords
<1>2. run[m].pass \in 0 .. 4 /\ (run[m].pass = 0 => pass = 1)
  BY <1>1 DEF RunsTyped, RunRecords
<1>3. /\ run'[m].pass = pass /\ run'[m].item = NoItem
      /\ \A o \in Runs \ {m} : run'[o] = run[o]
      /\ UNCHANGED <<rows, legacyOf, events, cards>>
  BY <1>1 DEF NextPass, RunsTyped
<1>4. OneRun'
  <2>1. CASE pass = 1
    <3>1. \A o \in Runs : run[o].pass = 0
      BY <1>1, <2>1 DEF NextPass
    <3> QED BY <1>3, <3>1 DEF OneRun
  <2>2. CASE pass # 1
    BY <1>2, <1>3, <2>2 DEF OnceInv, OneRun
  <2> QED BY <2>1, <2>2
<1>5. Once'
  BY <1>3 DEF OnceInv, Once, IsMigrated
<1>6. ASSUME NEW o \in Runs PROVE Fresh(o)'
  <2>1. Fresh(o)
    BY DEF OnceInv
  <2> QED BY <1>3, <2>1 DEF Fresh, RecordsOf, IsMigrated
<1> QED BY <1>4, <1>5, <1>6 DEF OnceInv

\* The only run there is has inserted its row.
LEMMA OnceInserted ==
    ASSUME RunsTyped, OnceInv, ~overlapped, NEW m \in Runs, run[m].pass # 0, Inserted(m), Once'
    PROVE  OnceInv'
<1>1. /\ run'[m].pass = run[m].pass /\ run'[m].item = NoItem
      /\ \A o \in Runs \ {m} : run'[o] = run[o]
  BY DEF Inserted, RunsTyped, RunRecords
<1>2. OneRun'
  BY <1>1 DEF OnceInv, OneRun
<1>3. \A o \in Runs \ {m} : run'[o].pass = 0
  BY <1>1 DEF OnceInv, OneRun
<1>4. \A o \in Runs : Fresh(o)'
  BY <1>1, <1>3 DEF Fresh
<1> QED BY <1>2, <1>4 DEF OnceInv

LEMMA OnceInserts ==
    ASSUME RunsTyped, OwnInv, LegacyTyped, OnceInv, ~overlapped, NEW m \in Runs,
           \/ \E v \in Vehicles : InsertRecord(m, v)
           \/ InsertEvent(m) \/ InsertCard(m) \/ InsertOwner(m)
    PROVE  OnceInv'
<1>0. Once /\ Fresh(m)
  BY DEF OnceInv
<1>1. Inserted(m) /\ run[m].pass # 0 /\ run[m].item # NoItem
  BY DEF InsertRecord, InsertEvent, InsertCard, InsertOwner
<1>2. ASSUME NEW v \in Vehicles, InsertRecord(m, v) PROVE Once'
  <2>1. PICK l : l = run[m].item
    OBVIOUS
  <2>2. RecordsOf(l) = {} /\ UNCHANGED <<rows, events, cards>>
    BY <1>0, <1>1, <1>2, <2>1 DEF Fresh, InsertRecord
  <2>3. legacyOf'[v] = l /\ \A w \in Vehicles \ {v} : legacyOf'[w] = legacyOf[w]
    BY <1>2, <2>1 DEF InsertRecord, LegacyTyped, Columns
  <2>4. \A u, w \in Vehicles : legacyOf'[u] = legacyOf'[w] /\ legacyOf'[u] # NoLegacy => u = w
    BY <1>0, <2>2, <2>3 DEF Once, RecordsOf
  <2> QED BY <1>0, <2>2, <2>4 DEF Once, IsMigrated
<1>3. ASSUME InsertEvent(m) PROVE Once'
  <2>1. events[run[m].item] = 0
    BY <1>0, <1>1, <1>3 DEF Fresh, InsertEvent
  <2>2. \A b \in LegacyBookings : events'[b] <= 1
    BY <1>0, <1>3, <2>1 DEF Once, InsertEvent, LegacyTyped, Columns
  <2>3. UNCHANGED <<rows, legacyOf, cards>>
    BY <1>3 DEF InsertEvent, ownVars
  <2> QED BY <1>0, <2>2, <2>3 DEF Once, IsMigrated
<1>4. ASSUME InsertCard(m) PROVE Once'
  <2>1. cards[run[m].item] = 0
    BY <1>0, <1>1, <1>4 DEF Fresh, InsertCard
  <2>2. \A b \in LegacyBookings : cards'[b] <= 1
    BY <1>0, <1>4, <2>1 DEF Once, InsertCard, LegacyTyped, Columns
  <2>3. UNCHANGED <<rows, legacyOf, events>>
    BY <1>4 DEF InsertCard, ownVars
  <2> QED BY <1>0, <2>2, <2>3 DEF Once, IsMigrated
<1>5. ASSUME InsertOwner(m) PROVE Once'
  <2>1. PICK row : row = NewRow(LegacyOwner[run[m].item], "LEGACY_MIGRATION")
    OBVIOUS
  <2>2. PICK v \in RecordsOf(run[m].item) : RowAdded(v, row)
    BY <1>5, <2>1, OwnerInserted
  <2>3. v \in Vehicles /\ \A i \in DOMAIN rows[v] : ~IsMigrated(rows[v][i])
    BY <1>0, <1>1, <1>5 DEF Fresh, InsertOwner, RecordsOf
  <2>4. ASSUME NEW w \in Vehicles, NEW i \in DOMAIN rows'[w], NEW j \in DOMAIN rows'[w],
               IsMigrated(rows'[w][i]), IsMigrated(rows'[w][j])
        PROVE  i = j
    <3>1. CASE w = v
      BY <2>2, <2>3, <2>4, <3>1 DEF RowAdded
    <3>2. CASE w # v
      BY <1>0, <2>2, <2>4, <3>2 DEF RowAdded, Once
    <3> QED BY <3>1, <3>2
  <2>5. UNCHANGED <<legacyOf, events, cards>>
    BY <1>5 DEF InsertOwner
  <2>6. (\A w \in Vehicles : \A i, j \in DOMAIN rows[w] :
           IsMigrated(rows[w][i]) /\ IsMigrated(rows[w][j]) => i = j)'
    BY <2>4 DEF IsMigrated
  <2> QED BY <1>0, <2>5, <2>6 DEF Once
<1> QED BY <1>1, <1>2, <1>3, <1>4, <1>5, OnceInserted

LEMMA OnceStep ==
    ASSUME RunsTyped, OwnInv, LegacyTyped, OnceInv, [Next]_vars
    PROVE  OnceInv'
<1> SUFFICES ASSUME ~overlapped' PROVE OnceInv'
  BY DEF OnceInv
<1>0. ~overlapped
  <2>1. CASE overlapped' = overlapped
    BY <2>1
  <2>2. ASSUME NEW r \in Requests, NEW next, Goes(r, next) PROVE ~overlapped
    BY <2>2 DEF Goes
  <2>3. ASSUME NEW m \in Runs, NextPass(m) PROVE ~overlapped
    BY <2>3 DEF NextPass
  <2>4. ASSUME NEW r \in Requests, TransferStep(r) PROVE ~overlapped
    <3>1. CASE WriteOffer(r) \/ WriteConfirm(r) \/ WriteRefusal(r)
      BY <2>1, <3>1 DEF WriteOffer, WriteConfirm, WriteRefusal, Writes
    <3>2. CASE ~(WriteOffer(r) \/ WriteConfirm(r) \/ WriteRefusal(r))
      <4>1. \E next : Goes(r, next)
        BY <2>4, <3>2 DEF TransferStep, ReadOffer, ReadConfirm, ReadDecline
      <4> QED BY <2>2, <4>1
    <3> QED BY <3>1, <3>2
  <2>5. ASSUME NEW r \in Requests, RecordStep(r) PROVE ~overlapped
    <3>1. CASE LinkOwner(r) \/ WriteReport(r) \/ \E v \in Vehicles : CreateVehicle(r, v)
      BY <2>1, <3>1 DEF LinkOwner, WriteReport, CreateVehicle, Writes
    <3>2. CASE ~(LinkOwner(r) \/ WriteReport(r) \/ \E v \in Vehicles : CreateVehicle(r, v))
      <4>1. \E next : Goes(r, next)
        BY <2>5, <3>2 DEF RecordStep, ReadRegister, ReadReport
      <4> QED BY <2>2, <4>1
    <3> QED BY <3>1, <3>2
  <2>6. ASSUME NEW r \in Requests, FleetStep(r) PROVE ~overlapped
    <3>1. CASE WriteJoin(r) \/ WriteLeave(r)
      BY <2>1, <3>1 DEF WriteJoin, WriteLeave, Writes
    <3>2. CASE ~(WriteJoin(r) \/ WriteLeave(r))
      <4>1. \E next : Goes(r, next)
        BY <2>6, <3>2 DEF FleetStep, ReadJoin, ReadLeave, JoinRejected
      <4> QED BY <2>2, <4>1
    <3> QED BY <3>1, <3>2
  <2>7. CASE OwnershipNext
    BY <2>1, <2>4, <2>5, <2>6, <2>7 DEF OwnershipNext, PassWeek, LoseRequests
  <2>8. CASE MigrationNext
    BY <2>1, <2>3, <2>8 DEF MigrationNext, Look, InsertRecord, InsertEvent, InsertCard,
       InsertOwner, Interrupt, LegacyMoves, ownVars
  <2> QED BY <2>1, <2>7, <2>8 DEF Next, vars, ownVars
<1>1. CASE UNCHANGED vars
  BY <1>0, <1>1, FreshStays DEF vars, ownVars, migrationVars, NoneMigrated, RowsKept, SameOrigin
<1>2. CASE OwnershipNext /\ UNCHANGED migrationVars
  BY <1>0, <1>2, OwnershipKeepsRows, FreshStays DEF migrationVars
<1>3. ASSUME NEW b \in LegacyBookings, LegacyMoves(b) PROVE OnceInv'
  <2>1. \A m \in Runs : run'[m].pass = run[m].pass /\ run'[m].item = run[m].item
    BY <1>3 DEF LegacyMoves, RunsTyped, RunRecords
  <2>2. NoneMigrated /\ RowsKept /\ UNCHANGED <<legacyOf, events, cards>>
    BY <1>3 DEF LegacyMoves, ownVars, NoneMigrated, RowsKept, SameOrigin
  <2> QED BY <1>0, <2>1, <2>2, FreshStays
<1>4. ASSUME NEW m \in Runs, Interrupt(m) PROVE OnceInv'
  <2>1. /\ run'[m].pass = 0 /\ run'[m].item = NoItem
        /\ \A o \in Runs \ {m} : run'[o] = run[o]
        /\ UNCHANGED <<rows, legacyOf, events, cards>>
    BY <1>4 DEF Interrupt, RunsTyped, NoRun
  <2>2. OneRun' /\ Once'
    BY <1>0, <2>1 DEF OnceInv, OneRun, Once, IsMigrated
  <2>3. ASSUME NEW o \in Runs PROVE Fresh(o)'
    <3>1. Fresh(o)
      BY <1>0 DEF OnceInv
    <3> QED BY <2>1, <3>1 DEF Fresh, RecordsOf, IsMigrated
  <2> QED BY <2>2, <2>3 DEF OnceInv
<1>5. CASE MigrationNext
  BY <1>0, <1>3, <1>4, <1>5, OncePass, OnceLook, OnceInserts DEF MigrationNext
<1> QED BY <1>1, <1>2, <1>5 DEF Next

LEMMA InitMigration == Init => MigrationInv /\ OnceInv
<1> SUFFICES ASSUME Init PROVE MigrationInv /\ OnceInv
  OBVIOUS
<1>1. \A v \in Vehicles : legacyOf[v] = NoLegacy /\ DOMAIN rows[v] = {}
  <2>1. DOMAIN <<>> = {}
    OBVIOUS
  <2> QED BY <2>1 DEF Init, OwnershipInit
<1>2. \A m \in Runs : run[m].pass = 0 /\ run[m].item = NoItem
  BY DEF Init, NoRun
<1>3. Columns
  <2>1. legacyStatus \in [LegacyBookings -> ActiveStatuses \cup {"COMPLETED"}]
    BY DEF Init, ActiveStatuses
  <2>2. plate = [v \in Vehicles |-> plate[v]] /\ faults \in Nat /\ overlapped \in BOOLEAN
    BY DEF Init, OwnershipInit
  <2>3. /\ legacyOf \in [Vehicles -> Legacy \cup {NoLegacy}]
        /\ events \in [LegacyBookings -> Nat] /\ cards \in [LegacyBookings -> Nat]
    BY DEF Init
  <2> QED BY <1>1, <2>1, <2>2, <2>3 DEF Columns
<1>4. LegacyTyped
  BY <1>1, <1>2, <1>3 DEF LegacyTyped, BookingItems, MigratedOwners
<1>5. \A m \in Runs : Carried(m) /\ Fresh(m)
  BY <1>2 DEF Carried, Fresh
<1>6. Once /\ OneRun
  <2>1. \A b \in LegacyBookings : events[b] = 0 /\ cards[b] = 0
    BY DEF Init
  <2> QED BY <1>1, <1>2, <2>1 DEF Once, OneRun
<1> QED BY <1>4, <1>5, <1>6 DEF MigrationInv, OnceInv

\* A run that ends has everything behind it.
LEMMA EndStep ==
    ASSUME RunsTyped, MigrationInv, [Next]_vars, NEW m \in Runs,
           run[m].pass = 4, run'[m].pass = 0, run[m].clean, faults' = faults
    PROVE  /\ \A l \in Legacy : \E v \in RecordsOf(l) : HasLegacyRow(v, l)
           /\ \A b \in LegacyBookings :
                BookedVehicle[b] # NoLegacy =>
                    \/ legacyStatus[b] = "COMPLETED" /\ events[b] > 0
                    \/ legacyStatus[b] # "COMPLETED" /\ (cards[b] > 0 \/ b \notin HasTenant)
<1>1. NextPass(m)
  <2>1. run' # run
    OBVIOUS
  <2>2. MigrationNext
    BY <2>1 DEF Next, vars, migrationVars
  <2>3. ASSUME NEW o \in Runs, Inserted(o) PROVE FALSE
    BY <2>3 DEF Inserted, RunsTyped, RunRecords
  <2>4. ASSUME NEW o \in Runs, NEW x, Look(o, x) PROVE FALSE
    BY <2>4 DEF Look, RunsTyped, RunRecords
  <2>5. ASSUME NEW b \in LegacyBookings, LegacyMoves(b) PROVE FALSE
    BY <2>5 DEF LegacyMoves, RunsTyped, RunRecords
  <2>6. ASSUME NEW o \in Runs, Interrupt(o) PROVE FALSE
    BY <2>6 DEF Interrupt, MigrationInv, LegacyTyped, Columns
  <2>7. ASSUME NEW o \in Runs, o # m, NextPass(o) PROVE FALSE
    BY <2>7 DEF NextPass, RunsTyped
  <2> QED BY <2>2, <2>3, <2>4, <2>5, <2>6, <2>7
          DEF MigrationNext, InsertRecord, InsertEvent, InsertCard, InsertOwner
<1>2. \A x \in Legacy \cup LegacyBookings : ~Left(m, x)
  BY <1>1, MigrationAssumption DEF NextPass, Left, NoItem
<1> QED BY <1>2 DEF MigrationInv, Carried

\* The migration leaves every vehicle with its record and its owner and every
\* booking with its event or card when a run ends on data at rest, and makes none
\* of them twice until two runs overlap.
THEOREM RunsCarryAll == Spec => RunCarriesAll
<1>1. Init => RunsTyped
  BY DEF Init, RunsTyped, NoRun, RunRecords
<1>2. RunsTyped /\ OwnInv /\ MigrationInv /\ OnceInv /\ [Next]_vars => MigrationInv' /\ OnceInv'
  BY LegacyStep, CarriedStep, OnceStep DEF MigrationInv
<1>3. OnceInv' => (~overlapped' => MigratedOnce')
  <2> SUFFICES ASSUME OnceInv', ~overlapped' PROVE MigratedOnce'
    OBVIOUS
  <2>1. ASSUME NEW l \in Legacy PROVE Cardinality(RecordsOf(l)') <= 1
    <3>1. \A v, w \in RecordsOf(l)' : v = w
      BY MigrationAssumption DEF OnceInv, Once, RecordsOf
    <3> QED BY <3>1, AtMostOne
  <2>2. ASSUME NEW v \in Vehicles
        PROVE  Cardinality({i \in DOMAIN rows'[v] : IsMigrated(rows'[v][i])}) <= 1
    <3>1. \A i, j \in {k \in DOMAIN rows'[v] : IsMigrated(rows'[v][k])} : i = j
      BY DEF OnceInv, Once, IsMigrated
    <3> QED BY <3>1, AtMostOne
  <2>3. \A b \in LegacyBookings : events'[b] <= 1 /\ cards'[b] <= 1
    BY DEF OnceInv, Once
  <2> QED BY <2>1, <2>2, <2>3 DEF MigratedOnce, IsMigrated
<1>4. RunsTyped /\ MigrationInv /\ OnceInv' /\ [Next]_vars =>
        [/\ ~overlapped' => MigratedOnce'
         /\ \A m \in Runs :
          run[m].pass = 4 /\ run'[m].pass = 0 /\ run[m].clean /\ faults' = faults =>
            /\ \A l \in Legacy : \E v \in RecordsOf(l) : HasLegacyRow(v, l)
            /\ \A b \in LegacyBookings :
                BookedVehicle[b] # NoLegacy =>
                    \/ legacyStatus[b] = "COMPLETED" /\ events[b] > 0
                    \/ legacyStatus[b] # "COMPLETED" /\ (cards[b] > 0 \/ b \notin HasTenant)]_vars
  BY <1>3, EndStep
<1> QED BY <1>1, <1>2, <1>4, InitOwn, InitMigration, OwnStep, RunStep, PTL
        DEF Spec, RunCarriesAll

-----------------------------------------------------------------------------
(* The title. *)

Hold(v, i) == [user |-> rows[v][i].user, kind |-> rows[v][i].type, since |-> StartDate(v, i)]

Held(v) == {Hold(v, i) : i \in Holding(v)}

Offeree(v) == IF Offers(v) = {} THEN NoUser ELSE rows[v][CHOOSE i \in Offers(v) : TRUE].user

LEMMA TitleView ==
    Holders = [v \in Vehicles |-> Held(v)] /\ Offered = [v \in Vehicles |-> Offeree(v)]
BY DEF Holders, Offered, Held, Hold, Offeree

\* What the request in flight has read holds until it writes.
Found(q) ==
    /\ q.pc = "offer" => Offers(q.vehicle) = {} /\ \E from \in Users : OwnedBy(q.vehicle, from)
    /\ q.pc \in {"confirm", "refuse"} => q.row \in Offers(q.vehicle)

TitleInv ==
    /\ \A v \in Vehicles : DOMAIN rows[v] \subseteq 1 .. MaxRows
    /\ ~overlapped => /\ \A v \in Vehicles : \A i, j \in Offers(v) : i = j
                      /\ \A r \in Requests : Found(req[r])

\* Ownerships begin with their rows, or as long before the first of them.
LEMMA Beginnings ==
    ASSUME OwnInv, NEW v \in Vehicles, NEW i \in DOMAIN rows[v]
    PROVE  StartDate(v, i) \in {i, -i} /\ i \in 1 .. Len(rows[v]) /\ Len(rows[v]) \in Nat
BY RowTypes DEF StartDate

\* A vehicle whose rows are left alone.
LEMMA HeldStays ==
    ASSUME NEW v \in Vehicles, rows'[v] = rows[v]
    PROVE  /\ Held(v)' = Held(v) /\ Offeree(v)' = Offeree(v) /\ Offers(v)' = Offers(v)
           /\ \A u : OwnedBy(v, u)' <=> OwnedBy(v, u)
<1>1. Holding(v)' = Holding(v) /\ Offers(v)' = Offers(v)
  BY DEF Holding, Offers
<1>2. \A i : StartDate(v, i)' = StartDate(v, i)
  BY DEF StartDate
<1>3. \A i : Hold(v, i)' = Hold(v, i)
  BY <1>2 DEF Hold
<1>4. Held(v)' = Held(v)
  BY <1>1, <1>3 DEF Held
<1>5. Offeree(v)' = Offeree(v)
  BY <1>1 DEF Offeree
<1> QED BY <1>1, <1>2, <1>4, <1>5 DEF OwnedBy

\* A row is added to a vehicle.
Following(v) == Len(rows[v]) + 1

LEMMA RowAppended ==
    ASSUME OwnInv, NEW v \in Vehicles, NEW row \in Rows,
           rows' = [rows EXCEPT ![v] = Append(rows[v], row)],
           NEW n, n = Following(v)
    PROVE  /\ n \in Nat \ {0} /\ n \notin DOMAIN rows[v]
           /\ Len(rows'[v]) = n /\ DOMAIN rows'[v] = DOMAIN rows[v] \cup {n}
           /\ rows'[v][n] = row /\ \A i \in DOMAIN rows[v] : rows'[v][i] = rows[v][i]
           /\ \A w \in Vehicles \ {v} : rows'[w] = rows[w]
<1>1. rows[v] \in Seq(Rows) /\ Len(rows[v]) \in Nat /\ DOMAIN rows[v] = 1 .. Len(rows[v])
  BY RowTypes
<1>2. PICK new : new = Append(rows[v], row)
  OBVIOUS
<1>3. /\ new \in Seq(Rows) /\ Len(new) = n /\ new[n] = row
      /\ \A i \in 1 .. Len(rows[v]) : new[i] = rows[v][i]
  BY <1>1, <1>2, AppendProperties DEF Following
<1>4. rows'[v] = new /\ \A w \in Vehicles \ {v} : rows'[w] = rows[w]
  BY <1>2 DEF OwnInv, RowsTyped
<1>5. DOMAIN new = 1 .. n
  BY <1>3
<1>6. n \in Nat \ {0} /\ n \notin 1 .. Len(rows[v]) /\ 1 .. n = 1 .. Len(rows[v]) \cup {n}
  BY <1>1 DEF Following
<1> QED BY <1>1, <1>3, <1>4, <1>5, <1>6

LEMMA HeldAppended ==
    ASSUME OwnInv, NEW v \in Vehicles, NEW row \in Rows,
           rows' = [rows EXCEPT ![v] = Append(rows[v], row)],
           NEW n, n = Following(v)
    PROVE  /\ IsPending(row) => Offers(v)' = Offers(v) \cup {n} /\ Holding(v)' = Holding(v)
           /\ IsOpen(row) => Holding(v)' = Holding(v) \cup {n} /\ Offers(v)' = Offers(v)
           /\ StartDate(v, n)' = IF IsMigrated(row) THEN -n ELSE n
           /\ \A i \in DOMAIN rows[v] :
                /\ Hold(v, i)' = Hold(v, i) /\ StartDate(v, i)' = StartDate(v, i)
                /\ -n < StartDate(v, i) /\ StartDate(v, i) < n
<1>1. /\ n \notin DOMAIN rows[v] /\ DOMAIN rows'[v] = DOMAIN rows[v] \cup {n}
      /\ rows'[v][n] = row /\ \A i \in DOMAIN rows[v] : rows'[v][i] = rows[v][i]
  BY RowAppended
<1>2. /\ IsPending(row) => Offers(v)' = Offers(v) \cup {n} /\ Holding(v)' = Holding(v)
      /\ IsOpen(row) => Holding(v)' = Holding(v) \cup {n} /\ Offers(v)' = Offers(v)
  BY <1>1 DEF Offers, Holding, IsPending, IsOpen
<1>3. StartDate(v, n)' = IF IsMigrated(row) THEN -n ELSE n
  BY <1>1 DEF StartDate, IsMigrated
<1>4. \A i \in DOMAIN rows[v] : StartDate(v, i)' = StartDate(v, i)
  BY <1>1 DEF StartDate, IsMigrated
<1>5. \A i \in DOMAIN rows[v] : Hold(v, i)' = Hold(v, i)
  BY <1>1, <1>4 DEF Hold
<1>6. \A i \in DOMAIN rows[v] : -n < StartDate(v, i) /\ StartDate(v, i) < n
  BY RowTypes, Beginnings DEF Following
<1> QED BY <1>2, <1>3, <1>4, <1>5, <1>6

\* An ownership begins.
LEMMA HoldAdded ==
    ASSUME OwnInv, NEW v \in Vehicles, NEW row \in Rows, IsOpen(row),
           rows' = [rows EXCEPT ![v] = Append(rows[v], row)],
           NEW n, n = Following(v), NEW since, since = IF IsMigrated(row) THEN -n ELSE n
    PROVE  /\ Held(v)' = Held(v) \cup {[user |-> row.user, kind |-> row.type, since |-> since]}
           /\ \A w \in Vehicles \ {v} : Held(w)' = Held(w)
           /\ \A w \in Vehicles : Offeree(w)' = Offeree(w)
           /\ \A h \in Held(v) : -n < h.since /\ h.since < n
<1>1. /\ rows'[v][n] = row /\ StartDate(v, n)' = since
      /\ Holding(v)' = Holding(v) \cup {n} /\ Offers(v)' = Offers(v)
  <2>1. rows'[v][n] = row
    BY RowAppended
  <2>3. StartDate(v, n)' = IF IsMigrated(row) THEN -n ELSE n
    BY HeldAppended
  <2>4. StartDate(v, n)' = since
    BY <2>3, Zenon
  <2>2. Holding(v)' = Holding(v) \cup {n} /\ Offers(v)' = Offers(v)
    BY HeldAppended
  <2> QED BY <2>1, <2>2, <2>4
<1>2. \A i \in DOMAIN rows[v] : /\ Hold(v, i)' = Hold(v, i) /\ rows'[v][i] = rows[v][i]
                                /\ -n < StartDate(v, i) /\ StartDate(v, i) < n
  BY RowAppended, HeldAppended
<1>3. Holding(v) \subseteq DOMAIN rows[v] /\ Offers(v) \subseteq DOMAIN rows[v]
  BY DEF Holding, Offers
<1>4. Hold(v, n)' = [user |-> row.user, kind |-> row.type, since |-> since]
  BY <1>1 DEF Hold
<1>5. Held(v)' = {Hold(v, i)' : i \in Holding(v) \cup {n}}
  BY <1>1 DEF Held
<1>6. Held(v)' = Held(v) \cup {Hold(v, n)'}
  BY <1>2, <1>3, <1>5 DEF Held
<1>7. \A w \in Vehicles \ {v} : rows'[w] = rows[w]
  BY RowAppended
<1>8. Offeree(v)' = Offeree(v)
  BY <1>1, <1>2, <1>3 DEF Offeree
<1>9. \A h \in Held(v) : -n < h.since /\ h.since < n
  <2>1. \A i : Hold(v, i).since = StartDate(v, i)
    BY DEF Hold
  <2>2. \A i \in Holding(v) : -n < Hold(v, i).since /\ Hold(v, i).since < n
    BY <1>2, <1>3, <2>1
  <2> QED BY <2>2 DEF Held
<1> QED BY <1>4, <1>6, <1>7, <1>8, <1>9, HeldStays

\* The rows of a vehicle are rewritten; none changes hands or origin.
LEMMA HeldRewritten ==
    ASSUME NEW v \in Vehicles, DOMAIN rows'[v] = DOMAIN rows[v],
           \A i \in DOMAIN rows[v] :
               /\ rows'[v][i].user = rows[v][i].user /\ rows'[v][i].type = rows[v][i].type
               /\ rows'[v][i].offered = rows[v][i].offered
    PROVE  \A i \in DOMAIN rows[v] : /\ StartDate(v, i)' = StartDate(v, i)
                                     /\ Hold(v, i)' = Hold(v, i)
<1>1. \A i \in DOMAIN rows[v] : StartDate(v, i)' = StartDate(v, i)
  BY DEF StartDate, IsMigrated
<1> QED BY <1>1 DEF Hold

\* Rewritten rows that are open, and offered, as they were.
LEMMA HeldUntouched ==
    ASSUME NEW v \in Vehicles, DOMAIN rows'[v] = DOMAIN rows[v],
           \A i \in DOMAIN rows[v] :
               /\ rows'[v][i].user = rows[v][i].user /\ rows'[v][i].type = rows[v][i].type
               /\ rows'[v][i].offered = rows[v][i].offered
               /\ IsOpen(rows'[v][i]) <=> IsOpen(rows[v][i])
               /\ IsPending(rows'[v][i]) <=> IsPending(rows[v][i])
    PROVE  /\ Held(v)' = Held(v) /\ Offeree(v)' = Offeree(v) /\ Offers(v)' = Offers(v)
           /\ \A u : OwnedBy(v, u)' <=> OwnedBy(v, u)
<1>1. Holding(v)' = Holding(v) /\ Offers(v)' = Offers(v)
  BY DEF Holding, Offers, IsOpen, IsPending
<1>2. \A i \in DOMAIN rows[v] : /\ StartDate(v, i)' = StartDate(v, i)
                                /\ Hold(v, i)' = Hold(v, i)
  BY HeldRewritten
<1>3. Holding(v) \subseteq DOMAIN rows[v] /\ Offers(v) \subseteq DOMAIN rows[v]
  BY DEF Holding, Offers
<1>4. Held(v)' = Held(v)
  BY <1>1, <1>2, <1>3 DEF Held
<1>5. Offeree(v)' = Offeree(v)
  BY <1>1, <1>3 DEF Offeree
<1> QED BY <1>1, <1>2, <1>3, <1>4, <1>5 DEF OwnedBy

\* A request reads.
LEMMA ReadFound ==
    ASSUME OwnInv, TitleInv, NEW r \in Requests, NEW next, req[r] = Idle, Goes(r, next),
           Found(next)
    PROVE  TitleInv'
<1>1. req'[r] = next /\ \A o \in Requests \ {r} : req'[o] = req[o]
  BY DEF Goes, OwnInv, RequestsTyped
<1>2. UNCHANGED rows /\ (~overlapped' => ~overlapped)
  BY DEF Goes
<1>3. \A q : Found(q) => Found(q)'
  BY <1>2 DEF Found, Offers, OwnedBy, Holding, StartDate
<1>4. ASSUME NEW o \in Requests, ~overlapped' PROVE Found(req[o])'
  <2>1. PICK q : q = req'[o]
    OBVIOUS
  <2>2. Found(q)
    BY <1>1, <1>2, <1>4, <2>1 DEF TitleInv
  <2>3. Found(q)'
    BY <1>3, <2>2
  <2> QED BY <2>1, <2>3 DEF Found
<1>5. \A v \in Vehicles : Offers(v)' = Offers(v)
  BY <1>2 DEF Offers
<1> QED BY <1>2, <1>4, <1>5 DEF TitleInv

\* The request in flight writes, and ends or goes on with nothing it relies on.
LEMMA WriteFound ==
    ASSUME OwnInv, ReadingsInv, TitleInv, NEW r \in Requests, NEW next, req[r].pc # "idle",
           req' = [req EXCEPT ![r] = next], next.pc \notin {"offer", "confirm", "refuse"},
           UNCHANGED overlapped, \A v \in Vehicles : DOMAIN rows'[v] \subseteq 1 .. MaxRows,
           ~overlapped => \A v \in Vehicles : \A i, j \in Offers(v)' : i = j
    PROVE  TitleInv'
<1>1. req'[r] = next /\ \A o \in Requests \ {r} : req'[o] = req[o]
  BY DEF OwnInv, RequestsTyped
<1>2. ASSUME ~overlapped, NEW o \in Requests PROVE Found(req[o])'
  <2>1. req[r] # Idle
    BY DEF Idle
  <2>2. CASE o = r
    BY <1>1, <2>2 DEF Found
  <2>3. CASE o # r
    <3>1. req'[o] = Idle
      BY <1>1, <1>2, <2>1, <2>3 DEF ReadingsInv, Alone
    <3> QED BY <3>1 DEF Found, Idle
  <2> QED BY <2>2, <2>3
<1> QED BY <1>2 DEF TitleInv

\* What happens beside the request leaves what it has read as it is.
LEMMA BesideFound ==
    ASSUME OwnInv, TitleInv, ~overlapped' => ~overlapped,
           \A r \in Requests : req'[r] \in {req[r], Idle},
           \A v \in Vehicles : /\ DOMAIN rows'[v] \subseteq 1 .. MaxRows /\ Offers(v)' = Offers(v)
                               /\ \A u \in Users : OwnedBy(v, u) => OwnedBy(v, u)'
    PROVE  TitleInv'
<1>1. ASSUME NEW r \in Requests, ~overlapped' PROVE Found(req[r])'
  <2>1. CASE req'[r] = Idle
    BY <2>1 DEF Found, Idle
  <2>2. CASE req'[r] = req[r]
    <3>1. Found(req[r]) /\ Shape(req[r])
      BY <1>1 DEF TitleInv, OwnInv, RequestsTyped
    <3>2. PICK q : q = req[r]
      OBVIOUS
    <3>3. q.pc \in {"offer", "confirm", "refuse"} => q.vehicle \in Vehicles
      BY <3>1, <3>2 DEF Shape
    <3>4. Found(q)'
      BY <3>1, <3>2, <3>3 DEF Found
    <3> QED BY <2>2, <3>2, <3>4 DEF Found
  <2> QED BY <2>1, <2>2
<1> QED BY <1>1 DEF TitleInv

\* The step of the title that one vehicle takes.
LEMMA Abstractly ==
    ASSUME NEW v \in Vehicles,
           \A w \in Vehicles \ {v} : Held(w)' = Held(w) /\ Offeree(w)' = Offeree(w)
    PROVE  /\ Holders' = [Holders EXCEPT ![v] = Held(v)']
           /\ Offered' = [Offered EXCEPT ![v] = Offeree(v)']
           /\ Holders[v] = Held(v) /\ Offered[v] = Offeree(v)
<1>1. Holders = [w \in Vehicles |-> Held(w)] /\ Offered = [w \in Vehicles |-> Offeree(w)]
  BY TitleView
<1>2. Holders' = [w \in Vehicles |-> Held(w)'] /\ Offered' = [w \in Vehicles |-> Offeree(w)']
  BY DEF Holders, Offered, Held, Hold, Offeree
<1> QED BY <1>1, <1>2

LEMMA NothingMoves ==
    ASSUME \A w \in Vehicles : Held(w)' = Held(w) /\ Offeree(w)' = Offeree(w)
    PROVE  UNCHANGED T!vars
<1>1. Holders = [w \in Vehicles |-> Held(w)] /\ Offered = [w \in Vehicles |-> Offeree(w)]
  BY TitleView
<1>2. Holders' = [w \in Vehicles |-> Held(w)'] /\ Offered' = [w \in Vehicles |-> Offeree(w)']
  BY DEF Holders, Offered, Held, Hold, Offeree
<1> QED BY <1>1, <1>2 DEF T!vars

LEMMA OwnerOwns ==
    ASSUME NEW v \in Vehicles, NEW u, OwnedBy(v, u)
    PROVE  T!Owns(v, u)
<1>1. PICK i \in Holding(v) : /\ rows[v][i].user = u
                              /\ \A j \in Holding(v) : StartDate(v, j) <= StartDate(v, i)
  BY DEF OwnedBy
<1>2. \A j : Hold(v, j).since = StartDate(v, j) /\ Hold(v, j).user = rows[v][j].user
  BY DEF Hold
<1>3. Holders[v] = Held(v)
  BY TitleView
<1>4. Hold(v, i) \in Held(v)
  BY DEF Held
<1>5. \A h \in Held(v) : h.since <= Hold(v, i).since
  BY <1>1, <1>2 DEF Held
<1> QED BY <1>1, <1>2, <1>3, <1>4, <1>5 DEF T!Owns

\* What is offered, when one offer is pending.
LEMMA OffereeIs ==
    ASSUME NEW v, NEW i, Offers(v) = {i}
    PROVE  Offeree(v) = rows[v][i].user
BY DEF Offeree

\* A step that ImplementsTitle allows.
TitleStep == ~overlapped' /\ OffersOpen /\ rows' # rows => UNCHANGED T!vars \/ T!Next

LEMMA OfferTitle ==
    ASSUME OwnInv, ReadingsInv, TitleInv, NEW r \in Requests, WriteOffer(r)
    PROVE  TitleInv' /\ TitleStep
<1>0. Shape(req[r]) /\ req[r].pc = "offer" /\ UNCHANGED overlapped
  BY DEF OwnInv, RequestsTyped, WriteOffer, Writes
<1>1. PICK v \in Vehicles, u \in Users : v = req[r].vehicle /\ u = req[r].user
  BY <1>0 DEF Shape
<1>2. PICK row : row = [NewRow(u, req[r].type) EXCEPT
                          !.status = "PENDING", !.offered = TRUE, !.km = req[r].km]
  OBVIOUS
<1>3. row \in Rows /\ IsPending(row) /\ row.user = u
  <2>1. req[r].type \in TransferTypes /\ req[r].km \in Kms
    BY <1>0, OwnershipAssumption DEF Shape, TransferTypes
  <2> QED BY <1>2, <2>1 DEF NewRow, Rows, TransferStatuses, IsPending
<1>4. /\ rows' = [rows EXCEPT ![v] = Append(rows[v], row)]
      /\ req' = [req EXCEPT ![r] = Idle] /\ Len(rows[v]) < MaxRows
  BY <1>1, <1>2 DEF WriteOffer, Writes
<1>5. PICK n : n = Following(v)
  OBVIOUS
<1>6. /\ n \in Nat \ {0} /\ n \notin DOMAIN rows[v] /\ DOMAIN rows'[v] = DOMAIN rows[v] \cup {n} /\ rows'[v][n] = row
      /\ \A w \in Vehicles \ {v} : rows'[w] = rows[w]
  BY <1>3, <1>4, <1>5, RowAppended
<1>7. /\ Offers(v)' = Offers(v) \cup {n} /\ Holding(v)' = Holding(v)
      /\ \A i \in DOMAIN rows[v] : Hold(v, i)' = Hold(v, i)
  BY <1>3, <1>4, <1>5, HeldAppended
<1>8. \A w \in Vehicles \ {v} : /\ Held(w)' = Held(w) /\ Offeree(w)' = Offeree(w)
                                /\ Offers(w)' = Offers(w)
  BY <1>6, HeldStays
<1>9. ASSUME ~overlapped PROVE Offers(v) = {} /\ \E from \in Users : OwnedBy(v, from)
  BY <1>0, <1>1, <1>9 DEF TitleInv, Found
<1>10. TitleInv'
  <2>1. \A w \in Vehicles : DOMAIN rows'[w] \subseteq 1 .. MaxRows
    <3>1. n \in 1 .. MaxRows
      BY <1>4, <1>5, OwnershipAssumption, RowTypes DEF Following
    <3> QED BY <1>6, <3>1 DEF TitleInv
  <2>2. ~overlapped => \A w \in Vehicles : \A i, j \in Offers(w)' : i = j
    BY <1>7, <1>8, <1>9 DEF TitleInv
  <2>3. Idle.pc \notin {"offer", "confirm", "refuse"} /\ req[r].pc # "idle"
    BY <1>0 DEF Idle
  <2> QED BY <1>0, <1>4, <2>1, <2>2, <2>3, WriteFound
<1>11. ASSUME ~overlapped PROVE T!Next
  <2>1. Held(v)' = Held(v)
    BY <1>7 DEF Held, Holding
  <2>2. Offeree(v) = NoUser /\ Offeree(v)' = u
    <3>1. Offers(v)' = {n}
      BY <1>7, <1>9, <1>11
    <3>2. Offeree(v)' = rows'[v][n].user
      BY <3>1 DEF Offeree
    <3> QED BY <1>3, <1>6, <1>9, <1>11, <3>2 DEF Offeree
  <2>3. /\ Holders' = [Holders EXCEPT ![v] = Held(v)] /\ Offered' = [Offered EXCEPT ![v] = u]
        /\ Offered[v] = NoUser /\ Holders[v] = Held(v)
    BY <1>8, <2>1, <2>2, Abstractly
  <2>4. Holders' = Holders
    BY <2>3, TitleView
  <2>5. T!Offer(v, u)
    BY <1>9, <1>11, <2>3, <2>4, OwnerOwns DEF T!Offer
  <2> QED BY <2>5 DEF T!Next
<1> QED BY <1>0, <1>10, <1>11 DEF TitleStep

\* Registration, and the entry into a fleet.
LEMMA AcquireTitle ==
    ASSUME OwnInv, ReadingsInv, TitleInv, NEW r \in Requests, req[r].pc # "idle",
           req' = [req EXCEPT ![r] = Idle], UNCHANGED overlapped,
           NEW v \in Vehicles, NEW u \in Users, NEW kind \in {"SALE", "FLEET_ASSIGNMENT"},
           NEW row, row = NewRow(u, kind),
           Len(rows[v]) < MaxRows, rows' = [rows EXCEPT ![v] = Append(rows[v], row)]
    PROVE  TitleInv' /\ TitleStep
<1>2. /\ row \in Rows /\ IsOpen(row) /\ ~IsMigrated(row) /\ row.user = u /\ row.type = kind
  BY NewRowTypes DEF TransferTypes, NewRow, IsOpen, IsMigrated
<1>4. PICK n : n = Following(v)
  OBVIOUS
<1>5. /\ n \in Nat \ {0} /\ n \notin DOMAIN rows[v] /\ DOMAIN rows'[v] = DOMAIN rows[v] \cup {n}
      /\ \A w \in Vehicles \ {v} : rows'[w] = rows[w]
  BY <1>2, <1>4, RowAppended
<1>6. Offers(v)' = Offers(v) /\ \A w \in Vehicles \ {v} : Offers(w)' = Offers(w)
  BY <1>2, <1>4, <1>5, HeldAppended, HeldStays
<1>7. n \in 1 .. MaxRows /\ n \in -MaxRows .. MaxRows
  BY <1>4, OwnershipAssumption, RowTypes DEF Following
<1>8. TitleInv'
  <2>1. \A w \in Vehicles : DOMAIN rows'[w] \subseteq 1 .. MaxRows
    BY <1>5, <1>7 DEF TitleInv
  <2>2. ~overlapped => \A w \in Vehicles : \A i, j \in Offers(w)' : i = j
    BY <1>6 DEF TitleInv
  <2>3. Idle.pc \notin {"offer", "confirm", "refuse"}
    BY DEF Idle
  <2> QED BY <2>1, <2>2, <2>3, WriteFound
<1>9. /\ Held(v)' = Held(v) \cup {[user |-> u, kind |-> kind, since |-> n]}
      /\ \A w \in Vehicles \ {v} : Held(w)' = Held(w)
      /\ \A w \in Vehicles : Offeree(w)' = Offeree(w)
      /\ \A h \in Held(v) : h.since < n
  <2>1. n = IF IsMigrated(row) THEN -n ELSE n
    BY <1>2
  <2> QED BY <1>2, <1>4, <2>1, HoldAdded
<1>10. /\ Holders' = [Holders EXCEPT ![v] = Held(v)'] /\ Holders[v] = Held(v)
       /\ Offered' = [Offered EXCEPT ![v] = Offeree(v)]  /\ Offered[v] = Offeree(v)
  BY <1>9, Abstractly
<1>11. Offered' = Offered
  BY <1>10, TitleView
<1>12. T!Acquire(v, u, kind)
  <2>1. \A h \in Holders[v] : h.since < n
    BY <1>9, <1>10
  <2>2. Holders' = [Holders EXCEPT ![v] = Holders[v] \cup {T!Holder(u, kind, n)}]
    BY <1>9, <1>10 DEF T!Holder
  <2> QED BY <1>7, <1>11, <2>1, <2>2 DEF T!Acquire
<1> QED BY <1>8, <1>12 DEF TitleStep, T!Next

\* Confirmed, an offer leaves its recipient as the only holder.
LEMMA ConfirmTitle ==
    ASSUME OwnInv, ReadingsInv, TitleInv, NEW r \in Requests, WriteConfirm(r)
    PROVE  TitleInv' /\ TitleStep
<1>0. Shape(req[r]) /\ req[r].pc = "confirm" /\ UNCHANGED overlapped
  BY DEF OwnInv, RequestsTyped, WriteConfirm, Writes
<1>v. PICK v \in Vehicles : v = req[r].vehicle
  BY <1>0 DEF Shape
<1>k. PICK k \in DOMAIN rows[v] : k = req[r].row
  BY <1>0, <1>v DEF Shape
<1>1. v = req[r].vehicle /\ k = req[r].row
  BY <1>v, <1>k
<1>2. PICK new : new = [i \in DOMAIN rows[v] |->
                          IF i = k THEN Settled(rows[v][i], "CONFIRMED")
                          ELSE IF IsOpen(rows[v][i]) THEN [rows[v][i] EXCEPT !.open = FALSE]
                          ELSE rows[v][i]]
  OBVIOUS
<1>3. /\ rows' = [rows EXCEPT ![v] = new] /\ req' = [req EXCEPT ![r] = Idle]
  BY <1>1, <1>2 DEF WriteConfirm, Writes
<1>4. /\ rows'[v] = new /\ DOMAIN rows'[v] = DOMAIN rows[v]
      /\ \A w \in Vehicles \ {v} : rows'[w] = rows[w]
  BY <1>2, <1>3 DEF OwnInv, RowsTyped
<1>5. ASSUME NEW i \in DOMAIN rows[v]
      PROVE  /\ rows'[v][i].user = rows[v][i].user /\ rows'[v][i].type = rows[v][i].type
             /\ rows'[v][i].offered = rows[v][i].offered
             /\ i = k => ~IsPending(rows'[v][i]) /\ (rows[v][i].open => IsOpen(rows'[v][i]))
             /\ i # k => ~IsOpen(rows'[v][i]) /\ (IsPending(rows'[v][i]) => IsPending(rows[v][i]))
  <2>1. rows[v][i] \in Rows
    BY RowTypes
  <2>2. CASE i = k
    <3>1. rows'[v][i] = Settled(rows[v][i], "CONFIRMED")
      BY <1>2, <1>4, <2>2
    <3> QED BY <2>1, <2>2, <3>1 DEF Settled, Rows, IsPending, IsOpen
  <2>3. CASE i # k /\ IsOpen(rows[v][i])
    <3>1. rows'[v][i] = [rows[v][i] EXCEPT !.open = FALSE]
      BY <1>2, <1>4, <2>3
    <3> QED BY <2>1, <2>3, <3>1 DEF Rows, IsPending, IsOpen
  <2>4. CASE i # k /\ ~IsOpen(rows[v][i])
    <3>1. rows'[v][i] = rows[v][i]
      BY <1>2, <1>4, <2>4
    <3> QED BY <2>4, <3>1
  <2> QED BY <2>2, <2>3, <2>4
<1>6. Offers(v)' \subseteq Offers(v) \ {k} /\ Holding(v)' \subseteq {k}
  BY <1>4, <1>5 DEF Offers, Holding, IsPending, IsOpen
<1>7. \A w \in Vehicles \ {v} : /\ Held(w)' = Held(w) /\ Offeree(w)' = Offeree(w)
                                /\ Offers(w)' = Offers(w)
  BY <1>4, HeldStays
<1>8. TitleInv'
  <2>1. \A w \in Vehicles : DOMAIN rows'[w] \subseteq 1 .. MaxRows
    BY <1>4 DEF TitleInv
  <2>2. ~overlapped => \A w \in Vehicles : \A i, j \in Offers(w)' : i = j
    BY <1>6, <1>7 DEF TitleInv
  <2>3. Idle.pc \notin {"offer", "confirm", "refuse"} /\ req[r].pc # "idle"
    BY <1>0 DEF Idle
  <2> QED BY <1>0, <1>3, <2>1, <2>2, <2>3, WriteFound
<1>9. ASSUME ~overlapped, OffersOpen PROVE T!Next
  <2>1. k \in Offers(v) /\ Offers(v) = {k} /\ rows[v][k].open
    BY <1>0, <1>1, <1>9 DEF TitleInv, Found, OffersOpen
  <2>2. Offers(v)' = {} /\ Holding(v)' = {k}
    <3>1. IsOpen(rows'[v][k])
      BY <1>5, <2>1
    <3>2. k \in Holding(v)'
      BY <1>4, <3>1 DEF Holding, IsOpen
    <3> QED BY <1>6, <2>1, <3>2
  <2>3. PICK since : since = StartDate(v, k)
    OBVIOUS
  <2>4. PICK kind : kind = rows[v][k].type
    OBVIOUS
  <2>5. since \in -MaxRows .. MaxRows
    <3>1. k \in 1 .. MaxRows /\ MaxRows \in Nat
      BY OwnershipAssumption DEF TitleInv
    <3>2. since \in {k, -k}
      BY <2>3, Beginnings
    <3> QED BY <3>1, <3>2
  <2>6. /\ kind \in {"SALE", "FLEET_ASSIGNMENT", "LEGACY_MIGRATION"}
        /\ rows[v][k].user \in Users
    BY <2>4, RowTypes DEF Rows, TransferTypes
  <2>7. Hold(v, k)' = [user |-> rows[v][k].user, kind |-> kind, since |-> since]
    <3>1. Hold(v, k)' = Hold(v, k)
      BY <1>4, <1>5, HeldRewritten
    <3> QED BY <2>3, <2>4, <3>1 DEF Hold
  <2>8. Held(v)' = {Hold(v, k)'}
    BY <2>2 DEF Held
  <2>9. Offeree(v) = rows[v][k].user /\ Offeree(v)' = NoUser
    BY <2>1, <2>2, OffereeIs DEF Offeree
  <2>10. /\ Holders' = [Holders EXCEPT ![v] = Held(v)'] /\ Offered[v] = Offeree(v)
         /\ Offered' = [Offered EXCEPT ![v] = NoUser]
    BY <1>7, <2>9, Abstractly
  <2>11. Offered[v] # NoUser
    BY <2>6, <2>9, <2>10, OwnershipAssumption
  <2>12. Holders' = [Holders EXCEPT ![v] = {T!Holder(Offered[v], kind, since)}]
    BY <2>7, <2>8, <2>9, <2>10 DEF T!Holder
  <2>13. T!Accept(v, kind)
    BY <2>5, <2>10, <2>11, <2>12 DEF T!Accept
  <2> QED BY <2>6, <2>13 DEF T!Next
<1> QED BY <1>0, <1>8, <1>9 DEF TitleStep

\* Declined or expired, an offer is gone.
LEMMA RefuseTitle ==
    ASSUME OwnInv, ReadingsInv, TitleInv, NEW r \in Requests, WriteRefusal(r)
    PROVE  TitleInv' /\ TitleStep
<1>0. Shape(req[r]) /\ req[r].pc = "refuse" /\ UNCHANGED overlapped
  BY DEF OwnInv, RequestsTyped, WriteRefusal, Writes
<1>v. PICK v \in Vehicles : v = req[r].vehicle
  BY <1>0 DEF Shape
<1>k. PICK k \in DOMAIN rows[v] : k = req[r].row
  BY <1>0, <1>v DEF Shape
<1>1. v = req[r].vehicle /\ k = req[r].row
  BY <1>v, <1>k
<1>2. PICK new : new = [rows[v] EXCEPT ![k] = Settled(rows[v][k], "OVER")]
  OBVIOUS
<1>3. /\ rows' = [rows EXCEPT ![v] = new] /\ req' = [req EXCEPT ![r] = Idle]
  BY <1>1, <1>2 DEF WriteRefusal, Writes
<1>4. /\ rows'[v] = new /\ DOMAIN rows'[v] = DOMAIN rows[v]
      /\ rows'[v][k] = Settled(rows[v][k], "OVER")
      /\ \A i \in DOMAIN rows[v] \ {k} : rows'[v][i] = rows[v][i]
      /\ \A w \in Vehicles \ {v} : rows'[w] = rows[w]
  <2>1. rows[v] = [i \in DOMAIN rows[v] |-> rows[v][i]]
    BY RowTypes
  <2>2. /\ DOMAIN new = DOMAIN rows[v] /\ new[k] = Settled(rows[v][k], "OVER")
        /\ \A i \in DOMAIN rows[v] \ {k} : new[i] = rows[v][i]
    BY <1>2, <2>1
  <2> QED BY <1>3, <2>2 DEF OwnInv, RowsTyped
<1>5. /\ rows'[v][k].user = rows[v][k].user /\ rows'[v][k].type = rows[v][k].type
      /\ rows'[v][k].offered = rows[v][k].offered
      /\ ~IsPending(rows'[v][k]) /\ ~IsOpen(rows'[v][k])
  <2>1. rows[v][k] \in Rows
    BY RowTypes
  <2> QED BY <1>4, <2>1 DEF Settled, Rows, IsPending, IsOpen
<1>6. Offers(v)' = Offers(v) \ {k} /\ Holding(v)' = Holding(v) \ {k}
  BY <1>4, <1>5 DEF Offers, Holding, IsPending, IsOpen
<1>7. \A w \in Vehicles \ {v} : /\ Held(w)' = Held(w) /\ Offeree(w)' = Offeree(w)
                                /\ Offers(w)' = Offers(w)
  BY <1>4, HeldStays
<1>8. TitleInv'
  <2>1. \A w \in Vehicles : DOMAIN rows'[w] \subseteq 1 .. MaxRows
    BY <1>4 DEF TitleInv
  <2>2. ~overlapped => \A w \in Vehicles : \A i, j \in Offers(w)' : i = j
    BY <1>6, <1>7 DEF TitleInv
  <2>3. Idle.pc \notin {"offer", "confirm", "refuse"} /\ req[r].pc # "idle"
    BY <1>0 DEF Idle
  <2> QED BY <1>0, <1>3, <2>1, <2>2, <2>3, WriteFound
<1>9. ASSUME ~overlapped PROVE T!Next
  <2>1. k \in Offers(v) /\ Offers(v) = {k}
    BY <1>0, <1>1, <1>9 DEF TitleInv, Found
  <2>2. Offers(v)' = {} /\ Holding(v)' = Holding(v)
    <3>1. k \notin Holding(v)
      BY <2>1 DEF Offers, Holding, IsPending, IsOpen
    <3> QED BY <1>6, <2>1, <3>1
  <2>3. Held(v)' = Held(v)
    <3>1. \A i \in DOMAIN rows[v] : Hold(v, i)' = Hold(v, i)
      BY <1>4, <1>5, HeldRewritten
    <3>2. Holding(v) \subseteq DOMAIN rows[v]
      BY DEF Holding
    <3> QED BY <2>2, <3>1, <3>2 DEF Held
  <2>4. Offeree(v)' = NoUser
    BY <2>2 DEF Offeree
  <2>5. /\ Holders' = [Holders EXCEPT ![v] = Held(v)] /\ Holders[v] = Held(v)
        /\ Offered' = [Offered EXCEPT ![v] = NoUser]
    BY <1>7, <2>3, <2>4, Abstractly
  <2>6. Holders' = Holders
    BY <2>5, TitleView
  <2> QED BY <2>5, <2>6 DEF T!Withdraw, T!Next
<1> QED BY <1>0, <1>8, <1>9 DEF TitleStep

\* Back from a fleet, a vehicle is whose it was before.
LEMMA LeaveTitle ==
    ASSUME OwnInv, ReadingsInv, TitleInv, NEW r \in Requests, WriteLeave(r)
    PROVE  TitleInv' /\ TitleStep
<1>0. Shape(req[r]) /\ req[r].pc = "leave" /\ UNCHANGED overlapped
  BY DEF OwnInv, RequestsTyped, WriteLeave, Writes
<1>1. PICK v \in Vehicles, u \in Users : v = req[r].vehicle /\ u = FleetOwner[req[r].fleet]
  BY <1>0, OwnershipAssumption DEF Shape
<1>2. PICK new : new = [i \in DOMAIN rows[v] |->
                          IF rows[v][i].user = u /\ rows[v][i].type = "FLEET_ASSIGNMENT"
                            THEN [rows[v][i] EXCEPT !.open = FALSE] ELSE rows[v][i]]
  OBVIOUS
<1>3. /\ rows' = [rows EXCEPT ![v] = new] /\ req' = [req EXCEPT ![r] = Idle]
  BY <1>1, <1>2 DEF WriteLeave, Writes
<1>4. /\ rows'[v] = new /\ DOMAIN rows'[v] = DOMAIN rows[v]
      /\ \A w \in Vehicles \ {v} : rows'[w] = rows[w]
  BY <1>2, <1>3 DEF OwnInv, RowsTyped
<1>5. ASSUME NEW i \in DOMAIN rows[v]
      PROVE  /\ rows'[v][i].user = rows[v][i].user /\ rows'[v][i].type = rows[v][i].type
             /\ rows'[v][i].offered = rows[v][i].offered
             /\ IsPending(rows'[v][i]) <=> IsPending(rows[v][i])
             /\ IsOpen(rows'[v][i]) <=>
                  /\ IsOpen(rows[v][i])
                  /\ rows[v][i].user # u \/ rows[v][i].type # "FLEET_ASSIGNMENT"
  <2>1. rows[v][i] \in Rows
    BY RowTypes
  <2>2. CASE rows[v][i].user = u /\ rows[v][i].type = "FLEET_ASSIGNMENT"
    <3>1. rows'[v][i] = [rows[v][i] EXCEPT !.open = FALSE]
      BY <1>2, <1>4, <2>2
    <3> QED BY <2>1, <2>2, <3>1 DEF Rows, IsPending, IsOpen
  <2>3. CASE ~(rows[v][i].user = u /\ rows[v][i].type = "FLEET_ASSIGNMENT")
    <3>1. rows'[v][i] = rows[v][i]
      BY <1>2, <1>4, <2>3
    <3> QED BY <2>3, <3>1
  <2> QED BY <2>2, <2>3
<1>6. /\ Offers(v)' = Offers(v)
      /\ Holding(v)' = {i \in Holding(v) : \/ rows[v][i].user # u
                                          \/ rows[v][i].type # "FLEET_ASSIGNMENT"}
  BY <1>4, <1>5 DEF Offers, Holding, IsPending, IsOpen
<1>7. \A w \in Vehicles \ {v} : /\ Held(w)' = Held(w) /\ Offeree(w)' = Offeree(w)
                                /\ Offers(w)' = Offers(w)
  BY <1>4, HeldStays
<1>8. TitleInv'
  <2>1. \A w \in Vehicles : DOMAIN rows'[w] \subseteq 1 .. MaxRows
    BY <1>4 DEF TitleInv
  <2>2. ~overlapped => \A w \in Vehicles : \A i, j \in Offers(w)' : i = j
    BY <1>6, <1>7 DEF TitleInv
  <2>3. Idle.pc \notin {"offer", "confirm", "refuse"} /\ req[r].pc # "idle"
    BY <1>0 DEF Idle
  <2> QED BY <1>0, <1>3, <2>1, <2>2, <2>3, WriteFound
<1>9. T!Next
  <2>1. \A i \in DOMAIN rows[v] : Hold(v, i)' = Hold(v, i)
    BY <1>4, <1>5, HeldRewritten
  <2>2. Holding(v) \subseteq DOMAIN rows[v] /\ Offers(v) \subseteq DOMAIN rows[v]
    BY DEF Holding, Offers
  <2>3. \A i : Hold(v, i).user = rows[v][i].user /\ Hold(v, i).kind = rows[v][i].type
    BY DEF Hold
  <2>4. Held(v)' = {Hold(v, i) : i \in Holding(v)'}
    BY <1>6, <2>1, <2>2 DEF Held
  <2>5. Held(v)' = {h \in Held(v) : h.user # u \/ h.kind # "FLEET_ASSIGNMENT"}
    <3>1. ASSUME NEW h \in Held(v)' PROVE h \in Held(v) /\ (h.user # u \/ h.kind # "FLEET_ASSIGNMENT")
      <4>1. PICK i \in Holding(v)' : h = Hold(v, i)
        BY <2>4
      <4> QED BY <1>6, <2>3, <4>1 DEF Held
    <3>2. ASSUME NEW h \in Held(v), h.user # u \/ h.kind # "FLEET_ASSIGNMENT"
          PROVE  h \in Held(v)'
      <4>1. PICK i \in Holding(v) : h = Hold(v, i)
        BY DEF Held
      <4>2. i \in Holding(v)'
        BY <1>6, <2>3, <3>2, <4>1
      <4> QED BY <2>4, <4>1, <4>2
    <3> QED BY <3>1, <3>2
  <2>6. Offeree(v)' = Offeree(v)
    BY <1>5, <1>6, <2>2 DEF Offeree
  <2>7. /\ Holders' = [Holders EXCEPT ![v] = Held(v)'] /\ Holders[v] = Held(v)
        /\ Offered' = [Offered EXCEPT ![v] = Offeree(v)] /\ Offered[v] = Offeree(v)
    BY <1>7, <2>6, Abstractly
  <2>8. Offered' = Offered
    BY <2>7, TitleView
  <2>9. T!Return(v, u)
    BY <2>5, <2>7, <2>8 DEF T!Return
  <2> QED BY <2>9 DEF T!Next
<1> QED BY <1>8, <1>9 DEF TitleStep

\* The owner that the migration inserts is the oldest holder.
LEMMA InheritTitle ==
    ASSUME OwnInv, RunsTyped, TitleInv, NEW m \in Runs, InsertOwner(m)
    PROVE  TitleInv' /\ TitleStep
<1>1. PICK l \in Legacy : l = run[m].item
  BY DEF InsertOwner, RunsTyped
<1>u. PICK u \in Users : u = LegacyOwner[l]
  BY MigrationAssumption
<1>2. PICK row : row = NewRow(u, "LEGACY_MIGRATION")
  OBVIOUS
<1>3. PICK v \in Vehicles : /\ Len(rows[v]) < MaxRows
                            /\ rows' = [rows EXCEPT ![v] = Append(rows[v], row)]
  BY <1>1, <1>u, <1>2 DEF InsertOwner, RecordsOf
<1>4. /\ row \in Rows /\ IsOpen(row) /\ IsMigrated(row)
      /\ row.user = u /\ row.type = "LEGACY_MIGRATION"
  BY <1>2, NewRowTypes DEF TransferTypes, NewRow, IsOpen, IsMigrated
<1>5. PICK n : n = Following(v)
  OBVIOUS
<1>6. PICK since : since = -n
  OBVIOUS
<1>7. /\ n \in Nat \ {0} /\ n \notin DOMAIN rows[v] /\ DOMAIN rows'[v] = DOMAIN rows[v] \cup {n}
      /\ rows'[v][n] = row /\ \A i \in DOMAIN rows[v] : rows'[v][i] = rows[v][i]
      /\ \A w \in Vehicles \ {v} : rows'[w] = rows[w]
  BY <1>3, <1>4, <1>5, RowAppended
<1>8. /\ Offers(v)' = Offers(v) /\ Holding(v)' = Holding(v) \cup {n}
      /\ StartDate(v, n)' = IF IsMigrated(row) THEN -n ELSE n
      /\ \A i \in DOMAIN rows[v] : /\ StartDate(v, i)' = StartDate(v, i)
                                   /\ -n < StartDate(v, i)
  BY <1>3, <1>4, <1>5, HeldAppended
<1>9. n \in 1 .. MaxRows /\ since \in -MaxRows .. MaxRows
  BY <1>3, <1>5, <1>6, OwnershipAssumption, RowTypes DEF Following
<1>10. TitleInv'
  <2>1. \A w \in Vehicles : DOMAIN rows'[w] \subseteq 1 .. MaxRows
    BY <1>7, <1>9 DEF TitleInv
  <2>2. ASSUME NEW o \in Users, OwnedBy(v, o) PROVE OwnedBy(v, o)'
    <3>1. PICK i \in Holding(v) : /\ rows[v][i].user = o
                                  /\ \A j \in Holding(v) : StartDate(v, j) <= StartDate(v, i)
      BY <2>2 DEF OwnedBy
    <3>2. i \in DOMAIN rows[v] /\ Holding(v) \subseteq DOMAIN rows[v]
      BY DEF Holding
    <3>3. StartDate(v, n)' = -n
      BY <1>4, <1>8
    <3>4. StartDate(v, i) \in Int /\ -n \in Int
      BY <1>7, <3>2, Beginnings
    <3>5. \A j \in Holding(v)' : StartDate(v, j)' <= StartDate(v, i)'
      BY <1>8, <3>1, <3>2, <3>3, <3>4
    <3>6. i \in Holding(v)' /\ rows'[v][i].user = o
      BY <1>7, <1>8, <3>1, <3>2
    <3> QED BY <3>5, <3>6 DEF OwnedBy
  <2>3. \A w \in Vehicles \ {v} : /\ Offers(w)' = Offers(w)
                                  /\ \A o : OwnedBy(w, o)' <=> OwnedBy(w, o)
    BY <1>7, HeldStays
  <2>4. UNCHANGED <<req, overlapped>>
    BY DEF InsertOwner
  <2> QED BY <1>8, <2>1, <2>2, <2>3, <2>4, BesideFound
<1>11. /\ Held(v)' = Held(v) \cup {[user |-> u, kind |-> "LEGACY_MIGRATION", since |-> since]}
       /\ \A w \in Vehicles \ {v} : Held(w)' = Held(w)
       /\ \A w \in Vehicles : Offeree(w)' = Offeree(w)
       /\ \A h \in Held(v) : since < h.since
  <2>1. since = IF IsMigrated(row) THEN -n ELSE n
    BY <1>4, <1>6
  <2>2. /\ Held(v)' = Held(v) \cup {[user |-> row.user, kind |-> row.type, since |-> since]}
        /\ \A w \in Vehicles \ {v} : Held(w)' = Held(w)
        /\ \A w \in Vehicles : Offeree(w)' = Offeree(w)
        /\ \A h \in Held(v) : -n < h.since
    BY <1>3, <1>4, <1>5, <2>1, HoldAdded
  <2> QED BY <1>4, <1>6, <2>2
<1>12. /\ Holders' = [Holders EXCEPT ![v] = Held(v)'] /\ Holders[v] = Held(v)
       /\ Offered' = [Offered EXCEPT ![v] = Offeree(v)]  /\ Offered[v] = Offeree(v)
  BY <1>11, Abstractly
<1>13. Offered' = Offered
  BY <1>12, TitleView
<1>14. T!Inherit(v, u)
  <2>1. \A h \in Holders[v] : since < h.since
    BY <1>11, <1>12
  <2>2. Holders' = [Holders EXCEPT ![v] = Holders[v] \cup {T!Holder(u, "LEGACY_MIGRATION", since)}]
    BY <1>11, <1>12 DEF T!Holder
  <2> QED BY <1>9, <1>13, <2>1, <2>2 DEF T!Inherit
<1> QED BY <1>10, <1>14 DEF TitleStep, T!Next

\* An offer that has become overdue is still one.
LEMMA WeekTitle ==
    ASSUME OwnInv, TitleInv, NEW v \in Vehicles, PassWeek(v)
    PROVE  TitleInv' /\ TitleStep
<1>1. PICK new : new = [i \in DOMAIN rows[v] |-> IF IsPending(rows[v][i])
                          THEN [rows[v][i] EXCEPT !.overdue = TRUE] ELSE rows[v][i]]
  OBVIOUS
<1>2. rows'[v] = new /\ DOMAIN rows'[v] = DOMAIN rows[v]
      /\ \A w \in Vehicles \ {v} : rows'[w] = rows[w]
  BY <1>1 DEF PassWeek, OwnInv, RowsTyped
<1>3. ASSUME NEW i \in DOMAIN rows[v]
      PROVE  /\ rows'[v][i].user = rows[v][i].user /\ rows'[v][i].type = rows[v][i].type
             /\ rows'[v][i].offered = rows[v][i].offered
             /\ IsOpen(rows'[v][i]) <=> IsOpen(rows[v][i])
             /\ IsPending(rows'[v][i]) <=> IsPending(rows[v][i])
  <2>1. rows[v][i] \in Rows
    BY RowTypes
  <2>2. CASE IsPending(rows[v][i])
    <3>1. rows'[v][i] = [rows[v][i] EXCEPT !.overdue = TRUE]
      BY <1>1, <1>2, <2>2
    <3> QED BY <2>1, <2>2, <3>1 DEF Rows, IsPending, IsOpen
  <2>3. CASE ~IsPending(rows[v][i])
    <3>1. rows'[v][i] = rows[v][i]
      BY <1>1, <1>2, <2>3
    <3> QED BY <3>1
  <2> QED BY <2>2, <2>3
<1>4. /\ Held(v)' = Held(v) /\ Offeree(v)' = Offeree(v) /\ Offers(v)' = Offers(v)
      /\ \A u : OwnedBy(v, u)' <=> OwnedBy(v, u)
  BY <1>2, <1>3, HeldUntouched
<1>5. \A w \in Vehicles \ {v} :
          /\ Held(w)' = Held(w) /\ Offeree(w)' = Offeree(w) /\ Offers(w)' = Offers(w)
          /\ \A u : OwnedBy(w, u)' <=> OwnedBy(w, u)
  BY <1>2, HeldStays
<1>6. UNCHANGED <<req, overlapped>>
  BY DEF PassWeek
<1>7. \A w \in Vehicles : DOMAIN rows'[w] \subseteq 1 .. MaxRows
  BY <1>2 DEF TitleInv
<1>8. TitleInv'
  BY <1>4, <1>5, <1>6, <1>7, BesideFound
<1>9. UNCHANGED T!vars
  BY <1>4, <1>5, NothingMoves
<1> QED BY <1>8, <1>9 DEF TitleStep

\* Steps that leave the ownership rows alone.
LEMMA PlainRead ==
    ASSUME OwnInv, TitleInv, NEW r \in Requests, NEW next, req[r] = Idle, Goes(r, next),
           Found(next)
    PROVE  TitleInv' /\ TitleStep
<1>1. TitleInv'
  BY ReadFound
<1>2. rows' = rows
  BY DEF Goes
<1> QED BY <1>1, <1>2 DEF TitleStep

LEMMA PlainWrite ==
    ASSUME OwnInv, ReadingsInv, TitleInv, NEW r \in Requests, NEW next, req[r].pc # "idle",
           req' = [req EXCEPT ![r] = next], next.pc \notin {"offer", "confirm", "refuse"},
           UNCHANGED <<rows, overlapped>>
    PROVE  TitleInv' /\ TitleStep
<1>1. \A v \in Vehicles : DOMAIN rows'[v] \subseteq 1 .. MaxRows
  BY DEF TitleInv
<1>2. \A v \in Vehicles : Offers(v)' = Offers(v)
  BY DEF Offers
<1>3. ~overlapped => \A v \in Vehicles : \A i, j \in Offers(v)' : i = j
  BY <1>2 DEF TitleInv
<1>4. TitleInv'
  BY <1>1, <1>3, WriteFound
<1> QED BY <1>4 DEF TitleStep

LEMMA PlainBeside ==
    ASSUME OwnInv, TitleInv, ~overlapped' => ~overlapped, UNCHANGED rows,
           \A r \in Requests : req'[r] \in {req[r], Idle}
    PROVE  TitleInv' /\ TitleStep
<1>1. \A v \in Vehicles : /\ DOMAIN rows'[v] \subseteq 1 .. MaxRows /\ Offers(v)' = Offers(v)
                          /\ \A u \in Users : OwnedBy(v, u) => OwnedBy(v, u)'
  BY HeldStays DEF TitleInv
<1>2. TitleInv'
  BY <1>1, BesideFound
<1> QED BY <1>2 DEF TitleStep

LEMMA TransferTitle ==
    ASSUME OwnInv, ReadingsInv, TitleInv, NEW r \in Requests, TransferStep(r)
    PROVE  TitleInv' /\ TitleStep
<1>1. ASSUME NEW v \in Vehicles, NEW u \in Users, NEW type \in OfferTypes, NEW km \in Kms,
             ReadOffer(r, v, u, type, km)
      PROVE  TitleInv' /\ TitleStep
  <2>1. PICK next : next = [pc |-> "offer", vehicle |-> v, user |-> u, type |-> type, km |-> km]
    OBVIOUS
  <2>2. Found(next)
    BY <1>1, <2>1 DEF Found, ReadOffer
  <2>3. req[r] = Idle /\ Goes(r, next)
    BY <1>1, <2>1 DEF ReadOffer
  <2> QED BY <2>2, <2>3, PlainRead
<1>2. ASSUME NEW v \in Vehicles, NEW i \in 1 .. MaxRows, ReadConfirm(r, v, i) \/ ReadDecline(r, v, i)
      PROVE  TitleInv' /\ TitleStep
  <2>1. PICK next : /\ next.pc \in {"confirm", "refuse"} /\ next.vehicle = v /\ next.row = i
                    /\ Goes(r, next)
    <3>1. CASE ReadConfirm(r, v, i)
      <4>1. CASE rows[v][i].overdue
        BY <3>1, <4>1 DEF ReadConfirm
      <4>2. CASE ~rows[v][i].overdue
        BY <3>1, <4>2 DEF ReadConfirm
      <4> QED BY <4>1, <4>2
    <3>2. CASE ReadDecline(r, v, i)
      BY <3>2 DEF ReadDecline
    <3> QED BY <1>2, <3>1, <3>2
  <2>2. req[r] = Idle /\ i \in Offers(v)
    BY <1>2 DEF ReadConfirm, ReadDecline, Offers
  <2>3. Found(next)
    BY <2>1, <2>2 DEF Found
  <2> QED BY <2>1, <2>2, <2>3, PlainRead
<1> QED BY <1>1, <1>2, OfferTitle, ConfirmTitle, RefuseTitle DEF TransferStep

LEMMA RecordTitle ==
    ASSUME OwnInv, ReadingsInv, TitleInv, NEW r \in Requests, RecordStep(r)
    PROVE  TitleInv' /\ TitleStep
<1>0. Shape(req[r])
  BY DEF OwnInv, RequestsTyped
<1>1. ASSUME NEW u \in Users, ReadRegister(r, u) PROVE TitleInv' /\ TitleStep
  <2>1. PICK next : Goes(r, next) /\ next.pc \in {"create", "link"}
    <3>1. CASE WithPlate = {}
      BY <1>1, <3>1 DEF ReadRegister
    <3>2. CASE WithPlate # {}
      <4>1. PICK v \in WithPlate : Goes(r, [pc |-> "link", vehicle |-> v, user |-> u])
        BY <1>1, <3>2 DEF ReadRegister
      <4> QED BY <4>1
    <3> QED BY <3>1, <3>2
  <2>2. Found(next) /\ req[r] = Idle
    BY <1>1, <2>1 DEF Found, ReadRegister
  <2> QED BY <2>1, <2>2, PlainRead
<1>2. ASSUME NEW v \in Vehicles, CreateVehicle(r, v) PROVE TitleInv' /\ TitleStep
  <2>1. PICK next : next = [pc |-> "link", vehicle |-> v, user |-> req[r].user]
    OBVIOUS
  <2>2. /\ next.pc = "link" /\ req[r].pc # "idle" /\ req' = [req EXCEPT ![r] = next]
        /\ UNCHANGED <<rows, overlapped>>
    BY <1>2, <2>1 DEF CreateVehicle
  <2> QED BY <2>2, PlainWrite
<1>3. ASSUME NEW v \in Vehicles, NEW km \in Kms, ReadReport(r, v, km) PROVE TitleInv' /\ TitleStep
  <2>1. PICK next : next = [pc |-> "report", vehicle |-> v, km |-> km]
    OBVIOUS
  <2>2. Found(next) /\ req[r] = Idle /\ Goes(r, next)
    BY <1>3, <2>1 DEF Found, ReadReport
  <2> QED BY <2>2, PlainRead
<1>4. CASE LinkOwner(r)
  <2>1. PICK v \in Vehicles, u \in Users : v = req[r].vehicle /\ u = req[r].user
    BY <1>0, <1>4 DEF LinkOwner, Shape
  <2>2. PICK kind, row : kind = "SALE" /\ row = NewRow(u, kind)
    OBVIOUS
  <2>3. /\ rows' = [rows EXCEPT ![v] = Append(rows[v], row)] /\ Len(rows[v]) < MaxRows
        /\ req' = [req EXCEPT ![r] = Idle] /\ UNCHANGED overlapped /\ req[r].pc # "idle"
    BY <1>4, <2>1, <2>2 DEF LinkOwner, Writes
  <2>4. kind \in {"SALE", "FLEET_ASSIGNMENT"}
    BY <2>2
  <2> QED BY <2>2, <2>3, <2>4, AcquireTitle
<1>5. CASE WriteReport(r)
  <2>1. Idle.pc \notin {"offer", "confirm", "refuse"}
    BY DEF Idle
  <2> QED BY <1>5, <2>1, PlainWrite DEF WriteReport
<1> QED BY <1>1, <1>2, <1>3, <1>4, <1>5 DEF RecordStep

LEMMA FleetTitle ==
    ASSUME OwnInv, ReadingsInv, TitleInv, NEW r \in Requests, FleetStep(r)
    PROVE  TitleInv' /\ TitleStep
<1>0. Shape(req[r])
  BY DEF OwnInv, RequestsTyped
<1>1. ASSUME NEW v \in Vehicles, NEW f \in Fleets, ReadJoin(r, v, f) \/ ReadLeave(r, v, f)
      PROVE  TitleInv' /\ TitleStep
  <2>1. PICK next : Goes(r, next) /\ next.pc \in {"join", "leave"}
    BY <1>1 DEF ReadJoin, ReadLeave
  <2>2. Found(next) /\ req[r] = Idle
    BY <1>1, <2>1 DEF Found, ReadJoin, ReadLeave
  <2> QED BY <2>1, <2>2, PlainRead
<1>2. CASE WriteJoin(r)
  <2>1. PICK v \in Vehicles, u \in Users : v = req[r].vehicle /\ u = FleetOwner[req[r].fleet]
    BY <1>0, <1>2, OwnershipAssumption DEF WriteJoin, Shape
  <2>2. PICK kind, row : kind = "FLEET_ASSIGNMENT" /\ row = NewRow(u, kind)
    OBVIOUS
  <2>3. /\ rows' = [rows EXCEPT ![v] = Append(rows[v], row)] /\ Len(rows[v]) < MaxRows
        /\ req' = [req EXCEPT ![r] = Idle] /\ UNCHANGED overlapped /\ req[r].pc # "idle"
    BY <1>2, <2>1, <2>2 DEF WriteJoin, Writes
  <2>4. kind \in {"SALE", "FLEET_ASSIGNMENT"}
    BY <2>2
  <2> QED BY <2>2, <2>3, <2>4, AcquireTitle
<1>3. CASE JoinRejected(r)
  <2>1. Idle.pc \notin {"offer", "confirm", "refuse"}
    BY DEF Idle
  <2>2. UNCHANGED overlapped
    BY <1>3 DEF JoinRejected, Goes, ReadingsInv, ReadingsTyped
  <2> QED BY <1>3, <2>1, <2>2, PlainWrite DEF JoinRejected, Goes
<1> QED BY <1>1, <1>2, <1>3, LeaveTitle DEF FleetStep

\* Every step is one the title allows, until two requests overlap.
LEMMA EveryTitle ==
    ASSUME OwnInv, RunsTyped, ReadingsInv, TitleInv, [Next]_vars
    PROVE  TitleInv' /\ TitleStep
<1>0. req = [r \in Requests |-> req[r]]
  BY DEF OwnInv, RequestsTyped
<1>1. ASSUME UNCHANGED <<rows, req, overlapped>> PROVE TitleInv' /\ TitleStep
  BY <1>1, PlainBeside
<1>2. CASE UNCHANGED vars
  BY <1>1, <1>2 DEF vars, ownVars
<1>3. CASE \E r \in Requests : TransferStep(r) \/ RecordStep(r) \/ FleetStep(r)
  BY <1>3, TransferTitle, RecordTitle, FleetTitle
<1>4. ASSUME NEW lost \in SUBSET Requests, LoseRequests(lost) PROVE TitleInv' /\ TitleStep
  BY <1>4, PlainBeside DEF LoseRequests
<1>5. ASSUME NEW m \in Runs, NextPass(m) PROVE TitleInv' /\ TitleStep
  <2>1. UNCHANGED <<rows, req>> /\ (~overlapped' => ~overlapped)
    BY <1>5 DEF NextPass
  <2> QED BY <2>1, PlainBeside
<1>6. CASE MigrationNext
  BY <1>1, <1>5, <1>6, InheritTitle
     DEF MigrationNext, Look, InsertRecord, InsertEvent, InsertCard, Interrupt,
         LegacyMoves, ownVars
<1> QED BY <1>2, <1>3, <1>4, <1>6, WeekTitle DEF Next, OwnershipNext

LEMMA InitTitle == Init => TitleInv /\ T!Init
<1> SUFFICES ASSUME Init PROVE TitleInv /\ T!Init
  OBVIOUS
<1>1. /\ rows = [v \in Vehicles |-> <<>>]
      /\ \A r \in Requests : req[r] = Idle
  BY DEF Init, OwnershipInit
<1>2. \A v \in Vehicles : rows[v] = <<>> /\ DOMAIN rows[v] = {}
  BY <1>1
<1>3. \A v \in Vehicles : Holding(v) = {} /\ Offers(v) = {}
  BY <1>2 DEF Holding, Offers
<1>4. \A r \in Requests : Found(req[r])
  BY <1>1 DEF Found, Idle
<1>5. \A v \in Vehicles : Held(v) = {} /\ Offeree(v) = NoUser
  BY <1>3 DEF Held, Offeree
<1> QED BY <1>2, <1>3, <1>4, <1>5, TitleView DEF TitleInv, T!Init

\* Until two requests overlap, and while no removal has closed an offer, vehicles
\* change hands as Title allows: every step of the ownership rows, the migration's
\* among them, is one of the title or leaves it alone.
THEOREM TitleIsImplemented == Spec => ImplementsTitle
<1>1. Init => RunsTyped
  BY DEF Init, RunsTyped, NoRun, RunRecords
<1>2. Init => ReadingsInv
  BY InitReadings
<1>3. OwnInv /\ RunsTyped /\ ReadingsInv /\ TitleInv /\ [Next]_vars =>
        TitleInv' /\ [~overlapped' /\ OffersOpen /\ rows' # rows =>
                        UNCHANGED T!vars \/ T!Next]_ownVars
  BY EveryTitle DEF TitleStep
<1>4. RunsTyped /\ OwnInv /\ ReadingsInv /\ [Next]_vars => ReadingsInv'
  BY CurrentStep
<1> QED BY <1>1, <1>2, <1>3, <1>4, InitOwn, InitTitle, OwnStep, RunStep, PTL
        DEF Spec, ImplementsTitle
=============================================================================
