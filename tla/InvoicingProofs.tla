--------------------------- MODULE InvoicingProofs ---------------------------
(***************************************************************************)
(* Proofs about Invoicing: what survives any interleaving of requests, and *)
(* what holds as long as no two of them overlap.                           *)
(***************************************************************************)
EXTENDS Invoicing, FiniteSetTheorems, TLAPS

\* The records a request can be are records of the type.
LEMMA RequestsTyped ==
    /\ Idle \in RequestRecords /\ Idle.pc = "idle"
    /\ \A pc \in Steps, c \in Cards :
           /\ At(pc, c) \in RequestRecords
           /\ At(pc, c).pc = pc /\ At(pc, c).card = c
BY DEF Idle, At, RequestRecords, Steps, NoNumber, Numbers

\* A tenant without invoices satisfies the invariant.
LEMMA InitInvariant == Init => IInv
<1> SUFFICES ASSUME Init PROVE IInv
  OBVIOUS
<1>1. TypeOK
  BY RequestsTyped
     DEF Init, TypeOK, CardStatuses, InvoiceStatuses, Numbers, NoNumber
<1>2. IncomeMatchesInvoice /\ PaidIsPaidFor
  BY DEF Init, IncomeMatchesInvoice, PaidIsPaidFor
<1>3. RequestsKnow
  BY RequestsTyped DEF Init, RequestsKnow
<1> QED BY <1>1, <1>2, <1>3 DEF IInv

\* The count of this year's invoices is a number, the cards being finitely many.
LEMMA NumberTyped ==
    ASSUME IsFiniteSet(Cards), TypeOK PROVE generateInvoiceNumber \in Numbers
<1> DEFINE S == {c \in Cards : invoice[c] # "none" /\ issuedIn[c] = year}
<1>1. IsFiniteSet(S)
  BY FS_Subset
<1>2. Cardinality(S) \in Nat
  BY <1>1, FS_CardinalityType
<1> QED BY <1>2 DEF generateInvoiceNumber, Numbers, TypeOK

\* Every step keeps the invariant.
LEMMA NextInvariant ==
    ASSUME IsFiniteSet(Cards), IInv, [Next]_vars PROVE IInv'
<1> USE InvoicingAssumption, RequestsTyped
<1>0. TypeOK /\ IncomeMatchesInvoice /\ PaidIsPaidFor /\ RequestsKnow
  BY DEF IInv
<1>1. ASSUME NEW c \in Cards, CompleteCard(c) PROVE IInv'
  <2>1. TypeOK' /\ IncomeMatchesInvoice' /\ PaidIsPaidFor'
    BY <1>0, <1>1 DEF CompleteCard, TypeOK, CardStatuses, IncomeMatchesInvoice,
                      PaidIsPaidFor, paymentVars, eventVars
  <2>2. RequestsKnow'
    BY <1>0, <1>1 DEF CompleteCard, TypeOK, RequestsKnow, paymentVars
  <2> QED BY <2>1, <2>2 DEF IInv
<1>2. ASSUME NEW c \in Cards, MarkInvoiced(c) PROVE IInv'
  <2>1. TypeOK' /\ IncomeMatchesInvoice' /\ PaidIsPaidFor'
    BY <1>0, <1>2 DEF MarkInvoiced, TypeOK, CardStatuses, IncomeMatchesInvoice,
                      PaidIsPaidFor, paymentVars, eventVars
  <2>2. RequestsKnow'
    BY <1>0, <1>2 DEF MarkInvoiced, TypeOK, RequestsKnow, paymentVars
  <2> QED BY <2>1, <2>2 DEF IInv
<1>3. ASSUME UNCHANGED <<cardVars, paymentVars, eventVars, year, faults>>,
             overlapped' \in BOOLEAN,
             req' \in [Requests -> RequestRecords], RequestsKnow'
      PROVE  IInv'
  BY <1>0, <1>3 DEF IInv, TypeOK, IncomeMatchesInvoice, PaidIsPaidFor, cardVars,
                    paymentVars, eventVars
<1>4. ASSUME NEW r \in Requests, NEW c \in Cards, ReadCard(r, c) PROVE IInv'
  <2>1. overlapped' \in BOOLEAN
    BY <1>4 DEF ReadCard, Begin
  <2> QED
    BY <1>0, <1>3, <1>4, <2>1
       DEF ReadCard, Begin, TypeOK, RequestsKnow, Steps, cardVars, paymentVars
<1>5. ASSUME NEW r \in Requests, CheckExisting(r) PROVE IInv'
  <2>1. req[r].card \in Cards /\ status[req[r].card] # "OPEN"
    BY <1>0, <1>5 DEF CheckExisting, RequestsKnow
  <2>2. \/ req' = [req EXCEPT ![r] = At("count", req[r].card)]
        \/ req' = [req EXCEPT ![r] = Idle]
    BY <1>5 DEF CheckExisting
  <2>3. req' \in [Requests -> RequestRecords] /\ RequestsKnow'
    BY <1>0, <1>5, <2>1, <2>2
       DEF CheckExisting, TypeOK, RequestsKnow, Steps, cardVars, paymentVars
  <2> QED BY <1>0, <1>3, <1>5, <2>3 DEF CheckExisting, TypeOK
<1>6. ASSUME NEW r \in Requests, CountInvoices(r) PROVE IInv'
  <2> DEFINE q == [pc |-> "issue", card |-> req[r].card,
                   number |-> generateInvoiceNumber, read |-> 0, amount |-> 0]
  <2>1. req[r].card \in Cards /\ status[req[r].card] # "OPEN"
    BY <1>0, <1>6 DEF CountInvoices, RequestsKnow
  <2>2. q \in RequestRecords
    BY <1>0, <2>1, NumberTyped DEF RequestRecords, Steps
  <2>3. req' \in [Requests -> RequestRecords] /\ RequestsKnow'
    BY <1>0, <1>6, <2>1, <2>2
       DEF CountInvoices, TypeOK, RequestsKnow, cardVars, paymentVars
  <2> QED BY <1>0, <1>3, <1>6, <2>3 DEF CountInvoices, TypeOK
<1>7. ASSUME NEW r \in Requests, Issue(r) PROVE IInv'
  <2>1. req[r].card \in Cards /\ req[r].number \in Numbers
    BY <1>0, <1>7 DEF Issue, RequestsKnow, TypeOK, RequestRecords
  <2>2. TypeOK'
    BY <1>0, <1>7, <2>1
       DEF Issue, TypeOK, Steps, CardStatuses, InvoiceStatuses, paymentVars, eventVars
  <2>3. IncomeMatchesInvoice' /\ PaidIsPaidFor'
    BY <1>0, <1>7, <2>1
       DEF Issue, TypeOK, IncomeMatchesInvoice, PaidIsPaidFor, paymentVars
  <2>4. RequestsKnow'
    BY <1>0, <1>7, <2>1 DEF Issue, TypeOK, RequestsKnow, Steps, paymentVars
  <2> QED BY <2>2, <2>3, <2>4 DEF IInv
<1>8. ASSUME NEW r \in Requests, IssueRejected(r) PROVE IInv'
  BY <1>0, <1>3, <1>8 DEF IssueRejected, TypeOK, RequestsKnow, cardVars, paymentVars
<1>9. ASSUME NEW r \in Requests, AnnounceGenerated(r) PROVE IInv'
  <2>1. req[r].card \in Cards
    BY <1>0, <1>9 DEF AnnounceGenerated, RequestsKnow
  <2> QED BY <1>0, <1>9, <2>1
          DEF AnnounceGenerated, IInv, TypeOK, IncomeMatchesInvoice, PaidIsPaidFor,
              RequestsKnow, cardVars, paymentVars
<1>10. ASSUME NEW r \in Requests, NEW c \in Cards, NEW a \in Amounts,
              ReadInvoice(r, c, a)
       PROVE  IInv'
  <2> DEFINE q == [pc |-> "pay", card |-> c, number |-> NoNumber,
                   read |-> paid[c], amount |-> a]
  <2>1. q \in RequestRecords
    BY <1>0 DEF TypeOK, RequestRecords, Steps, NoNumber, Numbers
  <2>2. req' \in [Requests -> RequestRecords] /\ RequestsKnow'
    BY <1>0, <1>10, <2>1
       DEF ReadInvoice, Begin, TypeOK, RequestsKnow, cardVars, paymentVars
  <2>3. overlapped' \in BOOLEAN
    BY <1>10 DEF ReadInvoice, Begin
  <2> QED BY <1>3, <1>10, <2>2, <2>3 DEF ReadInvoice, Begin
<1>11. ASSUME NEW r \in Requests, Pay(r) PROVE IInv'
  <2> DEFINE c == req[r].card
  <2>1. /\ c \in Cards /\ invoice[c] # "none" /\ req[r].read <= paid[c]
        /\ req[r].read \in Nat /\ req[r].amount \in Nat /\ Total[c] \in Nat
    BY <1>0, <1>11 DEF Pay, RequestsKnow, TypeOK, RequestRecords
  <2>2. \/ /\ req[r].read + req[r].amount >= Total[c]
           /\ invoice' = [invoice EXCEPT ![c] = "PAID"]
           /\ req' = [req EXCEPT ![r] = At("announcePaid", c)]
        \/ /\ invoice' = [invoice EXCEPT ![c] = "PARTIALLY_PAID"]
           /\ req' = [req EXCEPT ![r] = Idle]
    BY <1>11 DEF Pay
  <2>3. /\ paid' \in [Cards -> Nat]
        /\ payments' \in [Cards -> Nat]
        /\ \A d \in Cards : paid[d] <= paid'[d]
        /\ paid'[c] = paid[c] + req[r].amount
        /\ \A d \in Cards : d # c => paid'[d] = paid[d]
    BY <1>0, <1>11, <2>1 DEF Pay, TypeOK
  <2>4. TypeOK'
    BY <1>0, <1>11, <2>1, <2>2, <2>3 DEF Pay, TypeOK, InvoiceStatuses, Steps, eventVars
  <2>5. IncomeMatchesInvoice'
    BY <1>0, <1>11, <2>1, <2>2, <2>3 DEF Pay, TypeOK, IncomeMatchesInvoice
  <2>6. PaidIsPaidFor'
    BY <1>0, <2>1, <2>2, <2>3 DEF TypeOK, PaidIsPaidFor
  <2>7. RequestsKnow'
    <3> SUFFICES ASSUME NEW o \in Requests
                 PROVE  /\ req'[o].pc # "idle" => req'[o].card \in Cards
                        /\ req'[o].pc \in {"checkExisting", "count", "issue"} =>
                               status'[req'[o].card] # "OPEN"
                        /\ req'[o].pc = "pay" => /\ invoice'[req'[o].card] # "none"
                                                 /\ req'[o].read <= paid'[req'[o].card]
      BY DEF RequestsKnow
    <3>1. CASE o = r
      BY <1>0, <2>1, <2>2, <3>1 DEF TypeOK, Steps
    <3>2. CASE o # r
      <4>1. req'[o] = req[o] /\ status' = status
        BY <1>0, <1>11, <2>2, <3>2 DEF Pay, TypeOK
      <4>2. \A d \in Cards : invoice[d] # "none" => invoice'[d] # "none"
        BY <1>0, <2>1, <2>2 DEF TypeOK
      <4>3. req[o].read \in Nat /\ \A d \in Cards : paid[d] \in Nat /\ paid'[d] \in Nat
        BY <1>0, <2>3 DEF TypeOK, RequestRecords
      <4> QED BY <1>0, <2>3, <4>1, <4>2, <4>3 DEF RequestsKnow
    <3> QED BY <3>1, <3>2
  <2> QED BY <2>4, <2>5, <2>6, <2>7 DEF IInv
<1>12. ASSUME NEW r \in Requests, AnnouncePaid(r) PROVE IInv'
  <2>1. req[r].card \in Cards
    BY <1>0, <1>12 DEF AnnouncePaid, RequestsKnow
  <2> QED BY <1>0, <1>12, <2>1
          DEF AnnouncePaid, IInv, TypeOK, IncomeMatchesInvoice, PaidIsPaidFor,
              RequestsKnow, cardVars, paymentVars
<1>13. CASE NextYear
  BY <1>0, <1>13
     DEF NextYear, IInv, TypeOK, IncomeMatchesInvoice, PaidIsPaidFor, RequestsKnow,
         cardVars, paymentVars, eventVars
<1>14. ASSUME NEW lost \in SUBSET Requests, LoseRequests(lost) PROVE IInv'
  BY <1>0, <1>14
     DEF LoseRequests, IInv, TypeOK, IncomeMatchesInvoice, PaidIsPaidFor,
         RequestsKnow, cardVars, paymentVars, eventVars
<1>15. CASE UNCHANGED vars
  BY <1>0, <1>15
     DEF vars, IInv, TypeOK, IncomeMatchesInvoice, PaidIsPaidFor, RequestsKnow,
         cardVars, paymentVars, eventVars
<1> QED
  BY <1>1, <1>2, <1>4, <1>5, <1>6, <1>7, <1>8, <1>9, <1>10, <1>11, <1>12, <1>13,
     <1>14, <1>15 DEF Next, CardStep, RequestStep

\* Every reachable state satisfies the inductive invariant.
THEOREM InvoicingInvariant ==
    ASSUME IsFiniteSet(Cards) PROVE Spec => []IInv
<1>1. IInv /\ [Next]_vars => IInv'
  BY NextInvariant
<1> QED BY <1>1, InitInvariant, PTL DEF Spec

\* However generate overlaps itself, a card gets at most one invoice, and with it
\* one income record and the status INVOICED (the unique Invoice.jobCardId).
THEOREM IncomeIsInvoiced ==
    ASSUME IsFiniteSet(Cards) PROVE Spec => []IncomeMatchesInvoice
BY InvoicingInvariant, PTL DEF IInv

\* However payments overlap, an invoice that reads PAID is paid in full.
THEOREM PaidInFull ==
    ASSUME IsFiniteSet(Cards) PROVE Spec => []PaidIsPaidFor
BY InvoicingInvariant, PTL DEF IInv
-----------------------------------------------------------------------------
(* The event of an invoice. *)

Owes(r, pc, c) == req[r].pc = pc /\ req[r].card = c

\* An invoice has one event, published or owed by one request, or lost.
OneGenerated ==
    \A c \in Cards :
        /\ generatedEvents[c] <= 1
        /\ invoice[c] = "none" => generatedEvents[c] = 0
        /\ \A r \in Requests : Owes(r, "announceGenerated", c) =>
               /\ invoice[c] # "none" /\ generatedEvents[c] = 0
               /\ \A o \in Requests : Owes(o, "announceGenerated", c) => o = r

\* No invoice, no event.
LEMMA GeneratedInit == Init => OneGenerated /\ GeneratedAnnounced
<1> SUFFICES ASSUME Init PROVE OneGenerated /\ GeneratedAnnounced
  OBVIOUS
<1>1. \A r \in Requests : req[r].pc = "idle"
  BY RequestsTyped DEF Init
<1> QED BY <1>1 DEF Init, OneGenerated, GeneratedAnnounced, Owes

\* Every step keeps the account of the generated events.
LEMMA GeneratedNext ==
    ASSUME IInv, OneGenerated, GeneratedAnnounced, [Next]_vars
    PROVE  OneGenerated' /\ GeneratedAnnounced'
<1> USE RequestsTyped
<1>1. TypeOK /\ RequestsKnow
  BY DEF IInv
<1>2. ASSUME UNCHANGED <<generatedEvents, faults>>,
             \A c \in Cards : invoice'[c] = "none" <=> invoice[c] = "none",
             \A r \in Requests :
                 \/ req'[r] = req[r]
                 \/ req[r].pc # "announceGenerated" /\ req'[r].pc # "announceGenerated"
      PROVE  OneGenerated' /\ GeneratedAnnounced'
  <2>1. \A r \in Requests, c \in Cards :
            Owes(r, "announceGenerated", c)' <=> Owes(r, "announceGenerated", c)
    BY <1>2 DEF Owes
  <2>2. OneGenerated'
    BY <1>2, <2>1 DEF OneGenerated
  <2>3. GeneratedAnnounced'
    BY <1>2, <2>1 DEF GeneratedAnnounced, Owes
  <2> QED BY <2>2, <2>3
<1>3. ASSUME NEW r \in Requests,
             (\E c \in Cards : ReadCard(r, c) \/ \E a \in Amounts : ReadInvoice(r, c, a))
                \/ CheckExisting(r) \/ CountInvoices(r) \/ IssueRejected(r)
                \/ AnnouncePaid(r)
      PROVE  OneGenerated' /\ GeneratedAnnounced'
  <2>1. UNCHANGED <<generatedEvents, faults, invoice>>
    BY <1>3 DEF ReadCard, ReadInvoice, Begin, CheckExisting, CountInvoices,
                IssueRejected, AnnouncePaid, cardVars, eventVars
  <2>2. req[r].pc # "announceGenerated" /\ \A o \in Requests \ {r} : req'[o] = req[o]
    BY <1>1, <1>3 DEF ReadCard, ReadInvoice, Begin, CheckExisting, CountInvoices,
                IssueRejected, AnnouncePaid, TypeOK
  <2>3. req'[r].pc # "announceGenerated"
    <3>1. CASE \E c \in Cards : ReadCard(r, c)
      BY <1>1, <3>1 DEF ReadCard, Begin, TypeOK, Steps
    <3>2. CASE \E c \in Cards, a \in Amounts : ReadInvoice(r, c, a)
      BY <1>1, <3>2 DEF ReadInvoice, Begin, TypeOK
    <3>3. CASE CheckExisting(r)
      BY <1>1, <3>3 DEF CheckExisting, RequestsKnow, TypeOK, Steps
    <3>4. CASE CountInvoices(r)
      BY <1>1, <3>4 DEF CountInvoices, TypeOK
    <3>5. CASE IssueRejected(r) \/ AnnouncePaid(r)
      BY <1>1, <3>5 DEF IssueRejected, AnnouncePaid, TypeOK
    <3> QED BY <1>3, <3>1, <3>2, <3>3, <3>4, <3>5
  <2> QED BY <1>2, <2>1, <2>2, <2>3
<1>4. ASSUME NEW r \in Requests, Pay(r) PROVE OneGenerated' /\ GeneratedAnnounced'
  <2>1. req[r].card \in Cards /\ invoice[req[r].card] # "none"
    BY <1>1, <1>4 DEF Pay, RequestsKnow
  <2>2. /\ UNCHANGED <<generatedEvents, faults>>
        /\ \A c \in Cards : invoice'[c] = "none" <=> invoice[c] = "none"
    BY <1>1, <1>4, <2>1 DEF Pay, TypeOK, eventVars
  <2>3. \/ req' = [req EXCEPT ![r] = At("announcePaid", req[r].card)]
        \/ req' = [req EXCEPT ![r] = Idle]
    BY <1>4 DEF Pay
  <2>4. /\ req[r].pc # "announceGenerated"
        /\ \A o \in Requests \ {r} : req'[o] = req[o]
        /\ req'[r].pc # "announceGenerated"
    BY <1>1, <1>4, <2>1, <2>3 DEF Pay, TypeOK, Steps
  <2> QED BY <1>2, <2>2, <2>4
<1>5. ASSUME NEW r \in Requests, Issue(r) PROVE OneGenerated' /\ GeneratedAnnounced'
  <2> DEFINE c == req[r].card
  <2>1. /\ c \in Cards /\ invoice[c] = "none" /\ req[r].pc = "issue"
        /\ invoice' = [invoice EXCEPT ![c] = "ISSUED"]
        /\ req' = [req EXCEPT ![r] = At("announceGenerated", c)]
        /\ UNCHANGED <<generatedEvents, faults>>
    BY <1>1, <1>5 DEF Issue, RequestsKnow, eventVars
  <2>2. /\ \A d \in Cards : invoice'[d] = IF d = c THEN "ISSUED" ELSE invoice[d]
        /\ \A o \in Requests \ {r} : req'[o] = req[o]
        /\ req'[r].pc = "announceGenerated" /\ req'[r].card = c
    BY <1>1, <2>1 DEF TypeOK, Steps
  <2>3. ASSUME NEW o \in Requests, NEW d \in Cards
        PROVE  /\ d # c => (Owes(o, "announceGenerated", d)'
                              <=> Owes(o, "announceGenerated", d))
               /\ Owes(o, "announceGenerated", c)' => o = r
    BY <2>1, <2>2 DEF Owes, OneGenerated
  <2>4. generatedEvents[c] = 0
    BY <2>1 DEF OneGenerated
  <2>5. OneGenerated'
    BY <2>1, <2>2, <2>3, <2>4 DEF OneGenerated
  <2>6. GeneratedAnnounced'
    BY <2>1, <2>2, <2>3 DEF GeneratedAnnounced, Owes
  <2> QED BY <2>5, <2>6
<1>6. ASSUME NEW r \in Requests, AnnounceGenerated(r)
      PROVE  OneGenerated' /\ GeneratedAnnounced'
  <2> DEFINE c == req[r].card
  <2>1. /\ c \in Cards /\ generatedEvents[c] = 0 /\ req[r].pc = "announceGenerated"
        /\ invoice[c] # "none"
    BY <1>1, <1>6 DEF AnnounceGenerated, RequestsKnow, OneGenerated, Owes
  <2>2. /\ \A d \in Cards : generatedEvents'[d] = IF d = c THEN 1 ELSE generatedEvents[d]
        /\ \A o \in Requests \ {r} : req'[o] = req[o]
        /\ req'[r].pc = "idle" /\ UNCHANGED <<invoice, faults>>
    BY <1>1, <1>6, <2>1 DEF AnnounceGenerated, TypeOK, cardVars
  <2>3. ASSUME NEW o \in Requests, NEW d \in Cards
        PROVE  /\ Owes(o, "announceGenerated", d)' => Owes(o, "announceGenerated", d)
                                                     /\ d # c
               /\ d # c => (Owes(o, "announceGenerated", d)
                              => Owes(o, "announceGenerated", d)')
    BY <2>1, <2>2 DEF Owes, OneGenerated
  <2>4. OneGenerated'
    BY <2>1, <2>2, <2>3 DEF OneGenerated
  <2>5. GeneratedAnnounced'
    BY <2>2, <2>3 DEF GeneratedAnnounced, Owes
  <2> QED BY <2>4, <2>5
<1>7. ASSUME NEW lost \in SUBSET Requests, LoseRequests(lost)
      PROVE  OneGenerated' /\ GeneratedAnnounced'
  <2>1. /\ UNCHANGED <<invoice, generatedEvents>> /\ faults' # 0
        /\ \A r \in Requests : req'[r] = req[r] \/ req'[r].pc = "idle"
    BY <1>1, <1>7 DEF LoseRequests, TypeOK, cardVars, eventVars
  <2> QED BY <2>1 DEF OneGenerated, GeneratedAnnounced, Owes
<1>8. CASE CardStep \/ NextYear \/ UNCHANGED vars
  <2>1. UNCHANGED <<invoice, generatedEvents, req, faults>>
    BY <1>8 DEF CardStep, CompleteCard, MarkInvoiced, NextYear, vars, cardVars, eventVars
  <2> QED BY <1>2, <2>1
<1> QED BY <1>3, <1>4, <1>5, <1>6, <1>7, <1>8 DEF Next, RequestStep

\* As long as nothing fails, every invoice has its invoice.generated event
\* published exactly once, or about to be, however generate overlaps itself.
THEOREM GeneratedIsAnnounced ==
    ASSUME IsFiniteSet(Cards) PROVE Spec => []GeneratedAnnounced
<1>1. IInv /\ OneGenerated /\ GeneratedAnnounced /\ [Next]_vars
        => OneGenerated' /\ GeneratedAnnounced'
  BY GeneratedNext
<1> QED BY <1>1, GeneratedInit, InvoicingInvariant, PTL DEF Spec

-----------------------------------------------------------------------------
(* The books, as long as no two requests have overlapped. *)

\* The invoices issued in financial year y.
IssuedIn(y) == {c \in Cards : invoice[c] # "none" /\ issuedIn[c] = y}

\* A number is of the year of issue or of one before; of this year it is one of
\* those counted.
NumbersCounted ==
    \A c \in Cards :
        invoice[c] # "none" =>
            /\ number[c].year <= issuedIn[c] /\ issuedIn[c] <= year
            /\ number[c].year = issuedIn[c] =>
                   number[c].seq <= Cardinality(IssuedIn(issuedIn[c]))

\* The number a request is about to issue is the next of a year after which
\* nothing was issued.
NextNumber(r) ==
    req[r].pc = "issue" =>
        /\ req[r].number.year <= year
        /\ req[r].number.seq = Cardinality(IssuedIn(req[r].number.year)) + 1
        /\ \A c \in Cards :
               invoice[c] # "none" => issuedIn[c] <= req[r].number.year

\* What a payment read is what has been paid, and leaves room for it.
PaymentFits(r) ==
    req[r].pc = "pay" =>
        /\ req[r].read = paid[req[r].card] /\ req[r].amount > 0
        /\ paid[req[r].card] + req[r].amount <= Total[req[r].card]
        /\ payments[req[r].card] < MAX_PAYMENTS_PER_INVOICE
        /\ invoice[req[r].card] \in {"ISSUED", "PARTIALLY_PAID"}

\* The event of a full payment is owed once, and published once.
PaidOnce ==
    \A c \in Cards :
        /\ invoice[c] # "PAID" => paidEvents[c] = 0
        /\ \A r \in Requests :
               Owes(r, "announcePaid", c) => invoice[c] = "PAID" /\ paidEvents[c] = 0

OneBusy ==
    \A r, o \in Requests : req[r].pc # "idle" /\ req[o].pc # "idle" => r = o

\* The inductive invariant behind BooksInOrder.
BooksInv ==
    ~overlapped =>
        /\ OneBusy
        /\ NumbersCounted
        /\ PaidOnce
        /\ \A r \in Requests : NextNumber(r) /\ PaymentFits(r)

\* Empty books are in order.
LEMMA BooksInit == Init => BooksInv /\ BooksInOrder
<1> SUFFICES ASSUME Init PROVE BooksInv /\ BooksInOrder
  OBVIOUS
<1> USE InvoicingAssumption
<1>1. \A r \in Requests : req[r].pc = "idle"
  BY RequestsTyped DEF Init
<1>2. BooksInv
  BY <1>1 DEF Init, BooksInv, OneBusy, NumbersCounted, PaidOnce, NextNumber,
              PaymentFits, Owes
<1>3. BooksInOrder
  BY DEF Init, BooksInOrder
<1> QED BY <1>2, <1>3

\* The number of invoices of a year, and what one more does to it.
LEMMA CountTyped ==
    ASSUME IsFiniteSet(Cards), NEW y
    PROVE  IsFiniteSet(IssuedIn(y)) /\ Cardinality(IssuedIn(y)) \in Nat
<1>1. IsFiniteSet(IssuedIn(y))
  BY FS_Subset DEF IssuedIn
<1> QED BY <1>1, FS_CardinalityType

LEMMA CountOneMore ==
    ASSUME IsFiniteSet(Cards), TypeOK, NEW c \in Cards, invoice[c] = "none",
           \A d \in Cards \ {c} : invoice'[d] = invoice[d] /\ issuedIn'[d] = issuedIn[d],
           invoice'[c] # "none", issuedIn'[c] = year, NEW y
    PROVE  Cardinality(IssuedIn(y)')
              = IF y = year THEN Cardinality(IssuedIn(y)) + 1 ELSE Cardinality(IssuedIn(y))
<1>1. IsFiniteSet(IssuedIn(y)) /\ c \notin IssuedIn(y)
  BY CountTyped DEF IssuedIn
<1>2. CASE y = year
  <2>1. IssuedIn(y)' = IssuedIn(y) \cup {c}
    BY <1>2 DEF IssuedIn
  <2> QED BY <1>1, <1>2, <2>1, FS_AddElement
<1>3. CASE y # year
  <2>1. IssuedIn(y)' = IssuedIn(y)
    BY <1>3 DEF IssuedIn
  <2> QED BY <1>3, <2>1
<1> QED BY <1>2, <1>3

\* Every step of requests that do not overlap keeps the books in order.
LEMMA BooksNext ==
    ASSUME IsFiniteSet(Cards), IInv, BooksInv, BooksInOrder, [Next]_vars
    PROVE  BooksInv' /\ BooksInOrder'
<1> SUFFICES ASSUME ~overlapped' PROVE BooksInv' /\ BooksInOrder'
  BY DEF BooksInv, BooksInOrder
<1> USE InvoicingAssumption, RequestsTyped
<1>0. TypeOK /\ IncomeMatchesInvoice /\ RequestsKnow
  BY DEF IInv
<1>1. ~overlapped
  BY <1>0 DEF Next, CardStep, CompleteCard, MarkInvoiced, RequestStep, ReadCard,
              ReadInvoice, Begin, CheckExisting, CountInvoices, Issue, IssueRejected,
              AnnounceGenerated, Pay, AnnouncePaid, NextYear, LoseRequests, vars, TypeOK
<1>2. /\ OneBusy /\ NumbersCounted /\ PaidOnce
      /\ \A r \in Requests : NextNumber(r) /\ PaymentFits(r)
  BY <1>1 DEF BooksInv
<1>3. ASSUME NEW c \in Cards
      PROVE  /\ paid[c] <= Total[c] /\ payments[c] <= MAX_PAYMENTS_PER_INVOICE
             /\ invoice[c] = "PAID" <=> paid[c] > 0 /\ paid[c] = Total[c]
             /\ paidEvents[c] <= 1
             /\ paid[c] \in Nat /\ payments[c] \in Nat /\ Total[c] \in Nat
             /\ paidEvents[c] \in Nat
  BY <1>0, <1>1 DEF BooksInOrder, TypeOK
<1>4. ASSUME NEW c \in Cards, NEW d \in Cards, invoice[c] # "none",
             invoice[d] # "none", number[c] = number[d]
      PROVE  c = d
  BY <1>1, <1>4 DEF BooksInOrder
<1>5. ASSUME UNCHANGED <<invoice, number, issuedIn, paid, payments, paidEvents>>,
             year <= year', year' \in Nat, OneBusy',
             \A r \in Requests :
                 \/ req'[r] = req[r]
                 \/ req'[r].pc \notin {"issue", "pay", "announcePaid"}
      PROVE  BooksInv' /\ BooksInOrder'
  <2>1. BooksInOrder'
    BY <1>1, <1>5 DEF BooksInOrder
  <2>2. \A y : IssuedIn(y)' = IssuedIn(y)
    BY <1>5 DEF IssuedIn
  <2>3. year \in Nat /\ year' \in Nat /\ \A c \in Cards : issuedIn[c] \in Nat
    BY <1>0, <1>5 DEF TypeOK
  <2>4. NumbersCounted'
    BY <1>2, <1>5, <2>2, <2>3 DEF NumbersCounted
  <2>5. PaidOnce'
    BY <1>2, <1>5 DEF PaidOnce, Owes
  <2>6. ASSUME NEW r \in Requests PROVE NextNumber(r)' /\ PaymentFits(r)'
    <3>1. req[r].number.year \in Nat
      BY <1>0 DEF TypeOK, RequestRecords, Numbers
    <3> QED BY <1>2, <1>5, <2>2, <2>3, <3>1 DEF NextNumber, PaymentFits
  <2> QED BY <1>5, <2>1, <2>4, <2>5, <2>6 DEF BooksInv
<1>6. ASSUME NEW r \in Requests, \A o \in Requests \ {r} : req'[o] = req[o],
             req[r].pc # "idle"
      PROVE  OneBusy'
  BY <1>2, <1>6 DEF OneBusy
<1>7. ASSUME NEW r \in Requests, NEW q, Begin(r, q)
      PROVE  /\ OneBusy' /\ \A o \in Requests : req[o].pc = "idle"
             /\ req'[r] = q /\ \A o \in Requests \ {r} : req'[o] = req[o]
             /\ UNCHANGED <<invoice, number, issuedIn, paid, payments, paidEvents, year>>
  BY <1>0, <1>7 DEF Begin, TypeOK, OneBusy, cardVars, paymentVars, eventVars
<1>8. ASSUME NEW r \in Requests, NEW c \in Cards, ReadCard(r, c)
      PROVE  BooksInv' /\ BooksInOrder'
  <2>1. Begin(r, At("checkExisting", c))
    BY <1>8 DEF ReadCard
  <2> QED BY <1>0, <1>5, <1>7, <2>1 DEF Steps, TypeOK
<1>9. ASSUME NEW r \in Requests,
             CheckExisting(r) \/ IssueRejected(r) \/ AnnounceGenerated(r)
      PROVE  BooksInv' /\ BooksInOrder'
  <2>1. UNCHANGED <<invoice, number, issuedIn, paid, payments, paidEvents, year>>
    BY <1>9 DEF CheckExisting, IssueRejected, AnnounceGenerated, cardVars,
                paymentVars, eventVars
  <2>2. /\ req[r].pc # "idle" /\ req[r].card \in Cards
        /\ \/ req' = [req EXCEPT ![r] = At("count", req[r].card)]
           \/ req' = [req EXCEPT ![r] = Idle]
    BY <1>0, <1>9 DEF CheckExisting, IssueRejected, AnnounceGenerated, RequestsKnow
  <2>3. /\ \A o \in Requests \ {r} : req'[o] = req[o]
        /\ req'[r].pc \in {"count", "idle"}
    BY <1>0, <2>2 DEF TypeOK, Steps
  <2> QED BY <1>0, <1>5, <1>6, <2>1, <2>2, <2>3 DEF TypeOK
<1>10. ASSUME NEW r \in Requests, CountInvoices(r) PROVE BooksInv' /\ BooksInOrder'
  <2>1. /\ UNCHANGED <<invoice, number, issuedIn, paid, payments, paidEvents, year>>
        /\ req[r].pc # "idle"
    BY <1>10 DEF CountInvoices, cardVars, paymentVars, eventVars
  <2>2. /\ \A o \in Requests \ {r} : req'[o] = req[o]
        /\ req'[r].pc = "issue" /\ req'[r].number = generateInvoiceNumber
    BY <1>0, <1>10 DEF CountInvoices, TypeOK
  <2>3. OneBusy'
    BY <1>6, <2>1, <2>2
  <2>4. BooksInOrder'
    BY <1>1, <2>1 DEF BooksInOrder
  <2>5. \A y : IssuedIn(y)' = IssuedIn(y)
    BY <2>1 DEF IssuedIn
  <2>6. NumbersCounted' /\ PaidOnce'
    BY <1>2, <2>1, <2>2, <2>5 DEF NumbersCounted, PaidOnce, Owes
  <2>7. NextNumber(r)'
    <3>1. /\ generateInvoiceNumber.year = year
          /\ generateInvoiceNumber.seq = Cardinality(IssuedIn(year)) + 1
      BY DEF generateInvoiceNumber, IssuedIn
    <3>2. \A c \in Cards : invoice[c] # "none" => issuedIn[c] <= year
      BY <1>2 DEF NumbersCounted
    <3>3. year <= year
      BY <1>0 DEF TypeOK
    <3> QED BY <2>1, <2>2, <2>5, <3>1, <3>2, <3>3 DEF NextNumber
  <2>8. \A o \in Requests : NextNumber(o)' /\ PaymentFits(o)'
    <3> SUFFICES ASSUME NEW o \in Requests PROVE NextNumber(o)' /\ PaymentFits(o)'
      OBVIOUS
    <3>1. CASE o = r
      BY <2>2, <2>7, <3>1 DEF PaymentFits
    <3>2. CASE o # r
      BY <1>2, <2>1, <2>2, <2>5, <3>2 DEF NextNumber, PaymentFits
    <3> QED BY <3>1, <3>2
  <2> QED BY <2>3, <2>4, <2>6, <2>8 DEF BooksInv
<1>11. ASSUME NEW r \in Requests, Issue(r) PROVE BooksInv' /\ BooksInOrder'
  <2> DEFINE c == req[r].card
             n == req[r].number
  <2>1. /\ c \in Cards /\ invoice[c] = "none" /\ req[r].pc = "issue"
        /\ n \in Numbers /\ paid[c] = 0
    BY <1>0, <1>11 DEF Issue, RequestsKnow, TypeOK, RequestRecords, IncomeMatchesInvoice
  <2>2. /\ \A d \in Cards \ {c} : /\ invoice'[d] = invoice[d]
                                  /\ issuedIn'[d] = issuedIn[d]
                                  /\ number'[d] = number[d]
        /\ invoice'[c] = "ISSUED" /\ issuedIn'[c] = year /\ number'[c] = n
        /\ UNCHANGED <<paid, payments, paidEvents, year>>
    BY <1>0, <1>11, <2>1 DEF Issue, TypeOK, paymentVars, eventVars
  <2>3. /\ \A o \in Requests \ {r} : req'[o] = req[o]
        /\ req'[r].pc = "announceGenerated"
    BY <1>0, <1>11, <2>1 DEF Issue, TypeOK, Steps
  <2>4. OneBusy' /\ \A o \in Requests \ {r} : req[o].pc = "idle"
    BY <1>2, <1>6, <2>1, <2>3 DEF OneBusy
  <2>5. /\ n.year <= year /\ n.seq = Cardinality(IssuedIn(n.year)) + 1
        /\ \A d \in Cards : invoice[d] # "none" => issuedIn[d] <= n.year
    BY <1>2, <2>1 DEF NextNumber
  <2>6. \A y : /\ Cardinality(IssuedIn(y)) \in Nat
               /\ Cardinality(IssuedIn(y)')
                    = IF y = year THEN Cardinality(IssuedIn(y)) + 1
                                  ELSE Cardinality(IssuedIn(y))
    BY <1>0, <2>1, <2>2, CountTyped, CountOneMore
  <2>7. NumbersCounted'
    <3> SUFFICES ASSUME NEW d \in Cards, invoice'[d] # "none",
                        NEW y, y = issuedIn'[d]
                 PROVE  /\ number'[d].year <= y /\ y <= year
                        /\ number'[d].year = y =>
                              number'[d].seq <= Cardinality(IssuedIn(y)')
      BY <2>2 DEF NumbersCounted, IssuedIn
    <3>1. CASE d = c
      <4>1. y = year /\ number'[d] = n
        BY <2>2, <3>1
      <4>2. Cardinality(IssuedIn(y)') = Cardinality(IssuedIn(y)) + 1
        BY <2>6, <4>1
      <4>3. n.year = y => n.seq = Cardinality(IssuedIn(y)) + 1
        BY <2>5
      <4>4. year <= year /\ Cardinality(IssuedIn(y)) + 1 <= Cardinality(IssuedIn(y)) + 1
        BY <1>0, <2>6 DEF TypeOK
      <4> QED BY <2>5, <4>1, <4>2, <4>3, <4>4
    <3>2. CASE d # c
      <4>1. /\ number[d].seq \in Nat /\ y = issuedIn[d]
            /\ number'[d] = number[d] /\ invoice[d] # "none"
        BY <1>0, <2>2, <3>2 DEF TypeOK, Numbers
      <4>2. /\ number[d].year <= y /\ y <= year
            /\ number[d].year = y => number[d].seq <= Cardinality(IssuedIn(y))
        BY <1>2, <4>1 DEF NumbersCounted
      <4>3. /\ Cardinality(IssuedIn(y)) \in Nat
            /\ Cardinality(IssuedIn(y)') \in {Cardinality(IssuedIn(y)),
                                              Cardinality(IssuedIn(y)) + 1}
        BY <2>6
      <4> QED BY <4>1, <4>2, <4>3
    <3> QED BY <3>1, <3>2
  <2>8. PaidOnce'
    BY <1>2, <2>1, <2>2, <2>3 DEF PaidOnce, Owes
  <2>9. \A o \in Requests : NextNumber(o)' /\ PaymentFits(o)'
    BY <2>3, <2>4 DEF NextNumber, PaymentFits
  <2>10. ASSUME NEW d \in Cards, d # c, invoice[d] # "none" PROVE number[d] # n
    <3>1. number[d] \in Numbers /\ number[d].seq \in Nat /\ issuedIn[d] \in Nat
          /\ number[d].year \in Nat /\ n.year \in Nat
      BY <1>0, <2>1 DEF TypeOK, Numbers
    <3>2. /\ number[d].year <= issuedIn[d] /\ issuedIn[d] <= n.year
          /\ number[d].year = issuedIn[d] =>
                number[d].seq <= Cardinality(IssuedIn(issuedIn[d]))
      BY <1>2, <2>5, <2>10 DEF NumbersCounted
    <3>3. ASSUME number[d] = n PROVE FALSE
      <4>1. issuedIn[d] = n.year
        BY <3>1, <3>2, <3>3
      <4>2. n.seq <= Cardinality(IssuedIn(n.year))
        BY <3>2, <3>3, <4>1
      <4> QED BY <2>5, <2>6, <4>2
    <3> QED BY <3>3
  <2>11. BooksInOrder'
    <3>1. ASSUME NEW d \in Cards
          PROVE  /\ paid'[d] <= Total[d] /\ payments'[d] <= MAX_PAYMENTS_PER_INVOICE
                 /\ invoice'[d] = "PAID" <=> paid'[d] > 0 /\ paid'[d] = Total[d]
                 /\ paidEvents'[d] <= 1
      BY <1>3, <2>1, <2>2
    <3>2. ASSUME NEW d \in Cards, NEW e \in Cards, invoice'[d] # "none",
                 invoice'[e] # "none", number'[d] = number'[e]
          PROVE  d = e
      BY <1>4, <2>2, <2>10, <3>2
    <3> QED BY <3>1, <3>2 DEF BooksInOrder
  <2> QED BY <2>4, <2>7, <2>8, <2>9, <2>11 DEF BooksInv
<1>12. ASSUME NEW r \in Requests, NEW c \in Cards, NEW a \in Amounts,
              ReadInvoice(r, c, a)
       PROVE  BooksInv' /\ BooksInOrder'
  <2> DEFINE q == [pc |-> "pay", card |-> c, number |-> NoNumber,
                   read |-> paid[c], amount |-> a]
  <2>1. /\ Begin(r, q) /\ paid[c] + a <= Total[c] /\ a > 0
        /\ payments[c] < MAX_PAYMENTS_PER_INVOICE
        /\ invoice[c] \in {"ISSUED", "PARTIALLY_PAID"}
    BY <1>12 DEF ReadInvoice
  <2>2. q.pc = "pay" /\ q.card = c /\ q.read = paid[c] /\ q.amount = a
    OBVIOUS
  <2> HIDE DEF q
  <2>3. /\ OneBusy' /\ \A o \in Requests : req[o].pc = "idle"
        /\ req'[r] = q /\ \A o \in Requests \ {r} : req'[o] = req[o]
        /\ UNCHANGED <<invoice, number, issuedIn, paid, payments, paidEvents, year>>
    BY <1>7, <2>1
  <2>4. BooksInOrder'
    BY <1>1, <2>3 DEF BooksInOrder
  <2>5. \A y : IssuedIn(y)' = IssuedIn(y)
    BY <2>3 DEF IssuedIn
  <2>6. NumbersCounted' /\ PaidOnce'
    BY <1>2, <2>2, <2>3, <2>5 DEF NumbersCounted, PaidOnce, Owes
  <2>7. \A o \in Requests : NextNumber(o)' /\ PaymentFits(o)'
    BY <2>1, <2>2, <2>3 DEF NextNumber, PaymentFits
  <2> QED BY <2>3, <2>4, <2>6, <2>7 DEF BooksInv
<1>13. ASSUME NEW r \in Requests, Pay(r) PROVE BooksInv' /\ BooksInOrder'
  <2> DEFINE c == req[r].card
             a == req[r].amount
  <2>1. /\ c \in Cards /\ req[r].pc = "pay" /\ a \in Nat /\ a > 0
        /\ req[r].read = paid[c] /\ paid[c] + a <= Total[c]
        /\ payments[c] < MAX_PAYMENTS_PER_INVOICE
        /\ invoice[c] \in {"ISSUED", "PARTIALLY_PAID"}
    BY <1>0, <1>2, <1>13 DEF Pay, RequestsKnow, PaymentFits, TypeOK, RequestRecords
  <2>2. /\ \A d \in Cards \ {c} : /\ invoice'[d] = invoice[d] /\ paid'[d] = paid[d]
                                  /\ payments'[d] = payments[d]
        /\ paid'[c] = paid[c] + a /\ payments'[c] = payments[c] + 1
        /\ UNCHANGED <<number, issuedIn, paidEvents, year>>
        /\ \A o \in Requests \ {r} : req'[o] = req[o]
    BY <1>0, <1>13, <2>1 DEF Pay, TypeOK, eventVars
  <2>3. \/ /\ paid[c] + a >= Total[c] /\ invoice'[c] = "PAID"
           /\ req'[r].pc = "announcePaid" /\ req'[r].card = c
        \/ /\ ~(paid[c] + a >= Total[c]) /\ invoice'[c] = "PARTIALLY_PAID"
           /\ req'[r].pc = "idle"
    BY <1>0, <1>13, <2>1 DEF Pay, TypeOK, Steps
  <2>4. OneBusy' /\ \A o \in Requests \ {r} : req[o].pc = "idle"
    BY <1>2, <1>6, <2>1, <2>2 DEF OneBusy
  <2>5. paidEvents[c] = 0
    BY <1>2, <2>1 DEF PaidOnce
  <2>6. ASSUME NEW d \in Cards
        PROVE  /\ paid'[d] <= Total[d] /\ payments'[d] <= MAX_PAYMENTS_PER_INVOICE
               /\ invoice'[d] = "PAID" <=> paid'[d] > 0 /\ paid'[d] = Total[d]
               /\ paidEvents'[d] <= 1
    <3>1. CASE d = c
      <4>1. paid[c] \in Nat /\ Total[c] \in Nat /\ payments[c] \in Nat
            /\ paidEvents[c] <= 1
        BY <1>3, <2>1
      <4> QED BY <2>1, <2>2, <2>3, <3>1, <4>1
    <3>2. CASE d # c
      BY <1>3, <2>2, <3>2
    <3> QED BY <3>1, <3>2
  <2>7. \A d \in Cards : invoice'[d] # "none" <=> invoice[d] # "none"
    BY <2>1, <2>2, <2>3
  <2>8. BooksInOrder'
    BY <1>4, <2>2, <2>6, <2>7 DEF BooksInOrder
  <2>9. \A y : IssuedIn(y)' = IssuedIn(y)
    BY <2>2, <2>7 DEF IssuedIn
  <2>10. NumbersCounted'
    BY <1>2, <2>2, <2>7, <2>9 DEF NumbersCounted
  <2>11. PaidOnce'
    BY <1>2, <2>2, <2>3, <2>4, <2>5 DEF PaidOnce, Owes
  <2>12. \A o \in Requests : NextNumber(o)' /\ PaymentFits(o)'
    BY <2>2, <2>3, <2>4 DEF NextNumber, PaymentFits
  <2> QED BY <2>4, <2>8, <2>10, <2>11, <2>12 DEF BooksInv
<1>14. ASSUME NEW r \in Requests, AnnouncePaid(r) PROVE BooksInv' /\ BooksInOrder'
  <2> DEFINE c == req[r].card
  <2>1. /\ c \in Cards /\ req[r].pc = "announcePaid"
        /\ invoice[c] = "PAID" /\ paidEvents[c] = 0
    BY <1>0, <1>2, <1>14 DEF AnnouncePaid, RequestsKnow, PaidOnce, Owes
  <2>2. /\ \A d \in Cards \ {c} : paidEvents'[d] = paidEvents[d]
        /\ paidEvents'[c] = 1
        /\ UNCHANGED <<invoice, number, issuedIn, paid, payments, year>>
        /\ \A o \in Requests \ {r} : req'[o] = req[o]
        /\ req'[r].pc = "idle"
    BY <1>0, <1>14, <2>1 DEF AnnouncePaid, TypeOK, cardVars, paymentVars
  <2>3. OneBusy' /\ \A o \in Requests \ {r} : req[o].pc = "idle"
    BY <1>2, <1>6, <2>1, <2>2 DEF OneBusy
  <2>4. BooksInOrder'
    <3>1. \A d \in Cards : paidEvents'[d] <= 1
      BY <1>3, <2>2
    <3> QED BY <1>1, <2>2, <3>1 DEF BooksInOrder
  <2>5. \A y : IssuedIn(y)' = IssuedIn(y)
    BY <2>2 DEF IssuedIn
  <2>6. NumbersCounted'
    BY <1>2, <2>2, <2>5 DEF NumbersCounted
  <2>7. PaidOnce'
    BY <1>2, <2>1, <2>2, <2>3 DEF PaidOnce, Owes
  <2>8. \A o \in Requests : NextNumber(o)' /\ PaymentFits(o)'
    BY <2>2, <2>3 DEF NextNumber, PaymentFits
  <2> QED BY <2>3, <2>4, <2>6, <2>7, <2>8 DEF BooksInv
<1>15. CASE CardStep \/ NextYear \/ UNCHANGED vars
  <2>1. /\ UNCHANGED <<invoice, number, issuedIn, paid, payments, paidEvents, req>>
        /\ year' = year \/ year' = year + 1
    BY <1>15 DEF CardStep, CompleteCard, MarkInvoiced, NextYear, vars, cardVars,
                 paymentVars, eventVars
  <2>2. OneBusy' /\ year <= year'
    BY <1>0, <1>2, <2>1 DEF OneBusy, TypeOK
  <2>3. year' \in Nat
    BY <1>0, <2>1 DEF TypeOK
  <2> QED BY <1>5, <2>1, <2>2, <2>3
<1>16. ASSUME NEW lost \in SUBSET Requests, LoseRequests(lost)
       PROVE  BooksInv' /\ BooksInOrder'
  <2>1. /\ UNCHANGED <<invoice, number, issuedIn, paid, payments, paidEvents, year>>
        /\ \A r \in Requests : req'[r] = req[r] \/ req'[r].pc = "idle"
    BY <1>0, <1>16 DEF LoseRequests, TypeOK, cardVars, paymentVars, eventVars
  <2>2. OneBusy' /\ year <= year' /\ year' \in Nat
    BY <1>0, <1>2, <2>1 DEF OneBusy, TypeOK
  <2> QED BY <1>5, <2>1, <2>2
<1> QED
  BY <1>8, <1>9, <1>10, <1>11, <1>12, <1>13, <1>14, <1>15, <1>16 DEF Next, RequestStep

\* Until two requests overlap the books are in order: payments stay within the
\* total and the cap, PAID means paid to the last paisa and is announced once, and
\* no two invoices share a number, over any number of financial years. (Overlapping
\* requests break it: two of them count the same invoices.)
THEOREM BooksStayInOrder ==
    ASSUME IsFiniteSet(Cards) PROVE Spec => []BooksInOrder
<1>1. IInv /\ BooksInv /\ BooksInOrder /\ [Next]_vars => BooksInv' /\ BooksInOrder'
  BY BooksNext
<1> QED BY <1>1, BooksInit, InvoicingInvariant, PTL DEF Spec
=============================================================================
