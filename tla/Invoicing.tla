----------------------------- MODULE Invoicing -----------------------------
(***************************************************************************)
(* InvoicingService: one invoice for a completed job card, the payments    *)
(* against it, and their events.  Each database call of a request is a     *)
(* step; checks are made on what was read, and only the unique jobCardId   *)
(* of Invoice is checked again when it is written.                         *)
(***************************************************************************)
EXTENDS Naturals, FiniteSets

CONSTANTS
    Cards,          \* job cards of the tenant
    Requests,       \* HTTP requests that can be in flight at once
    NoCard,
    Total,          \* per card, Invoice.totalPaise: its items, parts and tax
    Amounts,        \* the amounts a payment may name
    MAX_PAYMENTS_PER_INVOICE,
    MaxYear,        \* bound: financial years that pass
    MaxFaults       \* bound: rejected database calls and restarts

ASSUME InvoicingAssumption ==
    /\ NoCard \notin Cards
    /\ Total \in [Cards -> Nat]
    /\ Amounts \subseteq Nat \ {0}
    /\ MAX_PAYMENTS_PER_INVOICE \in Nat
    /\ MaxYear \in Nat /\ MaxFaults \in Nat

VARIABLES
    status,         \* JobCard.status, the statuses before COMPLETED as OPEN
    invoice,        \* Invoice.status, "none" when there is no row
    number,         \* Invoice.invoiceNumber: financial year and sequence
    issuedIn,       \* the financial year of Invoice.issuedAt
    paid, payments, \* the sum and the number of InvoicePayment rows
    income,         \* TenantFinanceTxn rows for the card's invoice
    generatedEvents, paidEvents,  \* events published about the invoice
    year,           \* the financial year now
    req,            \* the requests in flight, with what they read
    overlapped,     \* history: two requests have been in flight at once
    faults

cardVars == <<status, invoice, number, issuedIn, income>>
paymentVars == <<paid, payments>>
eventVars == <<generatedEvents, paidEvents>>
vars == <<cardVars, paymentVars, eventVars, year, req, overlapped, faults>>

-----------------------------------------------------------------------------
CardStatuses == {"OPEN", "COMPLETED", "INVOICED"}
InvoiceStatuses == {"none", "ISSUED", "PARTIALLY_PAID", "PAID"}
Numbers == [year: Nat, seq: Nat]

Steps == {"idle", "checkExisting", "count", "issue", "announceGenerated",
          "pay", "announcePaid"}
RequestRecords == [pc: Steps, card: Cards \cup {NoCard}, number: Numbers,
                   read: Nat, amount: Nat]
NoNumber == [year |-> 0, seq |-> 0]
Idle == [pc |-> "idle", card |-> NoCard, number |-> NoNumber,
         read |-> 0, amount |-> 0]
At(pc, c) == [pc |-> pc, card |-> c, number |-> NoNumber, read |-> 0, amount |-> 0]

Init ==
    /\ status = [c \in Cards |-> "OPEN"]
    /\ invoice = [c \in Cards |-> "none"]
    /\ number = [c \in Cards |-> NoNumber]
    /\ issuedIn = [c \in Cards |-> 0]
    /\ paid = [c \in Cards |-> 0]
    /\ payments = [c \in Cards |-> 0]
    /\ income = [c \in Cards |-> 0]
    /\ generatedEvents = [c \in Cards |-> 0]
    /\ paidEvents = [c \in Cards |-> 0]
    /\ year = 0
    /\ req = [r \in Requests |-> Idle]
    /\ overlapped = FALSE
    /\ faults = 0

-----------------------------------------------------------------------------
(* The job card side, JobCardsService.transition: a card is completed, and  *)
(* COMPLETED to INVOICED is a transition of its own.                        *)
CompleteCard(c) ==
    /\ status[c] = "OPEN"
    /\ status' = [status EXCEPT ![c] = "COMPLETED"]
    /\ UNCHANGED <<invoice, number, issuedIn, income, paymentVars, eventVars,
                   year, req, overlapped, faults>>

MarkInvoiced(c) ==
    /\ status[c] = "COMPLETED"
    /\ status' = [status EXCEPT ![c] = "INVOICED"]
    /\ UNCHANGED <<invoice, number, issuedIn, income, paymentVars, eventVars,
                   year, req, overlapped, faults>>

-----------------------------------------------------------------------------
(* generate *)

\* A request has read what it needs and goes on.
Begin(r, record) ==
    /\ req' = [req EXCEPT ![r] = record]
    /\ overlapped' = (overlapped \/ \E o \in Requests : req[o].pc # "idle")
    /\ UNCHANGED <<cardVars, paymentVars, eventVars, year, faults>>

ReadCard(r, c) ==
    /\ req[r].pc = "idle"
    /\ status[c] = "COMPLETED"
    /\ Begin(r, At("checkExisting", c))

CheckExisting(r) ==
    /\ req[r].pc = "checkExisting"
    /\ req' = [req EXCEPT ![r] = IF invoice[req[r].card] = "none"
                                   THEN At("count", req[r].card)
                                   ELSE Idle]
    /\ UNCHANGED <<cardVars, paymentVars, eventVars, year, overlapped, faults>>

\* generateInvoiceNumber: one more than the invoices issued this year.
generateInvoiceNumber ==
    [year |-> year,
     seq |-> Cardinality({c \in Cards : invoice[c] # "none" /\ issuedIn[c] = year}) + 1]

CountInvoices(r) ==
    /\ req[r].pc = "count"
    /\ req' = [req EXCEPT ![r] = [pc |-> "issue", card |-> req[r].card,
                                  number |-> generateInvoiceNumber,
                                  read |-> 0, amount |-> 0]]
    /\ UNCHANGED <<cardVars, paymentVars, eventVars, year, overlapped, faults>>

\* Mutants: jobCardId is not unique; no event is owed.
IssueAgain(r) ==
    LET c == req[r].card IN
    /\ req[r].pc = "issue"
    /\ invoice' = [invoice EXCEPT ![c] = "ISSUED"]
    /\ number' = [number EXCEPT ![c] = req[r].number]
    /\ issuedIn' = [issuedIn EXCEPT ![c] = year]
    /\ status' = [status EXCEPT ![c] = "INVOICED"]
    /\ income' = [income EXCEPT ![c] = @ + 1]
    /\ req' = [req EXCEPT ![r] = At("announceGenerated", c)]
    /\ UNCHANGED <<paymentVars, eventVars, year, overlapped, faults>>

IssueSilently(r) ==
    LET c == req[r].card IN
    /\ req[r].pc = "issue"
    /\ invoice[c] = "none"
    /\ invoice' = [invoice EXCEPT ![c] = "ISSUED"]
    /\ number' = [number EXCEPT ![c] = req[r].number]
    /\ issuedIn' = [issuedIn EXCEPT ![c] = year]
    /\ status' = [status EXCEPT ![c] = "INVOICED"]
    /\ income' = [income EXCEPT ![c] = @ + 1]
    /\ req' = [req EXCEPT ![r] = Idle]
    /\ UNCHANGED <<paymentVars, eventVars, year, overlapped, faults>>

\* The transaction: the invoice, the card's status and the income record. It
\* rejects when the card has an invoice by now (Invoice.jobCardId is unique).
Issue(r) ==
    LET c == req[r].card IN
    /\ req[r].pc = "issue"
    /\ invoice[c] = "none"
    /\ invoice' = [invoice EXCEPT ![c] = "ISSUED"]
    /\ number' = [number EXCEPT ![c] = req[r].number]
    /\ issuedIn' = [issuedIn EXCEPT ![c] = year]
    /\ status' = [status EXCEPT ![c] = "INVOICED"]
    /\ income' = [income EXCEPT ![c] = @ + 1]
    /\ req' = [req EXCEPT ![r] = At("announceGenerated", c)]
    /\ UNCHANGED <<paymentVars, eventVars, year, overlapped, faults>>

IssueRejected(r) ==
    /\ req[r].pc = "issue"
    /\ invoice[req[r].card] # "none"
    /\ req' = [req EXCEPT ![r] = Idle]
    /\ UNCHANGED <<cardVars, paymentVars, eventVars, year, overlapped, faults>>

AnnounceGenerated(r) ==
    /\ req[r].pc = "announceGenerated"
    /\ generatedEvents' = [generatedEvents EXCEPT ![req[r].card] = @ + 1]
    /\ req' = [req EXCEPT ![r] = Idle]
    /\ UNCHANGED <<cardVars, paymentVars, paidEvents, year, overlapped, faults>>

-----------------------------------------------------------------------------
(* recordPayment *)

\* Mutant: the amount is not compared with what remains.
ReadUnpaidInvoice(r, c, amount) ==
    /\ req[r].pc = "idle"
    /\ invoice[c] \in {"ISSUED", "PARTIALLY_PAID"}
    /\ payments[c] < MAX_PAYMENTS_PER_INVOICE
    /\ paid[c] < Total[c]
    /\ Begin(r, [pc |-> "pay", card |-> c, number |-> NoNumber,
                 read |-> paid[c], amount |-> amount])

ReadInvoice(r, c, amount) ==
    /\ req[r].pc = "idle"
    /\ invoice[c] \in {"ISSUED", "PARTIALLY_PAID"}
    /\ payments[c] < MAX_PAYMENTS_PER_INVOICE
    /\ paid[c] + amount <= Total[c]
    /\ Begin(r, [pc |-> "pay", card |-> c, number |-> NoNumber,
                 read |-> paid[c], amount |-> amount])

\* Mutant: an invoice counts as paid one unit early.
PayAlmost(r) ==
    LET c == req[r].card
        full == req[r].read + req[r].amount + 1 >= Total[c]
    IN
    /\ req[r].pc = "pay"
    /\ paid' = [paid EXCEPT ![c] = @ + req[r].amount]
    /\ payments' = [payments EXCEPT ![c] = @ + 1]
    /\ invoice' = [invoice EXCEPT ![c] = IF full THEN "PAID" ELSE "PARTIALLY_PAID"]
    /\ req' = [req EXCEPT ![r] = IF full THEN At("announcePaid", c) ELSE Idle]
    /\ UNCHANGED <<status, number, issuedIn, income, eventVars, year, overlapped, faults>>

\* The transaction: the payment row, and the status from what was read.
Pay(r) ==
    LET c == req[r].card
        full == req[r].read + req[r].amount >= Total[c]
    IN
    /\ req[r].pc = "pay"
    /\ paid' = [paid EXCEPT ![c] = @ + req[r].amount]
    /\ payments' = [payments EXCEPT ![c] = @ + 1]
    /\ invoice' = [invoice EXCEPT ![c] = IF full THEN "PAID" ELSE "PARTIALLY_PAID"]
    /\ req' = [req EXCEPT ![r] = IF full THEN At("announcePaid", c) ELSE Idle]
    /\ UNCHANGED <<status, number, issuedIn, income, eventVars, year, overlapped, faults>>

AnnouncePaid(r) ==
    /\ req[r].pc = "announcePaid"
    /\ paidEvents' = [paidEvents EXCEPT ![req[r].card] = @ + 1]
    /\ req' = [req EXCEPT ![r] = Idle]
    /\ UNCHANGED <<cardVars, paymentVars, generatedEvents, year, overlapped, faults>>

-----------------------------------------------------------------------------
\* April 1st.
NextYear ==
    /\ year < MaxYear
    /\ year' = year + 1
    /\ UNCHANGED <<cardVars, paymentVars, eventVars, req, overlapped, faults>>

\* A database call that rejects ends its request, a restart ends them all.
LoseRequests(lost) ==
    /\ faults < MaxFaults
    /\ faults' = faults + 1
    /\ req' = [r \in Requests |-> IF r \in lost THEN Idle ELSE req[r]]
    /\ UNCHANGED <<cardVars, paymentVars, eventVars, year, overlapped>>

CardStep == \E c \in Cards : CompleteCard(c) \/ MarkInvoiced(c)

RequestStep(r) ==
    \/ \E c \in Cards : ReadCard(r, c) \/ \E a \in Amounts : ReadInvoice(r, c, a)
    \/ CheckExisting(r) \/ CountInvoices(r) \/ Issue(r) \/ IssueRejected(r)
    \/ AnnounceGenerated(r) \/ Pay(r) \/ AnnouncePaid(r)

Next ==
    \/ CardStep
    \/ \E r \in Requests : RequestStep(r)
    \/ NextYear
    \/ \E lost \in SUBSET Requests : LoseRequests(lost)

Spec == Init /\ [][Next]_vars

-----------------------------------------------------------------------------
(* Properties. *)

\* The types of the rows and of what requests carry.
TypeOK ==
    /\ status \in [Cards -> CardStatuses]
    /\ invoice \in [Cards -> InvoiceStatuses]
    /\ number \in [Cards -> Numbers]
    /\ issuedIn \in [Cards -> Nat]
    /\ paid \in [Cards -> Nat] /\ payments \in [Cards -> Nat]
    /\ income \in [Cards -> Nat]
    /\ generatedEvents \in [Cards -> Nat] /\ paidEvents \in [Cards -> Nat]
    /\ year \in Nat /\ overlapped \in BOOLEAN /\ faults \in Nat
    /\ req \in [Requests -> RequestRecords]

\* However requests overlap, the invoice, the status INVOICED and one income
\* record stand together: a second generate of the same card adds nothing.
IncomeMatchesInvoice ==
    \A c \in Cards :
        IF invoice[c] = "none"
          THEN income[c] = 0 /\ paid[c] = 0
          ELSE income[c] = 1 /\ status[c] = "INVOICED"

\* An invoice that reads PAID has been paid in full, even by payments that
\* overlap: recordPayment's total can be stale, but only too small.
PaidIsPaidFor == \A c \in Cards : invoice[c] = "PAID" => paid[c] >= Total[c]

\* While there is no fault, an invoice's event is published, or owed.
GeneratedAnnounced ==
    faults = 0 =>
        \A c \in Cards :
            invoice[c] # "none" =>
                \/ generatedEvents[c] = 1
                \/ \E r \in Requests :
                       req[r].pc = "announceGenerated" /\ req[r].card = c

\* What requests in flight know: a card, an invoice to pay, a sum not too large.
RequestsKnow ==
    \A r \in Requests :
        /\ req[r].pc # "idle" => req[r].card \in Cards
        /\ req[r].pc \in {"checkExisting", "count", "issue"} =>
               status[req[r].card] # "OPEN"
        /\ req[r].pc = "pay" => /\ invoice[req[r].card] # "none"
                                /\ req[r].read <= paid[req[r].card]

\* The inductive invariant behind IncomeMatchesInvoice and PaidIsPaidFor.
IInv == TypeOK /\ IncomeMatchesInvoice /\ PaidIsPaidFor /\ RequestsKnow

\* As long as no two requests overlapped, the books are in order: the payments
\* stay within the total and the count, the status says how much is paid, the
\* event of a full payment is published at most once, and no two invoices carry
\* the same number, across the turn of the financial year.
BooksInOrder ==
    ~overlapped =>
        /\ \A c \in Cards :
            /\ paid[c] <= Total[c]
            /\ payments[c] <= MAX_PAYMENTS_PER_INVOICE
            /\ invoice[c] = "PAID" <=> paid[c] > 0 /\ paid[c] = Total[c]
            /\ paidEvents[c] <= 1
        /\ \A c, d \in Cards :
            invoice[c] # "none" /\ invoice[d] # "none" /\ number[c] = number[d] =>
                c = d
=============================================================================
