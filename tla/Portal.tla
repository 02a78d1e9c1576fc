------------------------------- MODULE Portal -------------------------------
(***************************************************************************)
(* What one user sees and does: the pages of the frontend over the API.    *)
(* The pages keep copies of the API's answers (TanStack Query, keyed by    *)
(* ['invoices'] and ['invoice', id]) and offer buttons by what the copy    *)
(* says; the API scopes every read by the caller and refuses an action by  *)
(* what the row says.  Between the two: answers in the air, copies that    *)
(* are fresh for 30 seconds, and everyone else who writes the same rows.   *)
(*                                                                         *)
(* One handler is one step here; what happens between the steps of one is  *)
(* InvoiceService's subject.  One user per page load, and one action of    *)
(* theirs in the air at a time.                                            *)
(***************************************************************************)
EXTENDS InvoiceStore

CONSTANTS
    Clients,     \* client users, each with the client record it owns
    Admin,       \* the administrator
    PageLimit,   \* rows the pages ask a list for: 100, the most the API gives
    GrossTotals, \* gross totals of the invoices written
    MaxLateFee,  \* bound on the late fee the overdue runs reach
    MaxFlights,  \* bound on the fetches in the air
    MaxWrites,   \* bound on what the user presses and everyone else writes
    NoDoc

\* The table holds finitely many rows.
ASSUME PortalAssumption ==
    /\ IsFiniteSet(Docs)
    /\ Admin \notin Clients /\ NoDoc \notin Docs /\ "invoices" \notin Docs
    /\ PageLimit \in Nat \ {0}
    /\ GrossTotals \subseteq Int

VARIABLES
    owner,  \* Invoice.clientId, as the user of that client
    user,   \* who is signed in on this page load
    page,   \* the route: "invoices", an invoice's own page, or "other"
    cache,  \* the query cache: a copy per key
    flight, \* the fetch in the air per key
    acting, \* the mutation in the air
    writes  \* how much was pressed and written, for MaxWrites only

portalVars == <<owner, user, page, cache, flight, acting>>
vars == <<storeVars, portalVars, writes>>

-----------------------------------------------------------------------------
(* The API                                                                 *)

Keys == Docs \cup {"invoices"}

\* toPublicInvoice: what the pages decide by.
ToPublicInvoice(d) ==
    [type |-> invoice[d].type, status |-> invoice[d].status,
     totalDueOre |-> TotalDue(d)]

\* getInvoiceForCaller and the WHERE clause of listInvoicesForCaller.
MaySee_Any(d) == TRUE
MaySee(d) == user = Admin \/ owner[d] = user

\* orderBy: { createdAt: 'desc' }, take: limit, and offset 0: no page asks for
\* a second one.  Here an invoice has its number from the step that creates
\* it, so the newest are those with the highest.
Newer(d, docs) == {e \in docs : invoice[e].number > invoice[d].number}
FirstPage(docs) == {d \in docs : Cardinality(Newer(d, docs)) < PageLimit}

\* The answer to GET /invoices or GET /invoices/:id; a 404 has no row.
Visible == {d \in Docs : Exists(d) /\ MaySee(d)}
Answer(k) ==
    [d \in (IF k = "invoices" THEN FirstPage(Visible) ELSE Visible \cap {k}) |->
        ToPublicInvoice(d)]

\* authorize('ADMIN') and the guard of each POST.
Accepts(op, d) ==
    /\ user = Admin
    /\ CASE op = "create" -> TRUE
         [] op = "send"   -> IsDraft(d)
         [] OTHER         -> IsOpen(d)

Create(d, client, gross) ==
    /\ AllocateInvoiceNumber
    /\ CreateInvoiceWithItems(d, NextNumber, gross, 0)
    /\ owner' = [owner EXCEPT ![d] = client]

Remind(d) ==
    \/ ChargeReminderFee(d, 1)
    \/ IsOpen(d) /\ ~NotYetReminded(d) /\ MarkReminderSent(d, 1)

IssueCreditNote(d, note) ==
    /\ AllocateInvoiceNumber
    /\ CreateCreditNote(d, note, NextNumber, invoice[d], 0)
    /\ owner' = [owner EXCEPT ![note] = owner[d]]

-----------------------------------------------------------------------------
(* The pages                                                               *)

\* Of the lists, the one ClientInvoicesPage keeps under ['invoices'] and sums.
\* The administrator's, ['invoices', { status, clientId }] of AdminInvoicesPage
\* and ['invoices', { status: 'OVERDUE' }] of DashboardPage, show rows and
\* offer no action on one; they are asked for and invalidated like it, and it
\* stands for them.  "other" is every route that keeps no copy of an invoice,
\* NewInvoicePage among them.
Routes == Docs \cup {"invoices", "other"}

\* RequireAuth with role="ADMIN", around NewInvoicePage and the other pages
\* of the administrator.
OnAdminPage == page = "other" /\ user = Admin

\* The keys the page on screen observes.
Mounted(k) == k = page

HasRow(d) == d \in DOMAIN cache[d].rows

\* InvoiceDetail's canAct, and the buttons it shows.
CanAct_AnyType(row) == user = Admin /\ row.status \in OpenStatuses
CanAct(row) ==
    /\ user = Admin
    /\ row.type # "CREDIT_NOTE"
    /\ row.status \in OpenStatuses

Offered(row) ==
    (IF user = Admin /\ row.status = "DRAFT" THEN {"send"} ELSE {})
      \cup (IF CanAct(row) THEN {"remind", "link", "credit"} ELSE {})

\* ClientInvoicesPage: `unpaid` and `outstandingOre`.
Unpaid(rows) ==
    {d \in DOMAIN rows :
        rows[d].type = "INVOICE" /\ rows[d].status \in OpenStatuses}

OutstandingOre(rows) == SumFunction([d \in Unpaid(rows) |-> rows[d].totalDueOre])

-----------------------------------------------------------------------------
(* The query cache.  missed says whether the copy, or the answer in the    *)
(* air, was read before a write of this user's own: "pending" until the    *)
(* page hears of the write, "crossed" when the fetch was not one that      *)
(* hearing of it restarts, "lost" when the page never hears, "yes"         *)
(* otherwise.  The code does not know; it is what the property is about.   *)

Missed == {"no", "pending", "crossed", "lost", "yes"}
NoRows == [d \in {} |-> NoDoc]

NoCopy   == [rows |-> NoRows, state |-> "none", missed |-> "no"]
NoFlight == [pc |-> "none", rows |-> NoRows, missed |-> "no"]
Asked    == [NoFlight EXCEPT !.pc = "asked"]
NoAct    == [pc |-> "none", op |-> "none", doc |-> NoDoc, seen |-> "none", result |-> NoDoc]

\* Mounting a query: fetch unless the copy is fresh; a fetch in the air is
\* shared.
MountedFlight(k) ==
    IF cache[k].state # "fresh" /\ flight[k].pc = "none" THEN Asked ELSE flight[k]

GoTo(p) ==
    /\ page' = p
    /\ flight' = IF p \in Keys THEN [flight EXCEPT ![p] = MountedFlight(p)] ELSE flight

\* invalidate() of InvoiceDetail, for the action on d.
Invalidates_DetailOnly(k, d) == k = d
Invalidates(k, d) == k \in {d, "invoices"}

\* What invalidateQueries restarts: only what is on screen is fetched again,
\* and a first load that is in the air is not.
Refetched(k) == Mounted(k) /\ cache[k].state # "none"

\* What was read of d before a write that is now made.
Overtaken(c, read) == IF read THEN [c EXCEPT !.missed = "pending"] ELSE c
AllOvertaken(d) ==
    /\ cache' = [k \in Keys |->
            Overtaken(cache[k], k \in {d, "invoices"} /\ cache[k].state # "none")]
    /\ flight' = [k \in Keys |->
            Overtaken(flight[k], k \in {d, "invoices"} /\ flight[k].pc = "answered")]

Told(c, how) == IF c.missed = "pending" THEN [c EXCEPT !.missed = how] ELSE c

-----------------------------------------------------------------------------
(* Fetching                                                                *)

Visit(p) ==
    /\ p \in Routes \ {page}
    /\ GoTo(p)
    /\ Cardinality({k \in Keys : flight'[k].pc # "none"}) <= MaxFlights
    /\ UNCHANGED <<storeVars, owner, user, cache, acting>>

\* The API answers from the rows as they are now.
ServeFetch(k) ==
    /\ flight[k].pc = "asked"
    /\ flight' = [flight EXCEPT ![k] =
            [pc |-> "answered", rows |-> Answer(k), missed |-> "no"]]
    /\ UNCHANGED <<storeVars, owner, user, page, cache, acting>>

\* A 404 leaves an error and no data.
Gone(copy) ==
    [copy EXCEPT !.rows = NoRows,
                 !.state = IF copy.state = "none" THEN "none" ELSE "stale"]

\* Data that arrives is fresh, whatever was said of the key meanwhile; an
\* error is fetched again at the next mount.
FetchArrives(k) ==
    /\ flight[k].pc = "answered"
    /\ flight' = [flight EXCEPT ![k] = NoFlight]
    /\ cache' = [cache EXCEPT ![k] =
            IF k # "invoices" /\ flight[k].rows = NoRows
            THEN Gone(@)
            ELSE [rows |-> flight[k].rows, state |-> "fresh", missed |-> flight[k].missed]]
    /\ UNCHANGED <<storeVars, owner, user, page, acting>>

FetchFails(k) ==
    /\ flight[k].pc # "none"
    /\ flight' = [flight EXCEPT ![k] = NoFlight]
    /\ UNCHANGED <<storeVars, owner, user, page, cache, acting>>

\* staleTime.  Age matters only to the next mount, so a copy on screen ages
\* when it is left.
TurnsStale(k) ==
    /\ cache[k].state = "fresh" /\ ~Mounted(k)
    /\ cache' = [cache EXCEPT ![k].state = "stale"]
    /\ UNCHANGED <<storeVars, owner, user, page, flight, acting>>

-----------------------------------------------------------------------------
(* Acting                                                                  *)

PressCreate ==
    /\ OnAdminPage /\ acting = NoAct
    /\ acting' = [NoAct EXCEPT !.pc = "asked", !.op = "create"]
    /\ UNCHANGED <<storeVars, owner, user, page, cache, flight>>

Press(op) ==
    /\ page \in Docs /\ acting = NoAct
    /\ HasRow(page) /\ op \in Offered(cache[page].rows[page])
    /\ acting' = [pc |-> "asked", op |-> op, doc |-> page,
                  seen |-> cache[page].rows[page].status, result |-> NoDoc]
    /\ UNCHANGED <<storeVars, owner, user, page, cache, flight>>

\* The document the answer names: the page goes to it after a creation and
\* after a credit.
Done(result) == acting' = [acting EXCEPT !.pc = "done", !.result = result]

ServeCreate ==
    /\ acting.pc = "asked" /\ acting.op = "create" /\ Accepts("create", NoDoc)
    /\ \E d \in Docs, c \in Clients, gross \in GrossTotals :
        Create(d, c, gross) /\ Done(d)
    /\ UNCHANGED <<processed, user, page, cache, flight>>

ServeSend ==
    /\ acting.pc = "asked" /\ acting.op = "send" /\ Accepts("send", acting.doc)
    /\ MarkSent(acting.doc)
    /\ Done(NoDoc) /\ AllOvertaken(acting.doc)
    /\ UNCHANGED <<lastNumber, processed, owner, user, page>>

ServeRemind ==
    /\ acting.pc = "asked" /\ acting.op = "remind" /\ Accepts("remind", acting.doc)
    /\ Remind(acting.doc)
    /\ Done(NoDoc) /\ AllOvertaken(acting.doc)
    /\ UNCHANGED <<lastNumber, processed, owner, user, page>>

ServeCredit ==
    /\ acting.pc = "asked" /\ acting.op = "credit" /\ Accepts("credit", acting.doc)
    /\ \E note \in Docs : IssueCreditNote(acting.doc, note) /\ Done(note)
    /\ AllOvertaken(acting.doc)
    /\ UNCHANGED <<processed, user, page>>

\* The link is in Checkout; nothing a page shows changes.
ServeLink ==
    /\ acting.pc = "asked" /\ acting.op = "link" /\ Accepts("link", acting.doc)
    /\ Done(NoDoc)
    /\ UNCHANGED <<storeVars, owner, user, page, cache, flight>>

Refuse ==
    /\ acting.pc = "asked" /\ acting.op # "create" /\ ~Accepts(acting.op, acting.doc)
    /\ acting' = [acting EXCEPT !.pc = "refused"]
    /\ UNCHANGED <<storeVars, owner, user, page, cache, flight>>

\* onSuccess of send, remind and credit: the copies are told to be stale and
\* what is on screen is fetched again.  A credit then goes to the note.
HearInvalidating ==
    LET restarted == {k \in Keys : Invalidates(k, acting.doc) /\ Refetched(k)}
        next == IF acting.op = "credit" THEN acting.result ELSE page
    IN  /\ acting.pc = "done" /\ acting.op \in {"send", "remind", "credit"}
        /\ cache' = [k \in Keys |->
                [Told(cache[k], "yes") EXCEPT !.state =
                    IF Invalidates(k, acting.doc) /\ @ = "fresh" THEN "stale" ELSE @]]
        /\ flight' = [k \in Keys |->
                IF k \in restarted \/ (k = next /\ k # page /\ MountedFlight(k) = Asked)
                THEN Asked
                ELSE Told(flight[k],
                    IF Mounted(k) /\ cache[k].state # "none" THEN "yes" ELSE "crossed")]
        /\ page' = next
        /\ acting' = NoAct
        /\ UNCHANGED <<storeVars, owner, user>>

\* onSuccess of create goes to the new invoice and tells no query; that of
\* link opens the link.  A refusal is shown and tells no query either.
HearOther ==
    /\ \/ acting.pc = "done" /\ acting.op = "create" /\ GoTo(acting.result)
       \/ acting.pc = "done" /\ acting.op = "link" /\ UNCHANGED <<page, flight>>
       \/ acting.pc = "refused" /\ UNCHANGED <<page, flight>>
    /\ acting' = NoAct
    /\ UNCHANGED <<storeVars, owner, user, cache>>

\* The request or its answer is lost: a mutation is not retried.
ActFails ==
    /\ acting.pc # "none"
    /\ acting' = NoAct
    /\ cache'  = [k \in Keys |-> Told(cache[k], "lost")]
    /\ flight' = [k \in Keys |-> Told(flight[k], "lost")]
    /\ UNCHANGED <<storeVars, owner, user, page>>

-----------------------------------------------------------------------------
(* Everyone else: another administrator, the customer, the overdue run.    *)

CreatedElsewhere ==
    /\ \E d \in Docs, c \in Clients, gross \in GrossTotals : Create(d, c, gross)
    /\ UNCHANGED <<processed, user, page, cache, flight, acting>>

WrittenElsewhere(d) ==
    /\ \/ MarkSent(d)
       \/ DeleteDraftInvoice(d)
       \/ MarkPaidWithin(d, TotalDue(d))
       \/ /\ invoice[d].lateFee < MaxLateFee
          /\ ApplyOverdueTx(d, invoice[d].lateFee + 1, 1)
    /\ UNCHANGED <<lastNumber, processed, portalVars>>

CreditedElsewhere(d) ==
    /\ \E note \in Docs : IssueCreditNote(d, note)
    /\ UNCHANGED <<processed, user, page, cache, flight, acting>>

-----------------------------------------------------------------------------
Init ==
    /\ StoreInit
    /\ owner \in [Docs -> {NoDoc}]
    /\ user \in Clients \cup {Admin}
    /\ page = "other"
    /\ cache = [k \in Keys |-> NoCopy]
    /\ flight = [k \in Keys |-> NoFlight]
    /\ acting = NoAct
    /\ writes = 0

Browse ==
    \/ \E p \in Routes : Visit(p)
    \/ \E k \in Keys : ServeFetch(k) \/ FetchArrives(k) \/ FetchFails(k) \/ TurnsStale(k)

Answered ==
    \/ ServeCreate \/ ServeSend \/ ServeRemind \/ ServeCredit \/ ServeLink \/ Refuse
    \/ HearInvalidating \/ HearOther \/ ActFails

Begun ==
    \/ PressCreate
    \/ \E op \in {"send", "remind", "link", "credit"} : Press(op)
    \/ CreatedElsewhere
    \/ \E d \in Docs : WrittenElsewhere(d) \/ CreditedElsewhere(d)

Next ==
    \/ (Browse \/ Answered) /\ UNCHANGED writes
    \/ Begun /\ writes < MaxWrites /\ writes' = writes + 1

Spec == Init /\ [][Next]_vars

-----------------------------------------------------------------------------
PublicRow == [type: {"INVOICE", "CREDIT_NOTE"}, status: InvoiceStatus,
              totalDueOre: Int]

IsCopy(c) ==
    \E S \in SUBSET Docs :
        c \in [rows: [S -> PublicRow], state: {"none", "fresh", "stale"}, missed: Missed]
IsFlight(f) ==
    \E S \in SUBSET Docs :
        f \in [pc: {"none", "asked", "answered"}, rows: [S -> PublicRow], missed: Missed]

\* Every variable keeps its type.
PortalTypeOK ==
    /\ StoreTypeOK
    /\ owner \in [Docs -> Clients \cup {NoDoc}]
    /\ user \in Clients \cup {Admin}
    /\ page \in Routes
    /\ cache = [k \in Keys |-> cache[k]] /\ \A k \in Keys : IsCopy(cache[k])
    /\ flight = [k \in Keys |-> flight[k]] /\ \A k \in Keys : IsFlight(flight[k])
    /\ acting \in [pc: {"none", "asked", "done", "refused"},
                   op: {"none", "create", "send", "remind", "link", "credit"},
                   doc: Docs \cup {NoDoc}, seen: InvoiceStatus \cup {"none"},
                   result: Docs \cup {NoDoc}]
    /\ acting.op \notin {"none", "create"} => acting.doc \in Docs
    /\ acting.pc = "done" /\ acting.op \in {"create", "credit"} => acting.result \in Docs

\* A button the page offered is refused only when the row has moved on since
\* the copy it was offered from: the page's conditions for its buttons are
\* not weaker than the API's for its handlers.  (A status is never returned
\* to, so a later comparison still tells.)
RefusedOnlyWhenBehind ==
    acting.pc = "refused" => invoice[acting.doc].status # acting.seen

\* After an action the page has heard of, no copy that passes for fresh is
\* older than it, unless its fetch was in the air for a page that had been
\* left, or was the first for its key: no invalidation restarts those.
OwnWritesShow ==
    \A k \in Keys : cache[k].state = "fresh" => cache[k].missed # "yes"

\* What the customer is asked to pay, whenever the list on screen is what the
\* API would answer: of their open invoices on that page what the ledger says
\* they owe, however the administrators and the overdue run wrote between the
\* answers, and of all of them as long as the page can hold every document
\* the customer has.
OwnDocuments == {d \in Docs : owner[d] = user /\ Exists(d)}
OwnOpen == {d \in OwnDocuments : IsOpen(d)}
Owed(docs) == SumFunction([d \in docs |-> Balance(d)])

ListOnScreen ==
    user # Admin /\ page = "invoices" /\ cache[page].state # "none"
        /\ cache[page].rows = Answer(page)

ShownDebtIsLedger ==
    ListOnScreen =>
        LET rows == cache[page].rows
        IN  /\ OutstandingOre(rows) = Owed(OwnOpen \cap DOMAIN rows)
            /\ Cardinality(OwnDocuments) <= PageLimit =>
                    OutstandingOre(rows) = Owed(OwnOpen)

-----------------------------------------------------------------------------
(* What the repository says and the code does not do                       *)

\* "What is owed is the API's totalDueOre per open invoice"
\* (ClientInvoicesPage.tsx:31-32).  The page adds up one page of invoices,
\* though, and that "is wrong the moment there is a second page"
\* (DashboardPage.tsx:4-5).
ShownDebtIsWhole == ListOnScreen => OutstandingOre(cache[page].rows) = Owed(OwnOpen)
=============================================================================
