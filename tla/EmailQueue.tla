----------------------------- MODULE EmailQueue -----------------------------
(***************************************************************************)
(* Reminders and overdue notices on their way out: the queue of            *)
(* jobs/queues.ts, the worker of jobs/workers/email.worker.ts, the         *)
(* provider behind lib/mailer.ts, the log of services/email.service.ts,    *)
(* and the process they run in, which crashes or is shut down              *)
(* (server.ts, jobs/scheduler.ts).                                         *)
(*                                                                         *)
(* The invoices are those of Receivable: whatever implements it may move   *)
(* them between any two steps here.  Of BullMQ the model has what the      *)
(* options ask of it: a failed attempt is repeated after a while, three    *)
(* attempts in all, and a job whose worker died is found stalled and given *)
(* to another, once.                                                       *)
(***************************************************************************)
EXTENDS Receivable

CONSTANTS
    Jobs,        \* ids of email jobs
    Workers,     \* jobs a process works on at once (`concurrency: 5`)
    NoJob, NoDoc,
    ATTEMPTS,    \* defaultJobOptions.attempts
    MAX_STALLED, \* BullMQ's maxStalledCount, left at its default of 1
    MaxClaim     \* bound: the largest claim the instance considers

ASSUME EmailAssumption ==
    /\ NoJob \notin Jobs /\ NoDoc \notin Docs
    /\ ATTEMPTS \in Nat \ {0} /\ MAX_STALLED \in Nat /\ MaxClaim \in Nat

VARIABLES
    job,   \* the queue in Redis
    work,  \* what the workers are doing
    proc,  \* the process
    mails, \* how many mails the provider accepted, by job
    rows,  \* the EmailLog table: rows by job and whether they have a message id
    killed \* history: the jobs a crash has cut short

queueVars == <<job, work, proc, mails, rows, killed>>
receivableVars == <<phase, principal, claim>>
allVars == <<receivableVars, queueVars>>

-----------------------------------------------------------------------------
(* State                                                                   *)

Job ==
    [state: {"none", "waiting", "active", "delayed", "completed", "failed"},
     doc: Docs \cup {NoDoc}, attemptsMade: 0 .. ATTEMPTS, stalls: 0 .. MAX_STALLED]
NoSuchJob == [state |-> "none", doc |-> NoDoc, attemptsMade |-> 0, stalls |-> 0]

Work == [step: {"idle", "read", "send", "log", "finish"},
         job: Jobs \cup {NoJob}, amount: Int, sent: BOOLEAN]
Idle == [step |-> "idle", job |-> NoJob, amount |-> 0, sent |-> FALSE]

QueueTypeOK ==
    /\ job \in [Jobs -> Job]
    /\ work \in [Workers -> Work]
    /\ proc \in {"up", "closing", "down"}
    /\ mails \in [Jobs -> Nat]
    /\ rows \in [Jobs -> [BOOLEAN -> Nat]]
    /\ killed \in SUBSET Jobs

QueueInit ==
    /\ Init
    /\ job = [j \in Jobs |-> NoSuchJob]
    /\ work = [w \in Workers |-> Idle]
    /\ proc = "up"
    /\ mails = [j \in Jobs |-> 0]
    /\ rows = [j \in Jobs |-> [sent \in BOOLEAN |-> 0]]
    /\ killed = {}

InFlight == {w \in Workers : work[w].step # "idle"}
WorkedOn(j) == \E w \in Workers : work[w].job = j
Running == proc # "down"
Ended(j) == job[j].state \in {"completed", "failed"}

\* invoice_missing, already_paid, credited
Settled_PaidOnly(d) == phase[d] \in {"discarded", "paid"}
Settled(d) == phase[d] \in {"discarded", "paid", "cancelled"}

\* totalDueOre: of an open invoice, the balance of its ledger.
AmountDue_FeesTwice(d) == claim[d] + (claim[d] - principal[d])
AmountDue(d) == claim[d]

-----------------------------------------------------------------------------
(* The queue                                                               *)

\* sendReminder, or the overdue run of an invoice it has just marked: either
\* found the invoice open, and it may have been settled since.  A queue that
\* is closed already is opened again by getEmailQueue.
Enqueue(j, d) ==
    /\ Running
    /\ job[j] = NoSuchJob
    /\ phase[d] \in {"open", "paid", "cancelled"}
    /\ job' = [job EXCEPT ![j] = [NoSuchJob EXCEPT !.state = "waiting", !.doc = d]]
    /\ UNCHANGED <<receivableVars, work, proc, mails, rows, killed>>

Pick(w, j) ==
    /\ proc = "up"
    /\ work[w] = Idle
    /\ job[j].state = "waiting"
    /\ job' = [job EXCEPT ![j].state = "active"]
    /\ work' = [work EXCEPT ![w] = [Idle EXCEPT !.step = "read", !.job = j]]
    /\ UNCHANGED <<receivableVars, proc, mails, rows, killed>>

BackoffEnds(j) ==
    /\ job[j].state = "delayed"
    /\ job' = [job EXCEPT ![j].state = "waiting"]
    /\ UNCHANGED <<receivableVars, work, proc, mails, rows, killed>>

\* The lock of a dead worker runs out, and a living one notices.
Reclaimed(v) ==
    IF v.stalls < MAX_STALLED
    THEN [v EXCEPT !.state = "waiting", !.stalls = v.stalls + 1]
    ELSE [v EXCEPT !.state = "failed"]
Stalled(j) ==
    /\ proc = "up"
    /\ job[j].state = "active" /\ ~WorkedOn(j)
    /\ job' = [job EXCEPT ![j] = Reclaimed(@)]
    /\ UNCHANGED <<receivableVars, work, proc, mails, rows, killed>>

-----------------------------------------------------------------------------
(* processEmailJob                                                         *)

At(w, step) == work[w].step = step
Goto(w, step) == work' = [work EXCEPT ![w].step = step]
Complete(w) ==
    /\ job' = [job EXCEPT ![work[w].job].state = "completed"]
    /\ work' = [work EXCEPT ![w] = Idle]

\* The attempt fails: once more after a while, or never again.
Retry_Forever(v) == [v EXCEPT !.state = "delayed"]
Retry(v) ==
    IF v.attemptsMade + 1 < ATTEMPTS
    THEN [v EXCEPT !.state = "delayed", !.attemptsMade = v.attemptsMade + 1]
    ELSE [v EXCEPT !.state = "failed", !.attemptsMade = v.attemptsMade + 1]
Fail(w) ==
    /\ job' = [job EXCEPT ![work[w].job] = Retry(@)]
    /\ work' = [work EXCEPT ![w] = Idle]

\* The invoice is read on every attempt; the query itself may fail.
ReadInvoice(w) ==
    LET d == job[work[w].job].doc
    IN  /\ At(w, "read")
        /\ \/ Settled(d) /\ Complete(w)
           \/ /\ ~Settled(d)
              /\ work' = [work EXCEPT ![w].step = "send", ![w].amount = AmountDue(d)]
              /\ UNCHANGED job
           \/ Fail(w)
        /\ UNCHANGED <<receivableVars, proc, mails, rows, killed>>

\* sendEmail never throws.  The provider takes the mail and says so, or takes
\* it and its answer is lost, or does not take it.
SendMail(w) ==
    LET j == work[w].job
    IN  /\ At(w, "send")
        /\ \/ \E answered \in BOOLEAN :
                /\ mails' = [mails EXCEPT ![j] = @ + 1]
                /\ work' = [work EXCEPT ![w].step = "log", ![w].sent = answered]
           \/ Goto(w, "log") /\ UNCHANGED mails
        /\ UNCHANGED <<receivableVars, job, proc, rows, killed>>

\* sendAndLog: a row whether it was sent or not; a row that cannot be written
\* is only mentioned on the console.
HasMessageId_Always(w) == TRUE
HasMessageId(w) == work[w].sent

WriteLog(w) ==
    /\ At(w, "log")
    /\ \/ rows' = [rows EXCEPT ![work[w].job][HasMessageId(w)] = @ + 1]
       \/ UNCHANGED rows
    /\ Goto(w, "finish")
    /\ UNCHANGED <<receivableVars, job, proc, mails, killed>>

\* `throw` is what makes the queue repeat it.
Finish(w) ==
    /\ At(w, "finish")
    /\ IF work[w].sent THEN Complete(w) ELSE Fail(w)
    /\ UNCHANGED <<receivableVars, proc, mails, rows, killed>>

-----------------------------------------------------------------------------
(* The process                                                             *)

\* SIGTERM: worker.close() takes no new job and waits for those in flight;
\* only then the process exits.
Shutdown ==
    /\ proc = "up" /\ proc' = "closing"
    /\ UNCHANGED <<receivableVars, job, work, mails, rows, killed>>

Drained_NotAwaited == TRUE
Drained == InFlight = {}

Exit ==
    /\ proc = "closing"
    /\ Drained
    /\ proc' = "down"
    /\ work' = [w \in Workers |-> Idle]
    /\ UNCHANGED <<receivableVars, job, mails, rows, killed>>

Crash ==
    /\ Running
    /\ proc' = "down"
    /\ work' = [w \in Workers |-> Idle]
    /\ killed' = killed \cup {work[w].job : w \in InFlight}
    /\ UNCHANGED <<receivableVars, job, mails, rows>>

Restart ==
    /\ ~Running
    /\ proc' = "up"
    /\ UNCHANGED <<receivableVars, job, work, mails, rows, killed>>

\* What happens to the invoices meanwhile, claims up to MaxClaim.
InvoiceMoves ==
    /\ claim' \in [Docs -> 0 .. MaxClaim]
    /\ Next
    /\ UNCHANGED queueVars

-----------------------------------------------------------------------------

WorkerStep(w) ==
    \/ \E j \in Jobs : Pick(w, j)
    \/ ReadInvoice(w) \/ SendMail(w) \/ WriteLog(w) \/ Finish(w)

QueueNext ==
    \/ \E j \in Jobs :
        \/ \E d \in Docs : Enqueue(j, d)
        \/ BackoffEnds(j) \/ Stalled(j)
    \/ \E w \in Workers : WorkerStep(w)
    \/ Shutdown \/ Exit \/ Crash \/ Restart
    \/ InvoiceMoves

QueueSpec == QueueInit /\ [][QueueNext]_allVars

\* The host restarts the process, and a process lives long enough, again and
\* again, for a timer to fire and for a worker to take its next step.
QueueFairness ==
    /\ WF_allVars(Restart) /\ WF_allVars(Exit)
    /\ \A j \in Jobs :
        /\ WF_allVars(BackoffEnds(j))
        /\ SF_allVars(Stalled(j))
        /\ SF_allVars(\E w \in Workers : Pick(w, j))
    /\ \A w \in Workers :
        WF_allVars(ReadInvoice(w) \/ SendMail(w) \/ WriteLog(w) \/ Finish(w))

QueueFairSpec == QueueSpec /\ QueueFairness

-----------------------------------------------------------------------------
(* What must hold                                                          *)

\* "A customer who paid in the minutes between the two must not receive a
\* demand for money they have already sent" (email.worker.ts:36-39): unless an
\* attempt is between its reading and its mail when the invoice is settled, no
\* mail goes out from then on, whatever earlier attempts had read.
Silenced(j) ==
    /\ job[j] # NoSuchJob /\ phase[job[j].doc] \in {"paid", "cancelled"}
    /\ \A w \in Workers : work[w].job = j => ~At(w, "send")
SettledSilencesJob ==
    [][\A j \in Jobs : Silenced(j) => Silenced(j)' /\ mails'[j] = mails[j]]_allVars

\* A mail that is late states at most what is owed by now.
NeverDemandsMore ==
    \A w \in Workers :
        At(w, "send") /\ phase[job[work[w].job].doc] = "open" =>
            work[w].amount <= claim[job[work[w].job].doc]

\* A customer gets a reminder as often as it was tried, at worst: once for
\* each attempt and once for each time its worker died.
MailsBounded == \A j \in Jobs : mails[j] <= ATTEMPTS + MAX_STALLED

\* "'We emailed them' is a claim that gets made in disputes" (email.service.ts
\* :8): a row with a message id stands for a mail that went out.
LogIsTruthful == \A j \in Jobs : rows[j][TRUE] <= mails[j]

\* A job that ended well either sent its mail or had none to send any more.
NothingDropped ==
    \A j \in Jobs :
        job[j].state = "completed" => mails[j] > 0 \/ phase[job[j].doc] # "open"

\* Only a crash leaves a job locked, and costs it one of the times it may be
\* found stalled: a process that is shut down has finished its jobs
\* (scheduler.ts:50-52).
OnlyCrashesLock ==
    \A j \in Jobs :
        job[j].stalls > 0 \/ (job[j].state = "active" /\ ~WorkedOn(j)) => j \in killed

\* Every job ends, one way or the other.
EveryJobEnds == \A j \in Jobs : job[j].state = "waiting" ~> Ended(j)
=============================================================================
