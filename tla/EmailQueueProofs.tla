-------------------------- MODULE EmailQueueProofs --------------------------
(***************************************************************************)
(* Theorems about EmailQueue: for any number of invoices, jobs and         *)
(* workers, any limits of attempts and stalls, and any claims.             *)
(***************************************************************************)
EXTENDS EmailQueue, TLAPS

USE EmailAssumption

-----------------------------------------------------------------------------
(* The inductive invariant                                                 *)

\* A job that is not over has an attempt left; the invoice of a job has been
\* issued, so it is open or settled for good.
JobOK(j) ==
    /\ job[j] \in Job
    /\ job[j].state = "none" => job[j] = NoSuchJob
    /\ job[j].state # "none" =>
        job[j].doc \in Docs /\ phase[job[j].doc] \in {"open", "paid", "cancelled"}
    /\ job[j].state \in {"none", "waiting", "active", "delayed", "completed"} =>
        job[j].attemptsMade < ATTEMPTS

\* A worker that is not idle holds an active job; what it says it sent went
\* out.
WorkerOK(w) ==
    /\ work[w] \in Work
    /\ At(w, "idle") => work[w].job = NoJob /\ ~work[w].sent
    /\ ~At(w, "idle") => work[w].job \in Jobs /\ job[work[w].job].state = "active"
    /\ work[w].step \in {"read", "send"} => ~work[w].sent
    /\ work[w].sent => mails[work[w].job] > 0

\* No two workers hold the same job.
OneWorkerEach ==
    \A v, w \in Workers : work[v].job = work[w].job /\ ~At(v, "idle") => v = w

\* A row still to be written for a mail that went out is not there yet.
LogOK(j) ==
    /\ rows[j][TRUE] <= mails[j]
    /\ \A w \in Workers :
        work[w].job = j /\ At(w, "log") /\ work[w].sent => rows[j][TRUE] < mails[j]

LockOK(j) ==
    job[j].stalls > 0 \/ (job[j].state = "active" /\ ~WorkedOn(j)) => j \in killed

\* Each attempt and each stall answers for one mail, and the attempt being
\* made for one more once it is past its sending.
Spent(j) == job[j].attemptsMade + job[j].stalls
MailsOK(j) ==
    /\ job[j].state \in {"none", "waiting", "delayed"} => mails[j] <= Spent(j)
    /\ job[j].state \in {"active", "completed"} => mails[j] <= Spent(j) + 1
    /\ job[j].state = "failed" => mails[j] <= ATTEMPTS + MAX_STALLED
    /\ \A w \in Workers :
        work[w].job = j /\ work[w].step \in {"read", "send"} => mails[j] <= Spent(j)

DroppedOK(j) ==
    job[j].state = "completed" => mails[j] > 0 \/ phase[job[j].doc] # "open"

DemandOK(w) ==
    At(w, "send") /\ phase[job[work[w].job].doc] = "open" =>
        work[w].amount <= claim[job[work[w].job].doc]

Typed ==
    /\ TypeOK
    /\ job \in [Jobs -> Job]
    /\ work \in [Workers -> Work]
    /\ proc \in {"up", "closing", "down"}
    /\ mails \in [Jobs -> Nat]
    /\ rows \in [Jobs -> [BOOLEAN -> Nat]]
    /\ killed \in SUBSET Jobs

QueueInv ==
    /\ Typed
    /\ \A j \in Jobs : JobOK(j)
    /\ \A w \in Workers : WorkerOK(w)
    /\ OneWorkerEach
    /\ \A j \in Jobs : LogOK(j)
    /\ \A j \in Jobs : LockOK(j)
    /\ \A j \in Jobs : MailsOK(j)
    /\ \A j \in Jobs : DroppedOK(j)
    /\ \A w \in Workers : DemandOK(w)

-----------------------------------------------------------------------------
\* The records of a job and a worker to begin with are well formed.
LEMMA JobRecords ==
    /\ NoSuchJob \in Job /\ Idle \in Work
    /\ NoSuchJob.state = "none" /\ NoSuchJob.attemptsMade = 0 /\ NoSuchJob.stalls = 0
    /\ Idle.step = "idle" /\ Idle.job = NoJob /\ ~Idle.sent
<1>1. 0 \in 0 .. ATTEMPTS /\ 0 \in 0 .. MAX_STALLED
  OBVIOUS
<1> QED BY <1>1 DEF NoSuchJob, Job, Idle, Work

\* A job whose state changes keeps its invoice and its counts.
LEMMA JobMoved ==
    ASSUME NEW v \in Job,
           NEW s \in {"none", "waiting", "active", "delayed", "completed", "failed"}
    PROVE  LET u == [v EXCEPT !.state = s]
           IN  /\ u \in Job /\ u.state = s /\ u.doc = v.doc
               /\ u.attemptsMade = v.attemptsMade /\ u.stalls = v.stalls
BY DEF Job

\* A stalled job has used up one stall.
LEMMA JobStalled ==
    ASSUME NEW v \in Job, v.stalls < MAX_STALLED
    PROVE  LET u == [v EXCEPT !.state = "waiting", !.stalls = v.stalls + 1]
           IN  /\ u \in Job /\ u.state = "waiting" /\ u.doc = v.doc
               /\ u.attemptsMade = v.attemptsMade /\ u.stalls = v.stalls + 1
<1>1. v.stalls + 1 \in 0 .. MAX_STALLED
  BY DEF Job
<1> QED BY <1>1 DEF Job

\* A failed attempt is counted, and the last one ends the job.
LEMMA JobRetried ==
    ASSUME NEW v \in Job, v.attemptsMade < ATTEMPTS
    PROVE  LET u == Retry(v)
           IN  /\ u \in Job /\ u.doc = v.doc /\ u.stalls = v.stalls
               /\ u.state \in {"delayed", "failed"}
               /\ u.attemptsMade = v.attemptsMade + 1
               /\ u.state = "delayed" => u.attemptsMade < ATTEMPTS
<1>1. v.attemptsMade + 1 \in 0 .. ATTEMPTS
  BY DEF Job
<1>2. CASE v.attemptsMade + 1 < ATTEMPTS
  <2>1. Retry(v) = [v EXCEPT !.state = "delayed", !.attemptsMade = v.attemptsMade + 1]
    BY <1>2 DEF Retry
  <2> QED BY <1>1, <1>2, <2>1 DEF Job
<1>3. CASE ~(v.attemptsMade + 1 < ATTEMPTS)
  <2>1. Retry(v) = [v EXCEPT !.state = "failed", !.attemptsMade = v.attemptsMade + 1]
    BY <1>3 DEF Retry
  <2> QED BY <1>1, <2>1 DEF Job
<1> QED BY <1>2, <1>3

\* A worker that takes a job has sent nothing for it yet.
LEMMA WorkTaken ==
    ASSUME NEW j \in Jobs
    PROVE  LET u == [Idle EXCEPT !.step = "read", !.job = j]
           IN  u \in Work /\ u.step = "read" /\ u.job = j /\ ~u.sent
<1>1. ASSUME NEW v \in Work
      PROVE  LET u == [v EXCEPT !.step = "read", !.job = j]
             IN  u \in Work /\ u.step = "read" /\ u.job = j /\ u.sent = v.sent
  BY DEF Work
<1> QED BY <1>1, JobRecords

\* QueueInv holds at first.
LEMMA QueueInit_Inv == QueueInit => QueueInv
<1> SUFFICES ASSUME QueueInit PROVE QueueInv
  OBVIOUS
<1> USE DEF QueueInit, Init
<1>1. NoSuchJob \in Job /\ Idle \in Work
  BY JobRecords
<1>2. Typed
  BY <1>1 DEF Typed, TypeOK, Phase
<1>3. \A j \in Jobs : JobOK(j) /\ LogOK(j) /\ LockOK(j) /\ MailsOK(j) /\ DroppedOK(j)
  BY <1>1 DEF JobOK, LogOK, LockOK, MailsOK, DroppedOK, Spent, NoSuchJob, At, Idle
<1>4. \A w \in Workers : WorkerOK(w) /\ DemandOK(w)
  BY <1>1 DEF WorkerOK, DemandOK, At, Idle
<1>5. OneWorkerEach
  BY DEF OneWorkerEach, At, Idle
<1> QED BY <1>2, <1>3, <1>4, <1>5 DEF QueueInv

-----------------------------------------------------------------------------
(* The queue                                                               *)

\* A new job has no attempt behind it.
LEMMA Enqueue_Inv ==
    ASSUME QueueInv, NEW j \in Jobs, NEW d \in Docs, Enqueue(j, d)
    PROVE  QueueInv'
<1> USE DEF QueueInv, Enqueue, receivableVars
<1> DEFINE new == [NoSuchJob EXCEPT !.state = "waiting", !.doc = d]
<1>1. /\ new \in Job /\ new.state = "waiting" /\ new.doc = d
      /\ new.attemptsMade = 0 /\ new.stalls = 0
  BY JobRecords DEF NoSuchJob, Job
<1>2. /\ job' = [job EXCEPT ![j] = new] /\ job \in [Jobs -> Job]
      /\ job[j].state = "none" /\ job[j].attemptsMade = 0 /\ job[j].stalls = 0
  BY JobRecords DEF Typed
<1> HIDE DEF new
<1>3. Typed'
  BY <1>1, <1>2 DEF Typed, TypeOK
<1>4. \A i \in Jobs : JobOK(i)'
  BY <1>1, <1>2 DEF JobOK
<1>5. \A w \in Workers : work[w].job # j
  BY <1>2 DEF WorkerOK, At
<1>6. \A w \in Workers : WorkerOK(w)' /\ DemandOK(w)'
  BY <1>1, <1>2, <1>5 DEF WorkerOK, DemandOK, At
<1>7. OneWorkerEach'
  BY DEF OneWorkerEach, At
<1>8. \A i \in Jobs : i # j => job'[i] = job[i]
  BY <1>2
<1>9. /\ job'[j].state = "waiting" /\ job'[j].attemptsMade = 0 /\ job'[j].stalls = 0
      /\ job'[j].doc = d
  BY <1>1, <1>2
<1>10. \A i \in Jobs : LogOK(i)'
  BY DEF LogOK, At
<1>11. \A i \in Jobs : LockOK(i)'
  BY <1>8, <1>9 DEF LockOK, WorkedOn
<1>12. \A i \in Jobs : DroppedOK(i)'
  BY <1>8, <1>9 DEF DroppedOK
<1>13. \A i \in Jobs : MailsOK(i)'
  <2>1. ASSUME NEW i \in Jobs, i # j PROVE MailsOK(i)'
    BY <1>8, <2>1 DEF MailsOK, Spent
  <2>2. MailsOK(j)'
    <3>1. mails[j] <= 0
      BY <1>2 DEF MailsOK, Spent
    <3> QED BY <1>2, <1>5, <1>9, <3>1 DEF MailsOK, Spent
  <2> QED BY <2>1, <2>2
<1> QED BY <1>3, <1>4, <1>6, <1>7, <1>10, <1>11, <1>12, <1>13

\* A worker picks a job that nobody else has.
LEMMA Pick_Inv ==
    ASSUME QueueInv, NEW w \in Workers, NEW j \in Jobs, Pick(w, j)
    PROVE  QueueInv'
<1> USE DEF QueueInv
<1>1. /\ At(w, "idle") /\ job[j].state = "waiting"
      /\ UNCHANGED <<phase, principal, claim, proc, mails, rows, killed>>
  BY JobRecords DEF Pick, receivableVars, At
<1>2. PICK taken \in Work :
        /\ taken.step = "read" /\ taken.job = j /\ ~taken.sent
        /\ work' = [work EXCEPT ![w] = taken]
  BY WorkTaken DEF Pick
<1>3. /\ job' = [job EXCEPT ![j] = job'[j]]
      /\ job'[j] \in Job /\ job'[j].state = "active" /\ job'[j].doc = job[j].doc
      /\ job'[j].attemptsMade = job[j].attemptsMade /\ job'[j].stalls = job[j].stalls
      /\ \A i \in Jobs : i # j => job'[i] = job[i]
  <2>1. job' = [job EXCEPT ![j] = [job[j] EXCEPT !.state = "active"]]
    BY DEF Pick
  <2> QED BY <2>1, JobMoved DEF Typed
<1>4. Typed'
  BY <1>1, <1>2, <1>3 DEF Typed, TypeOK
<1>5. \A i \in Jobs : JobOK(i)'
  BY <1>1, <1>3 DEF JobOK
<1>6. \A v \in Workers : work[v].job # j
  BY <1>1 DEF WorkerOK, At
<1>7. \A v \in Workers : WorkerOK(v)' /\ DemandOK(v)'
  BY <1>1, <1>2, <1>3, <1>6 DEF WorkerOK, DemandOK, At
<1>8. OneWorkerEach'
  BY <1>1, <1>2, <1>6 DEF OneWorkerEach, At
<1>9. \A i \in Jobs : LogOK(i)' /\ DroppedOK(i)'
  <2>1. \A i \in Jobs : LogOK(i)'
    BY <1>1, <1>2, <1>6 DEF LogOK, At, Typed
  <2>2. \A i \in Jobs : DroppedOK(i)'
    BY <1>1, <1>3 DEF DroppedOK
  <2> QED BY <2>1, <2>2
<1>10. \A i \in Jobs : MailsOK(i)'
  <2> SUFFICES ASSUME NEW i \in Jobs PROVE MailsOK(i)'
    OBVIOUS
  <2>1. mails[i] \in Nat /\ Spent(i) \in Nat /\ Spent(i)' = Spent(i)
    BY <1>3 DEF Typed, Job, Spent
  <2> QED BY <1>1, <1>2, <1>3, <1>6, <2>1 DEF MailsOK, Typed
<1>11. \A i \in Jobs : LockOK(i)'
  <2> SUFFICES ASSUME NEW i \in Jobs PROVE LockOK(i)'
    OBVIOUS
  <2>1. CASE i = j
    <3>1. work'[w].job = j
      BY <1>2 DEF Typed
    <3> QED BY <1>1, <1>3, <2>1, <3>1 DEF LockOK, WorkedOn
  <2>2. CASE i # j
    <3>1. WorkedOn(i)' <=> WorkedOn(i)
      BY <1>1, <1>2, <2>2, JobRecords DEF WorkedOn, Typed, WorkerOK, At
    <3> QED BY <1>1, <1>3, <2>2, <3>1 DEF LockOK
  <2> QED BY <2>1, <2>2
<1> QED BY <1>4, <1>5, <1>7, <1>8, <1>9, <1>10, <1>11

\* A job no worker holds leaves one waiting state for another, or is given up.
LEMMA JobMoves_Inv ==
    ASSUME QueueInv, NEW j \in Jobs, ~WorkedOn(j), job[j].state # "none",
           job' = [job EXCEPT ![j] = job'[j]], job'[j] \in Job,
           job'[j].doc = job[j].doc, job'[j].state \in {"waiting", "failed"},
           JobOK(j)', LockOK(j)', MailsOK(j)',
           UNCHANGED <<receivableVars, work, proc, mails, rows, killed>>
    PROVE  QueueInv'
<1> USE DEF QueueInv, receivableVars
<1>1. /\ \A i \in Jobs : i # j => job'[i] = job[i]
      /\ \A w \in Workers : work[w].job # j
  BY DEF Typed, WorkedOn
<1>2. Typed'
  BY DEF Typed, TypeOK
<1>3. \A i \in Jobs : JobOK(i)' /\ MailsOK(i)'
  BY <1>1 DEF JobOK, MailsOK, Spent, At
<1>4. \A w \in Workers : WorkerOK(w)' /\ DemandOK(w)'
  BY <1>1 DEF WorkerOK, DemandOK, At
<1>5. OneWorkerEach'
  BY DEF OneWorkerEach, At
<1>6. \A i \in Jobs : LogOK(i)' /\ LockOK(i)'
  BY <1>1 DEF LogOK, LockOK, WorkedOn, At
<1>7. \A i \in Jobs : DroppedOK(i)'
  BY <1>1 DEF DroppedOK
<1> QED BY <1>2, <1>3, <1>4, <1>5, <1>6, <1>7

\* A delayed job waits again, with the attempts it had.
LEMMA BackoffEnds_Inv ==
    ASSUME QueueInv, NEW j \in Jobs, BackoffEnds(j)
    PROVE  QueueInv'
<1>1. /\ job[j].state = "delayed" /\ job[j] \in Job /\ job \in [Jobs -> Job]
      /\ job' = [job EXCEPT ![j] = [job[j] EXCEPT !.state = "waiting"]]
      /\ UNCHANGED <<receivableVars, work, proc, mails, rows, killed>>
  BY DEF BackoffEnds, QueueInv, Typed
<1>2. /\ job' = [job EXCEPT ![j] = job'[j]] /\ job'[j] \in Job
      /\ job'[j].state = "waiting" /\ job'[j].doc = job[j].doc
      /\ job'[j].attemptsMade = job[j].attemptsMade /\ job'[j].stalls = job[j].stalls
  BY <1>1, JobMoved
<1>3. ~WorkedOn(j)
  BY <1>1 DEF QueueInv, WorkerOK, WorkedOn, At
<1>4. JobOK(j)' /\ LockOK(j)' /\ MailsOK(j)'
  BY <1>1, <1>2, <1>3 DEF QueueInv, JobOK, LockOK, MailsOK, Spent, WorkedOn, receivableVars
<1> QED BY <1>1, <1>2, <1>3, <1>4, JobMoves_Inv

\* A stalled job has no worker, so it may be given out again.
LEMMA Stalled_Inv ==
    ASSUME QueueInv, NEW j \in Jobs, Stalled(j)
    PROVE  QueueInv'
<1> DEFINE v == job[j]
<1>1. /\ v.state = "active" /\ ~WorkedOn(j) /\ v \in Job /\ job \in [Jobs -> Job]
      /\ UNCHANGED <<receivableVars, work, proc, mails, rows, killed>>
  BY DEF Stalled, QueueInv, Typed
<1>2. /\ JobOK(j) /\ LockOK(j) /\ MailsOK(j) /\ mails[j] \in Nat
      /\ v.stalls \in Nat /\ v.attemptsMade \in Nat /\ v.stalls <= MAX_STALLED
  BY <1>1 DEF QueueInv, Typed, Job
<1>3. CASE v.stalls < MAX_STALLED
  <2>1. job' = [job EXCEPT ![j] = [v EXCEPT !.state = "waiting", !.stalls = v.stalls + 1]]
    BY <1>1, <1>3 DEF Stalled, Reclaimed
  <2>2. /\ job' = [job EXCEPT ![j] = job'[j]]
        /\ job'[j] \in Job /\ job'[j].state = "waiting" /\ job'[j].doc = v.doc
        /\ job'[j].attemptsMade = v.attemptsMade /\ job'[j].stalls = v.stalls + 1
    BY <1>1, <1>3, <2>1, JobStalled
  <2>3. JobOK(j)' /\ LockOK(j)'
    BY <1>1, <1>2, <2>2 DEF JobOK, LockOK, WorkedOn, receivableVars
  <2>4. MailsOK(j)'
    BY <1>1, <1>2, <2>2 DEF MailsOK, Spent, WorkedOn
  <2> QED BY <1>1, <2>2, <2>3, <2>4, JobMoves_Inv
<1>4. CASE ~(v.stalls < MAX_STALLED)
  <2>0. job' = [job EXCEPT ![j] = [v EXCEPT !.state = "failed"]]
    BY <1>1, <1>4 DEF Stalled, Reclaimed
  <2>1. /\ job' = [job EXCEPT ![j] = job'[j]]
        /\ job'[j] \in Job /\ job'[j].state = "failed" /\ job'[j].doc = v.doc
        /\ job'[j].attemptsMade = v.attemptsMade /\ job'[j].stalls = v.stalls
    BY <1>1, <2>0, JobMoved
  <2>2. JobOK(j)' /\ LockOK(j)'
    BY <1>1, <1>2, <2>1 DEF JobOK, LockOK, WorkedOn, receivableVars
  <2>3. v.attemptsMade + v.stalls + 1 <= ATTEMPTS + MAX_STALLED
    BY <1>1, <1>2 DEF JobOK
  <2>4. MailsOK(j)'
    BY <1>1, <1>2, <2>1, <2>3 DEF MailsOK, Spent, WorkedOn
  <2> QED BY <1>1, <2>1, <2>2, <2>4, JobMoves_Inv
<1> QED BY <1>3, <1>4

-----------------------------------------------------------------------------
(* The workers                                                             *)

\* What a worker that is not idle has in hand.
LEMMA InHand ==
    ASSUME QueueInv, NEW w \in Workers, ~At(w, "idle")
    PROVE  LET j == work[w].job
           IN  /\ j \in Jobs /\ job[j] \in Job /\ job[j].state = "active"
               /\ job[j].doc \in Docs
               /\ phase[job[j].doc] \in {"open", "paid", "cancelled"}
               /\ job[j].attemptsMade \in Nat /\ job[j].attemptsMade < ATTEMPTS
               /\ job[j].stalls \in 0 .. MAX_STALLED
               /\ mails[j] \in Nat /\ rows[j] \in [BOOLEAN -> Nat]
               /\ \A v \in Workers : v # w => work[v].job # j
<1>1. work[w].job \in Jobs /\ job[work[w].job].state = "active"
  BY DEF QueueInv, WorkerOK
<1>2. JobOK(work[w].job) /\ Typed
  BY <1>1 DEF QueueInv
<1>3. \A v \in Workers : v # w => work[v].job # work[w].job
  BY DEF QueueInv, OneWorkerEach
<1> QED BY <1>1, <1>2, <1>3 DEF JobOK, Job, Typed

\* A worker goes on with its job.
LEMMA WorkerMoves_Inv ==
    ASSUME QueueInv, NEW w \in Workers, ~At(w, "idle"), NEW j \in Jobs, work[w].job = j,
           work' = [work EXCEPT ![w] = work'[w]],
           work'[w] \in Work, work'[w].job = j, work'[w].step # "idle",
           mails' = [mails EXCEPT ![j] = mails'[j]], mails'[j] \in Nat,
           mails[j] <= mails'[j],
           rows' = [rows EXCEPT ![j] = rows'[j]], rows'[j] \in [BOOLEAN -> Nat],
           WorkerOK(w)', DemandOK(w)', LogOK(j)', MailsOK(j)',
           UNCHANGED <<receivableVars, job, proc, killed>>
    PROVE  QueueInv'
<1> USE DEF QueueInv, receivableVars
<1>1. /\ \A v \in Workers : v # w => work'[v] = work[v] /\ work[v].job # j
      /\ \A i \in Jobs : i # j => mails'[i] = mails[i] /\ rows'[i] = rows[i]
      /\ \A i \in Jobs : mails'[i] \in Nat /\ mails[i] \in Nat /\ mails[i] <= mails'[i]
  BY DEF Typed, OneWorkerEach
<1>2. Typed'
  BY DEF Typed, TypeOK
<1>3. \A i \in Jobs : JobOK(i)'
  BY DEF JobOK
<1>4. \A v \in Workers : WorkerOK(v)'
  BY <1>1, SMTT(30) DEF WorkerOK, At
<1>5. OneWorkerEach'
  BY <1>1 DEF OneWorkerEach, At
<1>6. \A i \in Jobs : LogOK(i)' /\ MailsOK(i)'
  <2>1. ASSUME NEW i \in Jobs, i # j PROVE LogOK(i)'
    BY <1>1, <2>1 DEF LogOK, At
  <2>2. ASSUME NEW i \in Jobs, i # j PROVE MailsOK(i)'
    BY <1>1, <2>2 DEF MailsOK, Spent
  <2> QED BY <2>1, <2>2
<1>7. \A i \in Jobs : LockOK(i)'
  BY <1>1 DEF LockOK, WorkedOn
<1>8. \A i \in Jobs : DroppedOK(i)'
  BY <1>1 DEF DroppedOK
<1>9. \A v \in Workers : DemandOK(v)'
  BY <1>1 DEF DemandOK, At
<1> QED BY <1>2, <1>3, <1>4, <1>5, <1>6, <1>7, <1>8, <1>9

\* A worker is done with its job, which has been completed or has failed once
\* more.
LEMMA WorkerEnds_Inv ==
    ASSUME QueueInv, NEW w \in Workers, ~At(w, "idle"), NEW j \in Jobs, work[w].job = j,
           work' = [work EXCEPT ![w] = Idle],
           job' = [job EXCEPT ![j] = job'[j]], job'[j] \in Job,
           job'[j].state \in {"completed", "delayed", "failed"},
           job'[j].doc = job[j].doc, job'[j].stalls = job[j].stalls,
           JobOK(j)', MailsOK(j)', DroppedOK(j)',
           UNCHANGED <<receivableVars, proc, mails, rows, killed>>
    PROVE  QueueInv'
<1> USE DEF QueueInv, receivableVars
<1>1. /\ work'[w] = Idle
      /\ \A v \in Workers : v # w => work'[v] = work[v] /\ work[v].job # j
      /\ \A i \in Jobs : i # j => job'[i] = job[i]
      /\ NoJob \notin Jobs
  BY DEF Typed, OneWorkerEach
<1>2. Typed'
  BY JobRecords DEF Typed, TypeOK
<1>3. \A i \in Jobs : JobOK(i)' /\ DroppedOK(i)'
  BY <1>1 DEF JobOK, DroppedOK
<1>4. \A v \in Workers : WorkerOK(v)'
  BY <1>1, JobRecords DEF WorkerOK, At
<1>5. OneWorkerEach'
  BY <1>1, JobRecords DEF OneWorkerEach, At, WorkerOK
<1>6. \A i \in Jobs : LogOK(i)'
  BY <1>1, JobRecords, ZenonT(40) DEF LogOK, At
<1>7. \A i \in Jobs : MailsOK(i)'
  BY <1>1, JobRecords DEF MailsOK, Spent
<1>8. \A i \in Jobs : LockOK(i)'
  BY <1>1, JobRecords DEF LockOK, WorkedOn
<1>9. \A v \in Workers : DemandOK(v)'
  BY <1>1, JobRecords DEF DemandOK, At, WorkerOK
<1> QED BY <1>2, <1>3, <1>4, <1>5, <1>6, <1>7, <1>8, <1>9

\* Complete, by a worker that has sent its mail or found nothing to send.
LEMMA Complete_Inv ==
    ASSUME QueueInv, NEW w \in Workers, ~At(w, "idle"), Complete(w),
           mails[work[w].job] > 0 \/ phase[job[work[w].job].doc] # "open",
           UNCHANGED <<receivableVars, proc, mails, rows, killed>>
    PROVE  QueueInv'
<1>0. PICK j \in Jobs : j = work[w].job
  BY InHand
<1>1. /\ job[j] \in Job /\ job[j].state = "active" /\ JobOK(j) /\ MailsOK(j)
      /\ job' = [job EXCEPT ![j].state = "completed"] /\ work' = [work EXCEPT ![w] = Idle]
      /\ job \in [Jobs -> Job]
  BY <1>0, InHand DEF Complete, QueueInv, Typed
<1>2. /\ job' = [job EXCEPT ![j] = job'[j]] /\ job'[j] \in Job
      /\ job'[j].state = "completed" /\ job'[j].doc = job[j].doc
      /\ job'[j].attemptsMade = job[j].attemptsMade /\ job'[j].stalls = job[j].stalls
  <2>1. PICK v \in Job : v = job[j] /\ job'[j] = [v EXCEPT !.state = "completed"]
    BY <1>1
  <2>2. job' = [job EXCEPT ![j] = job'[j]]
    BY <1>1
  <2>3. /\ job'[j] \in Job /\ job'[j].state = "completed" /\ job'[j].doc = v.doc
        /\ job'[j].attemptsMade = v.attemptsMade /\ job'[j].stalls = v.stalls
    BY <2>1 DEF Job
  <2> QED BY <2>1, <2>2, <2>3
<1>3. JobOK(j)'
  BY <1>1, <1>2 DEF JobOK, receivableVars
<1>4. \A v \in Workers : work'[v].job # j
  BY <1>0, <1>1, InHand, JobRecords DEF QueueInv, Typed
<1>5. MailsOK(j)'
  BY <1>1, <1>2, <1>4 DEF MailsOK, Spent
<1>6. DroppedOK(j)'
  BY <1>0, <1>2 DEF DroppedOK, receivableVars
<1> QED BY <1>0, <1>1, <1>2, <1>3, <1>5, <1>6, WorkerEnds_Inv

\* Fail, whatever the attempt had come to.
LEMMA Fail_Inv ==
    ASSUME QueueInv, NEW w \in Workers, ~At(w, "idle"), Fail(w),
           UNCHANGED <<receivableVars, proc, mails, rows, killed>>
    PROVE  QueueInv'
<1>0. PICK j \in Jobs : j = work[w].job
  BY InHand
<1>1. /\ job[j] \in Job /\ job[j].state = "active" /\ JobOK(j) /\ MailsOK(j)
      /\ job' = [job EXCEPT ![j] = Retry(job[j])] /\ work' = [work EXCEPT ![w] = Idle]
      /\ job \in [Jobs -> Job] /\ job[j].attemptsMade \in Nat
      /\ job[j].attemptsMade < ATTEMPTS /\ job[j].stalls \in 0 .. MAX_STALLED
      /\ mails[j] \in Nat
  BY <1>0, InHand DEF Fail, QueueInv, Typed
<1>2. /\ job' = [job EXCEPT ![j] = job'[j]] /\ job'[j] \in Job
      /\ job'[j].state \in {"delayed", "failed"} /\ job'[j].doc = job[j].doc
      /\ job'[j].attemptsMade = job[j].attemptsMade + 1
      /\ job'[j].stalls = job[j].stalls
      /\ job'[j].state = "delayed" => job'[j].attemptsMade < ATTEMPTS
  BY <1>1, JobRetried
<1>3. JobOK(j)'
  BY <1>1, <1>2 DEF JobOK, receivableVars
<1>4. \A v \in Workers : work'[v].job # j
  BY <1>0, <1>1, InHand, JobRecords DEF QueueInv, Typed
<1>5. MailsOK(j)'
  <2>1. mails[j] <= Spent(j) + 1
    BY <1>1 DEF MailsOK
  <2>2. Spent(j)' = Spent(j) + 1 /\ Spent(j) + 1 <= ATTEMPTS + MAX_STALLED
    BY <1>1, <1>2 DEF Spent
  <2>3. mails'[j] = mails[j] /\ mails[j] \in Nat /\ Spent(j) \in Nat
    BY <1>1 DEF Spent
  <2> QED BY <1>2, <1>4, <2>1, <2>2, <2>3 DEF MailsOK
<1>6. DroppedOK(j)'
  BY <1>0, <1>2 DEF DroppedOK
<1> QED BY <1>0, <1>1, <1>2, <1>3, <1>5, <1>6, WorkerEnds_Inv

\* What a worker reads is owed at that moment.
LEMMA ReadInvoice_Inv ==
    ASSUME QueueInv, NEW w \in Workers, ReadInvoice(w)
    PROVE  QueueInv'
<1>1. ~At(w, "idle") /\ UNCHANGED <<receivableVars, proc, mails, rows, killed>>
  BY DEF ReadInvoice, At
<1>0. PICK j \in Jobs, d \in Docs : j = work[w].job /\ d = job[j].doc
  BY <1>1, InHand
<1>2. CASE Settled(d) /\ Complete(w)
  BY <1>0, <1>1, <1>2, Complete_Inv DEF Settled
<1>3. CASE Fail(w)
  BY <1>1, <1>3, Fail_Inv
<1>4. CASE /\ ~Settled(d) /\ UNCHANGED job
           /\ work' = [work EXCEPT ![w].step = "send", ![w].amount = AmountDue(d)]
  <2>1. /\ work \in [Workers -> Work] /\ work[w] \in Work
        /\ claim[d] \in Int /\ WorkerOK(w) /\ LogOK(j) /\ MailsOK(j) /\ At(w, "read")
        /\ \A v \in Workers : v # w => work[v].job # j
    BY <1>0, <1>1, InHand DEF QueueInv, Typed, TypeOK, ReadInvoice
  <2>2. work' = [work EXCEPT ![w] = [work[w] EXCEPT !.step = "send", !.amount = claim[d]]]
    BY <1>4, <2>1 DEF AmountDue
  <2>3. /\ work' = [work EXCEPT ![w] = work'[w]] /\ work'[w] \in Work
        /\ work'[w].step = "send" /\ work'[w].job = j
        /\ work'[w].sent = work[w].sent /\ work'[w].amount = claim[d]
    <3>1. PICK v \in Work, a \in Int :
            /\ v = work[w] /\ a = claim[d]
            /\ work'[w] = [v EXCEPT !.step = "send", !.amount = a]
      BY <2>1, <2>2
    <3>2. work' = [work EXCEPT ![w] = work'[w]]
      BY <2>1, <2>2
    <3> QED BY <1>0, <3>1, <3>2 DEF Work
  <2>4. WorkerOK(w)' /\ DemandOK(w)'
    BY <1>0, <1>1, <1>4, <2>1, <2>3 DEF WorkerOK, DemandOK, At, receivableVars
  <2>5. \A v \in Workers : v # w => work'[v] = work[v]
    BY <2>1, <2>2
  <2>6. LogOK(j)' /\ MailsOK(j)'
    BY <1>0, <1>1, <1>4, <2>1, <2>3, <2>5 DEF LogOK, MailsOK, Spent, At
  <2>7. /\ mails' = [mails EXCEPT ![j] = mails'[j]] /\ mails'[j] \in Nat
        /\ rows' = [rows EXCEPT ![j] = rows'[j]] /\ rows'[j] \in [BOOLEAN -> Nat]
        /\ mails[j] <= mails'[j]
    BY <1>1, <2>1 DEF QueueInv, Typed
  <2> QED BY <1>0, <1>1, <1>4, <2>1, <2>3, <2>4, <2>6, <2>7, WorkerMoves_Inv
<1> QED BY <1>0, <1>1, <1>2, <1>3, <1>4 DEF ReadInvoice

\* A mail is one of the attempt it is made in.
LEMMA SendMail_Inv ==
    ASSUME QueueInv, NEW w \in Workers, SendMail(w)
    PROVE  QueueInv'
<1>1. ~At(w, "idle") /\ At(w, "send") /\ UNCHANGED <<receivableVars, job, proc, rows, killed>>
  BY DEF SendMail, At
<1>0. PICK j \in Jobs : j = work[w].job
  BY <1>1, InHand
<1>2. /\ work \in [Workers -> Work] /\ work[w] \in Work
      /\ WorkerOK(w) /\ LogOK(j) /\ MailsOK(j) /\ mails[j] \in Nat
      /\ mails \in [Jobs -> Nat] /\ rows \in [Jobs -> [BOOLEAN -> Nat]]
      /\ rows[j][TRUE] \in Nat
      /\ job[j].state = "active" /\ Spent(j) \in Nat
      /\ \A v \in Workers : v # w => work[v].job # j
  <2>1. Typed /\ WorkerOK(w) /\ LogOK(j) /\ MailsOK(j)
    BY DEF QueueInv
  <2>2. /\ job[j].attemptsMade \in Nat /\ job[j].stalls \in Nat /\ job[j].state = "active"
        /\ \A v \in Workers : v # w => work[v].job # j
    BY <1>0, <1>1, InHand
  <2>3. j \in Jobs
    BY <1>0
  <2>4. /\ work \in [Workers -> Work] /\ work[w] \in Work /\ mails[j] \in Nat
        /\ mails \in [Jobs -> Nat] /\ rows \in [Jobs -> [BOOLEAN -> Nat]]
        /\ rows[j][TRUE] \in Nat
    <3>1. rows[j] \in [BOOLEAN -> Nat]
      BY <2>1, <2>3 DEF Typed
    <3>2. rows[j][TRUE] \in Nat
      BY <3>1, Zenon
    <3> QED BY <2>1, <2>3, <3>2 DEF Typed
  <2>5. Spent(j) \in Nat
    BY <2>2 DEF Spent
  <2> QED BY <2>1, <2>2, <2>4, <2>5
<1>3. PICK took \in {0, 1}, sent \in BOOLEAN :
        /\ sent => took = 1
        /\ mails' = [mails EXCEPT ![j] = mails[j] + took]
        /\ work' = [work EXCEPT ![w] = work'[w]] /\ work'[w] \in Work
        /\ work'[w].step = "log" /\ work'[w].job = j /\ work'[w].sent = sent
  <2>1. CASE \E answered \in BOOLEAN :
                /\ mails' = [mails EXCEPT ![j] = @ + 1]
                /\ work' = [work EXCEPT ![w].step = "log", ![w].sent = answered]
    <3>1. PICK answered \in BOOLEAN :
                /\ mails' = [mails EXCEPT ![j] = @ + 1]
                /\ work' = [work EXCEPT ![w].step = "log", ![w].sent = answered]
      BY <2>1
    <3>2. work' = [work EXCEPT ![w] = [work[w] EXCEPT !.step = "log", !.sent = answered]]
      BY <1>2, <3>1
    <3>3. /\ work' = [work EXCEPT ![w] = work'[w]] /\ work'[w] \in Work
          /\ work'[w].step = "log" /\ work'[w].job = j /\ work'[w].sent = answered
      <4>1. PICK v \in Work :
              v = work[w] /\ work'[w] = [v EXCEPT !.step = "log", !.sent = answered]
        BY <1>2, <3>2
      <4>2. work' = [work EXCEPT ![w] = work'[w]]
        BY <1>2, <3>2
      <4> QED BY <1>0, <4>1, <4>2 DEF Work
    <3> QED BY <1>2, <3>1, <3>3
  <2>2. CASE Goto(w, "log") /\ UNCHANGED mails
    <3>1. work' = [work EXCEPT ![w] = [work[w] EXCEPT !.step = "log"]]
      BY <1>2, <2>2 DEF Goto
    <3>2. /\ work' = [work EXCEPT ![w] = work'[w]] /\ work'[w] \in Work
          /\ work'[w].step = "log" /\ work'[w].job = j /\ work'[w].sent = work[w].sent
      <4>1. PICK v \in Work : v = work[w] /\ work'[w] = [v EXCEPT !.step = "log"]
        BY <1>2, <3>1
      <4>2. work' = [work EXCEPT ![w] = work'[w]]
        BY <1>2, <3>1
      <4> QED BY <1>0, <4>1, <4>2 DEF Work
    <3>3. work[w].sent = FALSE
      BY <1>1, <1>2 DEF WorkerOK, At, Work
    <3>4. mails' = [mails EXCEPT ![j] = mails[j] + 0]
      BY <1>2, <2>2
    <3> QED BY <3>2, <3>3, <3>4
  <2> QED BY <1>0, <2>1, <2>2 DEF SendMail
<1>4. mails'[j] = mails[j] + took /\ mails' = [mails EXCEPT ![j] = mails'[j]]
  BY <1>2, <1>3
<1>5. \A v \in Workers : v # w => work'[v] = work[v]
  BY <1>2, <1>3
<1>6. WorkerOK(w)' /\ DemandOK(w)'
  BY <1>0, <1>1, <1>2, <1>3, <1>4 DEF WorkerOK, DemandOK, At
<1>7. LogOK(j)'
  <2>1. PICK r \in Nat : r = rows'[j][TRUE] /\ r <= mails[j]
    BY <1>1, <1>2 DEF LogOK
  <2>2. ASSUME sent PROVE rows'[j][TRUE] < mails'[j]
    <3>1. mails'[j] = mails[j] + 1
      BY <1>3, <1>4, <2>2
    <3>2. mails[j] \in Nat /\ r <= mails[j]
      BY <1>2, <2>1, Zenon
    <3>3. r < mails'[j]
      BY <3>1, <3>2
    <3> QED BY <2>1, <3>3, Zenon
  <2>3. \A v \in Workers : work'[v].job = j => v = w
    BY <1>2, <1>5
  <2>4. rows'[j][TRUE] <= mails'[j]
    <3>1. mails'[j] = mails[j] \/ mails'[j] = mails[j] + 1
      BY <1>2, <1>4
    <3>2. mails[j] \in Nat /\ r <= mails[j]
      BY <1>2, <2>1, Zenon
    <3>3. r <= mails'[j]
      BY <3>1, <3>2
    <3> QED BY <2>1, <3>3, Zenon
  <2> QED BY <1>3, <2>2, <2>3, <2>4 DEF LogOK
<1>8. MailsOK(j)'
  <2>1. mails[j] <= Spent(j) /\ Spent(j)' = Spent(j)
    BY <1>0, <1>1, <1>2 DEF MailsOK, At, Spent
  <2> QED BY <1>1, <1>2, <1>3, <1>4, <1>5, <2>1 DEF MailsOK
<1>9. rows' = [rows EXCEPT ![j] = rows'[j]] /\ rows'[j] \in [BOOLEAN -> Nat]
  BY <1>1, <1>2
<1>10. mails'[j] \in Nat /\ mails[j] <= mails'[j]
  BY <1>2, <1>4
<1> QED BY <1>0, <1>1, <1>3, <1>4, <1>6, <1>7, <1>8, <1>9, <1>10, WorkerMoves_Inv

\* A row is written by the attempt that sent, or did not send, its mail.
LEMMA WriteLog_Inv ==
    ASSUME QueueInv, NEW w \in Workers, WriteLog(w)
    PROVE  QueueInv'
<1>1. ~At(w, "idle") /\ At(w, "log") /\ UNCHANGED <<receivableVars, job, proc, mails, killed>>
  BY DEF WriteLog, At
<1>0. PICK j \in Jobs : j = work[w].job
  BY <1>1, InHand
<1>2. /\ work \in [Workers -> Work] /\ work[w] \in Work
      /\ rows \in [Jobs -> [BOOLEAN -> Nat]] /\ rows[j] \in [BOOLEAN -> Nat]
      /\ mails \in [Jobs -> Nat] /\ mails[j] \in Nat
      /\ \A v \in Workers : v # w => work[v].job # j
      /\ WorkerOK(w) /\ LogOK(j) /\ MailsOK(j)
  <2>1. Typed /\ WorkerOK(w) /\ LogOK(j) /\ MailsOK(j)
    BY DEF QueueInv
  <2> QED BY <1>0, <1>1, <2>1, InHand DEF Typed
<1>3. /\ work' = [work EXCEPT ![w] = work'[w]] /\ work'[w] \in Work
      /\ work'[w].step = "finish" /\ work'[w].job = j /\ work'[w].sent = work[w].sent
  <2>1. PICK v \in Work : v = work[w] /\ work'[w] = [v EXCEPT !.step = "finish"]
    BY <1>2 DEF WriteLog, Goto
  <2>2. work' = [work EXCEPT ![w] = work'[w]]
    BY <1>2 DEF WriteLog, Goto
  <2> QED BY <1>0, <2>1, <2>2 DEF Work
<1>4. WorkerOK(w)' /\ DemandOK(w)'
  BY <1>0, <1>1, <1>2, <1>3 DEF WorkerOK, DemandOK, At
<1>5. \A v \in Workers : work'[v].job = j => v = w
  BY <1>2, <1>3
<1>6. PICK b \in BOOLEAN, n \in {0, 1} :
        /\ b = work[w].sent
        /\ rows' = [rows EXCEPT ![j] = [rows[j] EXCEPT ![b] = rows[j][b] + n]]
  <2>1. work[w].sent \in BOOLEAN
    BY <1>2 DEF Work
  <2>2. CASE rows' = [rows EXCEPT ![work[w].job][HasMessageId(w)] = @ + 1]
    BY <1>0, <2>1, <2>2 DEF HasMessageId
  <2>3. CASE UNCHANGED rows
    <3>1. rows = [rows EXCEPT ![j] = [rows[j] EXCEPT ![work[w].sent] = rows[j][work[w].sent] + 0]]
      BY <1>2, <2>1
    <3> QED BY <2>1, <2>3, <3>1
  <2> QED BY <2>2, <2>3 DEF WriteLog
<1>7. /\ rows' = [rows EXCEPT ![j] = rows'[j]] /\ rows'[j] \in [BOOLEAN -> Nat]
      /\ rows'[j] = [rows[j] EXCEPT ![b] = rows[j][b] + n]
  <2>1. rows'[j] = [rows[j] EXCEPT ![b] = rows[j][b] + n]
    BY <1>2, <1>6
  <2>2. rows[j][b] + n \in Nat
    BY <1>2
  <2> QED BY <1>2, <1>6, <2>1, <2>2
<1>8. rows'[j][TRUE] <= mails[j]
  <2>1. CASE b = TRUE
    <3>1. rows[j][b] < mails[j]
      BY <1>0, <1>1, <1>2, <1>6, <2>1, Zenon DEF LogOK
    <3>2. rows[j][b] \in Nat
      BY <1>2
    <3>3. rows[j][b] + n <= mails[j]
      BY <1>2, <3>1, <3>2
    <3>4. rows'[j][b] = rows[j][b] + n
      BY <1>2, <1>7
    <3> QED BY <2>1, <3>3, <3>4
  <2>2. CASE b # TRUE
    <3>1. rows'[j][TRUE] = rows[j][TRUE]
      BY <1>2, <1>7, <2>2
    <3> QED BY <1>2, <3>1, Zenon DEF LogOK
  <2> QED BY <2>1, <2>2
<1>9. LogOK(j)' /\ MailsOK(j)'
  <2>1. LogOK(j)'
    BY <1>1, <1>3, <1>5, <1>8 DEF LogOK, At
  <2>2. MailsOK(j)'
    BY <1>1, <1>2, <1>3, <1>5 DEF MailsOK, Spent
  <2> QED BY <2>1, <2>2
<1>10. /\ mails' = [mails EXCEPT ![j] = mails'[j]] /\ mails'[j] \in Nat
       /\ mails[j] <= mails'[j]
  BY <1>1, <1>2
<1> QED BY <1>0, <1>1, <1>3, <1>4, <1>7, <1>9, <1>10, WorkerMoves_Inv

\* An attempt that ends gives its job back to the queue, or ends it.
LEMMA Finish_Inv ==
    ASSUME QueueInv, NEW w \in Workers, Finish(w)
    PROVE  QueueInv'
<1>1. ~At(w, "idle") /\ UNCHANGED <<receivableVars, proc, mails, rows, killed>>
  BY DEF Finish, At
<1>2. CASE work[w].sent /\ Complete(w)
  <2>1. mails[work[w].job] > 0
    BY <1>2 DEF QueueInv, WorkerOK
  <2> QED BY <1>1, <1>2, <2>1, Complete_Inv
<1>3. CASE Fail(w)
  BY <1>1, <1>3, Fail_Inv
<1> QED BY <1>2, <1>3 DEF Finish

-----------------------------------------------------------------------------
(* The process and the invoices                                            *)

\* A process that dies, of itself or at the end of its work, lets go of every
\* job.
LEMMA Dies_Inv ==
    ASSUME QueueInv, proc' = "down", work' = [w \in Workers |-> Idle],
           killed \subseteq killed', killed' \in SUBSET Jobs,
           \A j \in Jobs : WorkedOn(j) => j \in killed',
           UNCHANGED <<receivableVars, job, mails, rows>>
    PROVE  QueueInv'
<1> USE DEF QueueInv, receivableVars
<1>1. Typed'
  BY JobRecords DEF Typed, TypeOK
<1>2. \A j \in Jobs : JobOK(j)' /\ DroppedOK(j)'
  BY DEF JobOK, DroppedOK
<1>3. \A w \in Workers : WorkerOK(w)' /\ DemandOK(w)'
  BY JobRecords DEF WorkerOK, DemandOK, At
<1>4. OneWorkerEach'
  BY JobRecords DEF OneWorkerEach, At
<1>5. \A j \in Jobs : LogOK(j)'
  BY JobRecords DEF LogOK, At
<1>6. \A j \in Jobs : MailsOK(j)'
  BY JobRecords DEF MailsOK, Spent
<1>7. \A j \in Jobs : LockOK(j)'
  BY DEF LockOK
<1> QED BY <1>1, <1>2, <1>3, <1>4, <1>5, <1>6, <1>7

\* A process that goes down takes its workers with it, and only a kill leaves jobs
\* active.
LEMMA Process_Inv ==
    ASSUME QueueInv, Shutdown \/ Exit \/ Crash \/ Restart
    PROVE  QueueInv'
<1>1. CASE Shutdown \/ Restart
  <2>1. /\ UNCHANGED <<receivableVars, job, work, mails, rows, killed>>
        /\ proc' \in {"up", "closing", "down"}
    BY <1>1 DEF Shutdown, Restart
  <2> QED BY <2>1 DEF QueueInv, Typed, TypeOK, JobOK, WorkerOK, OneWorkerEach, LogOK, LockOK,
             MailsOK, DroppedOK, DemandOK, Spent, WorkedOn, At, receivableVars
<1>2. \A j \in Jobs : WorkedOn(j) <=> \E w \in InFlight : work[w].job = j
  BY DEF QueueInv, WorkerOK, WorkedOn, InFlight, At
<1>3. CASE Exit
  <2>1. \A j \in Jobs : ~WorkedOn(j)
    BY <1>2, <1>3 DEF Exit, Drained
  <2> QED BY <1>3, <2>1, Dies_Inv DEF Exit, QueueInv, Typed
<1>4. CASE Crash
  <2>1. {work[w].job : w \in InFlight} \in SUBSET Jobs
    BY DEF QueueInv, WorkerOK, InFlight, At
  <2> QED BY <1>2, <1>4, <2>1, Dies_Inv DEF Crash, QueueInv, Typed
<1> QED BY <1>1, <1>3, <1>4

\* What a step of Receivable may do to an invoice that has been issued.
LEMMA IssuedMoves ==
    ASSUME TypeOK, claim' \in [Docs -> 0 .. MaxClaim], Next
    PROVE  /\ TypeOK'
           /\ \A d \in Docs :
                /\ phase[d] \in {"open", "paid", "cancelled"} =>
                    phase'[d] \in {"open", "paid", "cancelled"}
                /\ phase[d] \in {"paid", "cancelled"} => phase'[d] = phase[d]
                /\ phase[d] = "open" /\ phase'[d] = "open" => claim[d] <= claim'[d]
<1>0. claim' \in [Docs -> Int] /\ claim \in [Docs -> Int]
  BY DEF TypeOK
<1>1. PICK d \in Docs :
        \/ Draft(d) \/ Discard(d) \/ Issue(d) \/ Charge(d) \/ Pay(d)
        \/ \E note \in Docs : Cancel(d, note)
  BY DEF Next
<1>2. CASE Draft(d) \/ Discard(d)
  BY <1>0, <1>2 DEF Draft, Discard, Move, TypeOK, Phase
<1>3. CASE Issue(d) \/ Pay(d)
  BY <1>0, <1>3 DEF Issue, Pay, Move, ClaimOnly, TypeOK, Phase
<1>4. CASE Charge(d)
  <2>1. claim' = [claim EXCEPT ![d] = claim'[d]] /\ claim'[d] > claim[d]
    BY <1>4 DEF Charge, ClaimOnly
  <2>2. \A e \in Docs : claim[e] <= claim'[e]
    BY <1>0, <2>1
  <2> QED BY <1>0, <1>4, <2>2 DEF Charge, TypeOK
<1>5. CASE \E note \in Docs : Cancel(d, note)
  <2>1. PICK note \in Docs : Cancel(d, note)
    BY <1>5
  <2>2. /\ phase' = [phase EXCEPT ![d] = "cancelled", ![note] = "creditNote"]
        /\ phase[d] = "open" /\ phase[note] = "none" /\ UNCHANGED principal
        /\ claim' = [claim EXCEPT ![d] = claim'[d]]
    BY <2>1 DEF Cancel, ClaimOnly
  <2>3. /\ d # note /\ phase'[d] = "cancelled"
        /\ \A e \in Docs : e # d /\ e # note => phase'[e] = phase[e] /\ claim'[e] = claim[e]
    BY <1>0, <2>2 DEF TypeOK
  <2>4. TypeOK'
    BY <1>0, <2>2 DEF TypeOK, Phase
  <2>5. ASSUME NEW e \in Docs
        PROVE  /\ phase[e] \in {"open", "paid", "cancelled"} =>
                    phase'[e] \in {"open", "paid", "cancelled"}
               /\ phase[e] \in {"paid", "cancelled"} => phase'[e] = phase[e]
               /\ phase[e] = "open" /\ phase'[e] = "open" => claim[e] <= claim'[e]
    <3>1. CASE e = d \/ e = note
      BY <2>2, <2>3, <3>1 DEF TypeOK
    <3>2. CASE e # d /\ e # note
      BY <1>0, <2>3, <3>2
    <3> QED BY <3>1, <3>2
  <2> QED BY <2>4, <2>5
<1> QED BY <1>1, <1>2, <1>3, <1>4, <1>5

\* Claims only grow while an invoice is open, so what was read is never more than owed.
LEMMA InvoiceMoves_Inv ==
    ASSUME QueueInv, InvoiceMoves
    PROVE  QueueInv'
<1> USE DEF QueueInv
<1>1. UNCHANGED <<job, work, proc, mails, rows, killed>>
  BY DEF InvoiceMoves, queueVars
<1>2. /\ TypeOK'
      /\ \A d \in Docs :
            /\ claim[d] \in Int /\ claim'[d] \in Int
            /\ phase[d] \in {"open", "paid", "cancelled"} =>
                phase'[d] \in {"open", "paid", "cancelled"}
            /\ phase[d] \in {"paid", "cancelled"} => phase'[d] = phase[d]
            /\ phase[d] = "open" /\ phase'[d] = "open" => claim[d] <= claim'[d]
  BY IssuedMoves DEF InvoiceMoves, Typed, TypeOK
<1>3. Typed'
  BY <1>1, <1>2 DEF Typed
<1>4. \A j \in Jobs : JobOK(j)'
  BY <1>1, <1>2 DEF JobOK
<1>5. /\ OneWorkerEach'
      /\ \A w \in Workers : WorkerOK(w)'
      /\ \A j \in Jobs : LogOK(j)' /\ LockOK(j)' /\ MailsOK(j)'
  BY <1>1 DEF OneWorkerEach, WorkerOK, LogOK, LockOK, MailsOK, Spent, WorkedOn, At
<1>6. \A j \in Jobs : DroppedOK(j)'
  BY <1>1, <1>2 DEF DroppedOK, JobOK
<1>7. ASSUME NEW w \in Workers PROVE DemandOK(w)'
  <2>1. CASE At(w, "send")
    <3>1. PICK d \in Docs : d = job[work[w].job].doc /\ phase[d] \in {"open", "paid", "cancelled"}
      BY <2>1, InHand DEF At
    <3>2. work[w].amount \in Int
      BY DEF Typed, Work
    <3> QED BY <1>1, <1>2, <3>1, <3>2 DEF DemandOK, At
  <2>2. CASE ~At(w, "send")
    BY <1>1, <2>2 DEF DemandOK, At
  <2> QED BY <2>1, <2>2
<1> QED BY <1>3, <1>4, <1>5, <1>6, <1>7

-----------------------------------------------------------------------------
(* Theorems                                                                *)

\* Stuttering keeps QueueInv.
LEMMA Queue_Stutter == QueueInv /\ UNCHANGED allVars => QueueInv'
<1> SUFFICES ASSUME QueueInv, UNCHANGED allVars PROVE QueueInv'
  OBVIOUS
<1>1. UNCHANGED <<phase, principal, claim, job, work, proc, mails, rows, killed>>
  BY DEF allVars, receivableVars, queueVars
<1>2. Typed'
  BY <1>1 DEF QueueInv, Typed, TypeOK
<1>3. \A j \in Jobs : JobOK(j)' /\ LogOK(j)' /\ LockOK(j)'
  BY <1>1 DEF QueueInv, JobOK, LogOK, LockOK, WorkedOn, At
<1>4. \A j \in Jobs : MailsOK(j)' /\ DroppedOK(j)'
  BY <1>1 DEF QueueInv, MailsOK, DroppedOK, Spent
<1>5. OneWorkerEach' /\ \A w \in Workers : WorkerOK(w)' /\ DemandOK(w)'
  BY <1>1 DEF QueueInv, OneWorkerEach, WorkerOK, DemandOK, At
<1> QED BY <1>2, <1>3, <1>4, <1>5 DEF QueueInv

\* QueueInv is inductive.
LEMMA Queue_Step == QueueInv /\ [QueueNext]_allVars => QueueInv'
<1> SUFFICES ASSUME QueueInv, QueueNext PROVE QueueInv'
  BY Queue_Stutter
<1>1. ASSUME NEW j \in Jobs,
             (\E d \in Docs : Enqueue(j, d)) \/ BackoffEnds(j) \/ Stalled(j)
      PROVE  QueueInv'
  BY <1>1, Enqueue_Inv, BackoffEnds_Inv, Stalled_Inv
<1>2. ASSUME NEW w \in Workers, WorkerStep(w) PROVE QueueInv'
  BY <1>2, Pick_Inv, ReadInvoice_Inv, SendMail_Inv, WriteLog_Inv, Finish_Inv DEF WorkerStep
<1> QED BY <1>1, <1>2, Process_Inv, InvoiceMoves_Inv DEF QueueNext

\* The inductive invariant of queue, workers, process and log holds throughout: types; a
\* worker with a job has an active one, and has it alone; a process that is down has no
\* workers; mails, attempts and stalls add up.
THEOREM QueueInvariant == QueueSpec => []QueueInv
BY QueueInit_Inv, Queue_Step, PTL DEF QueueSpec

\* Every variable keeps its type; with it, a job is tried at most ATTEMPTS
\* times and found stalled at most MAX_STALLED times (queues.ts:88-93).
THEOREM QueueTypeCorrect == QueueSpec => []QueueTypeOK
<1>1. QueueInv => QueueTypeOK
  BY DEF QueueInv, Typed, QueueTypeOK
<1> QED BY <1>1, QueueInvariant, PTL

\* A row of the email log with a message id stands for a mail that went out
\* (email.service.ts:31-61), whatever crashed and was tried again.
THEOREM LogTruthful == QueueSpec => []LogIsTruthful
<1>1. QueueInv => LogIsTruthful
  BY DEF QueueInv, LogOK, LogIsTruthful
<1> QED BY <1>1, QueueInvariant, PTL

\* A demand that goes out late states at most what is owed by then: claims
\* only grow while an invoice is open (email.worker.ts:40-52).
THEOREM DemandsNoMore == QueueSpec => []NeverDemandsMore
<1>1. QueueInv => NeverDemandsMore
  BY DEF QueueInv, DemandOK, NeverDemandsMore
<1> QED BY <1>1, QueueInvariant, PTL

\* Only a crash leaves a job locked or counts against the times it may be
\* found stalled (server.ts:60-75).
THEOREM CrashesLock == QueueSpec => []OnlyCrashesLock
<1>1. QueueInv => OnlyCrashesLock
  BY DEF QueueInv, LockOK, OnlyCrashesLock
<1> QED BY <1>1, QueueInvariant, PTL

\* At worst a customer is written to once for each attempt and once for each
\* time a worker died over the job (queues.ts:88-93).
THEOREM MailsAreBounded == QueueSpec => []MailsBounded
<1>1. ASSUME QueueInv, NEW j \in Jobs PROVE mails[j] <= ATTEMPTS + MAX_STALLED
  <2>1. /\ job[j] \in Job /\ mails[j] \in Nat /\ JobOK(j) /\ MailsOK(j)
    BY <1>1 DEF QueueInv, Typed
  <2>2. /\ job[j].attemptsMade \in Nat /\ job[j].stalls \in Nat
        /\ job[j].attemptsMade <= ATTEMPTS /\ job[j].stalls <= MAX_STALLED
        /\ job[j].state \in {"none", "waiting", "active", "delayed", "completed", "failed"}
    BY <2>1 DEF Job
  <2>3. CASE job[j].state = "failed"
    BY <2>1, <2>3 DEF MailsOK
  <2>4. CASE job[j].state # "failed"
    <3>1. job[j].attemptsMade < ATTEMPTS
      BY <2>1, <2>2, <2>4 DEF JobOK
    <3>2. mails[j] <= Spent(j) + 1
      BY <2>1, <2>2, <2>4 DEF MailsOK, Spent
    <3> QED BY <2>1, <2>2, <3>1, <3>2 DEF Spent
  <2> QED BY <2>3, <2>4
<1>2. QueueInv => MailsBounded
  BY <1>1 DEF MailsBounded
<1> QED BY <1>2, QueueInvariant, PTL

\* A job that ended well sent its mail or had none to send any more
\* (email.worker.ts:40-70).
THEOREM NothingIsDropped == QueueSpec => []NothingDropped
<1>1. QueueInv => NothingDropped
  BY DEF QueueInv, DroppedOK, NothingDropped
<1> QED BY <1>1, QueueInvariant, PTL

\* What a step leaves of a job that is there: its invoice, and its mails
\* unless a worker sends one; and a worker comes to send only what it found
\* unsettled.
JobKept(j) ==
    /\ job'[j].doc = job[j].doc /\ job'[j].state # "none"
    /\ mails'[j] # mails[j] => \E w \in Workers : work[w].job = j /\ At(w, "send")
    /\ \A w \in Workers :
        work'[w].job = j /\ work'[w].step = "send" =>
            \/ work[w].job = j /\ At(w, "send")
            \/ ~Settled(job[j].doc)

\* A job keeps its invoice; its mails come from its worker, which comes to send one
\* only for an invoice that is not settled.
LEMMA JobsKept ==
    ASSUME QueueInv, QueueNext, NEW j \in Jobs, job[j].state # "none"
    PROVE  JobKept(j)
<1> DEFINE Kept(e) == e.doc = job[j].doc /\ e.state # "none"
<1>0. /\ job \in [Jobs -> Job] /\ work \in [Workers -> Work] /\ mails \in [Jobs -> Nat]
      /\ job[j] \in Job /\ job[j] # NoSuchJob
  BY JobRecords DEF QueueInv, Typed
<1>1. ASSUME NEW i \in Jobs, NEW d \in Docs, Enqueue(i, d) PROVE JobKept(j)
  <2>1. i # j /\ job'[j] = job[j] /\ UNCHANGED <<work, mails>>
    BY <1>0, <1>1 DEF Enqueue
  <2> QED BY <2>1 DEF JobKept, At
<1>2. ASSUME NEW i \in Jobs, BackoffEnds(i) \/ Stalled(i) PROVE JobKept(j)
  <2>1. PICK e : job' = [job EXCEPT ![i] = e] /\ UNCHANGED <<work, mails>>
    BY <1>2 DEF BackoffEnds, Stalled
  <2>2. CASE i # j
    <3>1. job'[j] = job[j]
      BY <1>0, <2>1, <2>2
    <3> QED BY <2>1, <3>1 DEF JobKept, At
  <2>3. CASE i = j
    <3>1. PICK v \in Job : v = job[j] /\ job'[j] \in {Reclaimed(v), [v EXCEPT !.state = "waiting"]}
      BY <1>0, <1>2, <2>3 DEF BackoffEnds, Stalled
    <3>2. Kept(Reclaimed(v)) /\ Kept([v EXCEPT !.state = "waiting"])
      BY <3>1 DEF Reclaimed, Job
    <3>3. Kept(job'[j])
      BY <3>1, <3>2
    <3> QED BY <2>1, <3>3 DEF JobKept, At
  <2> QED BY <2>2, <2>3
<1>3. ASSUME NEW w \in Workers, NEW i \in Jobs, Pick(w, i) PROVE JobKept(j)
  <2>1. /\ job' = [job EXCEPT ![i] = [job[i] EXCEPT !.state = "active"]]
        /\ UNCHANGED mails /\ \A v \in Workers : v # w => work'[v] = work[v]
        /\ work'[w].step = "read"
    BY <1>0, <1>3, WorkTaken DEF Pick
  <2>2. Kept(job'[j])
    BY <1>0, <2>1 DEF Job
  <2> QED BY <2>1, <2>2 DEF JobKept, At
<1>4. ASSUME NEW w \in Workers, ~At(w, "idle"), Complete(w) \/ Fail(w), UNCHANGED mails
      PROVE  JobKept(j)
  <2>1. PICK i \in Jobs : i = work[w].job /\ job[i].attemptsMade < ATTEMPTS
    BY <1>4, InHand
  <2>2. /\ \A v \in Workers : v # w => work'[v] = work[v]
        /\ work'[w].step = "idle"
    BY <1>0, <1>4, JobRecords DEF Complete, Fail
  <2>3. Kept(job'[j])
    <3>1. CASE i # j
      BY <1>0, <1>4, <2>1, <3>1 DEF Complete, Fail
    <3>2. CASE i = j
      <4>1. PICK v \in Job : /\ v = job[j] /\ v.attemptsMade < ATTEMPTS
                             /\ job'[j] \in {Retry(v), [v EXCEPT !.state = "completed"]}
        BY <1>0, <1>4, <2>1, <3>2 DEF Complete, Fail
      <4>2. Kept(Retry(v))
        BY <4>1, JobRetried
      <4>3. Kept([v EXCEPT !.state = "completed"])
        BY <4>1 DEF Job
      <4> QED BY <4>1, <4>2, <4>3
    <3> QED BY <3>1, <3>2
  <2> QED BY <1>4, <2>2, <2>3 DEF JobKept, At
<1>5. ASSUME NEW w \in Workers, ReadInvoice(w) PROVE JobKept(j)
  <2>1. ~At(w, "idle") /\ UNCHANGED mails
    BY <1>5 DEF ReadInvoice, At
  <2>2. CASE Complete(w) \/ Fail(w)
    BY <1>4, <2>1, <2>2
  <2>3. CASE /\ ~Settled(job[work[w].job].doc) /\ UNCHANGED job
             /\ work' = [work EXCEPT ![w].step = "send",
                                     ![w].amount = AmountDue(job[work[w].job].doc)]
    <3>1. /\ \A v \in Workers : v # w => work'[v] = work[v]
          /\ work'[w].job = work[w].job
      BY <1>0, <2>3 DEF Work
    <3> QED BY <2>1, <2>3, <3>1 DEF JobKept, At
  <2> QED BY <1>5, <2>2, <2>3 DEF ReadInvoice
<1>6. ASSUME NEW w \in Workers, SendMail(w) PROVE JobKept(j)
  <2>1. /\ At(w, "send") /\ UNCHANGED job
        /\ mails' # mails => mails' = [mails EXCEPT ![work[w].job] = @ + 1]
    BY <1>6 DEF SendMail
  <2>2. /\ \A v \in Workers : v # w => work'[v] = work[v]
        /\ work'[w].step = "log"
    BY <1>0, <1>6 DEF SendMail, Goto, Work
  <2> QED BY <1>0, <2>1, <2>2 DEF JobKept, At
<1>7. ASSUME NEW w \in Workers, WriteLog(w) PROVE JobKept(j)
  <2>1. /\ UNCHANGED <<job, mails>>
        /\ \A v \in Workers : v # w => work'[v] = work[v]
        /\ work'[w].step = "finish"
    BY <1>0, <1>7 DEF WriteLog, Goto, Work
  <2> QED BY <2>1 DEF JobKept, At
<1>8. ASSUME NEW w \in Workers, Finish(w) PROVE JobKept(j)
  BY <1>4, <1>8 DEF Finish, At
<1>9. CASE Shutdown \/ Exit \/ Crash \/ Restart
  <2>1. UNCHANGED <<job, mails>>
    BY <1>9 DEF Shutdown, Exit, Crash, Restart
  <2>2. \A w \in Workers : work'[w] = work[w] \/ work'[w] = Idle
    BY <1>9 DEF Shutdown, Exit, Crash, Restart
  <2> QED BY <2>1, <2>2, JobRecords DEF JobKept, At
<1>10. CASE InvoiceMoves
  BY <1>10 DEF InvoiceMoves, queueVars, JobKept, At
<1> QED BY <1>1, <1>2, <1>3, <1>5, <1>6, <1>7, <1>8, <1>9, <1>10 DEF QueueNext, WorkerStep

\* A settled invoice stays as it is.
LEMMA SettledStays ==
    ASSUME QueueInv, QueueNext, NEW d \in Docs, phase[d] \in {"paid", "cancelled"}
    PROVE  phase'[d] = phase[d]
<1>1. CASE InvoiceMoves
  BY <1>1, IssuedMoves DEF InvoiceMoves, QueueInv, Typed
<1>2. CASE ~InvoiceMoves
  BY <1>2 DEF QueueNext, WorkerStep, Enqueue, BackoffEnds, Stalled, Pick, ReadInvoice, SendMail,
              WriteLog, Finish, Shutdown, Exit, Crash, Restart, receivableVars
<1> QED BY <1>1, <1>2

\* Once an invoice is settled, a job that is not between its reading and its
\* mail sends none from then on (email.worker.ts:36-52).
THEOREM SettledIsSilent == QueueSpec => SettledSilencesJob
<1>1. ASSUME QueueInv, QueueNext, NEW j \in Jobs, Silenced(j)
      PROVE  Silenced(j)' /\ mails'[j] = mails[j]
  <2>1. PICK d \in Docs : /\ d = job[j].doc /\ phase[d] \in {"paid", "cancelled"}
                          /\ job[j].state # "none"
    BY <1>1 DEF Silenced, QueueInv, JobOK
  <2>2. \A w \in Workers : work[w].job = j => ~At(w, "send")
    BY <1>1 DEF Silenced
  <2>3. JobKept(j) /\ phase'[d] = phase[d] /\ Settled(d)
    BY <1>1, <2>1, JobsKept, SettledStays DEF Settled
  <2>4. mails'[j] = mails[j]
    BY <2>2, <2>3 DEF JobKept
  <2>5. \A w \in Workers : work'[w].job = j => work'[w].step # "send"
    BY <2>1, <2>2, <2>3 DEF JobKept
  <2>6. job'[j] # NoSuchJob
    BY <2>3, JobRecords DEF JobKept
  <2> QED BY <2>1, <2>3, <2>4, <2>5, <2>6 DEF Silenced, JobKept, At
<1>2. ASSUME QueueInv, UNCHANGED allVars, NEW j \in Jobs, Silenced(j)
      PROVE  Silenced(j)' /\ mails'[j] = mails[j]
  BY <1>2 DEF Silenced, At, allVars, receivableVars, queueVars
<1>3. QueueInv /\ [QueueNext]_allVars
        => [\A j \in Jobs : Silenced(j) => Silenced(j)' /\ mails'[j] = mails[j]]_allVars
  BY <1>1, <1>2
<1> QED BY <1>3, QueueInvariant, PTL DEF QueueSpec, SettledSilencesJob
=============================================================================
