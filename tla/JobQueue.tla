------------------------------ MODULE JobQueue ------------------------------
(***************************************************************************)
(* The durable_jobs and job_attempts tables and the operations of          *)
(* JobRepository (app/jobs/repository.py).  Every operation is one         *)
(* database transaction on one row, taken FOR UPDATE, so each is one step. *)
(*                                                                         *)
(* Time is abstracted to the two comparisons the repository makes: `due`   *)
(* is not_before <= now, and `stale` is locked_at < now - lease_seconds.   *)
(* A row may be claimed by anyone in any order: claim() skips the rows     *)
(* other transactions hold, so its ORDER BY promises nothing to a row.     *)
(*                                                                         *)
(* The operators named Slip... are mutants: a definition as a slip in the  *)
(* code would have it, with which the property it is paired with fails.    *)
(***************************************************************************)
EXTENDS Naturals, Sequences, FiniteSets

CONSTANTS
    Jobs,            \* the (job_type, dedupe_key) pairs of one worker group
    WorkerIds,       \* the strings written to locked_by
    Nobody,          \* locked_by IS NULL
    MaxAttempts,     \* enqueue's max_attempts
    ReopenAttempts   \* enqueue's reopen_attempts

ASSUME JobQueueAssumption ==
    /\ Nobody \notin WorkerIds
    /\ MaxAttempts \in Nat \ {0}
    /\ ReopenAttempts \in Nat \ {0}

VARIABLES
    job,             \* durable_jobs, by dedupe key
    attempts         \* job_attempts: the k-th record of a job has attempt_number k

queueVars == <<job, attempts>>

Status == {"ABSENT", "PENDING", "RUNNING", "RETRY_WAIT", "SUCCEEDED", "FAILED_TERMINAL"}
Claimable == {"PENDING", "RETRY_WAIT"}
Closed == {"SUCCEEDED", "FAILED_TERMINAL"}
AttemptStatus == {"RUNNING", "RETRY_WAIT", "SUCCEEDED", "FAILED_TERMINAL"}
Errors == {"none", "error", "expired"}

JobRow == [status: Status, attempt_count: Nat, max_attempts: Nat \ {0},
           due: BOOLEAN, stale: BOOLEAN, locked_by: WorkerIds \cup {Nobody}]
AttemptRow == [worker_id: WorkerIds, status: AttemptStatus, error: Errors]

NoRow == [status |-> "ABSENT", attempt_count |-> 0, max_attempts |-> MaxAttempts,
          due |-> FALSE, stale |-> FALSE, locked_by |-> Nobody]

QueueTypeOK ==
    /\ job \in [Jobs -> JobRow]
    /\ attempts \in [Jobs -> Seq(AttemptRow)]

QueueInit ==
    /\ job = [j \in Jobs |-> NoRow]
    /\ attempts = [j \in Jobs |-> <<>>]

-----------------------------------------------------------------------------
(* enqueue(): insert the row, or reopen a terminal one.  Any other call     *)
(* finds the row by its dedupe key and changes nothing.                     *)

Insert(j, isDue) ==
    /\ job[j].status = "ABSENT"
    /\ job' = [job EXCEPT ![j].status = "PENDING", ![j].due = isDue]
    /\ UNCHANGED attempts

ReopenedMax(row) ==
    IF row.attempt_count + ReopenAttempts > row.max_attempts
    THEN row.attempt_count + ReopenAttempts
    ELSE row.max_attempts

Reopen(j, isDue) ==
    /\ job[j].status = "FAILED_TERMINAL"
    /\ job' = [job EXCEPT ![j].status = "PENDING", ![j].due = isDue,
                          ![j].locked_by = Nobody, ![j].stale = FALSE,
                          ![j].max_attempts = ReopenedMax(job[j])]
    /\ UNCHANGED attempts

-----------------------------------------------------------------------------
(* claim(): one due row becomes RUNNING under a fresh attempt record.       *)
Claim(j, w) ==
    /\ job[j].status \in Claimable
    /\ job[j].due
    /\ job' = [job EXCEPT ![j].status = "RUNNING", ![j].locked_by = w,
                          ![j].stale = FALSE,
                          ![j].attempt_count = job[j].attempt_count + 1]
    /\ attempts' = [attempts EXCEPT
           ![j] = Append(@, [worker_id |-> w, status |-> "RUNNING", error |-> "none"])]

(* _owned_job(): the test every later operation of the worker makes.        *)
SlipOwnedByAnyone(j, w) == job[j].status = "RUNNING"
Owned(j, w) == job[j].status = "RUNNING" /\ job[j].locked_by = w

(* _current_attempt(): the record numbered attempt_count takes its verdict. *)
SlipCloseFirstAttempt(j, status, error) ==
    attempts' = [attempts EXCEPT ![j][1].status = status, ![j][1].error = error]
CloseAttempt(j, status, error) ==
    attempts' = [attempts EXCEPT
        ![j][job[j].attempt_count].status = status,
        ![j][job[j].attempt_count].error = error]

Release(j, status, isDue) ==
    job' = [job EXCEPT ![j].status = status, ![j].locked_by = Nobody,
                       ![j].stale = FALSE, ![j].due = isDue]

Succeed(j, w) ==
    /\ Owned(j, w)
    /\ Release(j, "SUCCEEDED", job[j].due)
    /\ CloseAttempt(j, "SUCCEEDED", "none")

(* fail(): the backoff (at least one second) moves not_before past now.     *)
FailStatus(row) ==
    IF row.attempt_count >= row.max_attempts THEN "FAILED_TERMINAL" ELSE "RETRY_WAIT"

Fail(j, w) ==
    /\ Owned(j, w)
    /\ Release(j, FailStatus(job[j]), FailStatus(job[j]) = "FAILED_TERMINAL")
    /\ CloseAttempt(j, FailStatus(job[j]), "error")

(* renew_lease(): FALSE, and no change, unless the caller still owns it.    *)
Renew(j, w) ==
    /\ Owned(j, w)
    /\ job' = [job EXCEPT ![j].stale = FALSE]
    /\ UNCHANGED attempts

(* reclaim_expired(): no look at max_attempts, and due at once.             *)
SlipAttemptLeftOpen(j) ==
    /\ job[j].status = "RUNNING"
    /\ job[j].stale
    /\ Release(j, "RETRY_WAIT", TRUE)
    /\ UNCHANGED attempts
SlipReclaimWithinBudget(j) ==
    /\ job[j].status = "RUNNING"
    /\ job[j].stale
    /\ job[j].attempt_count < job[j].max_attempts
    /\ Release(j, "RETRY_WAIT", TRUE)
    /\ CloseAttempt(j, "RETRY_WAIT", "expired")
ReclaimExpired(j) ==
    /\ job[j].status = "RUNNING"
    /\ job[j].stale
    /\ Release(j, "RETRY_WAIT", TRUE)
    /\ CloseAttempt(j, "RETRY_WAIT", "expired")

(* The clock passes not_before, or locked_at + lease_seconds.               *)
BecomeDue(j) ==
    /\ job[j].status \in Claimable
    /\ ~job[j].due
    /\ job' = [job EXCEPT ![j].due = TRUE]
    /\ UNCHANGED attempts

LeaseAges(j) ==
    /\ job[j].status = "RUNNING"
    /\ ~job[j].stale
    /\ job' = [job EXCEPT ![j].stale = TRUE]
    /\ UNCHANGED attempts

-----------------------------------------------------------------------------
(* Exactly the rows that are RUNNING have an owner and an open attempt, it  *)
(* is the last one and the owner's, and attempt_number never skips or       *)
(* repeats: _current_attempt() always finds its record, whichever of        *)
(* succeed, fail and reclaim_expired closed the attempts before it.         *)
LedgerRow(row, records) ==
    /\ Len(records) = row.attempt_count
    /\ (row.locked_by # Nobody) <=> (row.status = "RUNNING")
    /\ \A k \in 1..Len(records) :
          records[k].status = "RUNNING" <=> k = row.attempt_count /\ row.status = "RUNNING"
    /\ row.status = "RUNNING" =>
          row.attempt_count > 0 /\ records[row.attempt_count].worker_id = row.locked_by

AttemptLedger == \A j \in Jobs : LedgerRow(job[j], attempts[j])

(* Attempts beyond max_attempts are paid for by expired leases: only        *)
(* reclaim_expired() returns a job to the queue without looking at the      *)
(* budget, so a handler that fails is never retried past it.                *)
ExpiredIn(records) == {k \in 1..Len(records) : records[k].error = "expired"}

AttemptBudget ==
    \A j \in Jobs :
        job[j].attempt_count <= job[j].max_attempts + Cardinality(ExpiredIn(attempts[j]))

(* The records of the attempts and their number (claim, succeed, fail and   *)
(* reclaim_expired).                                                        *)
AttemptsAreKept == AttemptLedger /\ AttemptBudget
=============================================================================
