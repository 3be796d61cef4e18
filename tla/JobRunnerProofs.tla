--------------------------- MODULE JobRunnerProofs --------------------------
(***************************************************************************)
(* What holds of a worker group for every number of jobs, slots, runs and  *)
(* faults.                                                                 *)
(*                                                                         *)
(* First the durable_jobs and job_attempts tables: a row and its attempt   *)
(* records are one unit, an operation of JobRepository touches one job     *)
(* only, so the invariant is a predicate RowOK of one job's row and        *)
(* records, and each operation has a lemma about that one job.             *)
(*                                                                         *)
(* The tables stay in order because every step of the runner is one of the *)
(* repository's operations or leaves them alone.  What the runner adds is  *)
(* the hand of each loop: a loop that has a handler has a job, and it      *)
(* reports success only of a handler that returned.                        *)
(*                                                                         *)
(* At the end, LiveState.tla, which the evidence run composes with the     *)
(* runner: what the live page shows was true when it was last proved, for  *)
(* any set of fields and any age.                                          *)
(***************************************************************************)
EXTENDS JobRunner, LiveState, FiniteSetTheorems, TLAPS

USE DEF Status, Claimable, AttemptStatus, Errors

(* The budget, strengthened: a job that may be claimed once more has an     *)
(* attempt left, and an open attempt was not closed by an expired lease.    *)
BudgetRow(r, s) ==
    /\ r.attempt_count <= r.max_attempts + Cardinality(ExpiredIn(s))
    /\ r.status \in Claimable => r.attempt_count < r.max_attempts + Cardinality(ExpiredIn(s))
    /\ r.status = "ABSENT" => r.attempt_count = 0
    /\ \A k \in 1..Len(s) : s[k].status = "RUNNING" => s[k].error = "none"

RowOK(r, s) ==
    /\ r \in JobRow
    /\ s \in Seq(AttemptRow)
    /\ LedgerRow(r, s)
    /\ BudgetRow(r, s)

QueueInv ==
    /\ job \in [Jobs -> JobRow]
    /\ attempts \in [Jobs -> Seq(AttemptRow)]
    /\ \A j \in Jobs : RowOK(job[j], attempts[j])

-----------------------------------------------------------------------------
(* Facts about sequences of attempt records.                                *)

(* Replacing one record of a history leaves the others and its length.      *)
LEMMA ReplaceRecord ==
    ASSUME NEW s \in Seq(AttemptRow), NEW k \in 1..Len(s), NEW x \in AttemptRow
    PROVE  /\ [s EXCEPT ![k] = x] \in Seq(AttemptRow)
           /\ Len([s EXCEPT ![k] = x]) = Len(s)
           /\ \A i \in 1..Len(s) : [s EXCEPT ![k] = x][i] = IF i = k THEN x ELSE s[i]
  OBVIOUS

(* The expired records of a history are finitely many.                      *)
LEMMA ExpiredFinite ==
    ASSUME NEW s \in Seq(AttemptRow)
    PROVE  IsFiniteSet(ExpiredIn(s)) /\ Cardinality(ExpiredIn(s)) \in Nat
  <1>1. Len(s) \in Nat /\ IsFiniteSet(1..Len(s))
    BY FS_Interval
  <1>2. ExpiredIn(s) \subseteq 1..Len(s)
    BY DEF ExpiredIn
  <1>3. IsFiniteSet(ExpiredIn(s))
    BY <1>1, <1>2, FS_Subset
  <1> QED
    BY <1>3, FS_CardinalityType

(* A new record that is open leaves the number of expired ones.             *)
LEMMA ExpiredAppend ==
    ASSUME NEW s \in Seq(AttemptRow), NEW x \in AttemptRow, x.error # "expired"
    PROVE  ExpiredIn(Append(s, x)) = ExpiredIn(s)
  BY DEF ExpiredIn

(* So does a verdict on a record that was not expired; an expiry adds one.  *)
LEMMA ExpiredReplace ==
    ASSUME NEW s \in Seq(AttemptRow), NEW k \in 1..Len(s), NEW x \in AttemptRow,
           s[k].error # "expired"
    PROVE  /\ x.error # "expired" =>
                 Cardinality(ExpiredIn([s EXCEPT ![k] = x])) = Cardinality(ExpiredIn(s))
           /\ x.error = "expired" =>
                 Cardinality(ExpiredIn([s EXCEPT ![k] = x])) = Cardinality(ExpiredIn(s)) + 1
  <1> DEFINE t == [s EXCEPT ![k] = x]
  <1>1. /\ Len(t) = Len(s)
        /\ \A i \in 1..Len(s) : t[i] = IF i = k THEN x ELSE s[i]
    BY ReplaceRecord
  <1>2. CASE x.error # "expired"
    <2>1. ExpiredIn(t) = ExpiredIn(s)
      BY <1>1, <1>2 DEF ExpiredIn
    <2> QED
      BY <2>1, <1>2
  <1>3. CASE x.error = "expired"
    <2>1. ExpiredIn(t) = ExpiredIn(s) \cup {k} /\ k \notin ExpiredIn(s)
      BY <1>1, <1>3 DEF ExpiredIn
    <2>2. Cardinality(ExpiredIn(s) \cup {k}) = Cardinality(ExpiredIn(s)) + 1
      BY <2>1, ExpiredFinite, FS_AddElement
    <2> QED
      BY <2>1, <2>2, <1>3
  <1> QED
    BY <1>2, <1>3

-----------------------------------------------------------------------------
(* Each operation keeps the row and the records of its job in order.        *)

(* enqueue() of a new job, and of a terminal one it reopens.                *)
LEMMA InsertRow ==
    ASSUME NEW r, NEW s, RowOK(r, s), NEW b \in BOOLEAN, r.status = "ABSENT"
    PROVE  RowOK([r EXCEPT !.status = "PENDING", !.due = b], s)
  <1> DEFINE q == [r EXCEPT !.status = "PENDING", !.due = b]
  <1>1. r \in JobRow /\ s \in Seq(AttemptRow) /\ Cardinality(ExpiredIn(s)) \in Nat
    BY ExpiredFinite DEF RowOK
  <1>2. q \in JobRow
    BY <1>1 DEF JobRow
  <1>3. LedgerRow(q, s)
    BY <1>1 DEF RowOK, LedgerRow, JobRow
  <1>4. BudgetRow(q, s)
    BY <1>1 DEF RowOK, BudgetRow, JobRow
  <1> QED
    BY <1>1, <1>2, <1>3, <1>4 DEF RowOK

(* A terminal job that is reopened gets the budget of one more attempt.     *)
LEMMA ReopenRow ==
    ASSUME NEW r, NEW s, RowOK(r, s), NEW b \in BOOLEAN, r.status = "FAILED_TERMINAL"
    PROVE  RowOK([r EXCEPT !.status = "PENDING", !.due = b, !.locked_by = Nobody,
                           !.stale = FALSE, !.max_attempts = ReopenedMax(r)], s)
  <1> DEFINE m == ReopenedMax(r)
             q == [r EXCEPT !.status = "PENDING", !.due = b, !.locked_by = Nobody,
                            !.stale = FALSE, !.max_attempts = m]
  <1>1. r \in JobRow /\ s \in Seq(AttemptRow) /\ Cardinality(ExpiredIn(s)) \in Nat
    BY ExpiredFinite DEF RowOK
  <1>2. m \in Nat \ {0} /\ r.attempt_count < m
    BY <1>1, JobQueueAssumption DEF ReopenedMax, JobRow
  <1> HIDE DEF m
  <1>3. q \in JobRow
    BY <1>1, <1>2 DEF JobRow
  <1>4. LedgerRow(q, s)
    BY <1>1 DEF RowOK, LedgerRow, JobRow
  <1>5. BudgetRow(q, s)
    BY <1>1, <1>2 DEF RowOK, BudgetRow, JobRow
  <1>6. RowOK(q, s)
    BY <1>1, <1>3, <1>4, <1>5 DEF RowOK
  <1> QED
    BY <1>6 DEF m

(* The clock and renew_lease() move only due and stale.                     *)
LEMMA TouchRow ==
    ASSUME NEW r, NEW s, RowOK(r, s), NEW b \in BOOLEAN
    PROVE  RowOK([r EXCEPT !.due = b], s) /\ RowOK([r EXCEPT !.stale = b], s)
  BY DEF RowOK, LedgerRow, BudgetRow, JobRow

(* claim(): the attempt it opens is the next one.                           *)
LEMMA ClaimRow ==
    ASSUME NEW r, NEW s, RowOK(r, s), NEW w \in WorkerIds, r.status \in Claimable,
           NEW x, x = [worker_id |-> w, status |-> "RUNNING", error |-> "none"]
    PROVE  RowOK([r EXCEPT !.status = "RUNNING", !.locked_by = w, !.stale = FALSE,
                           !.attempt_count = r.attempt_count + 1], Append(s, x))
  <1> DEFINE n == r.attempt_count + 1
             q == [r EXCEPT !.status = "RUNNING", !.locked_by = w, !.stale = FALSE,
                            !.attempt_count = n]
             t == Append(s, x)
  <1>1. r \in JobRow /\ s \in Seq(AttemptRow) /\ Cardinality(ExpiredIn(s)) \in Nat
    BY ExpiredFinite DEF RowOK
  <1>2. n \in Nat
    BY <1>1 DEF JobRow
  <1> HIDE DEF n
  <1>3. /\ q \in JobRow /\ q.status = "RUNNING" /\ q.locked_by = w
        /\ q.attempt_count = n /\ q.max_attempts = r.max_attempts
    BY <1>1, <1>2 DEF JobRow
  <1> HIDE DEF q
  <1>4. x \in AttemptRow
    BY DEF AttemptRow
  <1>5. /\ t \in Seq(AttemptRow)
        /\ Len(t) = Len(s) + 1
        /\ t[Len(s) + 1] = x
        /\ \A k \in 1..Len(s) : t[k] = s[k]
    BY <1>1, <1>4
  <1>6. ExpiredIn(t) = ExpiredIn(s)
    BY <1>1, <1>4, ExpiredAppend
  <1>7. Len(s) = r.attempt_count /\ \A k \in 1..Len(s) : s[k].status # "RUNNING"
    BY <1>1 DEF RowOK, LedgerRow
  <1> HIDE DEF t
  <1>8. LedgerRow(q, t)
    BY <1>1, <1>3, <1>5, <1>7, JobQueueAssumption DEF LedgerRow, JobRow, n
  <1>9. BudgetRow(q, t)
    <2>1. r.attempt_count < r.max_attempts + Cardinality(ExpiredIn(s))
      BY DEF RowOK, BudgetRow
    <2>2. n <= r.max_attempts + Cardinality(ExpiredIn(s))
      BY <1>1, <2>1 DEF JobRow, n
    <2>3. \A k \in 1..Len(t) : t[k].status = "RUNNING" => k = Len(s) + 1
      BY <1>1, <1>5, <1>7
    <2>4. x.error = "none" /\ "RUNNING" \notin Claimable
      BY DEF Claimable
    <2> QED
      BY <1>3, <1>5, <1>6, <2>2, <2>3, <2>4 DEF BudgetRow
  <1>10. RowOK(q, t)
    BY <1>3, <1>5, <1>8, <1>9 DEF RowOK
  <1> QED
    BY <1>10, Zenon DEF t, q, n

(* succeed(), fail() and reclaim_expired(): the open attempt takes its      *)
(* verdict and the row gives up its owner.  What returns to the queue has   *)
(* an attempt left, or its lease expired.                                   *)
LEMMA CloseRow ==
    ASSUME NEW r, NEW s, RowOK(r, s), r.status = "RUNNING", NEW b \in BOOLEAN,
           NEW status \in {"RETRY_WAIT", "SUCCEEDED", "FAILED_TERMINAL"},
           NEW error \in Errors,
           status = "RETRY_WAIT" => r.attempt_count < r.max_attempts \/ error = "expired",
           NEW x, x = [s[r.attempt_count] EXCEPT !.status = status, !.error = error]
    PROVE  RowOK([r EXCEPT !.status = status, !.locked_by = Nobody, !.stale = FALSE,
                           !.due = b],
                 [s EXCEPT ![r.attempt_count] = x])
  <1> DEFINE k == r.attempt_count
             q == [r EXCEPT !.status = status, !.locked_by = Nobody, !.stale = FALSE,
                            !.due = b]
             t == [s EXCEPT ![k] = x]
  <1>1. r \in JobRow /\ s \in Seq(AttemptRow) /\ Cardinality(ExpiredIn(s)) \in Nat
    BY ExpiredFinite DEF RowOK
  <1>2. k \in 1..Len(s) /\ Len(s) = k /\ s[k] \in AttemptRow /\ s[k].error = "none"
    BY <1>1 DEF RowOK, LedgerRow, BudgetRow, JobRow
  <1>3. x \in AttemptRow /\ x.status = status /\ x.error = error
    BY <1>2 DEF AttemptRow
  <1>4. /\ t \in Seq(AttemptRow)
        /\ Len(t) = Len(s)
        /\ \A i \in 1..Len(s) : t[i] = IF i = k THEN x ELSE s[i]
    BY <1>1, <1>2, <1>3, ReplaceRecord
  <1>5. /\ q \in JobRow /\ q.status = status /\ q.locked_by = Nobody
        /\ q.attempt_count = k /\ q.max_attempts = r.max_attempts
    BY <1>1 DEF JobRow
  <1>6. Cardinality(ExpiredIn(t)) = IF error = "expired" THEN Cardinality(ExpiredIn(s)) + 1
                                                         ELSE Cardinality(ExpiredIn(s))
    <2>1. s[k].error # "expired"
      BY <1>2
    <2> HIDE DEF k
    <2>2. /\ x.error # "expired" =>
                Cardinality(ExpiredIn([s EXCEPT ![k] = x])) = Cardinality(ExpiredIn(s))
          /\ x.error = "expired" =>
                Cardinality(ExpiredIn([s EXCEPT ![k] = x])) = Cardinality(ExpiredIn(s)) + 1
      BY <1>1, <1>2, <1>3, <2>1, ExpiredReplace, Zenon
    <2> QED
      BY <1>3, <2>2
  <1>7. \A i \in 1..Len(s) : i # k => s[i].status # "RUNNING"
    BY DEF RowOK, LedgerRow
  <1>8. r.attempt_count <= r.max_attempts + Cardinality(ExpiredIn(s))
    BY DEF RowOK, BudgetRow
  <1>9. r.attempt_count \in Nat /\ r.max_attempts \in Nat
    BY <1>1 DEF JobRow
  <1> HIDE DEF t, q, k
  <1>10. \A i \in 1..Len(t) : t[i].status # "RUNNING"
    BY <1>3, <1>4, <1>7
  <1>11. LedgerRow(q, t)
    BY <1>2, <1>4, <1>5, <1>10 DEF LedgerRow
  <1>12. BudgetRow(q, t)
    BY <1>5, <1>6, <1>8, <1>9, <1>10, <1>1 DEF BudgetRow, k
  <1> QED
    BY <1>4, <1>5, <1>11, <1>12 DEF RowOK, t, q, k

-----------------------------------------------------------------------------
(* Each operation keeps both tables in order.                               *)

(* An operation that leaves one job in order leaves all of them in order.   *)
LEMMA OneJob ==
    ASSUME QueueInv, NEW j \in Jobs, NEW r, NEW s, RowOK(r, s),
           job' = [job EXCEPT ![j] = r], attempts' = [attempts EXCEPT ![j] = s]
    PROVE  QueueInv'
  <1>1. r \in JobRow /\ s \in Seq(AttemptRow)
    BY DEF RowOK
  <1>2. job' \in [Jobs -> JobRow] /\ attempts' \in [Jobs -> Seq(AttemptRow)]
    BY <1>1 DEF QueueInv
  <1>3. ASSUME NEW i \in Jobs PROVE RowOK(job'[i], attempts'[i])
    BY DEF QueueInv
  <1> QED
    BY <1>2, <1>3 DEF QueueInv

(* enqueue of a new key.                                                    *)
LEMMA InsertKeeps ==
    ASSUME QueueInv, NEW j \in Jobs, NEW b \in BOOLEAN, Insert(j, b)
    PROVE  QueueInv'
  <1> DEFINE r == [job[j] EXCEPT !.status = "PENDING", !.due = b]
  <1>1. RowOK(r, attempts[j])
    BY InsertRow DEF QueueInv, Insert
  <1>2. job' = [job EXCEPT ![j] = r] /\ attempts' = [attempts EXCEPT ![j] = attempts[j]]
    BY DEF Insert, QueueInv
  <1> HIDE DEF r
  <1> QED
    BY <1>1, <1>2, OneJob

(* enqueue of the key of a terminal job.                                    *)
LEMMA ReopenKeeps ==
    ASSUME QueueInv, NEW j \in Jobs, NEW b \in BOOLEAN, Reopen(j, b)
    PROVE  QueueInv'
  <1> DEFINE r == [job[j] EXCEPT !.status = "PENDING", !.due = b, !.locked_by = Nobody,
                                 !.stale = FALSE, !.max_attempts = ReopenedMax(job[j])]
  <1>1. RowOK(r, attempts[j])
    BY ReopenRow DEF QueueInv, Reopen
  <1>2. job' = [job EXCEPT ![j] = r] /\ attempts' = [attempts EXCEPT ![j] = attempts[j]]
    BY DEF Reopen, QueueInv
  <1> HIDE DEF r
  <1> QED
    BY <1>1, <1>2, OneJob

(* claim_next: the row and its new attempt record.                          *)
LEMMA ClaimKeeps ==
    ASSUME QueueInv, NEW j \in Jobs, NEW w \in WorkerIds, Claim(j, w)
    PROVE  QueueInv'
  <1> DEFINE r == [job[j] EXCEPT !.status = "RUNNING", !.locked_by = w, !.stale = FALSE,
                                 !.attempt_count = job[j].attempt_count + 1]
             s == Append(attempts[j],
                         [worker_id |-> w, status |-> "RUNNING", error |-> "none"])
  <1>1. RowOK(r, s)
    BY ClaimRow DEF QueueInv, Claim
  <1>2. job' = [job EXCEPT ![j] = r] /\ attempts' = [attempts EXCEPT ![j] = s]
    BY DEF Claim, QueueInv
  <1> HIDE DEF r, s
  <1> QED
    BY <1>1, <1>2, OneJob, Zenon

(* renew_lease() and the passing of time.                                   *)
LEMMA TouchKeeps ==
    ASSUME QueueInv, NEW j \in Jobs,
           (\E w : Renew(j, w)) \/ BecomeDue(j) \/ LeaseAges(j)
    PROVE  QueueInv'
  <1>1. PICK r : /\ RowOK(r, attempts[j])
                 /\ job' = [job EXCEPT ![j] = r]
    <2>1. CASE BecomeDue(j)
      <3>1. RowOK([job[j] EXCEPT !.due = TRUE], attempts[j])
        BY TouchRow DEF QueueInv
      <3> QED
        BY <2>1, <3>1 DEF BecomeDue
    <2>2. CASE LeaseAges(j)
      <3>1. RowOK([job[j] EXCEPT !.stale = TRUE], attempts[j])
        BY TouchRow DEF QueueInv
      <3> QED
        BY <2>2, <3>1 DEF LeaseAges
    <2>3. CASE \E w : Renew(j, w)
      <3>1. RowOK([job[j] EXCEPT !.stale = FALSE], attempts[j])
        BY TouchRow DEF QueueInv
      <3> QED
        BY <2>3, <3>1 DEF Renew
    <2> QED
      BY <2>1, <2>2, <2>3
  <1>2. attempts' = [attempts EXCEPT ![j] = attempts[j]]
    BY DEF Renew, BecomeDue, LeaseAges, QueueInv
  <1> QED
    BY <1>1, <1>2, OneJob

(* succeed(), fail() and reclaim_expired().                                 *)
LEMMA CloseKeeps ==
    ASSUME QueueInv, NEW j \in Jobs, job[j].status = "RUNNING", NEW b \in BOOLEAN,
           NEW status \in {"RETRY_WAIT", "SUCCEEDED", "FAILED_TERMINAL"},
           NEW error \in Errors,
           status = "RETRY_WAIT" =>
               job[j].attempt_count < job[j].max_attempts \/ error = "expired",
           Release(j, status, b), CloseAttempt(j, status, error)
    PROVE  QueueInv'
  <1> DEFINE k == job[j].attempt_count
             r == [job[j] EXCEPT !.status = status, !.locked_by = Nobody,
                                 !.stale = FALSE, !.due = b]
             x == [attempts[j][k] EXCEPT !.status = status, !.error = error]
             s == [attempts[j] EXCEPT ![k] = x]
  <1>1. RowOK(r, s)
    <2>1. RowOK(job[j], attempts[j])
      BY DEF QueueInv
    <2>2. PICK open, ledger : open = job[j] /\ ledger = attempts[j]
      OBVIOUS
    <2>3. PICK y : y = [ledger[open.attempt_count] EXCEPT !.status = status, !.error = error]
      OBVIOUS
    <2>4. /\ RowOK(open, ledger) /\ open.status = "RUNNING"
          /\ status = "RETRY_WAIT" => open.attempt_count < open.max_attempts \/ error = "expired"
      BY <2>1, <2>2
    <2>5. RowOK([open EXCEPT !.status = status, !.locked_by = Nobody, !.stale = FALSE, !.due = b],
                [ledger EXCEPT ![open.attempt_count] = y])
      BY <2>3, <2>4, CloseRow, ZenonT(60)
    <2> QED
      BY <2>2, <2>3, <2>5
  <1>2. job' = [job EXCEPT ![j] = r] /\ attempts' = [attempts EXCEPT ![j] = s]
    BY DEF Release, CloseAttempt, QueueInv
  <1> HIDE DEF r, s
  <1> QED
    BY <1>1, <1>2, OneJob, Zenon

(* mark_succeeded, mark_failed and the reclaim of an expired lease.         *)
LEMMA SettlementKeeps ==
    ASSUME QueueInv, NEW j \in Jobs, NEW w,
           Succeed(j, w) \/ Fail(j, w) \/ ReclaimExpired(j)
    PROVE  QueueInv'
  <1>1. CASE Succeed(j, w)
    BY <1>1, CloseKeeps DEF Succeed, Owned, QueueInv, JobRow
  <1>2. CASE Fail(j, w)
    <2>1. job[j] \in JobRow /\ job[j].status = "RUNNING"
      BY <1>2 DEF Fail, Owned, QueueInv
    <2>2. /\ FailStatus(job[j]) \in {"RETRY_WAIT", "FAILED_TERMINAL"}
          /\ FailStatus(job[j]) = "RETRY_WAIT" => job[j].attempt_count < job[j].max_attempts
      BY <2>1 DEF FailStatus, JobRow
    <2> QED
      BY <1>2, <2>1, <2>2, CloseKeeps DEF Fail
  <1>3. CASE ReclaimExpired(j)
    BY <1>3, CloseKeeps DEF ReclaimExpired
  <1> QED
    BY <1>1, <1>2, <1>3

(* The strengthened invariant says what the checked ones say.               *)
LEMMA QueueInvImplies == QueueInv => QueueTypeOK /\ AttemptLedger /\ AttemptBudget
  BY DEF QueueInv, RowOK, BudgetRow, QueueTypeOK, AttemptLedger, AttemptBudget

(* Empty tables are in order.                                               *)
LEMMA QueueInitInv == QueueInit => QueueInv
  <1> SUFFICES ASSUME QueueInit PROVE QueueInv
    OBVIOUS
  <1>1. NoRow \in JobRow /\ <<>> \in Seq(AttemptRow)
    BY JobQueueAssumption DEF NoRow, JobRow
  <1>2. Cardinality(ExpiredIn(<<>>)) \in Nat
    BY <1>1, ExpiredFinite
  <1>3. RowOK(NoRow, <<>>)
    BY <1>1, <1>2, JobQueueAssumption DEF RowOK, LedgerRow, BudgetRow, NoRow
  <1> QED
    BY <1>1, <1>3 DEF QueueInit, QueueInv

-----------------------------------------------------------------------------
(* The runner.                                                              *)
Hand(l) ==
    /\ loop[l].handler # "none" =>
          loop[l].job \in Jobs /\ job[loop[l].job].status # "ABSENT"
    /\ loop[l].pc \notin {"off", "poll"} => loop[l].handler # "none"
    /\ loop[l].handler = "ok" => loop[l].job \in done
    /\ loop[l].verdict = "ok" => loop[l].handler = "ok"

(* A process that is there has started a run.                              *)
Running == server # "down" => runs \in Runs

WorkDone == \A j \in Jobs : job[j].status = "SUCCEEDED" => j \in done

RunnerInv ==
    /\ QueueInv
    /\ RunnerTypeOK
    /\ \A l \in Loops : Hand(l)
    /\ Running
    /\ WorkDone

-----------------------------------------------------------------------------
(* The name a loop claims under.                                            *)
LEMMA IdType ==
    ASSUME RunnerTypeOK, NEW l \in Loops
    PROVE  Id(l) \in WorkerIds
  BY JobRunnerAssumption DEF RunnerTypeOK, Id, Loops, Runs

(* Every step keeps the tables in order.                                    *)
LEMMA StepKeepsQueue ==
    ASSUME RunnerInv, Next
    PROVE  QueueInv'
  <1> USE DEF RunnerInv
  <1>1. ASSUME UNCHANGED queueVars PROVE QueueInv'
    BY <1>1 DEF queueVars, QueueInv
  <1>2. CASE Boot \/ RestartRun \/ Shutdown \/ ProcessEnds
    BY <1>1, <1>2 DEF Boot, RestartRun, Shutdown, ProcessEnds, queueVars
  <1>3. ASSUME NEW l \in Loops, LoopStep(l) PROVE QueueInv'
    <2> DEFINE j == loop[l].job
    <2>1. ASSUME NEW i \in Jobs, ClaimOne(l, i) PROVE QueueInv'
      BY <2>1, ClaimKeeps, IdType DEF ClaimOne
    <2>2. CASE ClaimRaises(l) \/ HandlerReturns(l) \/ HandlerRaises(l) \/ HandlerStops(l)
      BY <1>1, <2>2 DEF ClaimRaises, HandlerReturns, HandlerRaises, HandlerStops, queueVars
    <2>3. CASE RenewLease(l)
      <3>1. j \in Jobs
        BY <2>3 DEF RenewLease, Hand
      <3> QED
        BY <2>3, <3>1, TouchKeeps DEF RenewLease
    <2>4. CASE RenewalLost(l) \/ RenewalRaises(l) \/ HandlerFirst(l) \/ RenewalDrained(l)
               \/ Reaped(l) \/ SettleRaises(l) \/ LoopReturns(l) \/ CancelLoop(l)
      BY <1>1, <2>4 DEF RenewalLost, RenewalRaises, HandlerFirst, RenewalDrained, Reaped,
                        SettleRaises, LoopReturns, CancelLoop, queueVars
    <2>5. CASE Settle(l)
      <3>1. j \in Jobs
        BY <2>5 DEF Settle, Hand
      <3>2. Succeed(j, Id(l)) \/ Fail(j, Id(l)) \/ UNCHANGED queueVars
        BY <2>5 DEF Settle
      <3> QED
        BY <1>1, <3>1, <3>2, SettlementKeeps
    <2>6. CASE ReleaseJob(l)
      <3>1. j \in Jobs
        BY <2>6 DEF ReleaseJob, Hand
      <3>2. Fail(j, Id(l)) \/ UNCHANGED queueVars
        BY <2>6 DEF ReleaseJob
      <3> QED
        BY <1>1, <3>1, <3>2, SettlementKeeps
    <2> QED
      BY <1>3, <2>1, <2>2, <2>3, <2>4, <2>5, <2>6 DEF LoopStep
  <1>4. ASSUME NEW j \in Jobs, TableStep(j) PROVE QueueInv'
    <2>1. CASE Enqueue(j)
      BY <2>1, InsertKeeps DEF Enqueue
    <2>2. CASE ReopenTerminal(j)
      BY <2>2, ReopenKeeps DEF ReopenTerminal
    <2>3. CASE Reclaim(j)
      BY <2>3, SettlementKeeps DEF Reclaim
    <2>4. CASE RetryDue(j) \/ LeaseExpires(j)
      BY <2>4, TouchKeeps DEF RetryDue, LeaseExpires
    <2> QED
      BY <1>4, <2>1, <2>2, <2>3, <2>4 DEF TableStep
  <1> QED
    BY <1>2, <1>3, <1>4 DEF Next

(* A row never goes away, and is SUCCEEDED only once its work is done.      *)
RowsMove ==
    \A i \in Jobs : /\ job[i].status # "ABSENT" => job'[i].status # "ABSENT"
                    /\ job'[i].status = "SUCCEEDED" => job[i].status = "SUCCEEDED" \/ i \in done

(* The status each operation gives its job; it touches no other job.        *)
NewStatus(j, status) ==
    \A i \in Jobs : job'[i].status = IF i = j THEN status ELSE job[i].status

(* What each operation makes of the status of its job.                      *)
LEMMA OperationStatus ==
    ASSUME QueueInv, NEW j \in Jobs, NEW w, NEW b
    PROVE  /\ Insert(j, b) \/ Reopen(j, b) => NewStatus(j, "PENDING")
           /\ Claim(j, w) => NewStatus(j, "RUNNING")
           /\ Renew(j, w) \/ BecomeDue(j) \/ LeaseAges(j) => NewStatus(j, job[j].status)
           /\ Succeed(j, w) => NewStatus(j, "SUCCEEDED")
           /\ Fail(j, w) => NewStatus(j, FailStatus(job[j]))
           /\ ReclaimExpired(j) => NewStatus(j, "RETRY_WAIT")
  <1>1. job \in [Jobs -> JobRow] /\ job[j] \in JobRow
    BY DEF QueueInv
  <1>2. ASSUME Insert(j, b) PROVE NewStatus(j, "PENDING")
    BY <1>1, <1>2 DEF Insert, JobRow, NewStatus
  <1>3. ASSUME Reopen(j, b) PROVE NewStatus(j, "PENDING")
    <2> DEFINE m == ReopenedMax(job[j])
    <2>1. job' = [job EXCEPT ![j] = [job[j] EXCEPT !.status = "PENDING", !.due = b,
                      !.locked_by = Nobody, !.stale = FALSE, !.max_attempts = m]]
      BY <1>1, <1>3 DEF Reopen
    <2> HIDE DEF m
    <2> QED
      BY <1>1, <2>1 DEF JobRow, NewStatus
  <1>4. ASSUME Claim(j, w) PROVE NewStatus(j, "RUNNING")
    BY <1>1, <1>4 DEF Claim, JobRow, NewStatus
  <1>5. ASSUME Renew(j, w) \/ BecomeDue(j) \/ LeaseAges(j)
        PROVE  NewStatus(j, job[j].status)
    BY <1>1, <1>5 DEF Renew, BecomeDue, LeaseAges, JobRow, NewStatus
  <1>6. ASSUME NEW status, NEW due, Release(j, status, due) PROVE NewStatus(j, status)
    <2>1. job'[j].status = status
      BY <1>1, <1>6 DEF Release, JobRow
    <2> QED
      BY <1>1, <1>6, <2>1 DEF Release, NewStatus
  <1>7. ASSUME Succeed(j, w) PROVE NewStatus(j, "SUCCEEDED")
    BY <1>6, <1>7, Zenon DEF Succeed
  <1>8. ASSUME Fail(j, w) PROVE NewStatus(j, FailStatus(job[j]))
    BY <1>6, <1>8, Zenon DEF Fail
  <1>9. ASSUME ReclaimExpired(j) PROVE NewStatus(j, "RETRY_WAIT")
    BY <1>6, <1>9, Zenon DEF ReclaimExpired
  <1> QED
    BY <1>2, <1>3, <1>4, <1>5, <1>7, <1>8, <1>9

(* An operation moves one job along the edges of the state machine, and to  *)
(* SUCCEEDED only when the work is done.                                    *)
LEMMA OperationsMove ==
    ASSUME QueueInv, NEW j \in Jobs, NEW w,
           \/ UNCHANGED queueVars
           \/ \E b : Insert(j, b) \/ Reopen(j, b)
           \/ Claim(j, w) \/ Renew(j, w) \/ Fail(j, w) \/ ReclaimExpired(j)
           \/ BecomeDue(j) \/ LeaseAges(j)
           \/ Succeed(j, w) /\ j \in done
    PROVE  RowsMove
  <1>1. CASE UNCHANGED queueVars
    BY <1>1 DEF RowsMove, queueVars
  <1>2. CASE Succeed(j, w) /\ j \in done
    BY <1>2, OperationStatus DEF RowsMove, NewStatus
  <1>3. FailStatus(job[j]) = "RETRY_WAIT" \/ FailStatus(job[j]) = "FAILED_TERMINAL"
    BY DEF FailStatus
  <1>5. CASE ~UNCHANGED queueVars /\ ~(Succeed(j, w) /\ j \in done)
    <2>1. PICK status : /\ NewStatus(j, status)
                        /\ status = job[j].status \/ status \notin {"ABSENT", "SUCCEEDED"}
      BY <1>3, <1>5, OperationStatus
    <2> QED
      BY <2>1 DEF RowsMove, NewStatus
  <1> QED
    BY <1>1, <1>2, <1>5

(* So does every step of the runner.                                        *)
LEMMA StepMovesRows ==
    ASSUME RunnerInv, Next
    PROVE  RowsMove
  <1> USE DEF RunnerInv
  <1>1. ASSUME UNCHANGED queueVars PROVE RowsMove
    BY <1>1 DEF RowsMove, queueVars
  <1>2. CASE Boot \/ RestartRun \/ Shutdown \/ ProcessEnds
    BY <1>1, <1>2 DEF Boot, RestartRun, Shutdown, ProcessEnds, queueVars
  <1>3. ASSUME NEW l \in Loops, LoopStep(l) PROVE RowsMove
    <2> DEFINE j == loop[l].job
    <2>1. ASSUME NEW i \in Jobs, ClaimOne(l, i) PROVE RowsMove
      BY <2>1, OperationsMove DEF ClaimOne
    <2>2. CASE RenewLease(l)
      <3>1. j \in Jobs
        BY <2>2 DEF RenewLease, Hand
      <3> QED
        BY <2>2, <3>1, OperationsMove DEF RenewLease
    <2>3. CASE Settle(l)
      <3>1. j \in Jobs /\ (loop[l].verdict = "ok" => j \in done)
        BY <2>3 DEF Settle, Hand
      <3>2. \/ loop[l].verdict = "ok" /\ Succeed(j, Id(l))
            \/ Fail(j, Id(l))
            \/ UNCHANGED queueVars
        BY <2>3 DEF Settle
      <3> QED
        BY <3>1, <3>2, OperationsMove
    <2>4. CASE ReleaseJob(l)
      <3>1. j \in Jobs
        BY <2>4 DEF ReleaseJob, Hand
      <3>2. Fail(j, Id(l)) \/ UNCHANGED queueVars
        BY <2>4 DEF ReleaseJob
      <3> QED
        BY <3>1, <3>2, OperationsMove
    <2>5. CASE \/ ClaimRaises(l) \/ HandlerReturns(l) \/ HandlerRaises(l) \/ HandlerStops(l)
               \/ RenewalLost(l) \/ RenewalRaises(l) \/ HandlerFirst(l) \/ RenewalDrained(l)
               \/ Reaped(l) \/ SettleRaises(l) \/ LoopReturns(l) \/ CancelLoop(l)
      BY <1>1, <2>5 DEF ClaimRaises, HandlerReturns, HandlerRaises, HandlerStops, RenewalLost,
                        RenewalRaises, HandlerFirst, RenewalDrained, Reaped, SettleRaises,
                        LoopReturns, CancelLoop, queueVars
    <2> QED
      BY <1>3, <2>1, <2>2, <2>3, <2>4, <2>5 DEF LoopStep
  <1>4. ASSUME NEW j \in Jobs, TableStep(j) PROVE RowsMove
    BY <1>4, OperationsMove
       DEF TableStep, Enqueue, ReopenTerminal, Reclaim, RetryDue, LeaseExpires
  <1> QED
    BY <1>2, <1>3, <1>4 DEF Next

-----------------------------------------------------------------------------
(* Types, and the hand of each loop.                                        *)

LoopType == [pc: LoopPc, job: Jobs \cup {Nobody}, attempt: Nat,
             handler: Handler, verdict: Verdict]

(* A loop that moves on keeps the types of the loops.                       *)
LEMMA StepType ==
    ASSUME loop \in [Loops -> LoopType], NEW l \in Loops, NEW pc \in LoopPc,
           NEW handler \in Handler, NEW verdict \in Verdict, Step(l, pc, handler, verdict)
    PROVE  loop' \in [Loops -> LoopType]
  <1> DEFINE state == [loop[l] EXCEPT !.pc = pc, !.handler = handler, !.verdict = verdict]
  <1>1. loop' = [loop EXCEPT ![l] = state]
    BY DEF Step
  <1>2. state \in LoopType
    BY DEF LoopType
  <1> HIDE DEF state
  <1> QED
    BY <1>1, <1>2

(* So does one that is set to a state.                                      *)
LEMMA BecomeType ==
    ASSUME loop \in [Loops -> LoopType], NEW l \in Loops, NEW state \in LoopType,
           Become(l, state)
    PROVE  loop' \in [Loops -> LoopType]
  BY DEF Become

(* The states of an idle loop are states of a loop.                         *)
LEMMA IdleType == NoJob \in LoopType /\ Polling \in LoopType
  BY DEF NoJob, Polling, LoopType, LoopPc, Handler, Verdict

(* Every step of a loop keeps the types of the loops.                       *)
LEMMA LoopStepType ==
    ASSUME RunnerInv, NEW l \in Loops, LoopStep(l)
    PROVE  loop' \in [Loops -> LoopType]
  <1>1. loop \in [Loops -> LoopType] /\ loop[l] \in LoopType
    BY DEF RunnerInv, RunnerTypeOK, LoopType
  <1>2. /\ loop[l].handler \in Handler /\ loop[l].verdict \in Verdict
        /\ Cancelled(loop[l].handler) \in Handler
        /\ loop[l].handler \in {"ok", "err"} => loop[l].handler \in Verdict
    BY <1>1 DEF LoopType, Handler, Verdict, Cancelled
  <1> USE DEF LoopPc, Handler, Verdict
  <1>3. ASSUME NEW i \in Jobs, ClaimOne(l, i) PROVE loop' \in [Loops -> LoopType]
    <2> DEFINE n == job[i].attempt_count + 1
               state == [pc |-> "wait", job |-> i, attempt |-> n,
                         handler |-> "busy", verdict |-> "none"]
    <2>1. n \in Nat
      BY DEF RunnerInv, QueueInv, JobRow
    <2> HIDE DEF n
    <2>2. state \in LoopType
      BY <2>1 DEF LoopType
    <2>3. Become(l, state)
      BY <1>3 DEF ClaimOne, n
    <2> HIDE DEF state
    <2> QED
      BY <1>1, <2>2, <2>3, BecomeType
  <1>4. CASE ClaimRaises(l) \/ LoopReturns(l) \/ SettleRaises(l) \/ Settle(l)
    BY <1>1, <1>4, IdleType, BecomeType DEF ClaimRaises, LoopReturns, SettleRaises, Settle
  <1>5. CASE HandlerReturns(l) \/ HandlerRaises(l) \/ HandlerStops(l)
    BY <1>1, <1>5 DEF HandlerReturns, HandlerRaises, HandlerStops, LoopType
  <1>6. CASE RenewLease(l)
    BY <1>1, <1>6 DEF RenewLease
  <1>7. CASE RenewalLost(l) \/ RenewalRaises(l)
    BY <1>1, <1>2, <1>7, StepType DEF RenewalLost, RenewalRaises
  <1>8. CASE HandlerFirst(l) \/ RenewalDrained(l)
    BY <1>1, <1>2, <1>8, StepType DEF HandlerFirst, RenewalDrained
  <1>9. CASE Reaped(l)
    BY <1>1, <1>2, <1>9, IdleType, StepType, BecomeType DEF Reaped
  <1>10. CASE CancelLoop(l) \/ ReleaseJob(l)
    BY <1>1, <1>2, <1>10, StepType DEF CancelLoop, ReleaseJob
  <1> QED
    BY <1>3, <1>4, <1>5, <1>6, <1>7, <1>8, <1>9, <1>10, LoopStep(l) DEF LoopStep

(* Every step of the runner keeps its types.                                *)
LEMMA StepKeepsType ==
    ASSUME RunnerInv, Next
    PROVE  RunnerTypeOK'
  <1>1. QueueTypeOK'
    BY StepKeepsQueue DEF QueueInv, QueueTypeOK
  <1>2. MaxRuns \in Nat \ {0} /\ MaxFaults \in Nat
    BY JobRunnerAssumption
  <1>3. /\ loop \in [Loops -> LoopType] /\ pidOf \in [Runs -> Runs] /\ runs \in 0..MaxRuns
        /\ server \in {"up", "stopping", "down"} /\ raised \in BOOLEAN
        /\ done \subseteq Jobs /\ faults \in 0..MaxFaults
    BY DEF RunnerInv, RunnerTypeOK, LoopType
  <1>4. ASSUME Fault \/ NoFault PROVE faults' \in 0..MaxFaults
    BY <1>2, <1>3, <1>4 DEF Fault, NoFault
  <1>5. SUFFICES /\ loop' \in [Loops -> LoopType] /\ pidOf' \in [Runs -> Runs]
                 /\ runs' \in 0..MaxRuns /\ server' \in {"up", "stopping", "down"}
                 /\ raised' \in BOOLEAN /\ done' \subseteq Jobs /\ faults' \in 0..MaxFaults
    BY <1>1 DEF RunnerTypeOK, LoopType
  <1>6. ASSUME NEW pid \in Runs, StartRun(pid)
        PROVE  /\ loop' \in [Loops -> LoopType] /\ pidOf' \in [Runs -> Runs]
               /\ runs' \in 0..MaxRuns /\ raised' \in BOOLEAN
    <2>1. runs' \in 0..MaxRuns /\ raised' \in BOOLEAN
      <3>1. runs' = runs + 1 /\ runs < MaxRuns /\ raised' = FALSE
        BY <1>6 DEF StartRun
      <3>2. runs \in 0..MaxRuns
        BY <1>3
      <3>3. runs' \in 0..MaxRuns
        BY <1>2, <3>1, <3>2
      <3>4. raised' \in BOOLEAN
        BY <3>1
      <3> QED
        BY <3>3, <3>4
    <2>2. pidOf' \in [Runs -> Runs]
      BY <1>3, <1>6 DEF StartRun
    <2>3. loop' \in [Loops -> LoopType]
      BY <1>3, <1>6, IdleType DEF StartRun
    <2> QED
      BY <2>1, <2>2, <2>3
  <1>7. CASE Boot
    <2>1. runs + 1 \in Runs
      BY <1>2, <1>3, <1>7 DEF Boot, StartRun, Runs
    <2> QED
      BY <1>3, <1>4, <1>6, <1>7, <2>1 DEF Boot
  <1>8. CASE RestartRun
    <2>1. pidOf[runs] \in Runs
      BY <1>3, <1>8 DEF RestartRun, RunnerInv, Running
    <2> QED
      BY <1>3, <1>4, <1>6, <1>8, <2>1 DEF RestartRun
  <1>9. CASE Shutdown
    BY <1>3, <1>4, <1>9 DEF Shutdown
  <1>10. CASE ProcessEnds
    <2>1. faults' \in 0..MaxFaults
      BY <1>2, <1>3, <1>10 DEF ProcessEnds
    <2>2. loop' \in [Loops -> LoopType]
      BY <1>10, IdleType DEF ProcessEnds
    <2> QED
      BY <1>3, <1>10, <2>1, <2>2 DEF ProcessEnds
  <1>11. ASSUME NEW l \in Loops, LoopStep(l)
         PROVE  /\ UNCHANGED <<pidOf, runs, server>> /\ raised' \in BOOLEAN
                /\ done' \subseteq Jobs /\ faults' \in 0..MaxFaults
    <2>1. raised' \in BOOLEAN /\ UNCHANGED <<pidOf, runs, server>>
      BY <1>3, <1>11 DEF LoopStep, ClaimOne, ClaimRaises, HandlerReturns, HandlerRaises,
             HandlerStops, RenewLease, RenewalLost, RenewalRaises, HandlerFirst, RenewalDrained,
             Reaped, Settle, SettleRaises, LoopReturns, CancelLoop, ReleaseJob, processVars
    <2>2. Fault \/ NoFault
      BY <1>11 DEF LoopStep, ClaimOne, ClaimRaises, HandlerReturns, HandlerRaises,
             HandlerStops, RenewLease, RenewalLost, RenewalRaises, HandlerFirst, RenewalDrained,
             Reaped, Settle, SettleRaises, LoopReturns, CancelLoop, ReleaseJob, NoFault
    <2>3. loop[l].handler \in {"busy", "cancelling"} => loop[l].job \in Jobs
      BY DEF RunnerInv, Hand
    <2>5. \/ UNCHANGED done
          \/ HandlerReturns(l) \/ HandlerStops(l)
      BY <1>11
         DEF LoopStep, ClaimOne, ClaimRaises, HandlerReturns, HandlerRaises,
             HandlerStops, RenewLease, RenewalLost, RenewalRaises, HandlerFirst, RenewalDrained,
             Reaped, Settle, SettleRaises, LoopReturns, CancelLoop, ReleaseJob
    <2>4. done' \subseteq Jobs
      BY <1>3, <2>3, <2>5 DEF HandlerReturns, HandlerStops
    <2> QED
      BY <1>4, <2>1, <2>2, <2>4
  <1>12. ASSUME NEW j \in Jobs, TableStep(j)
         PROVE  UNCHANGED <<loop, processVars, done>> /\ faults' \in 0..MaxFaults
    BY <1>2, <1>3, <1>4, <1>12 DEF TableStep, Enqueue, ReopenTerminal, Reclaim, RetryDue,
                                   LeaseExpires, NoFault
  <1> QED
    BY <1>3, <1>7, <1>8, <1>9, <1>10, <1>11, <1>12, LoopStepType DEF Next, processVars

(* What a step of one loop does to its hand.                                *)
LEMMA LoopStepHand ==
    ASSUME RunnerInv, NEW l \in Loops, LoopStep(l)
    PROVE  Hand(l)' /\ \A m \in Loops : m # l => loop'[m] = loop[m]
  <1>1. loop \in [Loops -> LoopType] /\ loop[l] \in LoopType /\ Hand(l)
    BY DEF RunnerInv, RunnerTypeOK, LoopType
  <1>2. RowsMove /\ done \subseteq done'
    <2>1. Next
      BY DEF Next
    <2>2. done \subseteq done'
      BY DEF LoopStep, ClaimOne, ClaimRaises, HandlerReturns, HandlerRaises,
             HandlerStops, RenewLease, RenewalLost, RenewalRaises, HandlerFirst, RenewalDrained,
             Reaped, Settle, SettleRaises, LoopReturns, CancelLoop, ReleaseJob, processVars
    <2> QED
      BY <2>1, <2>2, StepMovesRows
  <1>3. \A m \in Loops : m # l => loop'[m] = loop[m]
    BY <1>1 DEF LoopStep, ClaimOne, ClaimRaises, HandlerReturns, HandlerRaises,
             HandlerStops, RenewLease, RenewalLost, RenewalRaises, HandlerFirst, RenewalDrained,
             Reaped, Settle, SettleRaises, LoopReturns, CancelLoop, ReleaseJob, Step, Become
  <1> SUFFICES Hand(l)'
    BY <1>3
  <1>4. ASSUME loop'[l].handler = "none", loop'[l].pc \in {"off", "poll"},
               loop'[l].verdict = "none"
        PROVE  Hand(l)'
    BY <1>4 DEF Hand
  <1>5. CASE \E i \in Jobs : ClaimOne(l, i)
    <2>1. PICK i \in Jobs : ClaimOne(l, i)
      BY <1>5
    <2>2. loop'[l].job = i /\ loop'[l].handler = "busy" /\ loop'[l].verdict = "none"
      BY <1>1, <2>1 DEF ClaimOne, Become
    <2>3. job[i].status # "ABSENT"
      BY <2>1 DEF ClaimOne, Claim, Claimable
    <2> QED
      BY <1>2, <2>2, <2>3 DEF Hand, RowsMove
  <1>6. CASE ClaimRaises(l) \/ LoopReturns(l) \/ SettleRaises(l) \/ Settle(l)
    BY <1>1, <1>4, <1>6 DEF ClaimRaises, LoopReturns, SettleRaises, Settle, Become, Polling, NoJob
  <1>7. CASE HandlerReturns(l) \/ HandlerRaises(l) \/ HandlerStops(l)
    <2>1. /\ loop'[l].job = loop[l].job /\ loop'[l].pc = loop[l].pc
          /\ loop'[l].verdict = loop[l].verdict
          /\ loop'[l].handler \in {"ok", "err"}
          /\ loop'[l].handler = "ok" => loop[l].job \in done'
          /\ loop[l].handler \in {"busy", "cancelling"}
      BY <1>1, <1>7 DEF HandlerReturns, HandlerRaises, HandlerStops, LoopType
    <2> QED
      BY <1>1, <1>2, <2>1 DEF Hand, RowsMove
  <1>8. CASE RenewLease(l)
    <2>1. loop' = loop /\ done' = done
      BY <1>8 DEF RenewLease
    <2> QED
      BY <1>1, <1>2, <2>1 DEF Hand, RowsMove
  <1>9. ASSUME NEW pc \in LoopPc, NEW verdict \in Verdict,
               NEW handler \in {loop[l].handler, Cancelled(loop[l].handler)},
               Step(l, pc, handler, verdict),
               loop[l].pc \notin {"off", "poll"}, verdict = "ok" => handler = "ok"
        PROVE  Hand(l)'
    <2>1. /\ loop'[l].job = loop[l].job /\ loop'[l].verdict = verdict
          /\ loop'[l].handler = handler /\ loop'[l].pc = pc
      BY <1>1, <1>9 DEF Step, LoopType
    <2>2. handler # "none" /\ loop[l].handler # "none" /\ (handler = "ok" => loop[l].handler = "ok")
      BY <1>1, <1>9 DEF Hand, Cancelled
    <2> QED
      BY <1>1, <1>2, <1>9, <2>1, <2>2 DEF Hand, RowsMove
  <1> USE DEF LoopPc, Verdict
  <1>10. CASE RenewalLost(l) \/ RenewalRaises(l)
    BY <1>9, <1>10 DEF RenewalLost, RenewalRaises
  <1>11. CASE HandlerFirst(l)
    BY <1>9, <1>11 DEF HandlerFirst
  <1>12. CASE RenewalDrained(l)
    BY <1>1, <1>9, <1>12 DEF RenewalDrained, Hand, LoopType
  <1>13. CASE Reaped(l)
    BY <1>1, <1>4, <1>9, <1>13 DEF Reaped, Become, Polling, NoJob
  <1>14. CASE CancelLoop(l)
    BY <1>9, <1>14 DEF CancelLoop
  <1>15. CASE ReleaseJob(l)
    BY <1>9, <1>15 DEF ReleaseJob
  <1> QED
    BY <1>5, <1>6, <1>7, <1>8, <1>10, <1>11, <1>12, <1>13, <1>14, <1>15 DEF LoopStep

-----------------------------------------------------------------------------
(* The invariant, and what follows from it.                                 *)

(* Nothing is claimed before the first run.                                 *)
LEMMA InitInv == Init => RunnerInv
  <1> SUFFICES ASSUME Init PROVE RunnerInv
    OBVIOUS
  <1>1. QueueInv
    BY QueueInitInv DEF Init
  <1>2. RunnerTypeOK
    <2>1. QueueTypeOK /\ MaxRuns \in Nat \ {0} /\ MaxFaults \in Nat
      BY <1>1, QueueInvImplies, JobRunnerAssumption
    <2>2. loop \in [Loops -> LoopType]
      BY IdleType DEF Init
    <2>3. pidOf \in [Runs -> Runs] /\ runs \in 0..MaxRuns /\ faults \in 0..MaxFaults
      BY <2>1 DEF Init
    <2> QED
      BY <2>1, <2>2, <2>3 DEF Init, RunnerTypeOK, LoopType
  <1>3. \A l \in Loops : Hand(l)
    BY DEF Init, Hand, NoJob
  <1>4. Running /\ WorkDone
    BY DEF Init, QueueInit, NoRow, Running, WorkDone
  <1> QED
    BY <1>1, <1>2, <1>3, <1>4 DEF RunnerInv

(* Every step of a loop, of the queue or of the process keeps the           *)
(* invariant.                                                               *)
LEMMA StepKeepsInv == RunnerInv /\ [Next]_vars => RunnerInv'
  <1> SUFFICES ASSUME RunnerInv, [Next]_vars PROVE RunnerInv'
    OBVIOUS
  <1>1. CASE UNCHANGED vars
    BY <1>1 DEF vars, RunnerInv, QueueInv, RunnerTypeOK, QueueTypeOK, Hand, Running, WorkDone
  <1>2. CASE Next
    <2>1. QueueInv' /\ RunnerTypeOK' /\ RowsMove
      BY <1>2, StepKeepsQueue, StepKeepsType, StepMovesRows
    <2>2. CASE Boot \/ RestartRun
      <3>1. UNCHANGED <<job, done>> /\ \A l \in Loops : loop'[l] = loop[l] \/ loop'[l] = Polling
        BY <2>2 DEF Boot, RestartRun, StartRun, RunnerInv, RunnerTypeOK
      <3>2. \A l \in Loops : Hand(l)'
        BY <3>1 DEF RunnerInv, Hand, Polling, NoJob
      <3>3. runs' \in Runs
        <4>1. runs' = runs + 1 /\ runs < MaxRuns /\ runs \in 0..MaxRuns /\ MaxRuns \in Nat
          BY <2>2, JobRunnerAssumption DEF Boot, RestartRun, StartRun, RunnerInv, RunnerTypeOK
        <4> QED
          BY <4>1 DEF Runs
      <3> QED
        BY <2>1, <3>1, <3>2, <3>3 DEF RunnerInv, Running, WorkDone
    <2>3. CASE Shutdown
      BY <2>1, <2>3 DEF Shutdown, RunnerInv, Hand, Running, WorkDone
    <2>4. CASE ProcessEnds
      BY <2>1, <2>4 DEF ProcessEnds, RunnerInv, Hand, Running, WorkDone, NoJob
    <2>5. ASSUME NEW l \in Loops, LoopStep(l) PROVE RunnerInv'
      <3>1. done \subseteq done' /\ UNCHANGED <<runs, server>>
        BY <2>5 DEF LoopStep, ClaimOne, ClaimRaises, HandlerReturns, HandlerRaises,
             HandlerStops, RenewLease, RenewalLost, RenewalRaises, HandlerFirst, RenewalDrained,
             Reaped, Settle, SettleRaises, LoopReturns, CancelLoop, ReleaseJob, processVars
      <3>2. ASSUME NEW m \in Loops, m # l PROVE Hand(m)'
        BY <2>1, <2>5, <3>1, <3>2, LoopStepHand DEF RunnerInv, Hand, RowsMove
      <3>3. Hand(l)'
        BY <2>5, LoopStepHand
      <3> QED
        BY <2>1, <3>1, <3>2, <3>3 DEF RunnerInv, Running, WorkDone, RowsMove
    <2>6. ASSUME NEW j \in Jobs, TableStep(j) PROVE RunnerInv'
      <3>1. UNCHANGED <<loop, processVars, done>>
        BY <2>6 DEF TableStep, Enqueue, ReopenTerminal, Reclaim, RetryDue, LeaseExpires
      <3>2. \A l \in Loops : Hand(l)'
        BY <2>1, <3>1 DEF RunnerInv, Hand, RowsMove
      <3> QED
        BY <2>1, <3>1, <3>2 DEF RunnerInv, Running, WorkDone, RowsMove, processVars
    <2> QED
      BY <1>2, <2>2, <2>3, <2>4, <2>5, <2>6 DEF Next
  <1> QED
    BY <1>1, <1>2

(* The tables stay in order, each loop holds what it works on, and a job    *)
(* succeeds only after its handler has returned (JobRunner._run_job).       *)
THEOREM Invariance == Spec => []RunnerInv
  BY InitInv, StepKeepsInv, PTL DEF Spec

(* The tables and the loops keep their types.                               *)
THEOREM TypeCorrect == Spec => []RunnerTypeOK
  <1>1. RunnerInv => RunnerTypeOK
    BY DEF RunnerInv
  <1> QED
    BY <1>1, Invariance, PTL

(* Exactly the running jobs have an open attempt, the last and the owner's: *)
(* _current_attempt() finds its record, whoever closed the ones before.     *)
(* And no job is attempted beyond max_attempts but for its expired leases.  *)
THEOREM AttemptsAlwaysKept == Spec => []AttemptsAreKept
  <1>1. RunnerInv => AttemptsAreKept
    BY QueueInvImplies DEF RunnerInv, AttemptsAreKept
  <1> QED
    BY <1>1, Invariance, PTL

-----------------------------------------------------------------------------
(* The runner implements the contract: every step is one of the contract's  *)
(* or leaves what an enqueuer can see as it was.                            *)

SeenAs(j, view) == JobView' = [JobView EXCEPT ![j] = view]
ContractStep == [Contract!Next]_<<JobView, done>>

(* How a job of a new status looks to the contract.                         *)
LEMMA ChangeSeen ==
    ASSUME NEW j \in Jobs, NEW status, NewStatus(j, status)
    PROVE  SeenAs(j, ViewOf(status)) /\ JobView[j] = ViewOf(job[j].status)
  BY DEF SeenAs, JobView, NewStatus

(* A step that leaves the view of every job.                                *)
LEMMA Unseen ==
    ASSUME \A i \in Jobs : ViewOf(job'[i].status) = ViewOf(job[i].status)
    PROVE  UNCHANGED JobView
  BY DEF JobView

(* An operation of the repository is a step of the contract, or none.       *)
LEMMA OperationContract ==
    ASSUME RunnerInv, NEW j \in Jobs, NEW w, UNCHANGED done,
           \/ UNCHANGED queueVars
           \/ \E b : Insert(j, b) \/ Reopen(j, b)
           \/ Claim(j, w) \/ Renew(j, w) \/ Fail(j, w) \/ ReclaimExpired(j)
           \/ BecomeDue(j) \/ LeaseAges(j)
           \/ Succeed(j, w) /\ j \in done
    PROVE  ContractStep
  <1> USE DEF RunnerInv
  <1>1. ASSUME NEW from, NEW to, JobView[j] = from, SeenAs(j, to),
               \/ from = "none" /\ to = "open"
               \/ from = "open" /\ to = "failed"
               \/ from = "failed" /\ to = "open"
               \/ from = "open" /\ to = "succeeded" /\ j \in done
        PROVE  ContractStep
    BY <1>1 DEF ContractStep, SeenAs, Contract!Next, Contract!Accept, Contract!GiveUp,
                Contract!AskAgain, Contract!Report, Contract!Move
  <1>2. ASSUME NEW status, NewStatus(j, status), ViewOf(status) = ViewOf(job[j].status)
        PROVE  ContractStep
    BY <1>2, Unseen DEF NewStatus, ContractStep
  <1>3. CASE UNCHANGED queueVars
    BY <1>3 DEF queueVars, ContractStep, JobView
  <1>4. CASE \E b : Insert(j, b) \/ Reopen(j, b)
    <2>1. NewStatus(j, "PENDING")
      BY <1>4, OperationStatus
    <2>2. SeenAs(j, "open") /\ JobView[j] = ViewOf(job[j].status)
      BY <2>1, ChangeSeen DEF ViewOf
    <2>3. JobView[j] = "none" \/ JobView[j] = "failed"
      BY <1>4, <2>2 DEF Insert, Reopen, ViewOf
    <2> QED
      BY <1>1, <2>2, <2>3
  <1>5. CASE Claim(j, w) \/ Renew(j, w) \/ BecomeDue(j) \/ LeaseAges(j) \/ ReclaimExpired(j)
    <2>1. \/ NewStatus(j, "RUNNING") /\ job[j].status \in Claimable
          \/ NewStatus(j, job[j].status)
          \/ NewStatus(j, "RETRY_WAIT") /\ job[j].status = "RUNNING"
      BY <1>5, OperationStatus DEF Claim, ReclaimExpired
    <2> QED
      BY <1>2, <2>1 DEF ViewOf, Claimable
  <1>6. CASE Fail(j, w)
    <2>1. NewStatus(j, FailStatus(job[j])) /\ job[j].status = "RUNNING"
      BY <1>6, OperationStatus DEF Fail, Owned
    <2>2. CASE FailStatus(job[j]) = "RETRY_WAIT"
      BY <1>2, <2>1, <2>2 DEF ViewOf
    <2>3. CASE FailStatus(job[j]) = "FAILED_TERMINAL"
      <3>1. SeenAs(j, "failed") /\ JobView[j] = "open"
        BY <2>1, <2>3, ChangeSeen DEF ViewOf
      <3> QED
        BY <1>1, <3>1
    <2> QED
      BY <2>2, <2>3 DEF FailStatus
  <1>7. CASE Succeed(j, w) /\ j \in done
    <2>1. NewStatus(j, "SUCCEEDED") /\ job[j].status = "RUNNING"
      BY <1>7, OperationStatus DEF Succeed, Owned
    <2>2. SeenAs(j, "succeeded") /\ JobView[j] = "open"
      BY <2>1, ChangeSeen DEF ViewOf
    <2> QED
      BY <1>1, <1>7, <2>2
  <1> QED
    BY <1>3, <1>4, <1>5, <1>6, <1>7

(* So is every step of the runner.                                          *)
LEMMA StepContract == RunnerInv /\ [Next]_vars => ContractStep
  <1> SUFFICES ASSUME RunnerInv, [Next]_vars PROVE ContractStep
    OBVIOUS
  <1> USE DEF RunnerInv
  <1>1. ASSUME UNCHANGED queueVars, UNCHANGED done PROVE ContractStep
    BY <1>1 DEF queueVars, ContractStep, JobView
  <1>2. CASE UNCHANGED vars
    BY <1>1, <1>2 DEF vars, queueVars
  <1>3. CASE Boot \/ RestartRun \/ Shutdown \/ ProcessEnds
    BY <1>1, <1>3 DEF Boot, RestartRun, Shutdown, ProcessEnds, queueVars
  <1>4. ASSUME NEW l \in Loops, LoopStep(l) PROVE ContractStep
    <2> DEFINE j == loop[l].job
    <2>1. CASE HandlerReturns(l) \/ HandlerStops(l)
      <3>1. j \in Jobs /\ JobView[j] # "none" /\ UNCHANGED JobView
        BY <2>1 DEF HandlerReturns, HandlerStops, Hand, JobView, ViewOf
      <3>2. done' = done \/ done' = done \cup {j}
        BY <2>1 DEF HandlerReturns, HandlerStops
      <3> QED
        BY <3>1, <3>2 DEF ContractStep, Contract!Next, Contract!CarryOut
    <2>2. ASSUME NEW i \in Jobs, ClaimOne(l, i) PROVE ContractStep
      BY <2>2, OperationContract DEF ClaimOne
    <2>3. CASE RenewLease(l) \/ Settle(l) \/ ReleaseJob(l)
      <3>1. j \in Jobs /\ UNCHANGED done /\ (loop[l].verdict = "ok" => j \in done)
        BY <2>3 DEF RenewLease, Settle, ReleaseJob, Hand
      <3>2. \/ Renew(j, Id(l)) \/ Fail(j, Id(l)) \/ UNCHANGED queueVars
            \/ loop[l].verdict = "ok" /\ Succeed(j, Id(l))
        BY <2>3 DEF RenewLease, Settle, ReleaseJob
      <3> QED
        BY <3>1, <3>2, OperationContract
    <2>4. CASE \/ ClaimRaises(l) \/ HandlerRaises(l)
               \/ RenewalLost(l) \/ RenewalRaises(l) \/ HandlerFirst(l) \/ RenewalDrained(l)
               \/ Reaped(l) \/ SettleRaises(l) \/ LoopReturns(l) \/ CancelLoop(l)
      BY <1>1, <2>4 DEF ClaimRaises, HandlerRaises, RenewalLost, RenewalRaises, HandlerFirst,
                        RenewalDrained, Reaped, SettleRaises, LoopReturns, CancelLoop, queueVars
    <2> QED
      BY <1>4, <2>1, <2>2, <2>3, <2>4 DEF LoopStep
  <1>5. ASSUME NEW j \in Jobs, TableStep(j) PROVE ContractStep
    BY <1>5, OperationContract
       DEF TableStep, Enqueue, ReopenTerminal, Reclaim, RetryDue, LeaseExpires
  <1> QED
    BY <1>2, <1>3, <1>4, <1>5 DEF Next

(* An accepted job stays accepted, is reported succeeded only after its     *)
(* handler ran to completion, and is final until someone asks again.        *)
THEOREM Implementation == Spec => ImplementsContract
  <1>1. Init => Contract!Init
    BY DEF Init, QueueInit, NoRow, Contract!Init, JobView, ViewOf
  <1>2. RunnerInv /\ [Next]_vars => [Contract!Next]_<<JobView, done>>
    BY StepContract DEF ContractStep
  <1> QED
    BY <1>1, <1>2, Invariance, PTL DEF Spec, ImplementsContract, Contract!Spec

-----------------------------------------------------------------------------
(* History: what the attempts of a job look like after one operation.       *)

(* Closing the open record leaves the records before it.                    *)
LEMMA CloseHistory ==
    ASSUME QueueInv, NEW j \in Jobs, job[j].status = "RUNNING", NEW status, NEW error,
           CloseAttempt(j, status, error)
    PROVE  HistoryStep
  <1> DEFINE n == job[j].attempt_count
             x == [attempts[j][n] EXCEPT !.status = status, !.error = error]
  <1>1. attempts \in [Jobs -> Seq(AttemptRow)]
    BY DEF QueueInv
  <1>2. attempts' = [attempts EXCEPT ![j] = [attempts[j] EXCEPT ![n] = x]]
    BY <1>1 DEF CloseAttempt
  <1>3. n \in 1..Len(attempts[j]) /\ attempts[j][n].status = "RUNNING"
    BY DEF QueueInv, RowOK, LedgerRow, JobRow
  <1> HIDE DEF n, x
  <1> QED
    BY <1>1, <1>2, <1>3 DEF HistoryStep

(* An operation adds a record, closes the open one or leaves the history.   *)
LEMMA OperationHistory ==
    ASSUME QueueInv, NEW j \in Jobs, NEW w,
           \/ UNCHANGED attempts
           \/ \E b : Insert(j, b) \/ Reopen(j, b)
           \/ Claim(j, w) \/ Renew(j, w) \/ Fail(j, w) \/ ReclaimExpired(j)
           \/ BecomeDue(j) \/ LeaseAges(j) \/ Succeed(j, w)
    PROVE  HistoryStep
  <1>1. CASE UNCHANGED attempts
    BY <1>1 DEF HistoryStep
  <1>2. CASE Claim(j, w)
    <2>1. attempts \in [Jobs -> Seq(AttemptRow)]
      BY DEF QueueInv
    <2> DEFINE x == [worker_id |-> w, status |-> "RUNNING", error |-> "none"]
    <2>2. attempts' = [attempts EXCEPT ![j] = Append(attempts[j], x)]
      BY <1>2 DEF Claim
    <2> HIDE DEF x
    <2>3. ASSUME NEW i \in Jobs, NEW k \in DOMAIN attempts[i]
          PROVE  k \in DOMAIN attempts'[i] /\ attempts'[i][k] = attempts[i][k]
      <3>1. CASE i = j
        BY <2>1, <2>2, <3>1
      <3>2. CASE i # j
        BY <2>1, <2>2, <3>2
      <3> QED
        BY <3>1, <3>2
    <2> QED
      BY <2>3 DEF HistoryStep
  <1>3. CASE Fail(j, w) \/ ReclaimExpired(j) \/ Succeed(j, w)
    <2>1. job[j].status = "RUNNING" /\ \E status, error : CloseAttempt(j, status, error)
      BY <1>3, Zenon DEF Fail, ReclaimExpired, Succeed, Owned
    <2> QED
      BY <2>1, CloseHistory
  <1>4. CASE \/ \E b : Insert(j, b) \/ Reopen(j, b)
             \/ Renew(j, w) \/ BecomeDue(j) \/ LeaseAges(j)
    BY <1>1, <1>4 DEF Insert, Reopen, Renew, BecomeDue, LeaseAges
  <1> QED
    BY <1>1, <1>2, <1>3, <1>4

(* So does every step of the runner.                                        *)
LEMMA StepHistory == RunnerInv /\ [Next]_vars => HistoryStep
  <1> SUFFICES ASSUME RunnerInv, [Next]_vars PROVE HistoryStep
    OBVIOUS
  <1> USE DEF RunnerInv
  <1>1. ASSUME UNCHANGED attempts PROVE HistoryStep
    BY <1>1 DEF HistoryStep
  <1>2. CASE UNCHANGED vars
    BY <1>1, <1>2 DEF vars
  <1>3. CASE Boot \/ RestartRun \/ Shutdown \/ ProcessEnds
    BY <1>1, <1>3 DEF Boot, RestartRun, Shutdown, ProcessEnds
  <1>4. ASSUME NEW l \in Loops, LoopStep(l) PROVE HistoryStep
    <2> DEFINE j == loop[l].job
    <2>1. ASSUME NEW i \in Jobs, ClaimOne(l, i) PROVE HistoryStep
      BY <2>1, OperationHistory DEF ClaimOne
    <2>2. CASE Settle(l) \/ ReleaseJob(l)
      <3>1. j \in Jobs
        BY <2>2 DEF Settle, ReleaseJob, Hand
      <3>2. Fail(j, Id(l)) \/ Succeed(j, Id(l)) \/ UNCHANGED attempts
        BY <2>2 DEF Settle, ReleaseJob, queueVars
      <3> QED
        BY <3>1, <3>2, OperationHistory
    <2>3. CASE \/ ClaimRaises(l) \/ HandlerReturns(l) \/ HandlerRaises(l) \/ HandlerStops(l)
               \/ RenewLease(l) \/ RenewalLost(l) \/ RenewalRaises(l) \/ HandlerFirst(l)
               \/ RenewalDrained(l) \/ Reaped(l) \/ SettleRaises(l) \/ LoopReturns(l)
               \/ CancelLoop(l)
      BY <1>1, <2>3 DEF ClaimRaises, HandlerReturns, HandlerRaises, HandlerStops, RenewLease,
                        Renew, RenewalLost, RenewalRaises, HandlerFirst, RenewalDrained, Reaped,
                        SettleRaises, LoopReturns, CancelLoop
    <2> QED
      BY <1>4, <2>1, <2>2, <2>3 DEF LoopStep
  <1>5. ASSUME NEW j \in Jobs, TableStep(j) PROVE HistoryStep
    BY <1>5, OperationHistory
       DEF TableStep, Enqueue, ReopenTerminal, Reclaim, RetryDue, LeaseExpires
  <1> QED
    BY <1>2, <1>3, <1>4, <1>5 DEF Next

(* A closed attempt record is never rewritten or removed.                   *)
THEOREM HistoryAlways == Spec => AttemptHistory
  <1>1. RunnerInv /\ [Next]_vars => [HistoryStep]_vars
    BY StepHistory
  <1> QED
    BY <1>1, Invariance, PTL DEF Spec, AttemptHistory

-----------------------------------------------------------------------------
(* Ownership, as long as every run has a process of its own: the worker     *)
(* ids of two loops differ, so what a loop finds under its own id is the    *)
(* attempt it claimed.                                                      *)

InJob(l) == loop[l].pc \notin {"off", "poll"}

(* Every attempt after the loop's own was claimed under another id.         *)
LaterAreOthers(l) ==
    /\ loop[l].attempt \in 1..Len(attempts[loop[l].job])
    /\ \A k \in 1..Len(attempts[loop[l].job]) :
          k > loop[l].attempt => attempts[loop[l].job][k].worker_id # Id(l)

OwnershipInv ==
    /\ \A g \in Runs : g > runs => pidOf[g] = g
    /\ RunsHaveProcesses => \A l \in Loops : InJob(l) => LaterAreOthers(l)

(* No operation takes an attempt away or gives it to another worker, and    *)
(* only claim() adds one.                                                   *)
WorkersStay ==
    \A i \in Jobs : \A k \in 1..Len(attempts[i]) :
        k \in 1..Len(attempts'[i]) /\ attempts'[i][k].worker_id = attempts[i][k].worker_id
NoneAdded == \A i \in Jobs : Len(attempts'[i]) = Len(attempts[i])

(* Closing a record leaves whose it is and adds none.                       *)
LEMMA CloseWorkers ==
    ASSUME QueueInv, NEW j \in Jobs, job[j].status = "RUNNING", NEW status, NEW error,
           CloseAttempt(j, status, error)
    PROVE  WorkersStay /\ NoneAdded
  <1> DEFINE n == job[j].attempt_count
             x == [attempts[j][n] EXCEPT !.status = status, !.error = error]
  <1>1. attempts \in [Jobs -> Seq(AttemptRow)]
    BY DEF QueueInv
  <1>2. attempts' = [attempts EXCEPT ![j] = [attempts[j] EXCEPT ![n] = x]]
    BY <1>1 DEF CloseAttempt
  <1>3. n \in 1..Len(attempts[j])
    BY DEF QueueInv, RowOK, LedgerRow, JobRow
  <1>4. x.worker_id = attempts[j][n].worker_id
    BY <1>1, <1>3 DEF AttemptRow
  <1> HIDE DEF n, x
  <1> QED
    BY <1>1, <1>2, <1>3, <1>4 DEF WorkersStay, NoneAdded

(* A claim adds one record, of its worker, and leaves all others.           *)
LEMMA ClaimWorkers ==
    ASSUME QueueInv, NEW j \in Jobs, NEW w, Claim(j, w)
    PROVE  /\ WorkersStay
           /\ \A i \in Jobs : i # j => attempts'[i] = attempts[i]
           /\ Len(attempts'[j]) = Len(attempts[j]) + 1
           /\ Len(attempts[j]) = job[j].attempt_count
           /\ attempts'[j][Len(attempts[j]) + 1].worker_id = w
  <1> DEFINE x == [worker_id |-> w, status |-> "RUNNING", error |-> "none"]
  <1>1. attempts \in [Jobs -> Seq(AttemptRow)]
    BY DEF QueueInv
  <1>2. attempts' = [attempts EXCEPT ![j] = Append(attempts[j], x)]
    BY DEF Claim
  <1>3. x.worker_id = w
    OBVIOUS
  <1>4. Len(attempts[j]) = job[j].attempt_count
    BY DEF QueueInv, RowOK, LedgerRow
  <1> HIDE DEF x
  <1>5. /\ Len(attempts'[j]) = Len(attempts[j]) + 1
        /\ attempts'[j][Len(attempts[j]) + 1] = x
        /\ \A k \in 1..Len(attempts[j]) : attempts'[j][k] = attempts[j][k]
    BY <1>1, <1>2
  <1>6. \A i \in Jobs : i # j => attempts'[i] = attempts[i]
    BY <1>1, <1>2
  <1>7. WorkersStay
    <2> SUFFICES ASSUME NEW i \in Jobs, NEW k \in 1..Len(attempts[i])
                 PROVE  k \in 1..Len(attempts'[i])
                        /\ attempts'[i][k].worker_id = attempts[i][k].worker_id
      BY DEF WorkersStay
    <2>1. CASE i = j
      BY <1>1, <1>5, <2>1
    <2>2. CASE i # j
      BY <1>6, <2>2
    <2> QED
      BY <2>1, <2>2
  <1> QED
    BY <1>3, <1>4, <1>5, <1>6, <1>7

(* A step that adds no attempt and puts no loop into a job.                 *)
LEMMA QuietOwnership ==
    ASSUME RunnerInv, OwnershipInv, WorkersStay, NoneAdded, UNCHANGED <<pidOf, runs>>,
           \A l \in Loops : InJob(l)' => /\ InJob(l)
                                        /\ loop'[l].job = loop[l].job
                                        /\ loop'[l].attempt = loop[l].attempt
    PROVE  OwnershipInv'
  <1>1. ASSUME RunsHaveProcesses, NEW l \in Loops, InJob(l)' PROVE LaterAreOthers(l)'
    <2>1. loop[l].job \in Jobs /\ LaterAreOthers(l)
      BY <1>1 DEF RunnerInv, Hand, OwnershipInv, InJob
    <2>2. Id(l)' = Id(l)
      BY DEF Id
    <2>3. /\ loop'[l].job = loop[l].job /\ loop'[l].attempt = loop[l].attempt
          /\ Len(attempts'[loop[l].job]) = Len(attempts[loop[l].job])
      BY <1>1, <2>1 DEF NoneAdded
    <2>4. \A k \in 1..Len(attempts[loop[l].job]) :
             attempts'[loop[l].job][k].worker_id = attempts[loop[l].job][k].worker_id
      BY <2>1 DEF WorkersStay
    <2> QED
      BY <2>1, <2>2, <2>3, <2>4 DEF LaterAreOthers
  <1> QED
    BY <1>1 DEF OwnershipInv, RunsHaveProcesses

(* claim(): the new attempt is under the id of this loop and of no other.   *)
LEMMA ClaimOwnership ==
    ASSUME RunnerInv, OwnershipInv, NEW l \in Loops, NEW j \in Jobs, ClaimOne(l, j)
    PROVE  OwnershipInv'
  <1>1. /\ loop'[l].job = j /\ loop'[l].attempt = job[j].attempt_count + 1
        /\ \A m \in Loops : m # l => loop'[m] = loop[m]
    BY DEF ClaimOne, Become, RunnerInv, RunnerTypeOK
  <1>2. UNCHANGED <<pidOf, runs>> /\ Claim(j, Id(l))
    BY DEF ClaimOne, processVars
  <1>3. /\ WorkersStay
        /\ \A i \in Jobs : i # j => attempts'[i] = attempts[i]
        /\ Len(attempts'[j]) = Len(attempts[j]) + 1
        /\ Len(attempts[j]) = job[j].attempt_count
        /\ attempts'[j][Len(attempts[j]) + 1].worker_id = Id(l)
    BY <1>2, ClaimWorkers DEF RunnerInv
  <1>4. \A i \in Jobs : Len(attempts[i]) \in Nat /\ Len(attempts'[i]) \in Nat
    BY StepKeepsQueue DEF RunnerInv, QueueInv, Next, LoopStep
  <1>5. ASSUME RunsHaveProcesses PROVE LaterAreOthers(l)'
    <2>1. loop'[l].attempt = Len(attempts'[j])
      BY <1>1, <1>3
    <2> QED
      BY <1>1, <1>3, <1>4, <2>1 DEF LaterAreOthers
  <1>6. ASSUME RunsHaveProcesses, NEW m \in Loops, m # l, InJob(m)' PROVE LaterAreOthers(m)'
    <2> DEFINE i == loop[m].job
    <2>1. InJob(m) /\ i \in Jobs /\ loop'[m] = loop[m]
      BY <1>1, <1>6 DEF InJob, RunnerInv, Hand
    <2>2. LaterAreOthers(m)
      BY <1>6, <2>1 DEF OwnershipInv
    <2>3. Id(m)' = Id(m) /\ Id(m) # Id(l)
      BY <1>2, <1>6 DEF Id, RunsHaveProcesses, Loops
    <2>4. \A k \in 1..Len(attempts[i]) : attempts'[i][k].worker_id = attempts[i][k].worker_id
      BY <1>3, <2>1 DEF WorkersStay
    <2>5. CASE i # j
      BY <1>3, <2>1, <2>2, <2>3, <2>5 DEF LaterAreOthers
    <2>6. CASE i = j
      <3> DEFINE n == Len(attempts[i])
      <3>1. n \in Nat /\ Len(attempts'[i]) = n + 1 /\ attempts'[i][n + 1].worker_id = Id(l)
        BY <1>3, <1>4, <2>6
      <3>2. /\ loop[m].attempt \in 1..n
            /\ \A k \in 1..n : k > loop[m].attempt => attempts[i][k].worker_id # Id(m)
        BY <2>2 DEF LaterAreOthers
      <3> HIDE DEF n
      <3>3. \A k \in 1..n : attempts'[i][k].worker_id = attempts[i][k].worker_id
        BY <2>4 DEF n
      <3>4. \A k \in 1..(n + 1) : k > loop[m].attempt => attempts'[i][k].worker_id # Id(m)
        <4> SUFFICES ASSUME NEW k \in 1..(n + 1), k > loop[m].attempt
                     PROVE  attempts'[i][k].worker_id # Id(m)
          OBVIOUS
        <4>1. CASE k = n + 1
          BY <2>3, <3>1, <4>1
        <4>2. CASE k # n + 1
          <5>1. k \in 1..n
            BY <3>1, <4>2
          <5> QED
            BY <3>2, <3>3, <5>1
        <4> QED
          BY <4>1, <4>2
      <3>5. loop[m].attempt \in 1..(n + 1)
        BY <3>1, <3>2
      <3> QED
        BY <2>1, <2>3, <3>1, <3>4, <3>5 DEF LaterAreOthers
    <2> QED
      BY <2>5, <2>6
  <1> QED
    BY <1>2, <1>5, <1>6 DEF OwnershipInv, RunsHaveProcesses

(* Every step keeps what each loop knows about the attempt it holds.        *)
LEMMA StepKeepsOwnership == RunnerInv /\ OwnershipInv /\ [Next]_vars => OwnershipInv'
  <1> SUFFICES ASSUME RunnerInv, OwnershipInv, [Next]_vars PROVE OwnershipInv'
    OBVIOUS
  <1>1. ASSUME UNCHANGED attempts PROVE WorkersStay /\ NoneAdded
    BY <1>1 DEF WorkersStay, NoneAdded, RunnerInv, QueueInv
  <1>2. CASE UNCHANGED vars
    BY <1>2 DEF vars, OwnershipInv, RunsHaveProcesses, InJob, LaterAreOthers, Id
  <1>3. CASE Boot \/ RestartRun
    <2>1. PICK pid : StartRun(pid) /\ UNCHANGED attempts
      BY <1>3 DEF Boot, RestartRun
    <2>2. runs' = runs + 1 /\ runs \in Nat /\ pidOf \in [Runs -> Runs] /\ Runs \subseteq Nat
      BY <2>1 DEF StartRun, RunnerInv, RunnerTypeOK, Runs
    <2>3. \A g \in Runs : g # runs + 1 => pidOf'[g] = pidOf[g]
      BY <2>1, <2>2 DEF StartRun
    <2>4. (\A g \in Runs : g > runs' => pidOf'[g] = g) /\ (RunsHaveProcesses' => RunsHaveProcesses)
      BY <2>2, <2>3 DEF OwnershipInv, RunsHaveProcesses
    <2>5. ASSUME RunsHaveProcesses', NEW l \in Loops, InJob(l)' PROVE LaterAreOthers(l)'
      <3>1. l[1] # runs + 1 /\ l[1] \in Runs /\ loop'[l] = loop[l]
        BY <2>1, <2>5 DEF StartRun, InJob, Polling, NoJob, Loops, RunnerInv, RunnerTypeOK
      <3>2. InJob(l)
        BY <2>5, <3>1 DEF InJob
      <3>4. LaterAreOthers(l)
        BY <2>4, <2>5, <3>2 DEF OwnershipInv
      <3>5. Id(l)' = Id(l)
        BY <2>3, <3>1 DEF Id
      <3>3. /\ loop'[l].job = loop[l].job /\ loop'[l].attempt = loop[l].attempt
            /\ attempts' = attempts
        BY <2>1, <3>1
      <3> QED
        BY <3>3, <3>4, <3>5 DEF LaterAreOthers
    <2> QED
      BY <2>4, <2>5 DEF OwnershipInv
  <1>4. CASE Shutdown
    BY <1>1, <1>4, QuietOwnership DEF Shutdown, InJob
  <1>5. CASE ProcessEnds
    BY <1>1, <1>5, QuietOwnership DEF ProcessEnds, InJob, NoJob
  <1>6. ASSUME NEW l \in Loops, LoopStep(l) PROVE OwnershipInv'
    <2> DEFINE j == loop[l].job
    <2>1. ASSUME NEW i \in Jobs, ClaimOne(l, i) PROVE OwnershipInv'
      BY <2>1, ClaimOwnership
    <2>2. CASE ~ \E i \in Jobs : ClaimOne(l, i)
      <3>1. loop \in [Loops -> LoopType]
        BY DEF RunnerInv, RunnerTypeOK, LoopType
      <3>2. WorkersStay /\ NoneAdded
        <4>1. CASE UNCHANGED attempts
          BY <1>1, <4>1
        <4>2. CASE ~UNCHANGED attempts
          <5>1. Settle(l) \/ ReleaseJob(l)
            BY <1>6, <2>2, <4>2
               DEF LoopStep, ClaimRaises, HandlerReturns, HandlerRaises, HandlerStops, RenewLease,
                   Renew, RenewalLost, RenewalRaises, HandlerFirst, RenewalDrained, Reaped,
                   SettleRaises, LoopReturns, CancelLoop
          <5>2. j \in Jobs /\ QueueInv
            BY <5>1 DEF Settle, ReleaseJob, RunnerInv, Hand
          <5>3. Succeed(j, Id(l)) \/ Fail(j, Id(l))
            BY <4>2, <5>1 DEF Settle, ReleaseJob, queueVars
          <5>4. job[j].status = "RUNNING" /\ \E status, error : CloseAttempt(j, status, error)
            BY <5>3, Zenon DEF Succeed, Fail, Owned
          <5> QED
            BY <5>2, <5>4, CloseWorkers
        <4> QED
          BY <4>1, <4>2
      <3>3. \A m \in Loops : InJob(m)' => /\ InJob(m)
                                         /\ loop'[m].job = loop[m].job
                                         /\ loop'[m].attempt = loop[m].attempt
        BY <1>6, <2>2, <3>1, SMTT(30)
           DEF LoopStep, ClaimRaises, HandlerReturns, HandlerRaises, HandlerStops, RenewLease,
               RenewalLost, RenewalRaises, HandlerFirst, RenewalDrained, Reaped, Settle,
               SettleRaises, LoopReturns, CancelLoop, ReleaseJob, Step, Become, Polling, NoJob,
               InJob, LoopType
      <3>4. UNCHANGED <<pidOf, runs>>
        BY <1>6, <2>2
           DEF LoopStep, ClaimRaises, HandlerReturns, HandlerRaises, HandlerStops, RenewLease,
               RenewalLost, RenewalRaises, HandlerFirst, RenewalDrained, Reaped, Settle,
               SettleRaises, LoopReturns, CancelLoop, ReleaseJob, processVars
      <3> QED
        BY <3>2, <3>3, <3>4, QuietOwnership
    <2> QED
      BY <2>1, <2>2
  <1>7. ASSUME NEW j \in Jobs, TableStep(j) PROVE OwnershipInv'
    <2>1. WorkersStay /\ NoneAdded
      <3>1. CASE Reclaim(j)
        <4>1. job[j].status = "RUNNING" /\ \E status, error : CloseAttempt(j, status, error)
          BY <3>1, Zenon DEF Reclaim, ReclaimExpired
        <4> QED
          BY <4>1, CloseWorkers DEF RunnerInv
      <3>2. CASE Enqueue(j) \/ ReopenTerminal(j) \/ RetryDue(j) \/ LeaseExpires(j)
        BY <1>1, <3>2 DEF Enqueue, ReopenTerminal, RetryDue, LeaseExpires, Insert, Reopen,
                          BecomeDue, LeaseAges
      <3> QED
        BY <1>7, <3>1, <3>2 DEF TableStep
    <2>2. UNCHANGED <<loop, pidOf, runs>>
      BY <1>7 DEF TableStep, Enqueue, ReopenTerminal, Reclaim, RetryDue, LeaseExpires, processVars
    <2> QED
      BY <2>1, <2>2, QuietOwnership DEF InJob
  <1> QED
    BY <1>2, <1>3, <1>4, <1>5, <1>6, <1>7 DEF Next

(* With that, a loop settles only its own attempt.                          *)
LEMMA StepOwnOnly == RunnerInv /\ OwnershipInv /\ [Next]_vars => [OwnOnly]_vars
  <1> SUFFICES ASSUME RunnerInv, OwnershipInv, Next, RunsHaveProcesses',
                      NEW l \in Loops, ClosesAnAttempt(l)
               PROVE  ItsOwn(l)
    BY DEF OwnOnly
  <1> DEFINE j == loop[l].job
  <1>1. RunsHaveProcesses
    <2>1. CASE UNCHANGED pidOf
      BY <2>1 DEF RunsHaveProcesses
    <2>2. CASE Boot \/ RestartRun
      BY <2>2 DEF ClosesAnAttempt, Boot, RestartRun
    <2>3. ASSUME NEW i \in Jobs, TableStep(i) PROVE UNCHANGED pidOf
      BY <2>3 DEF TableStep, Enqueue, ReopenTerminal, Reclaim, RetryDue, LeaseExpires, processVars
    <2>4. ASSUME NEW m \in Loops, LoopStep(m) PROVE UNCHANGED pidOf
      BY <2>4 DEF LoopStep, ClaimOne, ClaimRaises, HandlerReturns, HandlerRaises, HandlerStops,
             RenewLease, RenewalLost, RenewalRaises, HandlerFirst, RenewalDrained, Reaped,
             Settle, SettleRaises, LoopReturns, CancelLoop, ReleaseJob, processVars
    <2> QED
      BY <2>1, <2>2, <2>3, <2>4 DEF Next, Shutdown, ProcessEnds
  <1>2. PICK m \in Loops : Settle(m) \/ ReleaseJob(m)
    <2>1. CASE \E i \in Jobs : TableStep(i)
      BY <2>1 DEF ClosesAnAttempt, TableStep, Enqueue, ReopenTerminal, Reclaim, RetryDue,
                  LeaseExpires
    <2>2. CASE Boot \/ RestartRun \/ Shutdown \/ ProcessEnds
      BY <2>2 DEF ClosesAnAttempt, Boot, RestartRun, Shutdown, ProcessEnds
    <2>3. ASSUME NEW m \in Loops, NEW i \in Jobs, ClaimOne(m, i) PROVE FALSE
      <3>1. loop[m].pc = "poll" /\ loop'[l] # loop[l] /\ loop[l].pc # "poll"
        BY <2>3 DEF ClaimOne, ClosesAnAttempt
      <3> QED
        BY <2>3, <3>1 DEF ClaimOne, Become, RunnerInv, RunnerTypeOK
    <2>4. ASSUME NEW m \in Loops, LoopStep(m), ~ \E i \in Jobs : ClaimOne(m, i)
          PROVE  Settle(m) \/ ReleaseJob(m)
      BY <2>4 DEF ClosesAnAttempt, LoopStep, ClaimRaises, HandlerReturns, HandlerRaises,
             HandlerStops, RenewLease, Renew, RenewalLost, RenewalRaises, HandlerFirst,
             RenewalDrained, Reaped, SettleRaises, LoopReturns, CancelLoop
    <2> QED
      BY <2>1, <2>2, <2>3, <2>4 DEF Next
  <1>3. m = l
    BY <1>2, LoopStepHand DEF LoopStep, ClosesAnAttempt
  <1>4. Owned(j, Id(l))
    BY <1>2, <1>3 DEF Settle, ReleaseJob, Succeed, Fail, ClosesAnAttempt, queueVars
  <1>5. j \in Jobs /\ LaterAreOthers(l)
    BY <1>1 DEF ClosesAnAttempt, OwnershipInv, InJob, RunnerInv, Hand
  <1>6. /\ Len(attempts[j]) = job[j].attempt_count
        /\ job[j].attempt_count \in Nat
        /\ attempts[j][job[j].attempt_count].worker_id = Id(l)
    BY <1>4, <1>5 DEF RunnerInv, QueueInv, RowOK, LedgerRow, JobRow, Owned
  <1> QED
    BY <1>5, <1>6 DEF LaterAreOthers, ItsOwn

(* As long as no run() is called twice in one process, a loop closes only   *)
(* the attempt that it claimed, for any number of slots, processes, expired *)
(* leases and reclaims.                                                     *)
THEOREM OwnershipHeld == Spec => OnlyClaimantSettlesPerProcess
  <1>1. Init => OwnershipInv
    BY DEF Init, OwnershipInv, RunsHaveProcesses, InJob, NoJob
  <1> QED
    BY <1>1, StepKeepsOwnership, StepOwnOnly, Invariance, PTL
       DEF Spec, OnlyClaimantSettlesPerProcess

-----------------------------------------------------------------------------
(* LIVE STATE.  What the shown row says of a field was true when the newest  *)
(* event that proves the field arrived; an answer whose transaction is open *)
(* is newer than all that is stored.                                        *)
Shown == Value \cup {Null}

LiveTypes ==
    /\ clock \in Nat /\ messageAt \in Nat /\ bootstrapped.at \in Nat
    /\ game \in [Field -> Value]
    /\ lastTrue \in [Field -> [Value -> Nat]]
    /\ row \in [at: Nat, values: [Field -> Shown]]
    /\ carriedAt \in [Field -> Nat]

GameIsTrue == \A f \in Field : lastTrue[f][game[f]] = clock

NothingFromTheFuture ==
    /\ messageAt <= clock /\ row.at <= clock /\ bootstrapped.at <= clock
    /\ \A f \in Field : carriedAt[f] <= clock

ShownWasTrue ==
    \A f \in Field : row.values[f] # Null => carriedAt[f] <= lastTrue[f][row.values[f]]

AnswerIsNewest ==
    bootstrapped # NoBootstrap =>
        /\ DOMAIN bootstrapped.values \subseteq Field
        /\ \A f \in DOMAIN bootstrapped.values :
              /\ bootstrapped.values[f] \in Shown
              /\ bootstrapped.values[f] # Null => bootstrapped.at <= lastTrue[f][bootstrapped.values[f]]
        /\ messageAt <= bootstrapped.at /\ row.at <= bootstrapped.at
        /\ \A f \in Field : carriedAt[f] <= bootstrapped.at

LiveInv == LiveTypes /\ GameIsTrue /\ NothingFromTheFuture /\ ShownWasTrue /\ AnswerIsNewest

(* A payload tells of some fields what is true of them, or nothing.         *)
LEMMA PatchesTellTheTruth ==
    ASSUME NEW patch \in Patches
    PROVE  /\ DOMAIN patch \subseteq Field
           /\ \A f \in DOMAIN patch : patch[f] = game[f] \/ patch[f] = Null
BY DEF Patches

(* Nothing has been seen when a map begins.                                 *)
LEMMA LiveBegins ==
    ASSUME LiveInit
    PROVE  LiveInv
<1>1. \A f \in Field : lastTrue[f] = [v \in Value |-> IF v = 0 THEN 1 ELSE Never] /\ game[f] = 0
  BY DEF LiveInit
<1>2. [v \in Value |-> IF v = 0 THEN 1 ELSE Never] \in [Value -> Nat]
  BY DEF Never
<1>3. LiveTypes
  BY <1>2 DEF LiveInit, LiveTypes, NoObservation, NoBootstrap, Never, Null, Shown, Value
<1>4. GameIsTrue
  BY <1>1 DEF GameIsTrue, LiveInit, Value
<1>5. NothingFromTheFuture /\ ShownWasTrue /\ AnswerIsNewest
  BY DEF LiveInit, NothingFromTheFuture, ShownWasTrue, AnswerIsNewest, NoObservation, NoBootstrap, Never
<1> QED
  BY <1>3, <1>4, <1>5 DEF LiveInv

(* Time passes: what was true before was true.                              *)
LEMMA TickKeeps ==
    ASSUME LiveInv, GameTick
    PROVE  LiveInv'
<1>1. LiveTypes
  BY DEF LiveInv
<1>2. /\ clock' = clock + 1 /\ clock' \in Nat
      /\ game' \in [Field -> Value]
      /\ UNCHANGED <<row, carriedAt, messageAt, bootstrapped>>
  BY <1>1 DEF GameTick, LiveTypes, Value
<1>3. lastTrue' = [f \in Field |-> [lastTrue[f] EXCEPT ![game'[f]] = clock']]
  BY DEF GameTick
<1>4. LiveTypes'
  BY <1>1, <1>2, <1>3 DEF LiveTypes
<1>5. GameIsTrue'
  BY <1>1, <1>2, <1>3 DEF LiveTypes, GameIsTrue
<1>6. ASSUME NEW f \in Field, NEW v \in Value, NEW t \in Nat, t <= clock, t <= lastTrue[f][v]
      PROVE  t <= lastTrue'[f][v]
  <2>1. lastTrue'[f][v] \in {lastTrue[f][v], clock'}
    BY <1>1, <1>2, <1>3 DEF LiveTypes
  <2> QED
    BY <1>1, <1>2, <1>6, <2>1 DEF LiveTypes
<1>7. NothingFromTheFuture'
  BY <1>1, <1>2 DEF LiveInv, LiveTypes, NothingFromTheFuture
<1>8. ShownWasTrue'
  <2>1. ASSUME NEW f \in Field, row.values[f] # Null
        PROVE  carriedAt[f] <= lastTrue'[f][row.values[f]]
    BY <1>1, <1>6, <2>1 DEF LiveInv, LiveTypes, ShownWasTrue, NothingFromTheFuture, Shown
  <2> QED
    BY <1>2, <2>1 DEF ShownWasTrue
<1>9. AnswerIsNewest'
  <2>1. ASSUME bootstrapped # NoBootstrap, NEW f \in DOMAIN bootstrapped.values, bootstrapped.values[f] # Null
        PROVE  bootstrapped.at <= lastTrue'[f][bootstrapped.values[f]]
    BY <1>1, <1>6, <2>1 DEF LiveInv, LiveTypes, AnswerIsNewest, NothingFromTheFuture, Shown
  <2> QED
    BY <1>2, <2>1 DEF LiveInv, AnswerIsNewest
<1> QED
  BY <1>4, <1>5, <1>7, <1>8, <1>9 DEF LiveInv

(* LiveCollector: a row carries old values on, and proves no field by it.   *)
LEMMA MessageKeeps ==
    ASSUME LiveInv, QuietBootstrap, NEW patch \in Patches, ReduceMessage(patch)
    PROVE  LiveInv'
<1>1. LiveTypes /\ GameIsTrue
  BY DEF LiveInv
<1>2. PICK values : values = Reduced(row.values, patch)
  OBVIOUS
<1>3. /\ DOMAIN patch \subseteq Field
      /\ \A f \in DOMAIN patch : patch[f] = game[f] \/ patch[f] = Null
  BY PatchesTellTheTruth
<1>4. /\ values \in [Field -> Shown]
      /\ \A f \in Field : values[f] = IF f \in DOMAIN patch THEN patch[f] ELSE row.values[f]
  BY <1>1, <1>2, <1>3 DEF Reduced, LiveTypes, Shown
<1>5. /\ messageAt' = clock
      /\ carriedAt' = Proved(patch, clock) \/ (carriedAt' = carriedAt /\ row' = row)
      /\ row' = row \/ row' = [at |-> clock, values |-> values]
      /\ row' = row => carriedAt' = carriedAt \/ row = NoObservation
      /\ UNCHANGED <<clock, game, lastTrue, bootstrapped>>
  BY <1>2 DEF ReduceMessage
<1>6. ASSUME NEW f \in Field
      PROVE  /\ carriedAt'[f] \in {carriedAt[f], clock}
             /\ carriedAt'[f] # carriedAt[f] => f \in DOMAIN patch /\ patch[f] # Null
  BY <1>1, <1>5 DEF Proved, Proves, LiveTypes
<1>7. carriedAt' \in [Field -> Nat]
  BY <1>1, <1>5 DEF Proved, LiveTypes
<1>8. LiveTypes'
  BY <1>1, <1>4, <1>5, <1>7 DEF LiveTypes
<1>9. NothingFromTheFuture'
  <2>1. row'.at <= clock
    BY <1>1, <1>5 DEF LiveInv, NothingFromTheFuture, LiveTypes
  <2>2. ASSUME NEW f \in Field PROVE carriedAt'[f] <= clock
    BY <1>1, <1>6 DEF LiveInv, NothingFromTheFuture, LiveTypes
  <2> QED
    BY <1>1, <1>5, <2>1, <2>2 DEF LiveInv, NothingFromTheFuture, LiveTypes
<1>10. ShownWasTrue'
  <2>1. ASSUME NEW f \in Field, row'.values[f] # Null
        PROVE  carriedAt'[f] <= lastTrue[f][row'.values[f]]
    <3>1. CASE row' = row
      <4>1. row # NoObservation
        BY <2>1, <3>1 DEF NoObservation
      <4> QED
        BY <1>5, <2>1, <3>1, <4>1 DEF LiveInv, ShownWasTrue
    <3>2. CASE row' = [at |-> clock, values |-> values]
      <4>1. CASE f \in DOMAIN patch
        <5>1. values[f] = game[f]
          BY <1>3, <1>4, <2>1, <3>2, <4>1
        <5>2. carriedAt'[f] <= clock
          BY <1>5, <1>9 DEF NothingFromTheFuture
        <5> QED
          BY <1>1, <3>2, <5>1, <5>2 DEF GameIsTrue
      <4>2. CASE f \notin DOMAIN patch
        <5>1. values[f] = row.values[f] /\ carriedAt'[f] = carriedAt[f]
          BY <1>4, <1>6, <4>2
        <5> QED
          BY <2>1, <3>2, <5>1 DEF LiveInv, ShownWasTrue
      <4> QED
        BY <4>1, <4>2
    <3> QED
      BY <1>5, <3>1, <3>2
  <2> QED
    BY <1>5, <2>1 DEF ShownWasTrue
<1>11. AnswerIsNewest'
  <2>1. ASSUME bootstrapped # NoBootstrap
        PROVE  /\ clock <= bootstrapped.at /\ row'.at <= bootstrapped.at
               /\ \A f \in Field : carriedAt'[f] <= bootstrapped.at
    <3>1. clock <= bootstrapped.at
      BY <1>5, <2>1 DEF QuietBootstrap, LiveInv, AnswerIsNewest
    <3>2. row'.at <= clock /\ \A f \in Field : carriedAt'[f] <= clock
      BY <1>5, <1>9 DEF NothingFromTheFuture
    <3>3. row'.at \in Nat /\ carriedAt' \in [Field -> Nat] /\ clock \in Nat /\ bootstrapped.at \in Nat
      BY <1>5, <1>8 DEF LiveTypes
    <3> QED
      BY <3>1, <3>2, <3>3
  <2> QED
    BY <1>5, <2>1 DEF LiveInv, AnswerIsNewest
<1> QED
  BY <1>5, <1>8, <1>9, <1>10, <1>11 DEF LiveInv, GameIsTrue

(* The answer is received.                                                  *)
LEMMA AnswerKeeps ==
    ASSUME LiveInv, NEW patch \in Patches, Answer(patch)
    PROVE  LiveInv'
<1>1. bootstrapped'.at = clock /\ bootstrapped'.values = patch
      /\ UNCHANGED <<clock, game, lastTrue, row, carriedAt, messageAt>>
  BY DEF Answer
<1>2. LiveTypes' /\ GameIsTrue' /\ NothingFromTheFuture' /\ ShownWasTrue'
  BY <1>1 DEF LiveInv, LiveTypes, GameIsTrue, NothingFromTheFuture, ShownWasTrue
<1>3. AnswerIsNewest'
  <2>1. ASSUME NEW f \in DOMAIN patch
        PROVE  patch[f] \in Shown /\ (patch[f] # Null => clock <= lastTrue[f][patch[f]])
    <3>1. f \in Field /\ (patch[f] = game[f] \/ patch[f] = Null)
      BY PatchesTellTheTruth
    <3> QED
      BY <3>1 DEF LiveInv, LiveTypes, GameIsTrue, Shown
  <2>2. messageAt <= clock /\ row.at <= clock /\ \A f \in Field : carriedAt[f] <= clock
    BY DEF LiveInv, NothingFromTheFuture
  <2>3. DOMAIN patch \subseteq Field
    BY PatchesTellTheTruth
  <2> QED
    BY <1>1, <2>1, <2>2, <2>3 DEF AnswerIsNewest
<1> QED
  BY <1>2, <1>3 DEF LiveInv

(* The bootstrap commits: its row shows nothing that it did not carry.      *)
LEMMA BootstrapKeeps ==
    ASSUME LiveInv, BootstrapCommits
    PROVE  LiveInv'
<1>1. LiveTypes /\ bootstrapped # NoBootstrap
  BY DEF LiveInv, BootstrapCommits
<1>2. PICK values, at, told : /\ values = Reduced(NoObservation.values, bootstrapped.values)
                              /\ at = bootstrapped.at /\ told = bootstrapped.values
  OBVIOUS
<1>3. /\ at \in Nat /\ at <= clock /\ row.at <= at /\ messageAt <= at /\ DOMAIN told \subseteq Field
      /\ \A f \in Field : carriedAt[f] <= at
      /\ \A f \in DOMAIN told : told[f] \in Shown /\ (told[f] # Null => at <= lastTrue[f][told[f]])
  BY <1>1, <1>2 DEF LiveInv, LiveTypes, AnswerIsNewest, NothingFromTheFuture
<1>4. /\ values \in [Field -> Shown]
      /\ \A f \in Field : values[f] = IF f \in DOMAIN told THEN told[f] ELSE Null
  BY <1>2, <1>3 DEF Reduced, NoObservation, Shown
<1>5. /\ bootstrapped' = NoBootstrap /\ carriedAt' = Proved(told, at)
      /\ UNCHANGED <<clock, game, lastTrue, messageAt>>
      /\ row' = IF DOMAIN told # {} /\ values # row.values /\ at >= row.at
                THEN [at |-> at, values |-> values] ELSE row
  BY <1>2 DEF BootstrapCommits
<1>6. carriedAt' \in [Field -> Nat] /\ \A f \in Field : carriedAt'[f] <= at
  BY <1>1, <1>3, <1>5 DEF Proved, LiveTypes
<1>7. LiveTypes'
  BY <1>1, <1>3, <1>4, <1>5, <1>6 DEF LiveTypes, NoBootstrap, Never
<1>8. NothingFromTheFuture'
  <2>1. row'.at <= clock /\ NoBootstrap.at <= clock
    BY <1>1, <1>3, <1>5 DEF LiveTypes, LiveInv, NothingFromTheFuture, NoBootstrap, Never
  <2>2. ASSUME NEW f \in Field PROVE carriedAt'[f] <= clock
    BY <1>1, <1>3, <1>6 DEF LiveTypes
  <2> QED
    BY <1>5, <2>1, <2>2 DEF LiveInv, NothingFromTheFuture
<1>9. ASSUME NEW f \in Field, row'.values[f] # Null
      PROVE  carriedAt'[f] <= lastTrue[f][row'.values[f]]
  <2>1. CASE row'.values = values
    <3>1. f \in DOMAIN told /\ values[f] = told[f] /\ told[f] # Null
      BY <1>4, <1>9, <2>1
    <3>2. at <= lastTrue[f][told[f]] /\ carriedAt'[f] <= at /\ lastTrue[f][told[f]] \in Nat
      BY <1>1, <1>3, <1>6, <3>1 DEF LiveTypes, Shown
    <3>3. carriedAt'[f] \in Nat
      BY <1>6
    <3> QED
      BY <1>3, <2>1, <3>1, <3>2, <3>3
  <2>2. CASE row'.values # values
    <3>1. row' = row /\ DOMAIN told = {}
      BY <1>1, <1>3, <1>5, <2>2 DEF LiveTypes
    <3>2. carriedAt'[f] = carriedAt[f]
      BY <1>1, <1>5, <3>1 DEF Proved, Proves, LiveTypes
    <3> QED
      BY <1>9, <3>1, <3>2 DEF LiveInv, ShownWasTrue
  <2> QED
    BY <2>1, <2>2
<1> QED
  BY <1>5, <1>7, <1>8, <1>9 DEF LiveInv, GameIsTrue, ShownWasTrue, AnswerIsNewest

(* In a LIVE_BASIC snapshot every field that is shown was true within the   *)
(* allowed age, for any fields and any age: LiveCollector's rows carry old  *)
(* values on, and evaluate_gate looks at the raw events instead.  Needed:   *)
(* no message overtakes an open bootstrap.                                  *)
THEOREM LiveAlwaysFresh ==
    LiveSpec /\ [][QuietBootstrap]_liveVars => []LiveIsFresh
<1>1. LiveInit => LiveInv
  BY LiveBegins
<1>2. LiveInv /\ [LiveNext]_liveVars /\ [QuietBootstrap]_liveVars => LiveInv'
  <2>1. CASE UNCHANGED liveVars
    BY <2>1 DEF liveVars, LiveInv, LiveTypes, GameIsTrue, NothingFromTheFuture, ShownWasTrue, AnswerIsNewest
  <2>2. CASE LiveNext /\ QuietBootstrap
    <3>1. CASE BootstrapFails
      BY <3>1 DEF BootstrapFails, LiveInv, LiveTypes, GameIsTrue, NothingFromTheFuture, ShownWasTrue, AnswerIsNewest,
                  NoBootstrap, Never
    <3> QED
      BY <2>2, <3>1, TickKeeps, BootstrapKeeps, MessageKeeps, AnswerKeeps DEF LiveNext
  <2> QED
    BY <2>1, <2>2
<1>3. LiveInv => LiveIsFresh
  <2> SUFFICES ASSUME LiveInv, LiveBasic, NEW f \in Field
               PROVE  Age(lastTrue[f][row.values[f]]) <= LiveMaxAge
    BY DEF LiveIsFresh
  <2>1. row.values[f] # Null /\ Age(carriedAt[f]) <= LiveMaxAge
    BY DEF LiveBasic, LiveComplete, FreshFields
  <2>2. /\ carriedAt[f] <= lastTrue[f][row.values[f]] /\ carriedAt[f] \in Nat /\ clock \in Nat
        /\ lastTrue[f][row.values[f]] \in Nat
    BY <2>1 DEF LiveInv, LiveTypes, ShownWasTrue, Shown
  <2> QED
    BY <2>1, <2>2, LiveStateAssumption DEF Age
<1> QED
  BY <1>1, <1>2, <1>3, PTL DEF LiveSpec

=============================================================================
