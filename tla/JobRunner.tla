----------------------------- MODULE JobRunner ------------------------------
(***************************************************************************)
(* One job worker group: the JobRunner (app/jobs/runner.py) that           *)
(* main._job_workers builds for it, the Supervisor that restarts it, the   *)
(* processes that carry it, and the reconciliation that hands expired jobs *)
(* on.  All of them share the tables of JobQueue.                          *)
(*                                                                         *)
(* JobRunner.run() gathers one worker loop per slot.  A run is one call of *)
(* it: when a loop raises, gather raises while the other loops go on, and  *)
(* the supervisor calls run() again in the same process, with the same     *)
(* worker ids.  A new process has a new pid, so new worker ids.            *)
(***************************************************************************)
EXTENDS JobQueue

CONSTANTS
    Slots,       \* range(concurrency)
    MaxRuns,     \* bound: calls of run()
    MaxFaults    \* bound: database errors, stalls, crashes, reopenings

ASSUME JobRunnerAssumption ==
    /\ MaxRuns \in Nat \ {0}
    /\ MaxFaults \in Nat
    /\ \A p \in 1..MaxRuns, s \in Slots : <<p, s>> \in WorkerIds

VARIABLES
    loop,        \* the worker loops: program counter, and the job in hand
    pidOf,       \* the process that made each run
    runs,        \* how many runs were started
    server,      \* "up" | "stopping" | "down"
    raised,      \* run() raised: the supervisor is in its backoff
    done,        \* jobs whose handler ran to completion at least once
    faults

vars == <<job, attempts, loop, pidOf, runs, server, raised, done, faults>>
processVars == <<pidOf, runs, server, raised>>

Runs == 1..MaxRuns
Loops == Runs \X Slots

(* worker_id: f"{hostname}:{pid}:{group}:{index}"                           *)
Id(l) == <<pidOf[l[1]], l[2]>>

LoopPc == {"off",      \* not started, returned, or raised
           "poll",     \* the top of the while loop
           "wait",     \* asyncio.wait(handler, renewal)
           "drain",    \* renewal_stop is set; awaiting the renewal task
           "reap",     \* the lease failed or is lost; awaiting the handler
           "settle",   \* in the transaction that ends the attempt
           "release"}  \* in the transaction that a cancellation makes
Handler == {"none", "busy", "ok", "err", "cancelling"}
Verdict == {"none", "ok", "err", "lost"}

NoJob == [pc |-> "off", job |-> Nobody, attempt |-> 0,
          handler |-> "none", verdict |-> "none"]
Polling == [NoJob EXCEPT !.pc = "poll"]

RunnerTypeOK ==
    /\ QueueTypeOK
    /\ loop \in [Loops -> [pc: LoopPc, job: Jobs \cup {Nobody}, attempt: Nat,
                           handler: Handler, verdict: Verdict]]
    /\ pidOf \in [Runs -> Runs]
    /\ runs \in 0..MaxRuns
    /\ server \in {"up", "stopping", "down"}
    /\ raised \in BOOLEAN
    /\ done \subseteq Jobs
    /\ faults \in 0..MaxFaults

Init ==
    /\ QueueInit
    /\ loop = [l \in Loops |-> NoJob]
    /\ pidOf = [g \in Runs |-> g]
    /\ runs = 0
    /\ server = "down"
    /\ raised = FALSE
    /\ done = {}
    /\ faults = 0

Fault == faults < MaxFaults /\ faults' = faults + 1
NoFault == UNCHANGED faults

(* The loop goes on with the same job; only these fields change.            *)
Step(l, pc, handler, verdict) ==
    loop' = [loop EXCEPT ![l].pc = pc, ![l].handler = handler, ![l].verdict = verdict]
Become(l, state) == loop' = [loop EXCEPT ![l] = state]

-----------------------------------------------------------------------------
(* The processes and the supervisor.                                        *)

(* run(): asyncio.gather of one fresh loop per slot.                        *)
StartRun(pid) ==
    /\ runs < MaxRuns
    /\ runs' = runs + 1
    /\ pidOf' = [pidOf EXCEPT ![runs + 1] = pid]
    /\ loop' = [l \in Loops |-> IF l[1] = runs + 1 THEN Polling ELSE loop[l]]
    /\ raised' = FALSE

(* A process starts: its pid is its own.                                    *)
Boot ==
    /\ server = "down"
    /\ StartRun(runs + 1)
    /\ server' = "up"
    /\ NoFault
    /\ UNCHANGED <<job, attempts, done>>

(* _supervise(): run() raised, the backoff is over, run() is called again.  *)
RestartRun ==
    /\ server = "up"
    /\ raised
    /\ StartRun(pidOf[runs])
    /\ NoFault
    /\ UNCHANGED <<job, attempts, server, done>>

(* Supervisor.stop(): no loop claims again; after five seconds the tasks    *)
(* that are still running are cancelled.                                    *)
Shutdown ==
    /\ server = "up"
    /\ server' = "stopping"
    /\ Fault
    /\ UNCHANGED <<job, attempts, loop, pidOf, runs, raised, done>>

(* The process is gone, at any point: a crash, or the end of a shutdown.    *)
ProcessEnds ==
    /\ server # "down"
    /\ server = "up" => faults < MaxFaults
    /\ faults' = IF server = "up" THEN faults + 1 ELSE faults
    /\ server' = "down"
    /\ raised' = FALSE
    /\ loop' = [l \in Loops |-> NoJob]
    /\ UNCHANGED <<job, attempts, pidOf, runs, done>>

-----------------------------------------------------------------------------
(* _worker_loop() and _execute() of one loop.                               *)

(* _claim_one(): a job, or nothing and the poll interval passes (no step).  *)
ClaimOne(l, j) ==
    /\ loop[l].pc = "poll"
    /\ server = "up"
    /\ Claim(j, Id(l))
    /\ Become(l, [pc |-> "wait", job |-> j, attempt |-> job[j].attempt_count + 1,
                  handler |-> "busy", verdict |-> "none"])
    /\ NoFault
    /\ UNCHANGED <<processVars, done>>

(* The claim's transaction fails: it stands outside the loop's try, so the  *)
(* loop raises; if its run() was still gathered, run() raises too.          *)
ClaimRaises(l) ==
    /\ loop[l].pc = "poll"
    /\ server = "up"
    /\ Fault
    /\ Become(l, NoJob)
    /\ raised' = (raised \/ l[1] = runs)
    /\ UNCHANGED <<job, attempts, pidOf, runs, server, done>>

(* The handler task.  It commits its own transaction as it returns.         *)
HandlerReturns(l) ==
    /\ loop[l].handler = "busy"
    /\ loop' = [loop EXCEPT ![l].handler = "ok"]
    /\ done' = done \cup {loop[l].job}
    /\ NoFault
    /\ UNCHANGED <<job, attempts, processVars>>

HandlerRaises(l) ==
    /\ loop[l].handler = "busy"
    /\ loop' = [loop EXCEPT ![l].handler = "err"]
    /\ NoFault
    /\ UNCHANGED <<job, attempts, processVars, done>>

(* A cancelled handler stops at its next await; it may have committed.      *)
HandlerStops(l) ==
    /\ loop[l].handler = "cancelling"
    /\ loop' = [loop EXCEPT ![l].handler = "err"]
    /\ done' \in {done, done \cup {loop[l].job}}
    /\ NoFault
    /\ UNCHANGED <<job, attempts, processVars>>

(* handler_task.cancel(): without effect on a finished task.                *)
Cancelled(h) == IF h = "busy" THEN "cancelling" ELSE h

(* _renew_lease(): every third of the lease.                                *)
RenewLease(l) ==
    /\ loop[l].pc = "wait"
    /\ Renew(loop[l].job, Id(l))
    /\ UNCHANGED <<loop, processVars, done, faults>>

(* The renewal found another owner: LeaseOwnershipLost, whether it ends the *)
(* wait or is met when the handler has ended already.                       *)
RenewalLost(l) ==
    /\ loop[l].pc \in {"wait", "drain"}
    /\ ~Owned(loop[l].job, Id(l))
    /\ Step(l, "reap", Cancelled(loop[l].handler), "lost")
    /\ NoFault
    /\ UNCHANGED <<job, attempts, processVars, done>>

RenewalRaises(l) ==
    /\ loop[l].pc \in {"wait", "drain"}
    /\ Fault
    /\ Step(l, "reap", Cancelled(loop[l].handler), "err")
    /\ UNCHANGED <<job, attempts, processVars, done>>

(* The wait ends because the handler ended first.                           *)
SlipErrorSwallowed(l) ==
    /\ loop[l].pc = "wait"
    /\ loop[l].handler \in {"ok", "err"}
    /\ Step(l, "drain", loop[l].handler, "ok")
    /\ NoFault
    /\ UNCHANGED <<job, attempts, processVars, done>>
HandlerFirst(l) ==
    /\ loop[l].pc = "wait"
    /\ loop[l].handler \in {"ok", "err"}
    /\ Step(l, "drain", loop[l].handler, loop[l].handler)
    /\ NoFault
    /\ UNCHANGED <<job, attempts, processVars, done>>

RenewalDrained(l) ==
    /\ loop[l].pc = "drain"
    /\ Step(l, "settle", loop[l].handler, loop[l].verdict)
    /\ NoFault
    /\ UNCHANGED <<job, attempts, processVars, done>>

(* The cancelled handler has been awaited.  A lost job is left alone; a     *)
(* failed renewal fails the attempt, whatever the handler answered.         *)
Reaped(l) ==
    /\ loop[l].pc = "reap"
    /\ loop[l].handler # "cancelling"
    /\ IF loop[l].verdict = "lost"
       THEN Become(l, Polling)
       ELSE Step(l, "settle", loop[l].handler, "err")
    /\ NoFault
    /\ UNCHANGED <<job, attempts, processVars, done>>

(* succeed() or fail(), or nothing: a job the loop does not own raises      *)
(* ValueError, which the loop logs before it polls again.                   *)
Settle(l) ==
    LET j == loop[l].job IN
    /\ loop[l].pc = "settle"
    /\ \/ loop[l].verdict = "ok" /\ Succeed(j, Id(l))
       \/ loop[l].verdict = "err" /\ Fail(j, Id(l))
       \/ ~Owned(j, Id(l)) /\ UNCHANGED queueVars
    /\ Become(l, Polling)
    /\ NoFault
    /\ UNCHANGED <<processVars, done>>

(* The settling transaction fails: the job stays RUNNING under its lease.   *)
SettleRaises(l) ==
    /\ loop[l].pc = "settle"
    /\ Fault
    /\ Become(l, Polling)
    /\ UNCHANGED <<job, attempts, processVars, done>>

(* The stop event ends the loop between two jobs.                           *)
LoopReturns(l) ==
    /\ loop[l].pc = "poll"
    /\ server = "stopping"
    /\ Become(l, NoJob)
    /\ NoFault
    /\ UNCHANGED <<job, attempts, processVars, done>>

(* Cancellation at shutdown: in asyncio.wait the job is failed first, and   *)
(* nobody waits for the handler; anywhere else the loop is simply gone.     *)
CancelLoop(l) ==
    /\ server = "stopping"
    /\ loop[l].pc \in {"wait", "drain", "reap", "settle"}
    /\ Step(l, IF loop[l].pc = "wait" THEN "release" ELSE "off",
            Cancelled(loop[l].handler), "none")
    /\ NoFault
    /\ UNCHANGED <<job, attempts, processVars, done>>

ReleaseJob(l) ==
    LET j == loop[l].job IN
    /\ loop[l].pc = "release"
    /\ \/ Fail(j, Id(l))
       \/ ~Owned(j, Id(l)) /\ UNCHANGED queueVars
    /\ Step(l, "off", loop[l].handler, "none")
    /\ NoFault
    /\ UNCHANGED <<processVars, done>>

-----------------------------------------------------------------------------
(* The other users of the tables: dispatchers and ReconciliationService.    *)

Enqueue(j) ==
    /\ \E isDue \in BOOLEAN : Insert(j, isDue)
    /\ UNCHANGED <<loop, processVars, done, faults>>

(* Reconciliation reopens a terminal job it still wants done.               *)
ReopenTerminal(j) ==
    /\ \E isDue \in BOOLEAN : Reopen(j, isDue)
    /\ Fault
    /\ UNCHANGED <<loop, processVars, done>>

Reclaim(j) ==
    /\ server # "down"
    /\ ReclaimExpired(j)
    /\ UNCHANGED <<loop, processVars, done, faults>>

RetryDue(j) ==
    /\ BecomeDue(j)
    /\ UNCHANGED <<loop, processVars, done, faults>>

(* A lease nobody holds runs out; one in hand only if its loop stalls.      *)
InHand(j) == \E l \in Loops :
    /\ loop[l].pc # "off"
    /\ loop[l].job = j
    /\ loop[l].attempt = job[j].attempt_count

LeaseExpires(j) ==
    /\ LeaseAges(j)
    /\ InHand(j) => faults < MaxFaults
    /\ faults' = IF InHand(j) THEN faults + 1 ELSE faults
    /\ UNCHANGED <<loop, processVars, done>>

-----------------------------------------------------------------------------
LoopStep(l) ==
    \/ \E j \in Jobs : ClaimOne(l, j)
    \/ ClaimRaises(l)
    \/ HandlerReturns(l)
    \/ HandlerRaises(l)
    \/ HandlerStops(l)
    \/ RenewLease(l)
    \/ RenewalLost(l)
    \/ RenewalRaises(l)
    \/ HandlerFirst(l)
    \/ RenewalDrained(l)
    \/ Reaped(l)
    \/ Settle(l)
    \/ SettleRaises(l)
    \/ LoopReturns(l)
    \/ CancelLoop(l)
    \/ ReleaseJob(l)

TableStep(j) ==
    \/ Enqueue(j)
    \/ ReopenTerminal(j)
    \/ Reclaim(j)
    \/ RetryDue(j)
    \/ LeaseExpires(j)

Next ==
    \/ Boot
    \/ RestartRun
    \/ Shutdown
    \/ ProcessEnds
    \/ \E l \in Loops : LoopStep(l)
    \/ \E j \in Jobs : TableStep(j)

Spec == Init /\ [][Next]_vars

(* What the runtime's scheduling justifies: the event loop runs every ready *)
(* task, time passes, the periodic reconciliation runs, the supervisor and  *)
(* the operator restart what stopped, and a handler's requests time out.    *)
(* Faults, shutdowns, enqueues and reopenings need never happen.            *)
LoopProgress(l) ==
    \/ \E j \in Jobs : ClaimOne(l, j)
    \/ HandlerReturns(l) \/ HandlerRaises(l) \/ HandlerStops(l)
    \/ RenewalLost(l) \/ HandlerFirst(l) \/ RenewalDrained(l)
    \/ Reaped(l) \/ Settle(l) \/ LoopReturns(l) \/ CancelLoop(l) \/ ReleaseJob(l)

Fairness ==
    /\ WF_vars(Boot) /\ WF_vars(RestartRun)
    /\ WF_vars(server = "stopping" /\ ProcessEnds)
    /\ \A l \in Loops : WF_vars(LoopProgress(l))
    /\ \A j \in Jobs : WF_vars(Reclaim(j)) /\ WF_vars(RetryDue(j)) /\ WF_vars(LeaseExpires(j))

FairSpec == Spec /\ Fairness

-----------------------------------------------------------------------------
(* LeaseOwnershipLost: a loop whose lease was handed on ends no attempt     *)
(* but its own: an attempt is closed as failed or succeeded only by the     *)
(* loop that claimed that very attempt.                                     *)
ClosesAnAttempt(l) ==
    /\ loop[l].pc \in {"settle", "release"}
    /\ loop'[l].pc # loop[l].pc
    /\ attempts' # attempts
ItsOwn(l) == loop[l].attempt = job[loop[l].job].attempt_count

OnlyClaimantSettles == [][\A l \in Loops : ClosesAnAttempt(l) => ItsOwn(l)]_vars

(* The same, as long as no run() was called twice in one process, so that   *)
(* no two loops ever wrote the same worker id: whatever leases expire under *)
(* their loops and whoever claims those jobs again.                         *)
RunsHaveProcesses == \A g \in Runs : pidOf[g] = g
OwnOnly == RunsHaveProcesses' => \A l \in Loops : ClosesAnAttempt(l) => ItsOwn(l)
OnlyClaimantSettlesPerProcess == [][OwnOnly]_vars

(* A closed attempt record is history: no later claim, settlement, expiry   *)
(* or reopening rewrites or removes it.                                     *)
HistoryStep ==
    \A j \in Jobs : \A k \in DOMAIN attempts[j] :
        attempts[j][k].status # "RUNNING" =>
            k \in DOMAIN attempts'[j] /\ attempts'[j][k] = attempts[j][k]
AttemptHistory == [][HistoryStep]_vars

(* Every job that was enqueued is eventually settled, crashes, lost leases  *)
(* and failing handlers notwithstanding.                                    *)
EveryJobSettles == \A j \in Jobs : (job[j].status # "ABSENT") ~> (job[j].status \in Closed)

(* What an enqueuer is promised: JobContract.                               *)
ViewOf(status) ==
    CASE status = "ABSENT"          -> "none"
      [] status = "SUCCEEDED"       -> "succeeded"
      [] status = "FAILED_TERMINAL" -> "failed"
      [] OTHER                      -> "open"
JobView == [j \in Jobs |-> ViewOf(job[j].status)]

Contract == INSTANCE JobContract WITH view <- JobView
ImplementsContract == Contract!Spec
=============================================================================
