----------------------------- MODULE AiDecisions -----------------------------
(***************************************************************************)
(* RUN_AI_PROVIDER and SETTLE_MAP jobs (app/jobs/handlers.py) of one       *)
(* event: the fan-out of a snapshot into one job per experiment, the lanes *)
(* that order the jobs (app/ai/lanes.py), the PREPARE, INFERENCE and       *)
(* PERSIST phases (app/ai/coordinator.py and its runtime version), the     *)
(* notification batches, and the settlement of the maps.                   *)
(*                                                                         *)
(* A database transaction that another one can overtake is two steps: the  *)
(* locks it takes and what it reads, then its writes and the commit.  The  *)
(* job queue keeps what JobContract promises: a job is READY until it has  *)
(* SUCCEEDED or has FAILED for good, and a dying process gives it back.    *)
(***************************************************************************)
EXTENDS Portfolio

CONSTANTS
    Answers,         \* what a model may say: [action, halves, timely]
    Workers,         \* AI_WORKER_CONCURRENCY
    MaxAttempts,     \* of a RUN_AI_PROVIDER job
    Winners,         \* bound: the winners that providers report
    MaxAiFaults      \* bound: failures, cancellations, crashes, reconfigurations

ASSUME AiDecisionsAssumption ==
    /\ Answers \subseteq [action: {"BUY_A", "BUY_B", "NO_BUY"}, halves: Nat, timely: BOOLEAN]
    /\ Workers \in Nat \ {0}
    /\ MaxAttempts \in Nat \ {0}
    /\ Winners \subseteq Sides
    /\ MaxAiFaults \in Nat

VARIABLES
    enabled,         \* ai_provider_configs: the experiments that decide now
    job,             \* RUN_AI_PROVIDER jobs, by dedupe key
    lane,            \* AiExperimentLaneRegistry, by experiment
    task,            \* the handlers that are running
    record,          \* ai_decisions
    judged,          \* per snapshot, the decisions it last had when called complete
    sent,            \* per map, the notification batches prepared, in order
    fact,            \* per map, the winner that has been published
    evidence,        \* per map, the winners in map_result_evidence
    settleJob,       \* SETTLE_MAP jobs, by map and by who enqueued them
    settler,         \* the handler of the SettlementWorker
    aiFaults

decisionVars == <<enabled, job, lane, task, record, judged, sent>>
settlementVars == <<fact, evidence, settleJob, settler>>
aiVars == <<portfolioVars, decisionVars, settlementVars, aiFaults>>

Answer == [action: {"BUY_A", "BUY_B", "NO_BUY", "ERROR"}, halves: Nat, timely: BOOLEAN]
Failure == [action |-> "ERROR", halves |-> 0, timely |-> TRUE]
NoAnswer == [action |-> "NONE", halves |-> 0, timely |-> FALSE]
Buys == {"BUY_A", "BUY_B"}
SideOf(action) == IF action = "BUY_A" THEN "A" ELSE "B"

NoTask == [pc |-> "idle", existing |-> FALSE, bankroll |-> 0, expected |-> {},
           answer |-> NoAnswer, late |-> FALSE, seen |-> {}, outcome |-> "NONE"]
Waiting == [NoTask EXCEPT !.pc = "waiting"]
FreeLane == [active |-> FALSE, orphans |-> {}]

Sources == {"event", "sweep"}
NoSettler == [map |-> "NONE", source |-> "event", outcome |-> "NONE",
              creates |-> FALSE, found |-> {}]

AiTypeOK ==
    /\ PortfolioTypeOK
    /\ enabled \subseteq Experiments
    /\ job \in [Decisions -> [status: {"ABSENT", "READY", "RUNNING", "SUCCEEDED", "FAILED"},
                              left: 0..MaxAttempts]]
    /\ lane \in [Experiments -> [active: BOOLEAN, orphans: SUBSET Snapshots]]
    /\ task \in [Decisions ->
           [pc: {"idle", "waiting", "thinking", "answered", "writing"},
            existing: BOOLEAN, bankroll: Nat, expected: SUBSET Experiments,
            answer: Answer \cup {NoAnswer}, late: BOOLEAN, seen: SUBSET Experiments,
            outcome: Outcomes \cup {"NONE"}]]
    /\ record \in [Decisions -> Answer \cup {NoAnswer}]
    /\ judged \in [Snapshots -> SUBSET Experiments]
    /\ sent \in [Maps -> Seq([snapshot: Snapshots, who: SUBSET Experiments])]
    /\ fact \in [Maps -> Sides \cup {"NONE"}]
    /\ evidence \in [Maps -> SUBSET Sides]
    /\ settleJob \in [Maps \X Sources -> {"ABSENT", "READY", "RUNNING", "SUCCEEDED", "FAILED"}]
    /\ settler \in [map: Maps \cup {"NONE"}, source: Sources, outcome: Outcomes \cup {"NONE"},
                    creates: BOOLEAN, found: SUBSET Experiments]
    /\ aiFaults \in 0..MaxAiFaults

AiInit ==
    /\ PortfolioInit
    /\ enabled = Experiments
    /\ job = [d \in Decisions |-> [status |-> "ABSENT", left |-> 0]]
    /\ lane = [e \in Experiments |-> FreeLane]
    /\ task = [d \in Decisions |-> NoTask]
    /\ record = [d \in Decisions |-> NoAnswer]
    /\ judged = [s \in Snapshots |-> {}]
    /\ sent = [m \in Maps |-> <<>>]
    /\ fact = [m \in Maps |-> "NONE"]
    /\ evidence = [m \in Maps |-> {}]
    /\ settleJob = [j \in Maps \X Sources |-> "ABSENT"]
    /\ settler = NoSettler
    /\ aiFaults = 0

AiFault == aiFaults < MaxAiFaults /\ aiFaults' = aiFaults + 1
NoFault == UNCHANGED aiFaults

Holding(d) == task[d].pc \in {"thinking", "answered", "writing"}
Jobs(s) == {e \in Experiments : job[<<s, e>>].status # "ABSENT"}
Answered(s) == {e \in Experiments : record[<<s, e>>] # NoAnswer}

-----------------------------------------------------------------------------
(* The dispatcher takes AI_DECISION_REQUESTED: one job per experiment that  *)
(* is configured at this moment.                                            *)
Ready == [status |-> "READY", left |-> MaxAttempts]

FanOut(s) ==
    /\ Jobs(s) = {}
    /\ enabled # {}
    /\ job' = [d \in Decisions |-> IF d[1] = s /\ d[2] \in enabled THEN Ready ELSE job[d]]
    /\ UNCHANGED <<portfolioVars, enabled, lane, task, record, judged, sent,
                   settlementVars>>
    /\ NoFault

(* _reconcile_ai: an experiment without a record gets its missing job, or   *)
(* has its terminal one reopened.                                           *)
Backfill(s, e) ==
    /\ e \in enabled
    /\ record[<<s, e>>] = NoAnswer
    /\ \/ job[<<s, e>>].status = "ABSENT" /\ NoFault
       \/ job[<<s, e>>].status = "FAILED" /\ AiFault
    /\ job' = [job EXCEPT ![<<s, e>>] = Ready]
    /\ UNCHANGED <<portfolioVars, enabled, lane, task, record, judged, sent,
                   settlementVars>>

(* An administrator enables or disables a provider.                         *)
Reconfigure(e) ==
    /\ AiFault
    /\ enabled' = IF e \in enabled THEN enabled \ {e} ELSE enabled \cup {e}
    /\ UNCHANGED <<portfolioVars, job, lane, task, record, judged, sent, settlementVars>>

(* A worker claims the job; run_ai puts its token into the lane.            *)
Claim(s, e) ==
    /\ job[<<s, e>>].status = "READY"
    /\ Cardinality({d \in Decisions : task[d].pc # "idle"}) < Workers
    /\ job' = [job EXCEPT ![<<s, e>>] =
           [status |-> "RUNNING", left |-> IF @.left = 0 THEN 0 ELSE @.left - 1]]
    /\ task' = [task EXCEPT ![<<s, e>>] = Waiting]
    /\ UNCHANGED <<portfolioVars, enabled, lane, record, judged, sent, settlementVars>>
    /\ NoFault

AfterFailure(j) == [j EXCEPT !.status = IF j.left = 0 THEN "FAILED" ELSE "READY"]

(* hold()'s wait_for: the lane is not active and the token is the smallest  *)
(* of those in it.  A token is (decision_at, sequence); those of waiters    *)
(* that were cancelled are still there, and come before a retry's.          *)
SlipBusyLane(s, e) ==
    /\ \A r \in Snapshots : task[<<r, e>>].pc = "waiting" => s <= r
    /\ \A r \in lane[e].orphans : s < r
SlipStrictlyFirst(s, e) ==
    /\ ~ lane[e].active
    /\ \A r \in Snapshots : task[<<r, e>>].pc = "waiting" => s < r
MayEnter(s, e) ==
    /\ ~ lane[e].active
    /\ \A r \in Snapshots : task[<<r, e>>].pc = "waiting" => s <= r
    /\ \A r \in lane[e].orphans : s < r

(* The lane is entered and PREPARE reads: a record left by an earlier       *)
(* attempt, the cash of the account (created if need be), and the           *)
(* experiments whose decisions the notification has to wait for.  What it   *)
(* read goes along with the job (PreparedAiDecision).                       *)
Bankroll(e) == Funded(account[e]).cash
Prepared(s, e) ==
    [task[<<s, e>>] EXCEPT !.pc = "thinking", !.existing = record[<<s, e>>] # NoAnswer,
                           !.bankroll = Bankroll(e), !.expected = Jobs(s)]

Prepare(s, e) ==
    /\ task[<<s, e>>].pc = "waiting"
    /\ MayEnter(s, e)
    /\ e \in enabled
    /\ lane' = [lane EXCEPT ![e].active = TRUE]
    /\ account' = [account EXCEPT ![e] = Funded(@)]
    /\ task' = [task EXCEPT ![<<s, e>>] = Prepared(s, e)]
    /\ UNCHANGED <<position, enabled, job, record, judged, sent, settlementVars>>
    /\ NoFault

(* PREPARE raises: the provider is disabled, or its transaction fails.      *)
PrepareRaises(s, e) ==
    /\ task[<<s, e>>].pc = "waiting"
    /\ MayEnter(s, e)
    /\ \/ e \notin enabled /\ NoFault
       \/ e \in enabled /\ AiFault
    /\ task' = [task EXCEPT ![<<s, e>>] = NoTask]
    /\ job' = [job EXCEPT ![<<s, e>>] = AfterFailure(@)]
    /\ UNCHANGED <<portfolioVars, enabled, lane, record, judged, sent, settlementVars>>

(* validate_ai_decision, with its tolerance of half a cent: an answer that  *)
(* breaks the bankroll policy is recorded as a failure.                     *)
Validated(answer, bankroll) ==
    IF \/ answer.action \in Buys /\ answer.halves \in 1..(2 * bankroll + 1)
       \/ answer.action = "NO_BUY" /\ answer.halves = 0
    THEN answer
    ELSE Failure

(* INFERENCE: the provider answers, fails or times out.  A job that found   *)
(* its record asks nobody.                                                  *)
Infer(s, e) ==
    /\ task[<<s, e>>].pc = "thinking"
    /\ \E answer \in Answers \cup {Failure} :
          task' = [task EXCEPT ![<<s, e>>] =
              [@ EXCEPT !.pc = "answered",
                        !.answer = IF task[<<s, e>>].existing THEN record[<<s, e>>]
                                   ELSE Validated(answer, task[<<s, e>>].bankroll),
                        !.late = fact[MapOf[s]] # "NONE"]]
    /\ UNCHANGED <<portfolioVars, enabled, job, lane, record, judged, sent, settlementVars>>
    /\ NoFault

ResultOf(winners) ==
    IF winners = {} THEN "NONE"
    ELSE IF Cardinality(winners) = 1 THEN CHOOSE w \in winners : TRUE
    ELSE "VOID"

(* The bets that PERSIST places, and the accounts whose rows it has locked. *)
Places(d) == ~ task[d].existing /\ task[d].answer.action \in Buys
Locked(e) == \E s \in Snapshots : task[<<s, e>>].pc = "writing" /\ Places(<<s, e>>)

(* PERSIST begins: the snapshot's row is locked, the record inserted, the   *)
(* account's row locked; the records of the snapshot and the result of the  *)
(* map are read, both as far as they are committed.                         *)
SlipUnlocked(s, e) == ~ Locked(e)
MayWrite(s, e) ==
    /\ \A other \in Experiments : task[<<s, other>>].pc # "writing"
    /\ ~ Locked(e)

Write(s, e) ==
    /\ task[<<s, e>>].pc = "answered"
    /\ MayWrite(s, e)
    /\ task' = [task EXCEPT ![<<s, e>>] =
           [@ EXCEPT !.pc = "writing", !.seen = Answered(s) \cup {e},
                     !.outcome = ResultOf(evidence[MapOf[s]])]]
    /\ UNCHANGED <<portfolioVars, enabled, job, lane, record, judged, sent, settlementVars>>
    /\ NoFault

(* _latest_prior_buy_actions: the side of the last timely BUY an earlier    *)
(* snapshot of the map has of this experiment.                              *)
TimelyBuy(rec, d) == rec[d].action \in Buys /\ rec[d].timely
PriorBuys(rec, s, e) ==
    {r \in Snapshots : r < s /\ MapOf[r] = MapOf[s] /\ TimelyBuy(rec, <<r, e>>)}
PriorAction(rec, s, e) ==
    IF PriorBuys(rec, s, e) = {} THEN "NONE" ELSE rec[<<Max(PriorBuys(rec, s, e)), e>>].action

(* _prepare_decision_notifications: a batch goes out when one of its timely *)
(* BUYs differs from that experiment's last one.  The channels find a batch *)
(* of the same decisions by its key and do not add it again.                *)
WithBatch(batches, rec, s, seen) ==
    LET who == {e \in seen : rec[<<s, e>>].timely}
        batch == [snapshot |-> s, who |-> who]
    IN  IF /\ \E e \in who : TimelyBuy(rec, <<s, e>>) /\ PriorAction(rec, s, e) # rec[<<s, e>>].action
           /\ \A i \in DOMAIN batches : batches[i] # batch
        THEN Append(batches, batch)
        ELSE batches

(* PERSIST commits.  A new BUY becomes a position; if the map's result is   *)
(* there already but came later than the decision, the map is settled in    *)
(* the same transaction, which needs the accounts that have bets on it.     *)
BatchComplete(s, e) == task[<<s, e>>].expected \subseteq task[<<s, e>>].seen

Commit(s, e) ==
    LET m == MapOf[s]
        t == task[<<s, e>>]
        rec == IF t.existing THEN record ELSE [record EXCEPT ![<<s, e>>] = t.answer]
        cash == Funded(account[e]).cash
        bet == NewPosition(s, SideOf(t.answer.action), t.answer.halves, cash, t.outcome, t.late)
        placed == Places(<<s, e>>) /\ bet.status = "OPEN"
        pos == IF Places(<<s, e>>) THEN [position EXCEPT ![<<s, e>>] = bet] ELSE position
        acc == IF placed THEN [account EXCEPT ![e] = Reserved(Funded(@), bet)] ELSE account
        found == IF placed /\ t.outcome # "NONE" THEN OpenAccounts(pos, m) ELSE {}
    IN  /\ t.pc = "writing"
        /\ \A other \in found \ {e} : ~ Locked(other)
        /\ record' = rec
        /\ position' = SettledPositions(pos, m, t.outcome, found)
        /\ account' = SettledAccounts(acc, pos, m, t.outcome, found)
        /\ IF BatchComplete(s, e)
           THEN /\ judged' = [judged EXCEPT ![s] = t.seen]
                /\ sent' = [sent EXCEPT ![m] = WithBatch(@, rec, s, t.seen)]
           ELSE UNCHANGED <<judged, sent>>
        /\ lane' = [lane EXCEPT ![e].active = FALSE]
        /\ task' = [task EXCEPT ![<<s, e>>] = NoTask]
        /\ job' = [job EXCEPT ![<<s, e>>].status = "SUCCEEDED"]
        /\ UNCHANGED <<enabled, settlementVars>>
        /\ NoFault

(* The PERSIST transaction fails: hold() frees the lane on the way out.     *)
PersistRaises(s, e) ==
    /\ AiFault
    /\ task[<<s, e>>].pc = "writing"
    /\ task' = [task EXCEPT ![<<s, e>>] = NoTask]
    /\ lane' = [lane EXCEPT ![e].active = FALSE]
    /\ job' = [job EXCEPT ![<<s, e>>] = AfterFailure(@)]
    /\ UNCHANGED <<portfolioVars, enabled, record, judged, sent, settlementVars>>

(* The runner cancels the handler of a job whose lease it lost; the job     *)
(* comes back.  In hold()'s try block that frees the lane.  A waiter that   *)
(* is cancelled leaves its token behind.                                    *)
Cancel(s, e) ==
    /\ AiFault
    /\ task[<<s, e>>].pc # "idle"
    /\ lane' = IF Holding(<<s, e>>) THEN [lane EXCEPT ![e].active = FALSE]
               ELSE [lane EXCEPT ![e].orphans = @ \cup {s}]
    /\ task' = [task EXCEPT ![<<s, e>>] = NoTask]
    /\ job' = [job EXCEPT ![<<s, e>>].status = "READY"]
    /\ UNCHANGED <<portfolioVars, enabled, record, judged, sent, settlementVars>>

(* The process dies and is started again: transactions roll back, lanes are *)
(* empty, expired leases give the jobs back.                                *)
Crash ==
    /\ AiFault
    /\ lane' = [e \in Experiments |-> FreeLane]
    /\ task' = [d \in Decisions |-> NoTask]
    /\ job' = [d \in Decisions |->
           [job[d] EXCEPT !.status = IF @ = "RUNNING" THEN "READY" ELSE @]]
    /\ settler' = NoSettler
    /\ settleJob' = [j \in Maps \X Sources |->
           IF settleJob[j] = "RUNNING" THEN "READY" ELSE settleJob[j]]
    /\ UNCHANGED <<portfolioVars, enabled, record, judged, sent, fact, evidence>>

-----------------------------------------------------------------------------
(* A provider has published the winner: it is usable from now on, and the   *)
(* historical sync stores it.                                               *)
FactArrives(m, w) ==
    /\ fact[m] = "NONE"
    /\ fact' = [fact EXCEPT ![m] = w]
    /\ UNCHANGED <<portfolioVars, decisionVars, evidence, settleJob, settler>>
    /\ NoFault

(* resolve_postmatch stores evidence and the result.  BASIC_RESULT_READY is *)
(* recorded once per map, so only the first call makes a SETTLE_MAP job.    *)
(* Another call may bring the answer of a provider that disagrees.          *)
Resolve(m, w) ==
    /\ fact[m] # "NONE"
    /\ w \notin evidence[m] \/ settleJob[<<m, "event">>] = "ABSENT"
    /\ IF w = fact[m] THEN NoFault ELSE AiFault
    /\ evidence' = [evidence EXCEPT ![m] = @ \cup {w}]
    /\ settleJob' = [settleJob EXCEPT ![<<m, "event">>] = IF @ = "ABSENT" THEN "READY" ELSE @]
    /\ UNCHANGED <<portfolioVars, decisionVars, fact, settler>>

(* _reconcile_settlements: a fact without a result.                         *)
Sweep(m) ==
    /\ fact[m] # "NONE"
    /\ evidence[m] = {}
    /\ settleJob[<<m, "sweep">>] \in {"ABSENT", "FAILED"}
    /\ settleJob' = [settleJob EXCEPT ![<<m, "sweep">>] = "READY"]
    /\ UNCHANGED <<portfolioVars, decisionVars, fact, evidence, settler>>
    /\ NoFault

(* settle_map begins: it reads the result, or takes the fact for one, and   *)
(* looks up the accounts with committed open positions on the map.          *)
Settle(m, source) ==
    /\ settler = NoSettler
    /\ settleJob[<<m, source>>] = "READY"
    /\ settleJob' = [settleJob EXCEPT ![<<m, source>>] = "RUNNING"]
    /\ settler' = [map |-> m, source |-> source,
                   outcome |-> IF evidence[m] = {} THEN fact[m] ELSE ResultOf(evidence[m]),
                   creates |-> evidence[m] = {},
                   found |-> OpenAccounts(position, m)]
    /\ UNCHANGED <<portfolioVars, decisionVars, fact, evidence>>
    /\ NoFault

(* map_results.canonical_map_id is unique: a result that was committed      *)
(* meanwhile makes the insertion fail.                                      *)
Collides == settler.creates /\ evidence[settler.map] # {}

SettleCommit ==
    LET m == settler.map
    IN  /\ settler # NoSettler
        /\ ~ Collides
        /\ \A e \in settler.found : ~ Locked(e)
        /\ position' = SettledPositions(position, m, settler.outcome, settler.found)
        /\ account' = SettledAccounts(account, position, m, settler.outcome, settler.found)
        /\ evidence' = [evidence EXCEPT ![m] = IF settler.creates THEN {settler.outcome} ELSE @]
        /\ settleJob' = [settleJob EXCEPT ![<<m, settler.source>>] = "SUCCEEDED"]
        /\ settler' = NoSettler
        /\ UNCHANGED <<decisionVars, fact>>
        /\ NoFault

SettleRaises ==
    /\ settler # NoSettler
    /\ \/ Collides /\ NoFault
       \/ ~ Collides /\ AiFault
    /\ \E st \in {"READY", "FAILED"} :
          settleJob' = [settleJob EXCEPT ![<<settler.map, settler.source>>] = st]
    /\ settler' = NoSettler
    /\ UNCHANGED <<portfolioVars, decisionVars, fact, evidence>>

-----------------------------------------------------------------------------
Handler(s, e) ==
    \/ Claim(s, e) \/ Prepare(s, e) \/ PrepareRaises(s, e) \/ Infer(s, e)
    \/ Write(s, e) \/ Commit(s, e)
SettlementWorker == SettleCommit \/ SettleRaises \/ \E m \in Maps, f \in Sources : Settle(m, f)

AiNext ==
    \/ \E s \in Snapshots : FanOut(s)
    \/ \E s \in Snapshots, e \in Experiments :
          Handler(s, e) \/ Backfill(s, e) \/ PersistRaises(s, e) \/ Cancel(s, e)
    \/ \E e \in Experiments : Reconfigure(e)
    \/ Crash
    \/ \E m \in Maps, w \in Winners : FactArrives(m, w) \/ Resolve(m, w)
    \/ \E m \in Maps : Sweep(m)
    \/ SettlementWorker

AiSpec == AiInit /\ [][AiNext]_aiVars

(* The workers poll for as long as the process runs, every provider call    *)
(* has a timeout, and no transaction waits for ever; nothing promises that  *)
(* snapshots or results arrive, or that anything fails.                     *)
AiFairSpec ==
    /\ AiSpec
    /\ WF_aiVars(\E s \in Snapshots, e \in Experiments : Handler(s, e))
    /\ WF_aiVars(SettlementWorker)
-----------------------------------------------------------------------------
(* lanes.py promises that checkpoints of a lane enter PREPARE only after    *)
(* the one before has finished PERSIST: a lane is active exactly while one  *)
(* handler is between the two, whatever was cancelled, failed or died.      *)
LaneExclusive ==
    \A e \in Experiments :
        LET holders == {s \in Snapshots : Holding(<<s, e>>)}
        IN  /\ Cardinality(holders) <= 1
            /\ lane[e].active <=> holders # {}

(* The money of the event adds up, and what a model stakes is there.        *)
LedgerIsSound == AiTypeOK /\ AccountsBalance /\ StakesWereCovered

(* _persist_ai_results locks the snapshot's row so that of two experiments  *)
(* that finish together one sees both: once every experiment of a snapshot  *)
(* has its decision, a batch with all of them has been judged, also when    *)
(* experiments were added, failed or were run again on the way.             *)
NoBatchForgotten ==
    \A s \in Snapshots :
        Jobs(s) # {} /\ Jobs(s) \subseteq Answered(s) => judged[s] = Jobs(s)

(* docs/ARCHITECTURE.md 5.1, "the first BUY is sent": once all decisions of *)
(* a snapshot are there, each timely BUY that no earlier snapshot of the    *)
(* map has made for this experiment is in a notification batch.             *)
FirstBuyIsSent ==
    \A s \in Snapshots, e \in Experiments :
        /\ Jobs(s) \subseteq Answered(s)
        /\ TimelyBuy(record, <<s, e>>)
        /\ \A r \in Snapshots : r < s /\ MapOf[r] = MapOf[s] => ~ TimelyBuy(record, <<r, e>>)
        => \E i \in DOMAIN sent[MapOf[s]] :
               LET batch == sent[MapOf[s]][i]
               IN  batch.snapshot = s /\ e \in batch.who

(* However the experiments of a snapshot finish, whoever waits for its BUYs  *)
(* is told of them.                                                         *)
BuysAreSent == NoBatchForgotten /\ FirstBuyIsSent

(* record_decision_position and settle_map may both settle a map, more than *)
(* once: what was settled or refused is never settled again or paid twice.  *)
SettledOnce ==
    [][\A d \in Decisions :
          position[d].status \notin {"ABSENT", "OPEN"} => position'[d] = position[d]]_aiVars

(* While no cancelled waiter left its token in the lane, the workers get    *)
(* through what is given to them, until every job is decided or has failed  *)
(* for good: no order of claims, however few workers there are, makes lanes *)
(* and locks wait for ever.                                                 *)
EveryDecisionSettles ==
    []<>(\/ \A d \in Decisions : job[d].status \notin {"READY", "RUNNING"}
         \/ \E e \in Experiments : lane[e].orphans # {})

(* hold() says the lane selects the earliest decision_at of the tasks that  *)
(* registered: a lane nobody holds lets one of its waiting handlers enter.  *)
LaneServesItsWaiters ==
    \A e \in Experiments :
        LET waiters == {s \in Snapshots : task[<<s, e>>].pc = "waiting"}
        IN  waiters # {} /\ ~ lane[e].active => \E s \in waiters : MayEnter(s, e)

(* TournamentPortfolioService says map settlement releases the position:    *)
(* when a map was settled and nothing is left to do on it, it has no bet    *)
(* that still locks its stake.                                              *)
SettlementReleasesStakes ==
    \A m \in Maps :
        /\ \E f \in Sources : settleJob[<<m, f>>] = "SUCCEEDED"
        /\ \A f \in Sources : settleJob[<<m, f>>] \notin {"READY", "RUNNING", "FAILED"}
        /\ \A d \in Decisions : MapOf[d[1]] = m => task[d].pc # "writing"
        => OpenOn(position, m) = {}
=============================================================================
