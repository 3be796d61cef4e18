-------------------------- MODULE AiDecisionsProofs --------------------------
(***************************************************************************)
(* What AiDecisions promises, for any snapshots, maps, experiments, odds,  *)
(* answers and numbers of workers.                                         *)
(*                                                                         *)
(* The inductive invariant says what the handler of one decision may rely  *)
(* on while others run: its job and its record (HandlersKnowTheirJob), its *)
(* lane (LanesAreHeld), the bankroll it was shown (BankrollsStay), the     *)
(* snapshot's row (WritersSeeAll); and what the tables keep: the accounts  *)
(* (BooksBalance), the records and jobs behind a position (NothingLost),   *)
(* the results a settlement works with (ResultsAreKnown).                  *)
(*                                                                         *)
(* At the end, Snapshots.tla: the event log and the job table agree, for   *)
(* any number of events, any batch limit and any number of faults.         *)
(***************************************************************************)
EXTENDS AiDecisions, Snapshots, PortfolioProofs, SequenceTheorems

(* A handler runs for a job that is RUNNING; after PREPARE it knows whether *)
(* there is a record, and has frozen jobs that are there still.             *)
HandlersKnowTheirJob ==
    \A s \in Snapshots, e \in Experiments :
        /\ task[<<s, e>>].pc # "idle" => job[<<s, e>>].status = "RUNNING"
        /\ Holding(<<s, e>>) => /\ task[<<s, e>>].existing <=> record[<<s, e>>] # NoAnswer
                                /\ task[<<s, e>>].expected \subseteq Jobs(s)

(* A lane is active while one handler holds it, and only one.               *)
LanesAreHeld ==
    \A e \in Experiments :
        /\ \A s \in Snapshots : Holding(<<s, e>>) => lane[e].active
        /\ lane[e].active => \E s \in Snapshots : Holding(<<s, e>>)
        /\ \A s, r \in Snapshots : Holding(<<s, e>>) /\ Holding(<<r, e>>) => s = r

(* The bankroll a handler was shown is in the account still, and what it    *)
(* stakes is within it, but for half a cent.                                *)
BankrollsStay ==
    \A s \in Snapshots, e \in Experiments :
        /\ Holding(<<s, e>>) => /\ account[e].status # "ABSENT"
                                /\ task[<<s, e>>].bankroll <= account[e].cash
        /\ task[<<s, e>>].pc \in {"answered", "writing"} =>
               /\ task[<<s, e>>].answer \in Answer
               /\ Places(<<s, e>>) =>
                      task[<<s, e>>].answer.halves \in 1..(2 * task[<<s, e>>].bankroll + 1)

(* One handler writes for a snapshot at a time, and has read every record   *)
(* of it.                                                                   *)
WritersSeeAll ==
    \A s \in Snapshots, e \in Experiments :
        task[<<s, e>>].pc = "writing" =>
            /\ task[<<s, e>>].seen = Answered(s) \cup {e}
            /\ \A f \in Experiments : task[<<s, f>>].pc = "writing" => f = e

(* A position is that of a record, and a record that of a job.              *)
NothingLost ==
    \A s \in Snapshots, e \in Experiments :
        /\ record[<<s, e>>] # NoAnswer => job[<<s, e>>].status # "ABSENT"
        /\ position[<<s, e>>].status # "ABSENT" => record[<<s, e>>] # NoAnswer

(* A map is settled once its winner is known.                               *)
ResultsAreKnown ==
    /\ \A m \in Maps, f \in Sources : settleJob[<<m, f>>] # "ABSENT" => fact[m] # "NONE"
    /\ settler # NoSettler => /\ settler.map \in Maps /\ fact[settler.map] # "NONE"
                              /\ settler.creates => settler.outcome \in Sides

AiInv ==
    /\ AiTypeOK
    /\ HandlersKnowTheirJob /\ LanesAreHeld /\ BankrollsStay /\ WritersSeeAll
    /\ NothingLost /\ ResultsAreKnown /\ BooksBalance(account, position)
    /\ StakesWereCovered /\ NoBatchForgotten /\ FirstBuyIsSent

-----------------------------------------------------------------------------
(* What AiTypeOK says, table by table.                                      *)
JobRow == [status: {"ABSENT", "READY", "RUNNING", "SUCCEEDED", "FAILED"}, left: 0..MaxAttempts]
Lane == [active: BOOLEAN, orphans: SUBSET Snapshots]
Task == [pc: {"idle", "waiting", "thinking", "answered", "writing"},
         existing: BOOLEAN, bankroll: Nat, expected: SUBSET Experiments,
         answer: Answer \cup {NoAnswer}, late: BOOLEAN, seen: SUBSET Experiments,
         outcome: Outcomes \cup {"NONE"}]

JobsOK == job \in [Decisions -> JobRow]
LanesOK == lane \in [Experiments -> Lane]
TasksOK == task \in [Decisions -> Task]
RecordsOK == record \in [Decisions -> Answer \cup {NoAnswer}]
BatchesOK ==
    /\ judged \in [Snapshots -> SUBSET Experiments]
    /\ sent \in [Maps -> Seq([snapshot: Snapshots, who: SUBSET Experiments])]
SettlementsOK ==
    /\ fact \in [Maps -> Sides \cup {"NONE"}]
    /\ evidence \in [Maps -> SUBSET Sides]
    /\ settleJob \in [Maps \X Sources -> {"ABSENT", "READY", "RUNNING", "SUCCEEDED", "FAILED"}]
    /\ settler \in [map: Maps \cup {"NONE"}, source: Sources, outcome: Outcomes \cup {"NONE"},
                    creates: BOOLEAN, found: SUBSET Experiments]

(* The type invariant is that of the tables, one by one.                     *)
LEMMA TypesByTable ==
    AiTypeOK <=> /\ PortfolioTypeOK /\ JobsOK /\ LanesOK /\ TasksOK /\ RecordsOK /\ BatchesOK
                 /\ SettlementsOK /\ enabled \subseteq Experiments /\ aiFaults \in 0..MaxAiFaults
BY DEF AiTypeOK, JobsOK, LanesOK, TasksOK, RecordsOK, BatchesOK, SettlementsOK, JobRow, Lane, Task

(* The invariant has them all.                                               *)
LEMMA InvTypes ==
    ASSUME AiInv
    PROVE  /\ PortfolioTypeOK /\ JobsOK /\ LanesOK /\ TasksOK /\ RecordsOK /\ BatchesOK
           /\ SettlementsOK /\ enabled \subseteq Experiments /\ aiFaults \in 0..MaxAiFaults
BY TypesByTable DEF AiInv

(* None of the answers a model gives is that of nobody.                     *)
LEMMA AnswersAreReal == NoAnswer \notin Answer /\ Failure \in Answer
BY DEF NoAnswer, Answer, Failure

-----------------------------------------------------------------------------
(* A step is one of a handler, or it leaves the handlers alone.             *)
Elsewhere ==
    \/ \E s \in Snapshots, e \in Experiments : Backfill(s, e)
    \/ \E s \in Snapshots : FanOut(s)
    \/ \E e \in Experiments : Reconfigure(e)
    \/ \E m \in Maps, w \in Winners : FactArrives(m, w) \/ Resolve(m, w)
    \/ \E m \in Maps : Sweep(m)
    \/ SettlementWorker \/ UNCHANGED aiVars

Dropped(s, e) == PrepareRaises(s, e) \/ PersistRaises(s, e) \/ Cancel(s, e)

(* Every step of the jobs, settlements and reconciliation is one of these.   *)
LEMMA StepKinds ==
    ASSUME [AiNext]_aiVars
    PROVE  \/ Elsewhere \/ Crash
           \/ \E s \in Snapshots, e \in Experiments :
                  \/ Claim(s, e) \/ Prepare(s, e) \/ Infer(s, e) \/ Write(s, e) \/ Commit(s, e)
                  \/ Dropped(s, e)
BY DEF AiNext, Handler, Elsewhere, Dropped

(* hold() and the phases belong to one handler: its steps leave the job, the *)
(* task and the record of every other decision alone.                        *)
LEMMA OthersStand ==
    ASSUME AiInv, NEW s \in Snapshots, NEW e \in Experiments,
           NEW r \in Snapshots, NEW f \in Experiments, <<r, f>> # <<s, e>>,
           \/ Claim(s, e) \/ Prepare(s, e) \/ Infer(s, e) \/ Write(s, e) \/ Commit(s, e)
           \/ Dropped(s, e)
    PROVE  task'[<<r, f>>] = task[<<r, f>>] /\ job'[<<r, f>>] = job[<<r, f>>] /\ record'[<<r, f>>] = record[<<r, f>>]
<1> DEFINE d == <<s, e>>
           q == <<r, f>>
<1>1. q \in Decisions /\ d \in Decisions /\ q # d /\ TasksOK /\ JobsOK /\ RecordsOK
  BY DecisionIsPair, InvTypes
<1> HIDE DEF d, q
<1>2. \/ \E t : task' = [task EXCEPT ![d] = t]
  BY DEF Claim, Prepare, Prepared, Bankroll, Infer, Write, Commit, Dropped, PrepareRaises, PersistRaises, Cancel, d
<1>3. UNCHANGED job \/ \E j : job' = [job EXCEPT ![d] = j]
  BY DEF Claim, Prepare, Prepared, Bankroll, Infer, Write, Commit, Dropped, PrepareRaises, PersistRaises, Cancel, d
<1>4. UNCHANGED record \/ \E a : record' = [record EXCEPT ![d] = a]
  BY DEF Claim, Prepare, Prepared, Bankroll, Infer, Write, Commit, Dropped, PrepareRaises, PersistRaises, Cancel, d
<1>5. task'[q] = task[q] /\ job'[q] = job[q] /\ record'[q] = record[q]
  BY <1>1, <1>2, <1>3, <1>4 DEF TasksOK, JobsOK, RecordsOK
<1> QED
  BY <1>5 DEF q

(* The jobs of a handler that runs are left alone by whatever happens        *)
(* elsewhere: the dispatcher and the reconciliation only take up jobs that   *)
(* nobody has.                                                               *)
LEMMA ElsewhereStand ==
    ASSUME AiInv, Elsewhere, NEW s \in Snapshots, NEW e \in Experiments
    PROVE  /\ UNCHANGED <<task, record, lane, judged, sent>>
           /\ task[<<s, e>>].pc # "idle" => job'[<<s, e>>] = job[<<s, e>>]
           /\ job[<<s, e>>].status # "ABSENT" => job'[<<s, e>>].status # "ABSENT"
<1>1. UNCHANGED <<task, record, lane, judged, sent>>
  BY DEF Elsewhere, Backfill, FanOut, Reconfigure, FactArrives, Resolve, Sweep, SettlementWorker,
         SettleCommit, SettleRaises, Settle, aiVars, decisionVars
<1>2. CASE UNCHANGED job
  BY <1>1, <1>2
<1>3. ASSUME NEW r \in Snapshots, FanOut(r)
      PROVE  /\ task[<<s, e>>].pc # "idle" => job'[<<s, e>>] = job[<<s, e>>]
             /\ job[<<s, e>>].status # "ABSENT" => job'[<<s, e>>].status # "ABSENT"
  <2>1. job'[<<s, e>>] = IF s = r /\ e \in enabled THEN Ready ELSE job[<<s, e>>]
    BY <1>3, DecisionIsPair DEF FanOut
  <2>2. s = r => job[<<s, e>>].status = "ABSENT"
    BY <1>3 DEF FanOut, Jobs
  <2>3. task[<<s, e>>].pc # "idle" => job[<<s, e>>].status = "RUNNING"
    BY DEF AiInv, HandlersKnowTheirJob
  <2> QED
    BY <2>1, <2>2, <2>3 DEF Ready
<1>4. ASSUME NEW r \in Snapshots, NEW f \in Experiments, Backfill(r, f)
      PROVE  /\ task[<<s, e>>].pc # "idle" => job'[<<s, e>>] = job[<<s, e>>]
             /\ job[<<s, e>>].status # "ABSENT" => job'[<<s, e>>].status # "ABSENT"
  <2>1. job'[<<s, e>>] = IF <<s, e>> = <<r, f>> THEN Ready ELSE job[<<s, e>>]
    BY <1>4, DecisionIsPair, InvTypes DEF Backfill, JobsOK
  <2>2. job[<<r, f>>].status \in {"ABSENT", "FAILED"}
    BY <1>4 DEF Backfill
  <2>3. task[<<s, e>>].pc # "idle" => job[<<s, e>>].status = "RUNNING"
    BY DEF AiInv, HandlersKnowTheirJob
  <2>4. CASE s = r /\ e = f
    BY <2>1, <2>2, <2>3, <2>4 DEF Ready
  <2>5. CASE ~ (s = r /\ e = f)
    <3>1. job'[<<s, e>>] = job[<<s, e>>]
      BY <2>1, <2>5
    <3> QED
      BY <3>1
  <2> QED
    BY <2>4, <2>5
<1> QED
  BY <1>1, <1>2, <1>3, <1>4
     DEF Elsewhere, Reconfigure, FactArrives, Resolve, Sweep, SettlementWorker, SettleCommit,
         SettleRaises, Settle, aiVars, decisionVars

(* What becomes of one decision in a step: its handler goes on, commits or   *)
(* is dropped, or nothing happens to it.                                     *)
Untouched(s, e) ==
    /\ task'[<<s, e>>] = task[<<s, e>>] /\ record'[<<s, e>>] = record[<<s, e>>]
    /\ task[<<s, e>>].pc # "idle" => job'[<<s, e>>] = job[<<s, e>>]
    /\ job[<<s, e>>].status # "ABSENT" => job'[<<s, e>>].status # "ABSENT"

Ended(s, e) ==
    /\ task'[<<s, e>>] = NoTask /\ record'[<<s, e>>] = record[<<s, e>>]
    /\ job[<<s, e>>].status # "ABSENT" => job'[<<s, e>>].status # "ABSENT"

(* No step of a handler or of the queue does anything else to a decision.    *)
LEMMA OneHandlerMoves ==
    ASSUME AiInv, [AiNext]_aiVars, NEW s \in Snapshots, NEW e \in Experiments
    PROVE  \/ Untouched(s, e) \/ Ended(s, e)
           \/ Claim(s, e) \/ Prepare(s, e) \/ Infer(s, e) \/ Write(s, e) \/ Commit(s, e)
<1>1. CASE Elsewhere
  BY <1>1, ElsewhereStand DEF Untouched
<1>2. CASE Crash
  <2>1. task'[<<s, e>>] = NoTask /\ record'[<<s, e>>] = record[<<s, e>>]
    BY <1>2, DecisionIsPair DEF Crash
  <2>2. job'[<<s, e>>] = [job[<<s, e>>] EXCEPT !.status = IF @ = "RUNNING" THEN "READY" ELSE @]
    BY <1>2, DecisionIsPair DEF Crash
  <2>3. job[<<s, e>>] \in JobRow
    BY DecisionIsPair, InvTypes DEF JobsOK
  <2>4. job'[<<s, e>>].status = IF job[<<s, e>>].status = "RUNNING" THEN "READY" ELSE job[<<s, e>>].status
    BY <2>2, <2>3 DEF JobRow
  <2> QED
    BY <2>1, <2>4 DEF Ended
<1>3. ASSUME NEW r \in Snapshots, NEW f \in Experiments, <<r, f>> # <<s, e>>,
             \/ Claim(r, f) \/ Prepare(r, f) \/ Infer(r, f) \/ Write(r, f) \/ Commit(r, f)
             \/ Dropped(r, f)
      PROVE  Untouched(s, e)
  BY <1>3, OthersStand DEF Untouched
<1>4. CASE Dropped(s, e)
  <2>1. task' = [task EXCEPT ![<<s, e>>] = NoTask] /\ UNCHANGED record
    BY <1>4 DEF Dropped, PrepareRaises, PersistRaises, Cancel
  <2>2. \/ job' = [job EXCEPT ![<<s, e>>] = AfterFailure(@)]
        \/ job' = [job EXCEPT ![<<s, e>>].status = "READY"]
    BY <1>4 DEF Dropped, PrepareRaises, PersistRaises, Cancel
  <2>3. job \in [Decisions -> JobRow] /\ task \in [Decisions -> Task] /\ <<s, e>> \in Decisions
    BY InvTypes, DecisionIsPair DEF JobsOK, TasksOK
  <2>4. task'[<<s, e>>] = NoTask
    BY <2>1, <2>3
  <2>5. job'[<<s, e>>] = AfterFailure(job[<<s, e>>]) \/ job'[<<s, e>>] = [job[<<s, e>>] EXCEPT !.status = "READY"]
    BY <2>2, <2>3
  <2>6. job[<<s, e>>] \in JobRow
    BY <2>3
  <2>7. job'[<<s, e>>].status \in {"READY", "FAILED"}
    BY <2>5, <2>6 DEF AfterFailure, JobRow
  <2> QED
    BY <2>1, <2>4, <2>7 DEF Ended
<1>5. CASE \E r \in Snapshots, f \in Experiments :
               \/ Claim(r, f) \/ Prepare(r, f) \/ Infer(r, f) \/ Write(r, f) \/ Commit(r, f)
               \/ Dropped(r, f)
  <2>1. PICK r \in Snapshots, f \in Experiments :
               \/ Claim(r, f) \/ Prepare(r, f) \/ Infer(r, f) \/ Write(r, f) \/ Commit(r, f)
               \/ Dropped(r, f)
    BY <1>5
  <2>2. CASE <<r, f>> # <<s, e>>
    BY <1>3, <2>1, <2>2
  <2>3. CASE r = s /\ f = e
    BY <1>4, <2>1, <2>3
  <2> QED
    BY <2>2, <2>3
<1> QED
  BY <1>1, <1>2, <1>5, StepKinds

(* The handler's own row of jobs and tasks in each of its phases.            *)
LEMMA ClaimEffect ==
    ASSUME AiInv, NEW s \in Snapshots, NEW e \in Experiments, Claim(s, e)
    PROVE  /\ task'[<<s, e>>] = Waiting /\ job'[<<s, e>>] \in JobRow /\ job'[<<s, e>>].status = "RUNNING"
           /\ record'[<<s, e>>] = record[<<s, e>>] /\ task[<<s, e>>].pc = "idle"
<1>1. <<s, e>> \in Decisions /\ job \in [Decisions -> JobRow] /\ task \in [Decisions -> Task]
  BY DecisionIsPair, InvTypes DEF JobsOK, TasksOK
<1>2. job'[<<s, e>>] = [status |-> "RUNNING",
                    left |-> IF job[<<s, e>>].left = 0 THEN 0 ELSE job[<<s, e>>].left - 1]
  BY <1>1 DEF Claim
<1>3. job[<<s, e>>] \in JobRow
  BY <1>1
<1>4. job'[<<s, e>>] \in JobRow /\ job'[<<s, e>>].status = "RUNNING"
  <2>1. job[<<s, e>>].left \in 0..MaxAttempts /\ MaxAttempts \in Nat
    BY <1>3, AiDecisionsAssumption DEF JobRow
  <2>2. (IF job[<<s, e>>].left = 0 THEN 0 ELSE job[<<s, e>>].left - 1) \in 0..MaxAttempts
    BY <2>1
  <2> QED
    BY <1>2, <2>2 DEF JobRow
<1>5. task[<<s, e>>].pc = "idle"
  <2>1. task[<<s, e>>] \in Task
    BY <1>1
  <2> QED
    BY DEF AiInv, HandlersKnowTheirJob, Claim
<1> QED
  BY <1>1, <1>4, <1>5 DEF Claim

(* PREPARE fixes the bankroll and the decisions to wait for.                 *)
LEMMA PrepareEffect ==
    ASSUME AiInv, NEW s \in Snapshots, NEW e \in Experiments, Prepare(s, e)
    PROVE  /\ task'[<<s, e>>] \in Task /\ task'[<<s, e>>].pc = "thinking"
           /\ task'[<<s, e>>].existing <=> record[<<s, e>>] # NoAnswer
           /\ task'[<<s, e>>].bankroll = Funded(account[e]).cash
           /\ task'[<<s, e>>].expected = Jobs(s)
           /\ UNCHANGED <<record, job>> /\ task[<<s, e>>].pc = "waiting"
<1>1. <<s, e>> \in Decisions /\ task \in [Decisions -> Task]
  BY DecisionIsPair, InvTypes DEF TasksOK
<1>2. task[<<s, e>>] \in Task
  BY <1>1
<1>3. task'[<<s, e>>] = [task[<<s, e>>] EXCEPT !.pc = "thinking", !.existing = record[<<s, e>>] # NoAnswer,
                         !.bankroll = Funded(account[e]).cash, !.expected = Jobs(s)]
  BY <1>1 DEF Prepare, Prepared, Bankroll
<1>4. Funded(account[e]).cash \in Nat
  BY InvTypes, PortfolioAssumption DEF PortfolioTypeOK, Funded, Account
<1>5. Jobs(s) \in SUBSET Experiments
  BY DEF Jobs
<1>6. task'[<<s, e>>] \in Task
  BY <1>2, <1>3, <1>4, <1>5 DEF Task
<1>7. /\ task'[<<s, e>>].pc = "thinking"
      /\ task'[<<s, e>>].bankroll = Funded(account[e]).cash
      /\ task'[<<s, e>>].expected = Jobs(s)
  BY <1>2, <1>3 DEF Task
<1>8. task'[<<s, e>>].existing <=> record[<<s, e>>] # NoAnswer
  BY <1>2, <1>3 DEF Task
<1> QED
  BY <1>6, <1>7, <1>8 DEF Prepare, Prepared, Bankroll

(* INFERENCE adds an answer within the bankroll, or the one on record.       *)
LEMMA InferEffect ==
    ASSUME AiInv, NEW s \in Snapshots, NEW e \in Experiments, Infer(s, e)
    PROVE  /\ task'[<<s, e>>] \in Task /\ task'[<<s, e>>].pc = "answered" /\ task[<<s, e>>].pc = "thinking"
           /\ task'[<<s, e>>].existing = task[<<s, e>>].existing
           /\ task'[<<s, e>>].bankroll = task[<<s, e>>].bankroll
           /\ task'[<<s, e>>].expected = task[<<s, e>>].expected
           /\ task'[<<s, e>>].answer \in Answer
           /\ ~ task[<<s, e>>].existing /\ task'[<<s, e>>].answer.action \in Buys =>
                  task'[<<s, e>>].answer.halves \in 1..(2 * task[<<s, e>>].bankroll + 1)
           /\ UNCHANGED <<record, job>>
<1>1. <<s, e>> \in Decisions /\ task \in [Decisions -> Task]
  BY DecisionIsPair, InvTypes DEF TasksOK
<1>2. task[<<s, e>>] \in Task /\ record[<<s, e>>] \in Answer \cup {NoAnswer}
  BY <1>1, InvTypes DEF RecordsOK
<1>3. PICK answer \in Answers \cup {Failure} :
          task' = [task EXCEPT ![<<s, e>>] =
              [@ EXCEPT !.pc = "answered",
                        !.answer = IF task[<<s, e>>].existing THEN record[<<s, e>>]
                                   ELSE Validated(answer, task[<<s, e>>].bankroll),
                        !.late = fact[MapOf[s]] # "NONE"]]
  BY DEF Infer
<1> DEFINE given == IF task[<<s, e>>].existing THEN record[<<s, e>>]
                    ELSE Validated(answer, task[<<s, e>>].bankroll)
<1>4. task'[<<s, e>>] = [task[<<s, e>>] EXCEPT !.pc = "answered", !.answer = given,
                                       !.late = fact[MapOf[s]] # "NONE"]
  BY <1>1, <1>3
<1>5. given \in Answer
  <2>1. task[<<s, e>>].pc = "thinking"
    BY DEF Infer
  <2>2. task[<<s, e>>].existing => record[<<s, e>>] # NoAnswer
    BY <2>1 DEF AiInv, HandlersKnowTheirJob, Holding
  <2>3. answer \in Answer
    BY AiDecisionsAssumption, AnswersAreReal DEF Answer
  <2>4. Validated(answer, task[<<s, e>>].bankroll) \in Answer
    BY <2>3, AnswersAreReal DEF Validated
  <2> QED
    BY <1>2, <2>2, <2>4
<1>6. ~ task[<<s, e>>].existing /\ given.action \in Buys => given.halves \in 1..(2 * task[<<s, e>>].bankroll + 1)
  BY DEF Validated, Failure, Buys
<1> HIDE DEF given
<1>7. task'[<<s, e>>] \in Task
  <2>1. (fact[MapOf[s]] # "NONE") \in BOOLEAN
    OBVIOUS
  <2> QED
    BY <1>2, <1>4, <1>5, <2>1 DEF Task
<1>8. /\ task'[<<s, e>>].pc = "answered" /\ task'[<<s, e>>].answer = given
      /\ task'[<<s, e>>].existing = task[<<s, e>>].existing
      /\ task'[<<s, e>>].bankroll = task[<<s, e>>].bankroll
      /\ task'[<<s, e>>].expected = task[<<s, e>>].expected
  BY <1>2, <1>4 DEF Task
<1>9. UNCHANGED <<record, job>> /\ task[<<s, e>>].pc = "thinking"
  BY DEF Infer
<1> QED
  BY <1>5, <1>6, <1>7, <1>8, <1>9

(* PERSIST begins with what is on record for the snapshot.                   *)
LEMMA WriteEffect ==
    ASSUME AiInv, NEW s \in Snapshots, NEW e \in Experiments, Write(s, e)
    PROVE  /\ task'[<<s, e>>] \in Task /\ task'[<<s, e>>].pc = "writing" /\ task[<<s, e>>].pc = "answered"
           /\ task'[<<s, e>>].existing = task[<<s, e>>].existing
           /\ task'[<<s, e>>].bankroll = task[<<s, e>>].bankroll
           /\ task'[<<s, e>>].expected = task[<<s, e>>].expected
           /\ task'[<<s, e>>].answer = task[<<s, e>>].answer
           /\ task'[<<s, e>>].seen = Answered(s) \cup {e}
           /\ UNCHANGED <<record, job>>
<1>1. <<s, e>> \in Decisions /\ task \in [Decisions -> Task]
  BY DecisionIsPair, InvTypes DEF TasksOK
<1>2. task[<<s, e>>] \in Task
  BY <1>1
<1>3. task'[<<s, e>>] = [task[<<s, e>>] EXCEPT !.pc = "writing", !.seen = Answered(s) \cup {e},
                                       !.outcome = ResultOf(evidence[MapOf[s]])]
  BY <1>1 DEF Write
<1>4. ResultOf(evidence[MapOf[s]]) \in Outcomes \cup {"NONE"}
  <2> DEFINE winners == evidence[MapOf[s]]
  <2>1. winners \subseteq Sides
    BY InvTypes, PortfolioAssumption DEF SettlementsOK
  <2> QED
    BY <2>1 DEF ResultOf, Outcomes
<1>5. Answered(s) \cup {e} \in SUBSET Experiments
  BY DEF Answered
<1>6. task'[<<s, e>>] \in Task
  BY <1>2, <1>3, <1>4, <1>5 DEF Task
<1>7. /\ task'[<<s, e>>].pc = "writing"
      /\ task'[<<s, e>>].existing = task[<<s, e>>].existing
      /\ task'[<<s, e>>].bankroll = task[<<s, e>>].bankroll
      /\ task'[<<s, e>>].expected = task[<<s, e>>].expected
      /\ task'[<<s, e>>].answer = task[<<s, e>>].answer
      /\ task'[<<s, e>>].seen = Answered(s) \cup {e}
  BY <1>2, <1>3 DEF Task
<1> QED
  BY <1>6, <1>7 DEF Write

(* PERSIST ends with a record and a job that has succeeded.                  *)
LEMMA CommitEffect ==
    ASSUME AiInv, NEW s \in Snapshots, NEW e \in Experiments, Commit(s, e)
    PROVE  /\ task'[<<s, e>>] = NoTask /\ task[<<s, e>>].pc = "writing"
           /\ job'[<<s, e>>] \in JobRow /\ job'[<<s, e>>].status = "SUCCEEDED"
           /\ record'[<<s, e>>] \in Answer
           /\ task[<<s, e>>].existing => record' = record
           /\ ~ task[<<s, e>>].existing => record' = [record EXCEPT ![<<s, e>>] = task[<<s, e>>].answer]
<1>1. /\ <<s, e>> \in Decisions /\ task \in [Decisions -> Task] /\ job \in [Decisions -> JobRow]
      /\ record \in [Decisions -> Answer \cup {NoAnswer}]
  BY DecisionIsPair, InvTypes DEF TasksOK, JobsOK, RecordsOK
<1>2. task'[<<s, e>>] = NoTask /\ task[<<s, e>>].pc = "writing"
  BY <1>1 DEF Commit
<1>3. job[<<s, e>>] \in JobRow
  BY <1>1
<1>4. job'[<<s, e>>] = [job[<<s, e>>] EXCEPT !.status = "SUCCEEDED"]
  BY <1>1 DEF Commit
<1>5. job'[<<s, e>>] \in JobRow /\ job'[<<s, e>>].status = "SUCCEEDED"
  BY <1>3, <1>4 DEF JobRow
<1>6. record' = IF task[<<s, e>>].existing THEN record ELSE [record EXCEPT ![<<s, e>>] = task[<<s, e>>].answer]
  BY DEF Commit
<1>7. task[<<s, e>>].existing <=> record[<<s, e>>] # NoAnswer
  BY <1>2 DEF AiInv, HandlersKnowTheirJob, Holding
<1>8. task[<<s, e>>].answer \in Answer
  BY <1>2 DEF AiInv, BankrollsStay
<1>9. record'[<<s, e>>] \in Answer
  BY <1>1, <1>6, <1>7, <1>8
<1> QED
  BY <1>2, <1>5, <1>6, <1>9

-----------------------------------------------------------------------------
(* A record, once written, is never written again, and a job is never lost.  *)
LEMMA RecordsStay ==
    ASSUME AiInv, [AiNext]_aiVars, NEW s \in Snapshots, NEW e \in Experiments
    PROVE  /\ record[<<s, e>>] # NoAnswer => record'[<<s, e>>] = record[<<s, e>>]
           /\ record'[<<s, e>>] # NoAnswer => record[<<s, e>>] # NoAnswer \/ Commit(s, e)
           /\ job[<<s, e>>].status # "ABSENT" => job'[<<s, e>>].status # "ABSENT"
<1>1. CASE Untouched(s, e) \/ Ended(s, e)
  BY <1>1 DEF Untouched, Ended
<1>2. CASE Claim(s, e)
  BY <1>2, ClaimEffect
<1>3. CASE Prepare(s, e) \/ Infer(s, e) \/ Write(s, e)
  BY <1>3, PrepareEffect, InferEffect, WriteEffect
<1>4. CASE Commit(s, e)
  <2>1. task[<<s, e>>].existing <=> record[<<s, e>>] # NoAnswer
    BY <1>4, CommitEffect DEF AiInv, HandlersKnowTheirJob, Holding
  <2> QED
    BY <1>4, <2>1, CommitEffect
<1> QED
  BY <1>1, <1>2, <1>3, <1>4, OneHandlerMoves

(* The jobs and the records of a snapshot only become more.                  *)
LEMMA JobsStay ==
    ASSUME AiInv, [AiNext]_aiVars, NEW s \in Snapshots
    PROVE  Jobs(s) \subseteq Jobs(s)' /\ Answered(s) \subseteq Answered(s)'
BY RecordsStay, AnswersAreReal DEF Jobs, Answered

(* A handler's job runs; what PREPARE read about it holds until it ends.     *)
LEMMA HandlersStillKnow ==
    ASSUME AiInv, [AiNext]_aiVars
    PROVE  HandlersKnowTheirJob'
<1> SUFFICES ASSUME NEW s \in Snapshots, NEW e \in Experiments
             PROVE  /\ task'[<<s, e>>].pc # "idle" => job'[<<s, e>>].status = "RUNNING"
                    /\ task'[<<s, e>>].pc \in {"thinking", "answered", "writing"} =>
                           /\ task'[<<s, e>>].existing <=> record'[<<s, e>>] # NoAnswer
                           /\ task'[<<s, e>>].expected \subseteq Jobs(s)'
  BY DEF HandlersKnowTheirJob, Holding
<1>1. /\ task[<<s, e>>].pc # "idle" => job[<<s, e>>].status = "RUNNING"
      /\ task[<<s, e>>].pc \in {"thinking", "answered", "writing"} =>
             /\ task[<<s, e>>].existing <=> record[<<s, e>>] # NoAnswer
             /\ task[<<s, e>>].expected \subseteq Jobs(s)
  BY DEF AiInv, HandlersKnowTheirJob, Holding
<1>2. Jobs(s) \subseteq Jobs(s)'
  BY JobsStay
<1>3. CASE Untouched(s, e)
  BY <1>1, <1>2, <1>3 DEF Untouched
<1>4. CASE Ended(s, e)
  BY <1>4 DEF Ended, NoTask
<1>5. CASE Claim(s, e)
  BY <1>5, ClaimEffect DEF Waiting, NoTask
<1>6. CASE Prepare(s, e)
  <2>1. task[<<s, e>>].pc = "waiting" /\ UNCHANGED <<record, job>>
        /\ (task'[<<s, e>>].existing <=> record[<<s, e>>] # NoAnswer)
        /\ task'[<<s, e>>].expected = Jobs(s)
    BY <1>6, PrepareEffect
  <2> QED
    BY <1>1, <1>2, <2>1
<1>7. CASE Infer(s, e)
  <2>1. /\ task[<<s, e>>].pc = "thinking" /\ UNCHANGED <<record, job>>
        /\ task'[<<s, e>>].existing = task[<<s, e>>].existing
        /\ task'[<<s, e>>].expected = task[<<s, e>>].expected
    BY <1>7, InferEffect
  <2> QED
    BY <1>1, <1>2, <2>1
<1>8. CASE Write(s, e)
  <2>1. /\ task[<<s, e>>].pc = "answered" /\ UNCHANGED <<record, job>>
        /\ task'[<<s, e>>].existing = task[<<s, e>>].existing
        /\ task'[<<s, e>>].expected = task[<<s, e>>].expected
    BY <1>8, WriteEffect
  <2> QED
    BY <1>1, <1>2, <2>1
<1>9. CASE Commit(s, e)
  BY <1>9, CommitEffect DEF NoTask
<1> QED
  BY <1>3, <1>4, <1>5, <1>6, <1>7, <1>8, <1>9, OneHandlerMoves

(* Whatever happens, rows stay rows.                                         *)
LEMMA HandlersStayTyped ==
    ASSUME AiInv, [AiNext]_aiVars
    PROVE  TasksOK' /\ JobsOK' /\ RecordsOK'
<1>1. /\ task \in [Decisions -> Task] /\ job \in [Decisions -> JobRow]
      /\ record \in [Decisions -> Answer \cup {NoAnswer}] /\ enabled \subseteq Experiments
  BY InvTypes DEF TasksOK, JobsOK, RecordsOK
<1>2. NoTask \in Task /\ Waiting \in Task
  BY DEF NoTask, Waiting, Task
<1>3. Ready \in JobRow
  BY AiDecisionsAssumption DEF Ready, JobRow
<1>4. \A j \in JobRow, st \in {"READY", "SUCCEEDED", "FAILED"} : [j EXCEPT !.status = st] \in JobRow
  BY DEF JobRow
<1>5. CASE Elsewhere
  <2>1. UNCHANGED <<task, record>>
    BY <1>5, ElsewhereStand DEF Elsewhere, Backfill, FanOut, Reconfigure, FactArrives, Resolve, Sweep,
         SettlementWorker, SettleCommit, SettleRaises, Settle, aiVars, decisionVars
  <2>2. \/ UNCHANGED job
        \/ \E s \in Snapshots, e \in Experiments : job' = [job EXCEPT ![<<s, e>>] = Ready]
        \/ \E s \in Snapshots :
               job' = [d \in Decisions |-> IF d[1] = s /\ d[2] \in enabled THEN Ready ELSE job[d]]
    BY <1>5 DEF Elsewhere, Backfill, FanOut, Reconfigure, FactArrives, Resolve, Sweep,
         SettlementWorker, SettleCommit, SettleRaises, Settle, aiVars, decisionVars
  <2>3. JobsOK'
    BY <1>1, <1>3, <2>2 DEF JobsOK
  <2> QED
    BY <1>1, <2>1, <2>3 DEF TasksOK, RecordsOK
<1>6. CASE Crash
  <2>1. \A d \in Decisions :
            [job[d] EXCEPT !.status = IF @ = "RUNNING" THEN "READY" ELSE @] \in JobRow
    <3> SUFFICES ASSUME NEW j \in JobRow
                 PROVE  [j EXCEPT !.status = IF @ = "RUNNING" THEN "READY" ELSE @] \in JobRow
      BY <1>1
    <3> QED
      BY DEF JobRow
  <2>2. /\ job' = [d \in Decisions |->
              [job[d] EXCEPT !.status = IF @ = "RUNNING" THEN "READY" ELSE @]]
        /\ task' = [d \in Decisions |-> NoTask] /\ UNCHANGED record
    BY <1>6 DEF Crash
  <2> QED
    BY <1>1, <1>2, <2>1, <2>2 DEF TasksOK, JobsOK, RecordsOK
<1>7. ASSUME NEW s \in Snapshots, NEW e \in Experiments,
             \/ Claim(s, e) \/ Prepare(s, e) \/ Infer(s, e) \/ Write(s, e) \/ Commit(s, e)
             \/ Dropped(s, e)
      PROVE  TasksOK' /\ JobsOK' /\ RecordsOK'
  <2> DEFINE d == <<s, e>>
  <2>1. d \in Decisions
    BY DecisionIsPair
  <2>2. \E t : task' = [task EXCEPT ![d] = t]
    BY <1>7 DEF Claim, Prepare, Prepared, Bankroll, Infer, Write, Commit, Dropped, PrepareRaises, PersistRaises, Cancel
  <2>3. UNCHANGED job \/ \E j : job' = [job EXCEPT ![d] = j]
    BY <1>7 DEF Claim, Prepare, Prepared, Bankroll, Infer, Write, Commit, Dropped, PrepareRaises, PersistRaises, Cancel
  <2>4. UNCHANGED record \/ \E a : record' = [record EXCEPT ![d] = a]
    BY <1>7 DEF Claim, Prepare, Prepared, Bankroll, Infer, Write, Commit, Dropped, PrepareRaises, PersistRaises, Cancel
  <2>5. task'[d] \in Task
    <3>1. Dropped(s, e) => task' = [task EXCEPT ![d] = NoTask]
      BY DEF Dropped, PrepareRaises, PersistRaises, Cancel
    <3> QED
      BY <1>1, <1>2, <1>7, <2>1, <3>1, ClaimEffect, PrepareEffect, InferEffect, WriteEffect, CommitEffect
  <2>6. job'[d] \in JobRow
    <3>1. Dropped(s, e) => \/ job' = [job EXCEPT ![d] = AfterFailure(@)]
                           \/ job' = [job EXCEPT ![d].status = "READY"]
      BY DEF Dropped, PrepareRaises, PersistRaises, Cancel
    <3>2. job[d] \in JobRow
      BY <1>1, <2>1
    <3>3. AfterFailure(job[d]) \in JobRow /\ [job[d] EXCEPT !.status = "READY"] \in JobRow
      BY <1>4, <3>2 DEF AfterFailure
    <3>4. Dropped(s, e) => job'[d] \in JobRow
      BY <1>1, <2>1, <3>1, <3>3
    <3>5. Prepare(s, e) \/ Infer(s, e) \/ Write(s, e) => UNCHANGED job
      BY DEF Prepare, Prepared, Bankroll, Infer, Write
    <3> QED
      BY <1>7, <3>2, <3>4, <3>5, ClaimEffect, CommitEffect
  <2>7. record'[d] \in Answer \cup {NoAnswer}
    <3>1. ~ Commit(s, e) => UNCHANGED record
      BY <1>7 DEF Claim, Prepare, Prepared, Bankroll, Infer, Write, Dropped, PrepareRaises, PersistRaises, Cancel
    <3> QED
      BY <1>1, <2>1, <3>1, CommitEffect
  <2> HIDE DEF d
  <2>8. TasksOK'
    BY <1>1, <2>1, <2>2, <2>5 DEF TasksOK
  <2>9. JobsOK'
    BY <1>1, <2>1, <2>3, <2>6 DEF JobsOK
  <2>10. RecordsOK'
    BY <1>1, <2>1, <2>4, <2>7 DEF RecordsOK
  <2> QED
    BY <2>8, <2>9, <2>10
<1> QED
  BY <1>5, <1>6, <1>7, StepKinds

-----------------------------------------------------------------------------
(* What a step does to a lane: nothing, hold() lets one handler in, that     *)
(* handler leaves it, or the process is started again.                       *)
InLane(s, e) == task[<<s, e>>].pc \in {"thinking", "answered", "writing"}
OthersStay(s, e) == \A r \in Snapshots \ {s} : InLane(r, e)' <=> InLane(r, e)

LaneAsBefore(e) ==
    lane'[e].active = lane[e].active /\ \A s \in Snapshots : InLane(s, e)' <=> InLane(s, e)
LaneEntered(e) ==
    ~ lane[e].active /\ lane'[e].active /\ \E s \in Snapshots : InLane(s, e)' /\ OthersStay(s, e)
LaneLeft(e) ==
    ~ lane'[e].active /\ \E s \in Snapshots : InLane(s, e) /\ ~ InLane(s, e)' /\ OthersStay(s, e)
LaneReset(e) == ~ lane'[e].active /\ \A s \in Snapshots : ~ InLane(s, e)'

(* hold() and its finally clause: no step does anything else to a lane.      *)
LEMMA LaneMoves ==
    ASSUME AiInv, [AiNext]_aiVars, NEW e \in Experiments
    PROVE  /\ LaneAsBefore(e) \/ LaneEntered(e) \/ LaneLeft(e) \/ LaneReset(e)
           /\ lane'[e] \in Lane
<1>1. lane \in [Experiments -> Lane] /\ lane[e] \in Lane
  BY InvTypes DEF LanesOK
<1>2. CASE Elsewhere
  <2>1. UNCHANGED <<task, lane>>
    BY <1>2, ElsewhereStand DEF Elsewhere, Backfill, FanOut, Reconfigure, FactArrives, Resolve, Sweep,
         SettlementWorker, SettleCommit, SettleRaises, Settle, aiVars, decisionVars
  <2>2. \A s \in Snapshots : InLane(s, e)' <=> InLane(s, e)
    BY <2>1 DEF InLane
  <2> QED
    BY <1>1, <2>1, <2>2 DEF LaneAsBefore
<1>3. CASE Crash
  <2>1. lane'[e] = FreeLane /\ \A s \in Snapshots : task'[<<s, e>>] = NoTask
    BY <1>3, DecisionIsPair DEF Crash
  <2> QED
    BY <2>1 DEF LaneReset, InLane, NoTask, FreeLane, Lane
<1>4. ASSUME NEW s \in Snapshots, NEW f \in Experiments,
             \/ Claim(s, f) \/ Prepare(s, f) \/ Infer(s, f) \/ Write(s, f) \/ Commit(s, f)
             \/ Dropped(s, f)
      PROVE  /\ LaneAsBefore(e) \/ LaneEntered(e) \/ LaneLeft(e) \/ LaneReset(e)
             /\ lane'[e] \in Lane
  <2>1. \/ UNCHANGED lane
        \/ lane' = [lane EXCEPT ![f].active = TRUE]
        \/ lane' = [lane EXCEPT ![f].active = FALSE]
        \/ lane' = [lane EXCEPT ![f].orphans = @ \cup {s}]
    BY <1>4 DEF Claim, Prepare, Prepared, Bankroll, Infer, Write, Commit, Dropped, PrepareRaises, PersistRaises, Cancel
  <2>2. lane'[e] \in Lane
    <3>1. \/ lane'[e] = lane[e]
          \/ \E b \in BOOLEAN : lane'[e] = [lane[e] EXCEPT !.active = b]
          \/ lane'[e] = [lane[e] EXCEPT !.orphans = @ \cup {s}]
      BY <1>1, <2>1
    <3>2. /\ \A l \in Lane, b \in BOOLEAN : [l EXCEPT !.active = b] \in Lane
          /\ \A l \in Lane : [l EXCEPT !.orphans = @ \cup {s}] \in Lane
      BY DEF Lane
    <3> QED
      BY <1>1, <3>1, <3>2
  <2>3. OthersStay(s, e)
    BY <1>4, OthersStand DEF OthersStay, InLane
  <2>4. CASE f # e
    <3>1. lane'[e] = lane[e]
      BY <1>1, <2>1, <2>4
    <3>2. InLane(s, e)' <=> InLane(s, e)
      BY <1>4, <2>4, OthersStand DEF InLane
    <3> QED
      BY <2>2, <2>3, <3>1, <3>2 DEF LaneAsBefore, OthersStay
  <2>5. UNCHANGED lane /\ (InLane(s, e)' <=> InLane(s, e)) => LaneAsBefore(e)
    BY <2>3 DEF LaneAsBefore, OthersStay
  <2>6. task' = [task EXCEPT ![<<s, f>>] = NoTask] => ~ InLane(s, f)'
    BY DecisionIsPair, InvTypes DEF TasksOK, InLane, NoTask
  <2>7. CASE f = e /\ Claim(s, e)
    <3>1. task'[<<s, e>>] = Waiting /\ task[<<s, e>>].pc = "idle" /\ UNCHANGED lane
      BY <2>7, ClaimEffect DEF Claim
    <3>2. ~ InLane(s, e) /\ ~ InLane(s, e)'
      BY <3>1 DEF InLane, Waiting, NoTask
    <3> QED
      BY <2>2, <2>5, <3>1, <3>2
  <2>8. CASE f = e /\ Prepare(s, e)
    <3>1. lane' = [lane EXCEPT ![e].active = TRUE] /\ ~ lane[e].active
      BY <2>8 DEF Prepare, Prepared, Bankroll, MayEnter
    <3>2. lane'[e].active
      BY <1>1, <3>1 DEF Lane
    <3>3. InLane(s, e)'
      BY <2>8, PrepareEffect DEF InLane
    <3> QED
      BY <2>2, <2>3, <3>1, <3>2, <3>3 DEF LaneEntered
  <2>9. CASE f = e /\ Infer(s, e)
    BY <2>2, <2>5, <2>9, InferEffect DEF InLane, Infer
  <2>10. CASE f = e /\ Write(s, e)
    BY <2>2, <2>5, <2>10, WriteEffect DEF InLane, Write
  <2>11. CASE f = e /\ (Commit(s, e) \/ PersistRaises(s, e) \/ (Cancel(s, e) /\ Holding(<<s, e>>)))
    <3>1. lane' = [lane EXCEPT ![e].active = FALSE] /\ InLane(s, e)
      BY <2>11 DEF Commit, PersistRaises, Cancel, Holding, InLane
    <3>2. ~ lane'[e].active
      BY <1>1, <3>1 DEF Lane
    <3>3. task' = [task EXCEPT ![<<s, e>>] = NoTask]
      BY <2>11 DEF Commit, PersistRaises, Cancel
    <3> QED
      BY <2>2, <2>3, <2>6, <2>11, <3>1, <3>2, <3>3 DEF LaneLeft
  <2>12. CASE f = e /\ (PrepareRaises(s, e) \/ (Cancel(s, e) /\ ~ Holding(<<s, e>>)))
    <3>1. UNCHANGED lane \/ lane' = [lane EXCEPT ![e].orphans = @ \cup {s}]
      BY <2>12 DEF PrepareRaises, Cancel
    <3>2. lane'[e].active = lane[e].active
      <4>1. lane'[e] = lane[e] \/ lane'[e] = [lane[e] EXCEPT !.orphans = @ \cup {s}]
        BY <1>1, <3>1
      <4> QED
        BY <1>1, <4>1 DEF Lane
    <3>3. task' = [task EXCEPT ![<<s, e>>] = NoTask] /\ ~ InLane(s, e)
      BY <2>12 DEF PrepareRaises, Cancel, Holding, InLane
    <3>4. ~ InLane(s, e)'
      BY <2>6, <2>12, <3>3
    <3>5. LaneAsBefore(e)
      BY <2>3, <3>2, <3>3, <3>4 DEF LaneAsBefore, OthersStay
    <3> QED
      BY <2>2, <3>5
  <2>13. CASE f = e
    <3>1. \/ Claim(s, e) \/ Prepare(s, e) \/ Infer(s, e) \/ Write(s, e) \/ Commit(s, e)
          \/ PersistRaises(s, e) \/ PrepareRaises(s, e) \/ Cancel(s, e)
      BY <1>4, <2>13 DEF Dropped
    <3> QED
      BY <2>7, <2>8, <2>9, <2>10, <2>11, <2>12, <2>13, <3>1
  <2> QED
    BY <2>4, <2>13
<1> QED
  BY <1>2, <1>3, <1>4, StepKinds

(* A lane stays active for one handler, until that handler leaves it.        *)
LEMMA LanesStayHeld ==
    ASSUME AiInv, [AiNext]_aiVars
    PROVE  LanesAreHeld' /\ LanesOK'
<1>1. ASSUME NEW e \in Experiments
      PROVE  /\ \A s \in Snapshots : InLane(s, e)' => lane'[e].active
             /\ lane'[e].active => \E s \in Snapshots : InLane(s, e)'
             /\ \A s, r \in Snapshots : InLane(s, e)' /\ InLane(r, e)' => s = r
  <2>1. /\ \A s \in Snapshots : InLane(s, e) => lane[e].active
        /\ lane[e].active => \E s \in Snapshots : InLane(s, e)
        /\ \A s, r \in Snapshots : InLane(s, e) /\ InLane(r, e) => s = r
    BY DEF AiInv, LanesAreHeld, InLane, Holding
  <2>2. LaneAsBefore(e) \/ LaneEntered(e) \/ LaneLeft(e) \/ LaneReset(e)
    BY LaneMoves
  <2> QED
    BY <2>1, <2>2 DEF LaneAsBefore, LaneEntered, LaneLeft, LaneReset, OthersStay
<1>2. LanesAreHeld'
  BY <1>1 DEF LanesAreHeld, Holding, InLane
<1>3. lane' = [e \in Experiments |-> lane'[e]]
  <2>1. lane \in [Experiments -> Lane]
    BY InvTypes DEF LanesOK
  <2>2. \/ UNCHANGED lane \/ lane' = [e \in Experiments |-> FreeLane]
        \/ \E f, a : lane' = [lane EXCEPT ![f] = a]
    <3>1. Elsewhere => UNCHANGED lane
      BY DEF Elsewhere, Backfill, FanOut, Reconfigure, FactArrives, Resolve, Sweep,
             SettlementWorker, SettleCommit, SettleRaises, Settle, aiVars, decisionVars
    <3>2. Crash => lane' = [e \in Experiments |-> FreeLane]
      BY DEF Crash
    <3>3. ASSUME NEW s \in Snapshots, NEW f \in Experiments,
                 \/ Claim(s, f) \/ Prepare(s, f) \/ Infer(s, f) \/ Write(s, f) \/ Commit(s, f)
                 \/ Dropped(s, f)
          PROVE  UNCHANGED lane \/ \E a : lane' = [lane EXCEPT ![f] = a]
      BY <3>3 DEF Claim, Prepare, Prepared, Bankroll, Infer, Write, Commit, Dropped, PrepareRaises, PersistRaises, Cancel
    <3> QED
      BY <3>1, <3>2, <3>3, StepKinds
  <2> QED
    BY <2>1, <2>2
<1> QED
  BY <1>2, <1>3, LaneMoves DEF LanesOK

-----------------------------------------------------------------------------
(* What a step may do to the books: it keeps them balanced, no account goes  *)
(* away, only the commit of its own experiment takes cash from it; and it    *)
(* leaves what was settled or refused as it is.                              *)
BooksMove ==
    /\ TablesOK(account', position') /\ BooksBalance(account', position')
    /\ \A e \in Experiments :
           account[e].status # "ABSENT" =>
               /\ account'[e].status # "ABSENT"
               /\ account'[e].cash >= account[e].cash \/ \E s \in Snapshots : Commit(s, e)

PositionMoves(s, e) ==
    /\ position'[<<s, e>>].status # "ABSENT" =>
           position[<<s, e>>].status # "ABSENT" \/ (Commit(s, e) /\ ~ task[<<s, e>>].existing)
    /\ position[<<s, e>>].status \notin {"ABSENT", "OPEN"} =>
           position'[<<s, e>>] = position[<<s, e>>]
    /\ position'[<<s, e>>].reason = "INSUFFICIENT_CASH" =>
           position'[<<s, e>>].stake = position'[<<s, e>>].cash_before + 1

(* The invariant has the tables of the portfolio in order.                   *)
LEMMA InvBooks ==
    ASSUME AiInv
    PROVE  /\ TablesOK(account, position) /\ BooksBalance(account, position)
           /\ \A s \in Snapshots, e \in Experiments :
                  position[<<s, e>>].reason = "INSUFFICIENT_CASH" =>
                      position[<<s, e>>].stake = position[<<s, e>>].cash_before + 1
<1>1. TablesOK(account, position)
  BY InvTypes DEF PortfolioTypeOK, TablesOK
<1> QED
  BY <1>1, DecisionIsPair DEF AiInv, StakesWereCovered

(* PERSIST places its bet, and settles the map if it has ended.              *)
LEMMA CommitMovesBooks ==
    ASSUME AiInv, NEW s \in Snapshots, NEW e \in Experiments, Commit(s, e)
    PROVE  /\ BooksMove
           /\ \A r \in Snapshots, f \in Experiments : PositionMoves(r, f)
<1> DEFINE t == task[<<s, e>>]
           m == MapOf[s]
           cash == Funded(account[e]).cash
           bet == NewPosition(s, SideOf(t.answer.action), t.answer.halves, cash, t.outcome, t.late)
           placed == Places(<<s, e>>) /\ bet.status = "OPEN"
           pos == IF Places(<<s, e>>) THEN [position EXCEPT ![<<s, e>>] = bet] ELSE position
           acc == IF placed THEN [account EXCEPT ![e] = Reserved(Funded(@), bet)] ELSE account
           found == IF placed /\ t.outcome # "NONE" THEN OpenAccounts(pos, m) ELSE {}
<1>1. /\ position' = SettledPositions(pos, m, t.outcome, found)
      /\ account' = SettledAccounts(acc, pos, m, t.outcome, found)
      /\ t.pc = "writing"
  BY DEF Commit
<1>2. TablesOK(account, position) /\ BooksBalance(account, position) /\ t \in Task
  BY InvBooks, InvTypes, DecisionIsPair DEF TasksOK
<1>3. account[e].status # "ABSENT" /\ account[e].cash \in Nat /\ t.bankroll <= account[e].cash
      /\ t.bankroll \in Nat
  BY <1>1, <1>2 DEF AiInv, BankrollsStay, Holding, TablesOK, Account, Task
<1>4. Funded(account[e]) = account[e] /\ cash = account[e].cash
  BY <1>3 DEF Funded
<1>5. /\ TablesOK(acc, pos) /\ BooksBalance(acc, pos)
      /\ \A f \in Experiments : acc[f].status = account[f].status /\ (f # e => acc[f] = account[f])
      /\ \A r \in Snapshots, f \in Experiments : <<r, f>> # <<s, e>> =>
             pos[<<r, f>>] = position[<<r, f>>]
      /\ pos[<<s, e>>] # position[<<s, e>>] =>
             position[<<s, e>>].status = "ABSENT" /\ ~ t.existing
      /\ pos[<<s, e>>].reason = "INSUFFICIENT_CASH" =>
             pos[<<s, e>>].stake = pos[<<s, e>>].cash_before + 1
  <2>1. CASE ~ Places(<<s, e>>)
    <3>1. acc = account /\ pos = position
      BY <2>1
    <3> HIDE DEF acc, pos
    <3> QED
      BY <1>2, <3>1, InvBooks
  <2>2. CASE Places(<<s, e>>)
    <3>1. t.answer.halves \in 1..(2 * t.bankroll + 1) /\ ~ t.existing
      BY <1>1, <2>2 DEF AiInv, BankrollsStay, Places
    <3>2. SideOf(t.answer.action) \in Sides
      BY DEF SideOf, Sides
    <3>3. /\ bet \in Position /\ bet.status \in {"OPEN", "REJECTED"}
          /\ bet.status = "OPEN" => bet.stake <= cash
          /\ bet.reason = "INSUFFICIENT_CASH" => bet.stake = bet.cash_before + 1
      <4>1. PICK b : b = bet
        OBVIOUS
      <4> HIDE DEF t
      <4> QED
        BY <1>3, <1>4, <3>1, <3>2, <4>1, NewBet
    <3> HIDE DEF bet
    <3>4. position[<<s, e>>].status = "ABSENT"
      <4>1. ~ (record[<<s, e>>] # NoAnswer)
        BY <1>1, <3>1 DEF AiInv, HandlersKnowTheirJob, Holding
      <4> QED
        BY <4>1 DEF AiInv, NothingLost
    <3>5. pos = [position EXCEPT ![<<s, e>>] = bet]
      BY <2>2
    <3> HIDE DEF pos
    <3>6. Rewritten(position, pos, s, e, bet)
      BY <1>2, <3>3, <3>5, DecisionIsPair DEF Rewritten, TablesOK
    <3>7. /\ pos[<<s, e>>] = bet
          /\ \A r \in Snapshots, f \in Experiments : <<r, f>> # <<s, e>> => pos[<<r, f>>] = position[<<r, f>>]
      BY <3>6, DecisionIsPair DEF Rewritten
    <3>8. CASE bet.status = "OPEN"
      <4>1. acc = [account EXCEPT ![e] = Reserved(account[e], bet)]
        BY <1>2, <1>4, <2>2, <3>8 DEF TablesOK
      <4> HIDE DEF acc
      <4>2. TablesOK(acc, pos) /\ BooksBalance(acc, pos)
        BY <1>2, <1>3, <1>4, <3>3, <3>4, <3>6, <3>8, <4>1, BetKeepsBooks
      <4>3. \A f \in Experiments : acc[f].status = account[f].status /\ (f # e => acc[f] = account[f])
        <5>1. acc[e] = Reserved(account[e], bet) /\ \A f \in Experiments \ {e} : acc[f] = account[f]
          BY <1>2, <4>1 DEF TablesOK
        <5>2. acc[e].status = account[e].status
          BY <1>2, <5>1 DEF Reserved, TablesOK, Account
        <5> QED
          BY <5>1, <5>2
      <4> QED
        BY <3>1, <3>3, <3>4, <3>7, <4>2, <4>3
    <3>9. CASE bet.status # "OPEN"
      <4>1. acc = account
        BY <3>9
      <4> HIDE DEF acc
      <4>2. TablesOK(acc, pos) /\ BooksBalance(acc, pos)
        BY <1>2, <3>3, <3>4, <3>6, <3>9, <4>1, RefusalKeepsBooks
      <4> QED
        BY <3>1, <3>3, <3>4, <3>7, <4>1, <4>2
    <3> QED
      BY <3>8, <3>9
  <2> QED
    BY <2>1, <2>2
<1> HIDE DEF acc, pos, found, t, m
<1>6. /\ TablesOK(account', position') /\ BooksBalance(account', position')
      /\ \A f \in Experiments : /\ account'[f].cash >= acc[f].cash
                                /\ acc[f].status # "ABSENT" => account'[f].status # "ABSENT"
  BY <1>1, <1>5, SettlingKeepsBooks
<1>7. BooksMove
  BY <1>5, <1>6 DEF BooksMove
<1>8. ASSUME NEW r \in Snapshots, NEW f \in Experiments
      PROVE  PositionMoves(r, f)
  <2>1. /\ position'[<<r, f>>].stake = pos[<<r, f>>].stake
        /\ position'[<<r, f>>].reason = pos[<<r, f>>].reason
        /\ position'[<<r, f>>].cash_before = pos[<<r, f>>].cash_before
        /\ pos[<<r, f>>].status = "ABSENT" <=> position'[<<r, f>>].status = "ABSENT"
        /\ pos[<<r, f>>].status # "OPEN" => position'[<<r, f>>] = pos[<<r, f>>]
    BY <1>1, <1>5, PositionsSettled
  <2>2. CASE <<r, f>> # <<s, e>>
    <3>1. pos[<<r, f>>] = position[<<r, f>>]
      BY <1>5, <2>2
    <3> QED
      BY <2>1, <3>1, InvBooks DEF PositionMoves
  <2>3. CASE r = s /\ f = e
    BY <1>5, <2>1, <2>3 DEF PositionMoves, t
  <2> QED
    BY <2>2, <2>3
<1> QED
  BY <1>7, <1>8

(* Only PREPARE, PERSIST and settle_map write to the portfolio, as above.    *)
LEMMA StepMovesBooks ==
    ASSUME AiInv, [AiNext]_aiVars
    PROVE  /\ BooksMove
           /\ \A r \in Snapshots, f \in Experiments : PositionMoves(r, f)
<1>1. ASSUME UNCHANGED position
      PROVE  \A r \in Snapshots, f \in Experiments : PositionMoves(r, f)
  BY <1>1, InvBooks DEF PositionMoves
<1>2. CASE UNCHANGED portfolioVars
  <2>1. account' = account /\ position' = position
    BY <1>2 DEF portfolioVars
  <2>2. \A e \in Experiments : account[e].cash \in Nat
    BY InvBooks DEF TablesOK, Account
  <2>3. BooksMove
    BY <2>1, <2>2, InvBooks DEF BooksMove
  <2> QED
    BY <1>1, <2>1, <2>3
<1>3. ASSUME NEW s \in Snapshots, NEW e \in Experiments, Prepare(s, e)
      PROVE  /\ BooksMove
             /\ \A r \in Snapshots, f \in Experiments : PositionMoves(r, f)
  <2>1. account' = [account EXCEPT ![e] = Funded(@)] /\ position' = position
    BY <1>3 DEF Prepare, Prepared, Bankroll
  <2>2. /\ TablesOK(account', position) /\ BooksBalance(account', position)
        /\ \A f \in Experiments \ {e} : account'[f] = account[f]
        /\ account'[e].status # "ABSENT"
        /\ account[e].status # "ABSENT" => account'[e] = account[e]
    <3>1. TablesOK(account, position) /\ BooksBalance(account, position)
      BY InvBooks
    <3>2. PICK new : new = account'
      OBVIOUS
    <3>3. new = [f \in Experiments |-> IF f = e THEN Funded(account[e]) ELSE account[f]]
      BY <2>1, <3>1, <3>2 DEF TablesOK
    <3>4. /\ TablesOK(new, position) /\ BooksBalance(new, position)
          /\ \A f \in Experiments \ {e} : new[f] = account[f]
          /\ new[e].status # "ABSENT"
          /\ account[e].status # "ABSENT" => new[e] = account[e]
      BY <3>1, <3>3, FundingKeepsBooks
    <3> QED
      BY <3>2, <3>4
  <2>3. \A f \in Experiments : account[f].cash \in Nat
    BY InvBooks DEF TablesOK, Account
  <2>4. \A f \in Experiments : account[f].status # "ABSENT" => account'[f] = account[f]
    BY <2>2
  <2>5. BooksMove
    BY <2>1, <2>2, <2>3, <2>4 DEF BooksMove
  <2> QED
    BY <1>1, <2>1, <2>5
<1>4. CASE SettleCommit
  <2>1. /\ position' = SettledPositions(position, settler.map, settler.outcome, settler.found)
        /\ account' = SettledAccounts(account, position, settler.map, settler.outcome, settler.found)
    BY <1>4 DEF SettleCommit
  <2>2. TablesOK(account, position) /\ BooksBalance(account, position)
    BY InvBooks
  <2>3. BooksMove
    BY <2>1, <2>2, SettlingKeepsBooks DEF BooksMove
  <2>4. ASSUME NEW r \in Snapshots, NEW f \in Experiments
        PROVE  PositionMoves(r, f)
    <3>1. /\ position'[<<r, f>>].stake = position[<<r, f>>].stake
          /\ position'[<<r, f>>].reason = position[<<r, f>>].reason
          /\ position'[<<r, f>>].cash_before = position[<<r, f>>].cash_before
          /\ position[<<r, f>>].status = "ABSENT" <=> position'[<<r, f>>].status = "ABSENT"
          /\ position[<<r, f>>].status # "OPEN" => position'[<<r, f>>] = position[<<r, f>>]
      BY <2>1, <2>2, PositionsSettled
    <3> QED
      BY <3>1, InvBooks DEF PositionMoves
  <2> QED
    BY <2>3, <2>4
<1>5. \/ UNCHANGED portfolioVars \/ SettleCommit
      \/ \E s \in Snapshots, e \in Experiments : Commit(s, e) \/ Prepare(s, e)
  <2>1. Elsewhere => UNCHANGED portfolioVars \/ SettleCommit
    BY DEF Elsewhere, Backfill, FanOut, Reconfigure, FactArrives, Resolve, Sweep,
           SettlementWorker, SettleRaises, Settle, aiVars
  <2>2. Crash => UNCHANGED portfolioVars
    BY DEF Crash
  <2>3. ASSUME NEW s \in Snapshots, NEW e \in Experiments,
               Claim(s, e) \/ Infer(s, e) \/ Write(s, e) \/ Dropped(s, e)
        PROVE  UNCHANGED portfolioVars
    BY <2>3 DEF Claim, Infer, Write, Dropped, PrepareRaises, PersistRaises, Cancel
  <2> QED
    BY <2>1, <2>2, <2>3, StepKinds
<1> QED
  BY <1>2, <1>3, <1>4, <1>5, CommitMovesBooks

(* The bankroll that a handler read stays in the account: the lane keeps     *)
(* every other handler of the experiment away from it, and settlements only  *)
(* add to it.                                                                *)
LEMMA BankrollsStayThere ==
    ASSUME AiInv, [AiNext]_aiVars
    PROVE  BankrollsStay'
<1> SUFFICES ASSUME NEW s \in Snapshots, NEW e \in Experiments
             PROVE  /\ InLane(s, e)' => /\ account'[e].status # "ABSENT"
                                        /\ task'[<<s, e>>].bankroll <= account'[e].cash
                    /\ task'[<<s, e>>].pc \in {"answered", "writing"} =>
                           /\ task'[<<s, e>>].answer \in Answer
                           /\ ~ task'[<<s, e>>].existing /\ task'[<<s, e>>].answer.action \in Buys =>
                                  task'[<<s, e>>].answer.halves \in 1..(2 * task'[<<s, e>>].bankroll + 1)
  BY DEF BankrollsStay, Holding, InLane, Places
<1>1. /\ InLane(s, e) => /\ account[e].status # "ABSENT"
                         /\ task[<<s, e>>].bankroll <= account[e].cash
      /\ task[<<s, e>>].pc \in {"answered", "writing"} =>
             /\ task[<<s, e>>].answer \in Answer
             /\ ~ task[<<s, e>>].existing /\ task[<<s, e>>].answer.action \in Buys =>
                    task[<<s, e>>].answer.halves \in 1..(2 * task[<<s, e>>].bankroll + 1)
  BY DEF AiInv, BankrollsStay, Holding, InLane, Places
<1>2. task[<<s, e>>].bankroll \in Nat /\ account[e].cash \in Nat
  BY InvTypes, InvBooks, DecisionIsPair DEF TasksOK, Task, TablesOK, Account
<1>3. account'[e].cash \in Nat
  BY StepMovesBooks DEF BooksMove, TablesOK, Account
<1>4. ASSUME InLane(s, e), ~ Commit(s, e)
      PROVE  account'[e].status # "ABSENT" /\ task[<<s, e>>].bankroll <= account'[e].cash
  <2>1. \A r \in Snapshots : ~ Commit(r, e)
    <3> SUFFICES ASSUME NEW r \in Snapshots, Commit(r, e) PROVE FALSE
      OBVIOUS
    <3>1. InLane(r, e)
      BY CommitEffect DEF InLane
    <3>2. r = s
      BY <1>4, <3>1 DEF AiInv, LanesAreHeld, Holding, InLane
    <3> QED
      BY <1>4, <3>2
  <2> QED
    BY <1>1, <1>2, <1>3, <1>4, <2>1, StepMovesBooks DEF BooksMove
<1>5. CASE Untouched(s, e) /\ ~ Commit(s, e)
  BY <1>1, <1>4, <1>5 DEF Untouched, InLane
<1>6. CASE Ended(s, e) \/ Claim(s, e) \/ Commit(s, e)
  BY <1>6, ClaimEffect, CommitEffect DEF Ended, NoTask, Waiting, InLane
<1>7. CASE Prepare(s, e)
  <2>1. task'[<<s, e>>].pc = "thinking" /\ task'[<<s, e>>].bankroll = Funded(account[e]).cash
    BY <1>7, PrepareEffect
  <2>2. account'[e] = Funded(account[e])
    BY <1>7, InvBooks DEF Prepare, Prepared, Bankroll, TablesOK
  <2>3. account'[e].status # "ABSENT"
    BY <2>2 DEF Funded
  <2> QED
    BY <1>3, <2>1, <2>2, <2>3 DEF InLane
<1>8. CASE Infer(s, e)
  <2>1. ~ Commit(s, e) /\ InLane(s, e)
    BY <1>8, InferEffect, CommitEffect DEF InLane
  <2> QED
    BY <1>4, <1>8, <2>1, InferEffect
<1>9. CASE Write(s, e)
  <2>1. ~ Commit(s, e) /\ InLane(s, e) /\ task[<<s, e>>].pc = "answered"
    BY <1>9, WriteEffect, CommitEffect DEF InLane
  <2> QED
    BY <1>1, <1>4, <1>9, <2>1, WriteEffect
<1> QED
  BY <1>5, <1>6, <1>7, <1>8, <1>9, OneHandlerMoves

(* The lock on the snapshot's row lets one handler at a time read and write  *)
(* its records.                                                              *)
LEMMA WritersStillSeeAll ==
    ASSUME AiInv, [AiNext]_aiVars
    PROVE  WritersSeeAll'
<1> DEFINE Writing(s, e) == task[<<s, e>>].pc = "writing"
<1>1. \A s \in Snapshots, e \in Experiments : Writing(s, e) =>
          /\ task[<<s, e>>].seen = Answered(s) \cup {e}
          /\ \A f \in Experiments : Writing(s, f) => f = e
  BY DEF AiInv, WritersSeeAll
<1>2. ASSUME NEW s \in Snapshots, \A f \in Experiments : ~ Commit(s, f)
      PROVE  Answered(s)' = Answered(s)
  <2>1. \A e \in Experiments : record'[<<s, e>>] # NoAnswer <=> record[<<s, e>>] # NoAnswer
    BY <1>2, RecordsStay
  <2> QED
    BY <2>1 DEF Answered
<1>3. ASSUME NEW s \in Snapshots, NEW e \in Experiments, task'[<<s, e>>].pc = "writing"
      PROVE  Write(s, e) \/ (Untouched(s, e) /\ Writing(s, e))
  <2>1. ~ Ended(s, e) /\ ~ Claim(s, e) /\ ~ Prepare(s, e) /\ ~ Infer(s, e) /\ ~ Commit(s, e)
    BY <1>3, ClaimEffect, PrepareEffect, InferEffect, CommitEffect DEF Ended, NoTask, Waiting
  <2> QED
    BY <1>3, <2>1, OneHandlerMoves DEF Untouched
<1>4. ASSUME NEW s \in Snapshots, NEW e \in Experiments, task'[<<s, e>>].pc = "writing"
      PROVE  /\ task'[<<s, e>>].seen = Answered(s)' \cup {e}
             /\ \A f \in Experiments : task'[<<s, f>>].pc = "writing" => f = e
  <2>1. CASE Untouched(s, e) /\ Writing(s, e)
    <3>1. \A f \in Experiments : ~ Commit(s, f)
      <4> SUFFICES ASSUME NEW f \in Experiments, Commit(s, f) PROVE FALSE
        OBVIOUS
      <4>1. f = e
        <5>1. Writing(s, f)
          BY CommitEffect
        <5> HIDE DEF Writing
        <5> QED
          BY <1>1, <2>1, <5>1
      <4> QED
        BY <1>4, <4>1, CommitEffect DEF NoTask
    <3>2. task'[<<s, e>>].seen = Answered(s)' \cup {e}
      BY <1>1, <1>2, <2>1, <3>1 DEF Untouched
    <3>3. ASSUME NEW f \in Experiments, task'[<<s, f>>].pc = "writing" PROVE f = e
      <4>1. ~ Write(s, f)
        BY <2>1 DEF Write, MayWrite
      <4> QED
        <5>1. Writing(s, f)
          BY <1>3, <3>3, <4>1
        <5> HIDE DEF Writing
        <5> QED
          BY <1>1, <2>1, <5>1
    <3> QED
      BY <3>2, <3>3
  <2>2. CASE Write(s, e)
    <3>1. \A f \in Experiments : ~ Writing(s, f)
      BY <2>2 DEF Write, MayWrite
    <3>2. \A f \in Experiments : ~ Commit(s, f)
      BY <3>1, CommitEffect
    <3>3. task'[<<s, e>>].seen = Answered(s)' \cup {e}
      BY <1>2, <2>2, <3>2, WriteEffect
    <3>4. ASSUME NEW f \in Experiments, task'[<<s, f>>].pc = "writing" PROVE f = e
      <4>1. Write(s, f)
        BY <1>3, <3>1, <3>4
      <4>2. f # e => task'[<<s, f>>] = task[<<s, f>>]
        BY <2>2, OthersStand
      <4> QED
        BY <3>1, <3>4, <4>2
    <3> QED
      BY <3>3, <3>4
  <2> QED
    BY <1>3, <1>4, <2>1, <2>2
<1> QED
  BY <1>4 DEF WritersSeeAll

(* A position is written with its record, and a record by its job.           *)
LEMMA NothingIsLost ==
    ASSUME AiInv, [AiNext]_aiVars
    PROVE  NothingLost' /\ StakesWereCovered'
<1>1. ASSUME NEW s \in Snapshots, NEW e \in Experiments
      PROVE  /\ record'[<<s, e>>] # NoAnswer => job'[<<s, e>>].status # "ABSENT"
             /\ position'[<<s, e>>].status # "ABSENT" => record'[<<s, e>>] # NoAnswer
             /\ position'[<<s, e>>].reason = "INSUFFICIENT_CASH" =>
                    position'[<<s, e>>].stake = position'[<<s, e>>].cash_before + 1
  <2>1. /\ record[<<s, e>>] # NoAnswer => job[<<s, e>>].status # "ABSENT"
        /\ position[<<s, e>>].status # "ABSENT" => record[<<s, e>>] # NoAnswer
    BY DEF AiInv, NothingLost
  <2>2. Commit(s, e) => job'[<<s, e>>].status = "SUCCEEDED" /\ record'[<<s, e>>] # NoAnswer
    BY CommitEffect, AnswersAreReal
  <2>3. PositionMoves(s, e)
    BY StepMovesBooks
  <2> QED
    BY <2>1, <2>2, <2>3, RecordsStay DEF PositionMoves
<1>2. StakesWereCovered'
  BY <1>1, DecisionIsPair DEF StakesWereCovered
<1> QED
  BY <1>1, <1>2 DEF NothingLost

(* settle_map and _reconcile_settlements only ever work on a map whose       *)
(* winner has been published.                                                *)
LEMMA ResultsStayKnown ==
    ASSUME AiInv, [AiNext]_aiVars
    PROVE  ResultsAreKnown' /\ SettlementsOK'
<1>1. /\ fact \in [Maps -> Sides \cup {"NONE"}] /\ evidence \in [Maps -> SUBSET Sides]
      /\ settleJob \in [Maps \X Sources -> {"ABSENT", "READY", "RUNNING", "SUCCEEDED", "FAILED"}]
      /\ settler \in [map: Maps \cup {"NONE"}, source: Sources, outcome: Outcomes \cup {"NONE"},
                      creates: BOOLEAN, found: SUBSET Experiments]
  BY InvTypes DEF SettlementsOK
<1>2. /\ \A m \in Maps, f \in Sources : settleJob[<<m, f>>] # "ABSENT" => fact[m] # "NONE"
      /\ settler # NoSettler => /\ settler.map \in Maps /\ fact[settler.map] # "NONE"
                                /\ settler.creates => settler.outcome \in Sides
  BY DEF AiInv, ResultsAreKnown
<1>3. NoSettler \in [map: Maps \cup {"NONE"}, source: Sources, outcome: Outcomes \cup {"NONE"},
                     creates: BOOLEAN, found: SUBSET Experiments]
  BY DEF NoSettler, Sources
<1>4. CASE UNCHANGED settlementVars
  BY <1>1, <1>2, <1>4 DEF ResultsAreKnown, SettlementsOK, settlementVars
<1>5. CASE Crash
  <2>1. /\ fact' = fact /\ evidence' = evidence /\ settler' = NoSettler
        /\ settleJob' = [j \in Maps \X Sources |-> IF settleJob[j] = "RUNNING" THEN "READY" ELSE settleJob[j]]
    BY <1>5 DEF Crash
  <2>2. \A m \in Maps, f \in Sources : settleJob'[<<m, f>>] # "ABSENT" => settleJob[<<m, f>>] # "ABSENT"
    BY <2>1
  <2>3. ResultsAreKnown'
    BY <1>2, <2>1, <2>2 DEF ResultsAreKnown
  <2> QED
    BY <1>1, <1>3, <2>1, <2>3 DEF SettlementsOK
<1>6. ASSUME NEW m \in Maps, NEW w \in Winners, FactArrives(m, w)
      PROVE  ResultsAreKnown' /\ SettlementsOK'
  <2>1. w \in Sides /\ w # "NONE"
    BY AiDecisionsAssumption DEF Sides
  <2>2. /\ evidence' = evidence /\ settler' = settler /\ settleJob' = settleJob
        /\ fact' = [fact EXCEPT ![m] = w]
    BY <1>6 DEF FactArrives
  <2>3. \A r \in Maps : fact[r] # "NONE" => fact'[r] # "NONE"
    BY <1>1, <2>1, <2>2
  <2>4. fact' \in [Maps -> Sides \cup {"NONE"}]
    BY <1>1, <2>1, <2>2
  <2> QED
    BY <1>1, <1>2, <2>2, <2>3, <2>4 DEF ResultsAreKnown, SettlementsOK
<1>7. ASSUME NEW m \in Maps, NEW w \in Winners, Resolve(m, w)
      PROVE  ResultsAreKnown' /\ SettlementsOK'
  <2> DEFINE j == <<m, "event">>
  <2>1. w \in Sides /\ j \in Maps \X Sources /\ fact[m] # "NONE"
    BY <1>7, AiDecisionsAssumption DEF Sources, Resolve
  <2>2. /\ evidence' = [evidence EXCEPT ![m] = @ \cup {w}] /\ settler' = settler /\ fact' = fact
        /\ settleJob' = [settleJob EXCEPT ![j] = IF @ = "ABSENT" THEN "READY" ELSE @]
    BY <1>7 DEF Resolve
  <2>3. \A r \in Maps, f \in Sources : settleJob'[<<r, f>>] # "ABSENT" => settleJob[<<r, f>>] # "ABSENT" \/ r = m
    <3> SUFFICES ASSUME NEW r \in Maps, NEW f \in Sources, r # m
                 PROVE  settleJob'[<<r, f>>] = settleJob[<<r, f>>]
      OBVIOUS
    <3>1. PICK q : q = <<r, f>>
      OBVIOUS
    <3>2. q # j /\ q \in Maps \X Sources
      BY <3>1
    <3> HIDE DEF j
    <3> QED
      BY <1>1, <2>1, <2>2, <3>1, <3>2
  <2> HIDE DEF j
  <2>4. settleJob' \in [Maps \X Sources -> {"ABSENT", "READY", "RUNNING", "SUCCEEDED", "FAILED"}]
    BY <1>1, <2>1, <2>2
  <2>5. evidence' \in [Maps -> SUBSET Sides]
    BY <1>1, <2>1, <2>2
  <2>6. ResultsAreKnown'
    BY <1>2, <2>1, <2>2, <2>3 DEF ResultsAreKnown
  <2> QED
    BY <1>1, <2>2, <2>4, <2>5, <2>6 DEF SettlementsOK
<1>8. ASSUME NEW m \in Maps, NEW f \in Sources, NEW st \in {"READY", "RUNNING", "SUCCEEDED", "FAILED"},
             fact[m] # "NONE", fact' = fact, settleJob' = [settleJob EXCEPT ![<<m, f>>] = st]
      PROVE  /\ \A r \in Maps, g \in Sources : settleJob'[<<r, g>>] # "ABSENT" => fact'[r] # "NONE"
             /\ settleJob' \in [Maps \X Sources -> {"ABSENT", "READY", "RUNNING", "SUCCEEDED", "FAILED"}]
  <2> DEFINE j == <<m, f>>
  <2>1. settleJob' = [settleJob EXCEPT ![j] = st] /\ j \in Maps \X Sources
    BY <1>8
  <2>2. \A r \in Maps, g \in Sources : r # m => settleJob'[<<r, g>>] = settleJob[<<r, g>>]
    <3> SUFFICES ASSUME NEW r \in Maps, NEW g \in Sources, r # m
                 PROVE  settleJob'[<<r, g>>] = settleJob[<<r, g>>]
      OBVIOUS
    <3>1. PICK q : q = <<r, g>>
      OBVIOUS
    <3>2. q # j /\ q \in Maps \X Sources
      BY <3>1
    <3> HIDE DEF j
    <3> QED
      BY <1>1, <2>1, <3>1, <3>2
  <2> HIDE DEF j
  <2>3. settleJob' \in [Maps \X Sources -> {"ABSENT", "READY", "RUNNING", "SUCCEEDED", "FAILED"}]
    BY <1>1, <2>1
  <2> QED
    BY <1>2, <1>8, <2>2, <2>3
<1>9. ASSUME NEW m \in Maps, Sweep(m)
      PROVE  ResultsAreKnown' /\ SettlementsOK'
  <2>1. /\ settleJob' = [settleJob EXCEPT ![<<m, "sweep">>] = "READY"] /\ fact[m] # "NONE"
        /\ fact' = fact /\ evidence' = evidence /\ settler' = settler /\ "sweep" \in Sources
    BY <1>9 DEF Sweep, Sources
  <2>2. /\ \A r \in Maps, g \in Sources : settleJob'[<<r, g>>] # "ABSENT" => fact'[r] # "NONE"
        /\ settleJob' \in [Maps \X Sources -> {"ABSENT", "READY", "RUNNING", "SUCCEEDED", "FAILED"}]
    BY <1>8, <2>1
  <2> QED
    BY <1>1, <1>2, <2>1, <2>2 DEF ResultsAreKnown, SettlementsOK
<1>10. ASSUME NEW m \in Maps, NEW f \in Sources, Settle(m, f)
       PROVE  ResultsAreKnown' /\ SettlementsOK'
  <2>1. /\ settleJob' = [settleJob EXCEPT ![<<m, f>>] = "RUNNING"] /\ fact' = fact /\ evidence' = evidence
        /\ settleJob[<<m, f>>] = "READY"
    BY <1>10 DEF Settle
  <2>2. fact[m] # "NONE"
    BY <1>2, <2>1
  <2>3. /\ \A r \in Maps, g \in Sources : settleJob'[<<r, g>>] # "ABSENT" => fact'[r] # "NONE"
        /\ settleJob' \in [Maps \X Sources -> {"ABSENT", "READY", "RUNNING", "SUCCEEDED", "FAILED"}]
    BY <1>8, <2>1, <2>2
  <2> DEFINE outcome == IF evidence[m] = {} THEN fact[m] ELSE ResultOf(evidence[m])
             found == OpenAccounts(position, m)
  <2>4. outcome \in Outcomes \cup {"NONE"} /\ (evidence[m] = {} => outcome \in Sides)
    <3>1. fact[m] \in Sides /\ evidence[m] \subseteq Sides
      BY <1>1, <2>2
    <3>2. ResultOf(evidence[m]) \in Outcomes \cup {"NONE"}
      BY <3>1 DEF ResultOf, Outcomes
    <3> QED
      BY <3>1, <3>2 DEF Outcomes
  <2>5. found \in SUBSET Experiments
    BY DecisionIsPair DEF OpenAccounts, OpenOn
  <2>6. settler' = [map |-> m, source |-> f, outcome |-> outcome, creates |-> evidence[m] = {}, found |-> found]
    BY <1>10 DEF Settle
  <2> HIDE DEF outcome, found
  <2>7. /\ settler' \in [map: Maps \cup {"NONE"}, source: Sources, outcome: Outcomes \cup {"NONE"},
                         creates: BOOLEAN, found: SUBSET Experiments]
        /\ settler'.map = m /\ settler'.outcome = outcome /\ (settler'.creates => evidence[m] = {})
    BY <2>4, <2>5, <2>6
  <2> QED
    BY <1>1, <2>1, <2>2, <2>3, <2>4, <2>7 DEF ResultsAreKnown, SettlementsOK
<1>11. ASSUME settler # NoSettler, settler' = NoSettler, fact' = fact,
              NEW st \in {"READY", "SUCCEEDED", "FAILED"},
              settleJob' = [settleJob EXCEPT ![<<settler.map, settler.source>>] = st],
              evidence' \in [Maps -> SUBSET Sides]
       PROVE  ResultsAreKnown' /\ SettlementsOK'
  <2>1. PICK m \in Maps, f \in Sources : m = settler.map /\ f = settler.source /\ fact[m] # "NONE"
    BY <1>1, <1>2, <1>11
  <2>2. settleJob' = [settleJob EXCEPT ![<<m, f>>] = st]
    BY <1>11, <2>1
  <2>3. /\ \A r \in Maps, g \in Sources : settleJob'[<<r, g>>] # "ABSENT" => fact'[r] # "NONE"
        /\ settleJob' \in [Maps \X Sources -> {"ABSENT", "READY", "RUNNING", "SUCCEEDED", "FAILED"}]
    BY <1>8, <1>11, <2>1, <2>2
  <2> QED
    BY <1>1, <1>3, <1>11, <2>3 DEF ResultsAreKnown, SettlementsOK
<1>12. CASE SettleCommit
  <2>1. evidence' = [evidence EXCEPT ![settler.map] = IF settler.creates THEN {settler.outcome} ELSE @]
        /\ settler # NoSettler
    BY <1>12 DEF SettleCommit
  <2>2. evidence' \in [Maps -> SUBSET Sides]
    BY <1>1, <1>2, <2>1
  <2> QED
    BY <1>11, <1>12, <2>2 DEF SettleCommit, decisionVars
<1>13. CASE SettleRaises
  BY <1>1, <1>11, <1>13 DEF SettleRaises
<1>14. \/ UNCHANGED settlementVars \/ Crash \/ SettleCommit \/ SettleRaises
       \/ \E m \in Maps, w \in Winners : FactArrives(m, w) \/ Resolve(m, w)
       \/ \E m \in Maps : Sweep(m) \/ \E f \in Sources : Settle(m, f)
  <2>1. ASSUME NEW s \in Snapshots, NEW e \in Experiments,
               \/ Claim(s, e) \/ Prepare(s, e) \/ Infer(s, e) \/ Write(s, e) \/ Commit(s, e)
               \/ Dropped(s, e) \/ Backfill(s, e) \/ FanOut(s) \/ Reconfigure(e)
        PROVE  UNCHANGED settlementVars
    BY <2>1 DEF Claim, Prepare, Prepared, Bankroll, Infer, Write, Commit, Dropped, PrepareRaises, PersistRaises, Cancel,
                Backfill, FanOut, Reconfigure
  <2>2. ASSUME NEW s \in Snapshots, FanOut(s) PROVE UNCHANGED settlementVars
    BY <2>2 DEF FanOut
  <2>3. ASSUME NEW e \in Experiments, Reconfigure(e) PROVE UNCHANGED settlementVars
    BY <2>3 DEF Reconfigure
  <2>4. UNCHANGED aiVars => UNCHANGED settlementVars
    BY DEF aiVars, settlementVars
  <2> QED
    BY <2>1, <2>2, <2>3, <2>4, StepKinds DEF Elsewhere, SettlementWorker
<1> QED
  BY <1>4, <1>5, <1>6, <1>7, <1>9, <1>10, <1>12, <1>13, <1>14

-----------------------------------------------------------------------------
(* _prepare_decision_notifications: a batch that was prepared stays, and a   *)
(* first BUY of the experiments that were seen is in one afterwards.         *)
Batch == [snapshot: Snapshots, who: SUBSET Experiments]

Prolongs(new, old) == \A i \in DOMAIN old : i \in DOMAIN new /\ new[i] = old[i]

(* WithBatch keeps the batches there are, and adds a first BUY.              *)
LEMMA BatchesOnlyGrow ==
    ASSUME NEW batches \in Seq(Batch), NEW rec, NEW s \in Snapshots, NEW seen \in SUBSET Experiments,
           NEW new, new = WithBatch(batches, rec, s, seen)
    PROVE  /\ new \in Seq(Batch) /\ Prolongs(new, batches)
           /\ \A e \in seen :
                  TimelyBuy(rec, <<s, e>>) /\ PriorBuys(rec, s, e) = {} =>
                      \E i \in DOMAIN new : new[i].snapshot = s /\ e \in new[i].who
<1> DEFINE who == {e \in seen : rec[<<s, e>>].timely}
           batch == [snapshot |-> s, who |-> who]
           news == /\ \E e \in who : /\ TimelyBuy(rec, <<s, e>>)
                                     /\ PriorAction(rec, s, e) # rec[<<s, e>>].action
                   /\ \A i \in DOMAIN batches : batches[i] # batch
<1>1. batch \in Batch /\ batch.snapshot = s /\ batch.who = who
  BY DEF Batch
<1>2. new = IF news THEN Append(batches, batch) ELSE batches
  BY DEF WithBatch
<1>3. \A e \in seen : TimelyBuy(rec, <<s, e>>) => e \in who
  BY DEF TimelyBuy
<1>4. \A e \in seen : TimelyBuy(rec, <<s, e>>) /\ PriorBuys(rec, s, e) = {} =>
          PriorAction(rec, s, e) # rec[<<s, e>>].action
  BY DEF TimelyBuy, PriorAction, Buys
<1>5. CASE news
  <2>1. new = Append(batches, batch)
    BY <1>2, <1>5
  <2> HIDE DEF batch, who, news
  <2>2. /\ new \in Seq(Batch) /\ Len(new) = Len(batches) + 1 /\ new[Len(batches) + 1] = batch
        /\ \A i \in 1..Len(batches) : new[i] = batches[i]
    BY <1>1, <2>1, AppendProperties
  <2>3. DOMAIN new = 1..(Len(batches) + 1) /\ DOMAIN batches = 1..Len(batches) /\ Len(batches) \in Nat
    BY <2>2, LenProperties
  <2>4. Prolongs(new, batches)
    BY <2>2, <2>3 DEF Prolongs
  <2>5. Len(batches) + 1 \in DOMAIN new
    BY <2>3
  <2> QED
    BY <1>1, <1>3, <2>2, <2>4, <2>5
<1>6. CASE ~ news
  <2>1. new = batches
    BY <1>2, <1>6
  <2>2. ASSUME NEW e \in seen, TimelyBuy(rec, <<s, e>>), PriorBuys(rec, s, e) = {}
        PROVE  \E i \in DOMAIN new : new[i].snapshot = s /\ e \in new[i].who
    <3>1. e \in who /\ PriorAction(rec, s, e) # rec[<<s, e>>].action
      BY <1>3, <1>4, <2>2
    <3>2. PICK i \in DOMAIN batches : batches[i] = batch
      BY <1>6, <2>2, <3>1
    <3> QED
      BY <1>1, <2>1, <3>1, <3>2
  <2>3. Prolongs(new, batches)
    BY <2>1 DEF Prolongs
  <2> QED
    BY <2>1, <2>2, <2>3
<1> QED
  BY <1>5, <1>6

(* The commit of PERSIST: the records of the snapshot are those it has seen, *)
(* and when those it waits for are among them, the batch is judged.          *)
LEMMA CommitJudges ==
    ASSUME AiInv, NEW s \in Snapshots, NEW e \in Experiments, Commit(s, e)
    PROVE  /\ Jobs(s)' = Jobs(s) /\ Answered(s)' = task[<<s, e>>].seen
           /\ task[<<s, e>>].expected \subseteq Jobs(s)
           /\ \A r \in Snapshots : r # s => judged'[r] = judged[r]
           /\ \A m \in Maps : m # MapOf[s] => sent'[m] = sent[m]
           /\ BatchComplete(s, e) =>
                  /\ judged'[s] = task[<<s, e>>].seen
                  /\ sent'[MapOf[s]] = WithBatch(sent[MapOf[s]], record', s, task[<<s, e>>].seen)
           /\ ~ BatchComplete(s, e) => UNCHANGED <<judged, sent>>
           /\ BatchesOK'
<1>1. /\ judged \in [Snapshots -> SUBSET Experiments] /\ sent \in [Maps -> Seq(Batch)]
      /\ MapOf[s] \in Maps /\ task[<<s, e>>].seen \in SUBSET Experiments
      /\ task[<<s, e>>].pc = "writing"
  BY InvTypes, DecisionIsPair, CommitEffect, PortfolioAssumption
     DEF BatchesOK, Batch, TasksOK, Task
<1>2. /\ task[<<s, e>>].seen = Answered(s) \cup {e}
      /\ task[<<s, e>>].expected \subseteq Jobs(s)
  BY <1>1 DEF AiInv, WritersSeeAll, HandlersKnowTheirJob, Holding
<1>3. \A f \in Experiments : f # e => record'[<<s, f>>] = record[<<s, f>>] /\ job'[<<s, f>>] = job[<<s, f>>]
  BY OthersStand
<1>4. /\ record'[<<s, e>>] # NoAnswer /\ job'[<<s, e>>].status = "SUCCEEDED"
      /\ job[<<s, e>>].status = "RUNNING"
  BY <1>1, CommitEffect, AnswersAreReal DEF AiInv, HandlersKnowTheirJob
<1>5. Jobs(s)' = Jobs(s) /\ Answered(s)' = task[<<s, e>>].seen
  <2>1. \A f \in Experiments : job'[<<s, f>>].status # "ABSENT" <=> job[<<s, f>>].status # "ABSENT"
    BY <1>3, <1>4
  <2>2. \A f \in Experiments : record'[<<s, f>>] # NoAnswer <=> record[<<s, f>>] # NoAnswer \/ f = e
    BY <1>3, <1>4
  <2> QED
    BY <1>2, <2>1, <2>2 DEF Jobs, Answered
<1>6. IF BatchComplete(s, e)
      THEN /\ judged' = [judged EXCEPT ![s] = task[<<s, e>>].seen]
           /\ sent' = [sent EXCEPT ![MapOf[s]] =
                           WithBatch(@, record', s, task[<<s, e>>].seen)]
      ELSE UNCHANGED <<judged, sent>>
  BY DEF Commit
<1>7. PICK b : b = WithBatch(sent[MapOf[s]], record', s, task[<<s, e>>].seen)
  OBVIOUS
<1>8. b \in Seq(Batch)
  BY <1>1, <1>7, BatchesOnlyGrow
<1>9. CASE BatchComplete(s, e)
  <2>1. sent' = [sent EXCEPT ![MapOf[s]] = b] /\ judged' = [judged EXCEPT ![s] = task[<<s, e>>].seen]
    BY <1>1, <1>6, <1>7, <1>9
  <2> QED
    BY <1>1, <1>2, <1>5, <1>7, <1>8, <1>9, <2>1 DEF BatchesOK, Batch
<1>10. CASE ~ BatchComplete(s, e)
  BY <1>1, <1>2, <1>5, <1>6, <1>10 DEF BatchesOK, Batch
<1> QED
  BY <1>9, <1>10

(* Only a commit of the snapshot touches its records and batches; before and *)
(* after any other step its jobs, once all are decided, are the same.        *)
LEMMA OthersLeaveBatches ==
    ASSUME AiInv, [AiNext]_aiVars
    PROVE  /\ BatchesOK'
           /\ \A m \in Maps : Prolongs(sent'[m], sent[m])
           /\ \A s \in Snapshots : (\A e \in Experiments : ~ Commit(s, e)) =>
                  /\ judged'[s] = judged[s] /\ Answered(s)' = Answered(s)
                  /\ Jobs(s)' \subseteq Answered(s)' => Jobs(s)' = Jobs(s)
<1>1. BatchesOK
  BY InvTypes
<1>2. ASSUME NEW s \in Snapshots, \A e \in Experiments : ~ Commit(s, e)
      PROVE  /\ Answered(s)' = Answered(s)
             /\ Jobs(s)' \subseteq Answered(s)' => Jobs(s)' = Jobs(s)
  <2>1. \A e \in Experiments : record'[<<s, e>>] # NoAnswer <=> record[<<s, e>>] # NoAnswer
    BY <1>2, RecordsStay
  <2>2. Answered(s)' = Answered(s)
    BY <2>1 DEF Answered
  <2>3. Answered(s) \subseteq Jobs(s)
    BY DEF AiInv, NothingLost, Answered, Jobs
  <2> QED
    BY <2>2, <2>3, JobsStay
<1>3. CASE UNCHANGED <<judged, sent>>
  BY <1>1, <1>2, <1>3 DEF BatchesOK, Prolongs
<1>4. ASSUME NEW s \in Snapshots, NEW e \in Experiments, Commit(s, e)
      PROVE  /\ BatchesOK'
             /\ \A m \in Maps : Prolongs(sent'[m], sent[m])
             /\ \A r \in Snapshots : r # s => judged'[r] = judged[r]
  <2>1. /\ BatchesOK' /\ \A r \in Snapshots : r # s => judged'[r] = judged[r]
        /\ \A m \in Maps : m # MapOf[s] => sent'[m] = sent[m]
        /\ BatchComplete(s, e) =>
               sent'[MapOf[s]] = WithBatch(sent[MapOf[s]], record', s, task[<<s, e>>].seen)
        /\ ~ BatchComplete(s, e) => UNCHANGED <<judged, sent>>
    BY <1>4, CommitJudges
  <2>2. sent[MapOf[s]] \in Seq(Batch) /\ task[<<s, e>>].seen \in SUBSET Experiments
    BY <1>1, InvTypes, DecisionIsPair, PortfolioAssumption DEF BatchesOK, Batch, TasksOK, Task
  <2>3. ASSUME NEW m \in Maps
        PROVE  Prolongs(sent'[m], sent[m])
    <3>1. CASE m # MapOf[s] \/ ~ BatchComplete(s, e)
      BY <2>1, <3>1 DEF Prolongs
    <3>2. CASE m = MapOf[s] /\ BatchComplete(s, e)
      <4>1. PICK batches \in Seq(Batch), seen \in SUBSET Experiments :
                batches = sent[m] /\ seen = task[<<s, e>>].seen
        BY <2>2, <3>2
      <4> PICK rec : rec = record'
        OBVIOUS
      <4>2. PICK new : new = WithBatch(batches, rec, s, seen)
        OBVIOUS
      <4>3. Prolongs(new, batches)
        BY <4>1, <4>2, BatchesOnlyGrow
      <4>4. sent'[m] = new
        BY <2>1, <3>2, <4>1, <4>2
      <4> QED
        BY <4>1, <4>3, <4>4
    <3> QED
      BY <3>1, <3>2
  <2> QED
    BY <2>1, <2>3
<1>5. UNCHANGED <<judged, sent>> \/ \E s \in Snapshots, e \in Experiments : Commit(s, e)
  <2>1. Elsewhere => UNCHANGED <<judged, sent>>
    BY DEF Elsewhere, Backfill, FanOut, Reconfigure, FactArrives, Resolve, Sweep,
           SettlementWorker, SettleCommit, SettleRaises, Settle, aiVars, decisionVars
  <2>2. Crash => UNCHANGED <<judged, sent>>
    BY DEF Crash
  <2>3. ASSUME NEW s \in Snapshots, NEW e \in Experiments,
               Claim(s, e) \/ Prepare(s, e) \/ Infer(s, e) \/ Write(s, e) \/ Dropped(s, e)
        PROVE  UNCHANGED <<judged, sent>>
    BY <2>3 DEF Claim, Prepare, Prepared, Bankroll, Infer, Write, Dropped, PrepareRaises, PersistRaises, Cancel
  <2> QED
    BY <2>1, <2>2, <2>3, StepKinds
<1>6. CASE \E s \in Snapshots, e \in Experiments : Commit(s, e)
  BY <1>2, <1>4, <1>6
<1> QED
  BY <1>3, <1>5, <1>6

(* A commit that leaves every job of the snapshot decided has judged all of  *)
(* them, and has sent their first BUYs.                                      *)
LEMMA CommitCompletes ==
    ASSUME AiInv, NEW s \in Snapshots, NEW e \in Experiments, Commit(s, e),
           Jobs(s)' \subseteq Answered(s)', [AiNext]_aiVars
    PROVE  /\ judged'[s] = Jobs(s)'
           /\ \A f \in Experiments :
                  TimelyBuy(record', <<s, f>>) /\ PriorBuys(record', s, f) = {} =>
                      \E i \in DOMAIN sent'[MapOf[s]] :
                          sent'[MapOf[s]][i].snapshot = s /\ f \in sent'[MapOf[s]][i].who
<1>1. /\ Jobs(s)' = Jobs(s) /\ Answered(s)' = task[<<s, e>>].seen
      /\ task[<<s, e>>].expected \subseteq Jobs(s)
      /\ BatchComplete(s, e) =>
             /\ judged'[s] = task[<<s, e>>].seen
             /\ sent'[MapOf[s]] = WithBatch(sent[MapOf[s]], record', s, task[<<s, e>>].seen)
  BY CommitJudges
<1>2. BatchComplete(s, e)
  BY <1>1 DEF BatchComplete
<1>3. Answered(s)' \subseteq Jobs(s)'
  BY NothingIsLost DEF NothingLost, Answered, Jobs
<1>4. ASSUME NEW f \in Experiments, TimelyBuy(record', <<s, f>>), PriorBuys(record', s, f) = {}
      PROVE  \E i \in DOMAIN sent'[MapOf[s]] :
                 sent'[MapOf[s]][i].snapshot = s /\ f \in sent'[MapOf[s]][i].who
  <2>1. sent[MapOf[s]] \in Seq(Batch) /\ task[<<s, e>>].seen \in SUBSET Experiments
    BY InvTypes, DecisionIsPair, PortfolioAssumption DEF BatchesOK, Batch, TasksOK, Task
  <2>2. f \in task[<<s, e>>].seen
    <3>1. record'[<<s, f>>] # NoAnswer
      BY <1>4 DEF TimelyBuy, Buys, NoAnswer
    <3> QED
      BY <1>1, <3>1 DEF Answered
  <2>3. PICK batches \in Seq(Batch), seen \in SUBSET Experiments :
            batches = sent[MapOf[s]] /\ seen = task[<<s, e>>].seen
    BY <2>1
  <2> PICK rec : rec = record'
    OBVIOUS
  <2>4. PICK new : new = WithBatch(batches, rec, s, seen)
    OBVIOUS
  <2>5. TimelyBuy(rec, <<s, f>>) /\ PriorBuys(rec, s, f) = {} /\ f \in seen
    BY <1>4, <2>2, <2>3
  <2>6. \E i \in DOMAIN new : new[i].snapshot = s /\ f \in new[i].who
    BY <2>4, <2>5, BatchesOnlyGrow
  <2>7. sent'[MapOf[s]] = new
    BY <1>1, <1>2, <2>3, <2>4
  <2> QED
    BY <2>6, <2>7
<1> QED
  BY <1>1, <1>2, <1>3, <1>4

(* Whichever commit decides the last job of a snapshot has judged its batch. *)
LEMMA BuysStaySent ==
    ASSUME AiInv, [AiNext]_aiVars
    PROVE  NoBatchForgotten' /\ FirstBuyIsSent'
<1>1. ASSUME NEW s \in Snapshots, Jobs(s)' # {}, Jobs(s)' \subseteq Answered(s)'
      PROVE  judged'[s] = Jobs(s)'
  <2>1. CASE \E e \in Experiments : Commit(s, e)
    BY <1>1, <2>1, CommitCompletes
  <2>2. CASE \A e \in Experiments : ~ Commit(s, e)
    <3>1. judged'[s] = judged[s] /\ Answered(s)' = Answered(s) /\ Jobs(s)' = Jobs(s)
      BY <1>1, <2>2, OthersLeaveBatches
    <3> QED
      BY <1>1, <3>1 DEF AiInv, NoBatchForgotten
  <2> QED
    BY <2>1, <2>2
<1>2. ASSUME NEW s \in Snapshots, NEW e \in Experiments, Jobs(s)' \subseteq Answered(s)',
             TimelyBuy(record', <<s, e>>),
             \A r \in Snapshots : r < s /\ MapOf[r] = MapOf[s] => ~ TimelyBuy(record', <<r, e>>)
      PROVE  \E i \in DOMAIN sent'[MapOf[s]] :
                 sent'[MapOf[s]][i].snapshot = s /\ e \in sent'[MapOf[s]][i].who
  <2>1. CASE \E f \in Experiments : Commit(s, f)
    <3>1. PriorBuys(record', s, e) = {}
      BY <1>2 DEF PriorBuys
    <3> QED
      BY <1>2, <2>1, <3>1, CommitCompletes
  <2>2. CASE \A f \in Experiments : ~ Commit(s, f)
    <3>1. Answered(s)' = Answered(s) /\ Jobs(s)' = Jobs(s)
      BY <1>2, <2>2, OthersLeaveBatches
    <3>2. TimelyBuy(record, <<s, e>>)
      <4>1. record'[<<s, e>>] # NoAnswer
        BY <1>2 DEF TimelyBuy, Buys, NoAnswer
      <4>2. record'[<<s, e>>] = record[<<s, e>>]
        BY <2>2, <4>1, RecordsStay
      <4> QED
        BY <1>2, <4>2 DEF TimelyBuy
    <3>3. ASSUME NEW r \in Snapshots, r < s, MapOf[r] = MapOf[s], TimelyBuy(record, <<r, e>>)
          PROVE  FALSE
      <4>1. record[<<r, e>>] # NoAnswer
        BY <3>3 DEF TimelyBuy, Buys, NoAnswer
      <4>2. record'[<<r, e>>] = record[<<r, e>>]
        BY <4>1, RecordsStay
      <4> QED
        BY <1>2, <3>3, <4>2 DEF TimelyBuy
    <3>4. PICK i \in DOMAIN sent[MapOf[s]] :
              sent[MapOf[s]][i].snapshot = s /\ e \in sent[MapOf[s]][i].who
      BY <1>2, <3>1, <3>2, <3>3 DEF AiInv, FirstBuyIsSent
    <3>5. MapOf[s] \in Maps
      BY PortfolioAssumption
    <3>6. i \in DOMAIN sent'[MapOf[s]] /\ sent'[MapOf[s]][i] = sent[MapOf[s]][i]
      BY <3>4, <3>5, OthersLeaveBatches DEF Prolongs
    <3> QED
      BY <3>4, <3>6
  <2> QED
    BY <2>1, <2>2
<1>3. NoBatchForgotten'
  BY <1>1 DEF NoBatchForgotten
<1>4. FirstBuyIsSent'
  BY <1>2 DEF FirstBuyIsSent, TimelyBuy
<1> QED
  BY <1>3, <1>4

-----------------------------------------------------------------------------
(* Nothing has happened yet when the event begins.                           *)
LEMMA InvInit == AiInit => AiInv
<1> SUFFICES ASSUME AiInit PROVE AiInv
  OBVIOUS
<1>1. PortfolioTypeOK
  BY DEF AiInit, PortfolioInit, PortfolioTypeOK, NoAccount, NoPosition, Account, Position
<1>2. \A s \in Snapshots, e \in Experiments :
          /\ task[<<s, e>>] = NoTask /\ record[<<s, e>>] = NoAnswer
          /\ job[<<s, e>>] = [status |-> "ABSENT", left |-> 0] /\ position[<<s, e>>] = NoPosition
  BY DecisionIsPair DEF AiInit, PortfolioInit
<1>3. AiTypeOK
  <2>1. JobsOK
    BY AiDecisionsAssumption DEF AiInit, JobsOK, JobRow
  <2>2. LanesOK
    BY DEF AiInit, LanesOK, Lane, FreeLane
  <2>3. TasksOK
    BY DEF AiInit, TasksOK, Task, NoTask
  <2>4. RecordsOK
    BY DEF AiInit, RecordsOK
  <2>5. BatchesOK
    <3>1. <<>> \in Seq(Batch)
      OBVIOUS
    <3> QED
      BY <3>1 DEF AiInit, BatchesOK, Batch
  <2>6. SettlementsOK
    BY DEF AiInit, SettlementsOK, NoSettler, Sources
  <2>7. enabled \subseteq Experiments /\ aiFaults \in 0..MaxAiFaults
    BY AiDecisionsAssumption DEF AiInit
  <2> QED
    BY <1>1, <2>1, <2>2, <2>3, <2>4, <2>5, <2>6, <2>7, TypesByTable
<1>4. \A s \in Snapshots, e \in Experiments : ~ Holding(<<s, e>>) /\ task[<<s, e>>].pc = "idle"
  <2> SUFFICES ASSUME NEW s \in Snapshots, NEW e \in Experiments
               PROVE  ~ Holding(<<s, e>>) /\ task[<<s, e>>].pc = "idle"
    OBVIOUS
  <2>1. task[<<s, e>>].pc = "idle"
    BY <1>2 DEF NoTask
  <2> QED
    BY <2>1 DEF Holding
<1>5. HandlersKnowTheirJob /\ WritersSeeAll /\ BankrollsStay
  BY <1>4 DEF HandlersKnowTheirJob, WritersSeeAll, BankrollsStay
<1>6. LanesAreHeld
  <2>1. \A e \in Experiments : lane[e].active = FALSE
    BY DEF AiInit, FreeLane
  <2> QED
    BY <1>4, <2>1 DEF LanesAreHeld
<1>7. NothingLost
  <2> SUFFICES ASSUME NEW s \in Snapshots, NEW e \in Experiments
               PROVE  record[<<s, e>>] = NoAnswer /\ position[<<s, e>>].status = "ABSENT"
    BY DEF NothingLost
  <2> QED
    BY <1>2 DEF NoPosition
<1>8. ResultsAreKnown
  BY DEF AiInit, ResultsAreKnown, Sources
<1>9. BooksBalance(account, position)
  <2>1. \A e \in Experiments : account[e].status = "ABSENT"
    BY DEF AiInit, PortfolioInit, NoAccount
  <2>2. \A e \in Experiments : OpenBets(position, e) = {}
    BY <1>2 DEF OpenBets, NoPosition
  <2> QED
    BY <2>1, <2>2 DEF BooksBalance
<1>10. StakesWereCovered
  <2>1. \A d \in Decisions : position[d].reason = "NONE"
    BY DEF AiInit, PortfolioInit, NoPosition
  <2> QED
    BY <2>1 DEF StakesWereCovered
<1>11. NoBatchForgotten /\ FirstBuyIsSent
  <2>1. \A s \in Snapshots : Jobs(s) = {}
    BY <1>2 DEF Jobs
  <2>2. \A s \in Snapshots, e \in Experiments : ~ TimelyBuy(record, <<s, e>>)
    <3> SUFFICES ASSUME NEW s \in Snapshots, NEW e \in Experiments
                 PROVE  record[<<s, e>>].action \notin Buys
      BY DEF TimelyBuy
    <3> QED
      BY <1>2 DEF NoAnswer, Buys
  <2> QED
    BY <2>1, <2>2 DEF NoBatchForgotten, FirstBuyIsSent
<1> QED
  BY <1>3, <1>5, <1>6, <1>7, <1>8, <1>9, <1>10, <1>11 DEF AiInv

(* Every step of a handler, of the settlement worker and of the world around *)
(* them keeps the invariant.                                                 *)
LEMMA InvStep == AiInv /\ [AiNext]_aiVars => AiInv'
<1> SUFFICES ASSUME AiInv, [AiNext]_aiVars PROVE AiInv'
  OBVIOUS
<1>1. TasksOK' /\ JobsOK' /\ RecordsOK' /\ LanesOK' /\ SettlementsOK' /\ BatchesOK'
  BY HandlersStayTyped, LanesStayHeld, ResultsStayKnown, OthersLeaveBatches
<1>2. PortfolioTypeOK' /\ BooksBalance(account, position)'
  <2>1. TablesOK(account', position') /\ BooksBalance(account', position')
    BY StepMovesBooks DEF BooksMove
  <2>2. BooksBalance(account, position)'
    BY <2>1
  <2> QED
    BY <2>1, <2>2 DEF TablesOK, PortfolioTypeOK
<1>3. (enabled \subseteq Experiments)' /\ (aiFaults \in 0..MaxAiFaults)'
  <2>1. enabled \subseteq Experiments /\ aiFaults \in 0..MaxAiFaults /\ MaxAiFaults \in Nat
    BY InvTypes, AiDecisionsAssumption
  <2>2. UNCHANGED enabled \/ \E e \in Experiments : enabled' \in {enabled \ {e}, enabled \cup {e}}
    <3>1. Elsewhere => UNCHANGED enabled \/ \E e \in Experiments : Reconfigure(e)
      BY DEF Elsewhere, Backfill, FanOut, FactArrives, Resolve, Sweep,
             SettlementWorker, SettleCommit, SettleRaises, Settle, aiVars, decisionVars
    <3>2. Crash => UNCHANGED enabled
      BY DEF Crash
    <3>3. ASSUME NEW s \in Snapshots, NEW e \in Experiments,
                 \/ Claim(s, e) \/ Prepare(s, e) \/ Infer(s, e) \/ Write(s, e) \/ Commit(s, e)
                 \/ Dropped(s, e)
          PROVE  UNCHANGED enabled
      BY <3>3 DEF Claim, Prepare, Prepared, Bankroll, Infer, Write, Commit, Dropped, PrepareRaises, PersistRaises, Cancel
    <3>4. \A e \in Experiments : Reconfigure(e) => enabled' \in {enabled \ {e}, enabled \cup {e}}
      BY DEF Reconfigure
    <3> QED
      BY <3>1, <3>2, <3>3, <3>4, StepKinds
  <2>3. NoFault \/ AiFault
    <3>1. Elsewhere => NoFault \/ AiFault
      BY DEF Elsewhere, Backfill, FanOut, Reconfigure, FactArrives, Resolve, Sweep,
             SettlementWorker, SettleCommit, SettleRaises, Settle, aiVars, NoFault
    <3>2. Crash => AiFault
      BY DEF Crash
    <3>3. ASSUME NEW s \in Snapshots, NEW e \in Experiments,
                 \/ Claim(s, e) \/ Prepare(s, e) \/ Infer(s, e) \/ Write(s, e) \/ Commit(s, e)
                 \/ Dropped(s, e)
          PROVE  NoFault \/ AiFault
      BY <3>3 DEF Claim, Prepare, Prepared, Bankroll, Infer, Write, Commit, Dropped, PrepareRaises, PersistRaises, Cancel
    <3> QED
      BY <3>1, <3>2, <3>3, StepKinds
  <2>4. aiFaults' \in 0..MaxAiFaults
    BY <2>1, <2>3 DEF NoFault, AiFault
  <2> QED
    BY <2>1, <2>2, <2>4
<1>4. AiTypeOK'
  BY <1>1, <1>2, <1>3
     DEF AiTypeOK, JobsOK, LanesOK, TasksOK, RecordsOK, BatchesOK, SettlementsOK, JobRow, Lane, Task
<1> QED
  BY <1>2, <1>4, HandlersStillKnow, LanesStayHeld, BankrollsStayThere, WritersStillSeeAll, NothingIsLost,
     ResultsStayKnown, BuysStaySent DEF AiInv

(* Whatever the handlers, the settlements and the faults do to each other,   *)
(* the invariant holds.                                                      *)
LEMMA InvAlways == AiSpec => []AiInv
<1>1. AiInit => AiInv
  BY InvInit
<1>2. AiInv /\ [AiNext]_aiVars => AiInv'
  BY InvStep
<1> QED
  BY <1>1, <1>2, PTL DEF AiSpec

(* The rows of the tables, lanes and handlers are always well formed.        *)
THEOREM AiTypes == AiSpec => []AiTypeOK
<1>1. AiInv => AiTypeOK
  BY DEF AiInv
<1> QED
  BY <1>1, InvAlways, PTL

(* record_decision_position and settle_map: cash, locked stakes and results  *)
(* of every account balance, and no stake was placed that was not there.     *)
THEOREM LedgerAlwaysSound == AiSpec => []LedgerIsSound
<1>1. AiInv => LedgerIsSound
  <2> SUFFICES ASSUME AiInv PROVE LedgerIsSound
    OBVIOUS
  <2>1. AccountsBalance
    BY DEF AiInv, BooksBalance, OpenBets, AccountsBalance
  <2> QED
    BY <2>1 DEF AiInv, LedgerIsSound
<1> QED
  BY <1>1, InvAlways, PTL

(* hold() of AiExperimentLaneRegistry lets one checkpoint of an experiment   *)
(* at a time between PREPARE and the end of PERSIST, and no lane is left     *)
(* active by a handler that failed, was cancelled or died.                   *)
THEOREM LanesAlwaysExclusive == AiSpec => []LaneExclusive
<1>1. AiInv => LaneExclusive
  <2> SUFFICES ASSUME AiInv, NEW e \in Experiments
               PROVE  LET holders == {s \in Snapshots : Holding(<<s, e>>)}
                      IN  /\ Cardinality(holders) <= 1
                          /\ lane[e].active <=> holders # {}
    BY DEF LaneExclusive
  <2> DEFINE holders == {s \in Snapshots : Holding(<<s, e>>)}
  <2>1. /\ lane[e].active <=> holders # {}
        /\ \A s, r \in holders : s = r
    BY DEF AiInv, LanesAreHeld
  <2>2. holders = {} \/ \E s \in holders : holders = {s}
    BY <2>1
  <2>3. Cardinality(holders) <= 1
    <3> HIDE DEF holders
    <3>1. Cardinality({}) = 0 /\ \A s \in holders : Cardinality({s}) = 1
      BY FS_EmptySet, FS_Singleton
    <3> QED
      BY <2>2, <3>1
  <2> QED
    BY <2>1, <2>3
<1> QED
  BY <1>1, InvAlways, PTL

(* _persist_ai_results and _prepare_decision_notifications: once a snapshot  *)
(* is decided, all of its decisions have been judged together and its first  *)
(* BUYs are in a batch.                                                      *)
THEOREM BuysAlwaysSent == AiSpec => []BuysAreSent
<1>1. AiInv => BuysAreSent
  BY DEF AiInv, BuysAreSent
<1> QED
  BY <1>1, InvAlways, PTL

(* What record_decision_position refused or settle_map settled is never      *)
(* settled again.                                                            *)
THEOREM PositionsSettledOnce == AiSpec => SettledOnce
<1>1. AiInv /\ [AiNext]_aiVars =>
          \A d \in Decisions :
              position[d].status \notin {"ABSENT", "OPEN"} => position'[d] = position[d]
  BY StepMovesBooks, DecisionIsPair DEF PositionMoves
<1> QED
  BY <1>1, InvAlways, PTL DEF AiSpec, SettledOnce

-----------------------------------------------------------------------------
(* SNAPSHOTS.                                                                *)

(* A replay is only ever planned for an event that was dispatched.           *)
ReplayAfterDispatch ==
    \A e \in Checkpoints : replay[e] # "none" => e \in Recorded \ Pending

(* JobPerProcessedEvent is not inductive by itself: a replay adds snapshots   *)
(* too, and that its event was dispatched is what ReplayAfterDispatch says.   *)
SnapshotInv == TypeOK /\ JobPerProcessedEvent /\ ReplayAfterDispatch

-----------------------------------------------------------------------------
(* What a job run may add is the snapshot of its own event, over the data of *)
(* the moment, when there is a market.                                       *)
LEMMA ProduceType ==
    ASSUME TypeOK, NEW e \in Triggers, e \in Recorded, Produce(e)
    PROVE  /\ built' \subseteq [ for : Triggers, row : [ at : Time, data : 1 .. MaxData ] ]
           /\ \A b \in built' : b \in built \/ b.for = e
  <1> USE SnapshotAssumption
  <1>1. DecisionAt(e) \in Time
    BY DEF TypeOK, DecisionAt
  <1>2. Eligible(DecisionAt(e)) => data \in 1 .. MaxData
    BY DEF TypeOK, Eligible
  <1>3. built' = built \cup { [ for |-> e, row |-> Snapshot(at) ] :
                                at \in { t \in { DecisionAt(e) } : Eligible(t) } }
    BY DEF Produce
  <1>4. ASSUME NEW at \in { t \in { DecisionAt(e) } : Eligible(t) }
        PROVE  [ for |-> e, row |-> Snapshot(at) ]
                 \in [ for : Triggers, row : [ at : Time, data : 1 .. MaxData ] ]
    <2>1. at \in Time /\ data \in 1 .. MaxData
      BY <1>1, <1>2, <1>4
    <2> QED
      BY <2>1 DEF Snapshot
  <1> QED
    BY <1>3, <1>4 DEF TypeOK

(* A job in the table belongs to a recorded event.                           *)
LEMMA JobsAreRecorded ==
    ASSUME SnapshotInv, NEW e \in Triggers, build[e] # "none"
    PROVE  e \in Recorded /\ e \in Recorded \ Pending
  BY DEF SnapshotInv, JobPerProcessedEvent

(* A run of a build job, however it ends, keeps table and log in agreement.  *)
LEMMA BuildKeeps ==
    ASSUME SnapshotInv, NEW e \in Triggers, Build(e) \/ BuildUnmarked(e) \/ BuildFails(e)
    PROVE  SnapshotInv'
  <1> USE SnapshotAssumption
  <1>1. build[e] = "pending" /\ UNCHANGED << now, log, replay, data >>
    BY DEF Build, BuildUnmarked, BuildFails
  <1>2. e \in Recorded /\ e \in Recorded \ Pending
    BY <1>1, JobsAreRecorded
  <1>3. /\ built' \subseteq [ for : Triggers, row : [ at : Time, data : 1 .. MaxData ] ]
        /\ \A b \in built' : b \in built \/ b.for = e
    <2>1. CASE Build(e) \/ BuildUnmarked(e)
      <3>1. Produce(e)
        BY <2>1 DEF Build, BuildUnmarked
      <3> QED
        BY <1>2, <3>1, ProduceType DEF SnapshotInv
    <2>2. CASE BuildFails(e)
      BY <2>2 DEF BuildFails, SnapshotInv, TypeOK
    <2> QED
      BY <2>1, <2>2
  <1>4. \/ build' = build
        \/ build' = [ build EXCEPT ![e] = "done" ]
        \/ build' = [ build EXCEPT ![e] = "dead" ]
    BY DEF Build, BuildUnmarked, BuildFails
  <1>5. build \in [ Triggers -> JobState ]
    BY DEF SnapshotInv, TypeOK
  <1>6. build' \in [ Triggers -> JobState ]
    BY <1>4, <1>5 DEF JobState
  <1>7. \A f \in Triggers : (build'[f] # "none") <=> (build[f] # "none")
    BY <1>1, <1>4, <1>5
  <1>8. faults' \in 0 .. MaxFaults
    BY DEF SnapshotInv, TypeOK, Build, BuildUnmarked, BuildFails, Fault
  <1>9. TypeOK'
    BY <1>1, <1>3, <1>6, <1>8 DEF SnapshotInv, TypeOK, Recorded
  <1>10. JobPerProcessedEvent'
    <2>1. Recorded' = Recorded /\ Pending' = Pending
      BY <1>1 DEF Recorded, Pending
    <2>2. \A b \in built' : b.for \in Recorded \ Pending
      BY <1>2, <1>3 DEF SnapshotInv, JobPerProcessedEvent
    <2> QED
      BY <1>7, <2>1, <2>2 DEF SnapshotInv, JobPerProcessedEvent
  <1>11. ReplayAfterDispatch'
    BY <1>1 DEF SnapshotInv, ReplayAfterDispatch, Recorded, Pending
  <1> QED
    BY <1>9, <1>10, <1>11 DEF SnapshotInv

(* A new row of the log is pending: no job, no snapshot is its own.          *)
LEMMA RecordKeeps ==
    ASSUME SnapshotInv, NEW e \in Triggers, Record(e)
    PROVE  SnapshotInv'
  <1> USE SnapshotAssumption
  <1>1. UNCHANGED << now, build, replay, data, built, faults >> /\ e \notin Recorded
    BY DEF Record
  <1>2. Recorded' = Recorded \cup { e }
    BY DEF Record, Recorded
  <1>3. log'[e] = [ at |-> now, processed |-> FALSE ]
        /\ \A f \in Recorded : log'[f] = log[f]
    BY <1>1 DEF Record
  <1>4. TypeOK'
    <2>1. \A f \in Recorded' : log'[f] \in [ at : Time, processed : BOOLEAN ]
      <3>1. now \in Time /\ \A f \in Recorded : log[f] \in [ at : Time, processed : BOOLEAN ]
        BY DEF SnapshotInv, TypeOK
      <3>2. [ at |-> now, processed |-> FALSE ] \in [ at : Time, processed : BOOLEAN ]
        BY <3>1
      <3> QED
        BY <1>2, <1>3, <3>1, <3>2
    <2>2. Recorded' \subseteq Triggers
      BY <1>2 DEF SnapshotInv, TypeOK
    <2> QED
      BY <1>1, <2>1, <2>2 DEF SnapshotInv, TypeOK
  <1>5. Recorded' \ Pending' = Recorded \ Pending
    BY <1>1, <1>2, <1>3 DEF Pending
  <1> QED
    BY <1>1, <1>4, <1>5 DEF SnapshotInv, JobPerProcessedEvent, ReplayAfterDispatch

(* A dispatch gives each event of its batch a job as it marks it.            *)
LEMMA DispatchKeeps ==
    ASSUME SnapshotInv, NEW batch \in SUBSET Pending, Dispatch(batch)
    PROVE  SnapshotInv'
  <1> USE SnapshotAssumption
  <1>1. UNCHANGED << now, replay, data, built, faults >>
    BY DEF Dispatch
  <1>2. Recorded' = Recorded
    BY DEF Dispatch, Recorded
  <1>3. \A e \in Recorded : log'[e] = IF e \in batch THEN [ log[e] EXCEPT !.processed = TRUE ]
                                                   ELSE log[e]
    BY DEF Dispatch
  <1>4. \A e \in Recorded : log[e] \in [ at : Time, processed : BOOLEAN ]
    BY DEF SnapshotInv, TypeOK
  <1>5. Recorded' \ Pending' = (Recorded \ Pending) \cup batch
    <2>1. \A e \in batch : e \in Recorded /\ log'[e].processed
      BY <1>3, <1>4 DEF Pending
    <2>2. \A e \in Recorded \ batch : log'[e] = log[e]
      BY <1>3
    <2> QED
      BY <1>2, <2>1, <2>2 DEF Pending
  <1>6. build' = [ e \in Triggers |-> IF e \in batch THEN "pending" ELSE build[e] ]
    BY DEF Dispatch
  <1>7. TypeOK'
    <2>1. \A e \in Recorded' : log'[e] \in [ at : Time, processed : BOOLEAN ]
      <3> SUFFICES ASSUME NEW e \in Recorded
                   PROVE  log'[e] \in [ at : Time, processed : BOOLEAN ]
        BY <1>2
      <3>1. CASE e \in batch
        BY <1>3, <1>4, <3>1
      <3>2. CASE e \notin batch
        BY <1>3, <1>4, <3>2
      <3> QED
        BY <3>1, <3>2
    <2>2. build' \in [ Triggers -> JobState ]
      BY <1>6 DEF SnapshotInv, TypeOK, JobState
    <2> QED
      BY <1>1, <1>2, <2>1, <2>2 DEF SnapshotInv, TypeOK
  <1>8. JobPerProcessedEvent'
    <2>1. \A e \in Triggers : (build'[e] # "none") <=> (e \in (Recorded \ Pending) \cup batch)
      BY <1>6 DEF SnapshotInv, JobPerProcessedEvent
    <2>2. \A b \in built' : b.for \in (Recorded \ Pending) \cup batch
      BY <1>1 DEF SnapshotInv, JobPerProcessedEvent
    <2> QED
      BY <1>5, <2>1, <2>2 DEF JobPerProcessedEvent
  <1>9. ReplayAfterDispatch'
    BY <1>1, <1>5 DEF SnapshotInv, ReplayAfterDispatch
  <1> QED
    BY <1>7, <1>8, <1>9 DEF SnapshotInv

(* A replay is planned for a processed event, and adds only its snapshot.    *)
LEMMA ReplayKeeps ==
    ASSUME SnapshotInv, NEW e \in Checkpoints, Rebuild(e) \/ RebuildFails(e) \/ Replay(e)
    PROVE  SnapshotInv'
  <1> USE SnapshotAssumption
  <1>1. UNCHANGED << now, log, build, data >>
    BY DEF Rebuild, RebuildFails, Replay
  <1>2. e \in Triggers /\ e \in Recorded \ Pending
    <2>1. replay[e] # "none" \/ e \in Undecided
      BY DEF Rebuild, RebuildFails, Replay, Newest
    <2> QED
      BY <2>1 DEF SnapshotInv, ReplayAfterDispatch, Undecided, Triggers
  <1>3. /\ built' \subseteq [ for : Triggers, row : [ at : Time, data : 1 .. MaxData ] ]
        /\ \A b \in built' : b \in built \/ b.for = e
    <2>1. CASE Rebuild(e)
      BY <1>2, <2>1, ProduceType DEF Rebuild, SnapshotInv
    <2>2. CASE RebuildFails(e) \/ Replay(e)
      BY <2>2 DEF RebuildFails, Replay, SnapshotInv, TypeOK
    <2> QED
      BY <2>1, <2>2
  <1>4. replay' \in [ Checkpoints -> JobState ]
    <2>1. \/ replay' = [ replay EXCEPT ![e] = "done" ]
          \/ replay' = [ replay EXCEPT ![e] = "dead" ]
          \/ replay' = [ replay EXCEPT ![e] = "pending" ]
      BY DEF Rebuild, RebuildFails, Replay
    <2> QED
      BY <2>1 DEF SnapshotInv, TypeOK, JobState
  <1>5. faults' \in 0 .. MaxFaults
    BY DEF SnapshotInv, TypeOK, Rebuild, RebuildFails, Replay, Fault
  <1>6. TypeOK'
    BY <1>1, <1>3, <1>4, <1>5 DEF SnapshotInv, TypeOK, Recorded
  <1>7. Recorded' = Recorded /\ Pending' = Pending
    BY <1>1 DEF Recorded, Pending
  <1>8. \A b \in built' : b.for \in Recorded \ Pending
    BY <1>2, <1>3 DEF SnapshotInv, JobPerProcessedEvent
  <1>9. JobPerProcessedEvent'
    BY <1>1, <1>7, <1>8 DEF SnapshotInv, JobPerProcessedEvent
  <1>10. ReplayAfterDispatch'
    <2>1. \A f \in Checkpoints \ { e } : replay'[f] = replay[f]
      BY DEF SnapshotInv, TypeOK, Rebuild, RebuildFails, Replay
    <2> QED
      BY <1>2, <1>7, <2>1 DEF SnapshotInv, ReplayAfterDispatch
  <1> QED
    BY <1>6, <1>9, <1>10 DEF SnapshotInv

-----------------------------------------------------------------------------
(* SnapshotInv is an inductive invariant of the log, the jobs and the rows.  *)
THEOREM SnapshotInvariance == Spec => []SnapshotInv
  <1> USE SnapshotAssumption
  <1>1. Init => SnapshotInv
    <2> SUFFICES ASSUME Init PROVE SnapshotInv
      OBVIOUS
    <2>1. Recorded = {}
      BY DEF Init, Recorded
    <2>2. TypeOK
      BY <2>1 DEF Init, TypeOK, Time, JobState
    <2>3. JobPerProcessedEvent /\ ReplayAfterDispatch
      BY <2>1 DEF Init, JobPerProcessedEvent, ReplayAfterDispatch
    <2> QED
      BY <2>2, <2>3 DEF SnapshotInv
  <1>2. SnapshotInv /\ [Next]_vars => SnapshotInv'
    <2> SUFFICES ASSUME SnapshotInv, [Next]_vars PROVE SnapshotInv'
      OBVIOUS
    <2>1. ASSUME Tick \/ DataArrives \/ UNCHANGED vars PROVE SnapshotInv'
      <3>1. UNCHANGED << log, build, replay, built, faults >>
        BY <2>1 DEF Tick, DataArrives, vars
      <3>2. now' \in Time /\ data' \in 0 .. MaxData
        BY <2>1 DEF Tick, DataArrives, vars, SnapshotInv, TypeOK, Time
      <3>3. TypeOK'
        BY <3>1, <3>2 DEF SnapshotInv, TypeOK, Recorded
      <3>4. JobPerProcessedEvent' /\ ReplayAfterDispatch'
        BY <3>1 DEF SnapshotInv, JobPerProcessedEvent, ReplayAfterDispatch, Recorded, Pending
      <3> QED
        BY <3>3, <3>4 DEF SnapshotInv
    <2>2. ASSUME NEW e \in Triggers, Record(e) PROVE SnapshotInv'
      BY <2>2, RecordKeeps
    <2>3. ASSUME NEW batch \in SUBSET Pending, Dispatch(batch) PROVE SnapshotInv'
      BY <2>3, DispatchKeeps
    <2>4. ASSUME NEW e \in Triggers, Build(e) \/ BuildUnmarked(e) \/ BuildFails(e)
          PROVE  SnapshotInv'
      BY <2>4, BuildKeeps
    <2>5. ASSUME NEW e \in Checkpoints, Rebuild(e) \/ RebuildFails(e) \/ Replay(e)
          PROVE  SnapshotInv'
      BY <2>5, ReplayKeeps
    <2> QED
      BY <2>1, <2>2, <2>3, <2>4, <2>5 DEF Next
  <1> QED
    BY <1>1, <1>2, PTL DEF Spec

(* The rows of the log, the job table and the snapshots keep their types.    *)
THEOREM SnapshotTypes == Spec => []TypeOK
  <1>1. SnapshotInv => TypeOK
    BY DEF SnapshotInv
  <1> QED
    BY <1>1, SnapshotInvariance, PTL

(* An event has a job exactly when it is marked processed, and every snapshot *)
(* is a processed event's: marking and enqueueing are one transaction.        *)
THEOREM NoEventForgotten == Spec => []JobPerProcessedEvent
  <1>1. SnapshotInv => JobPerProcessedEvent
    BY DEF SnapshotInv
  <1> QED
    BY <1>1, SnapshotInvariance, PTL
=============================================================================
