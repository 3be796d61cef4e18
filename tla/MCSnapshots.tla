---------------------------- MODULE MCSnapshots ----------------------------
(* Snapshots and what follows one, AiDecisions, in one run: a behaviour is  *)
(* one of the module that `part` names while the other one stands still.    *)
EXTENDS Snapshots, AiDecisions

VARIABLE part

(* The checkpoint recorded last is one nothing can be decided for. *)
LastIsUnfit == { Horizon }

CONSTANTS c1, c2, e1, e2, m1

(* Two experiments and two snapshots of one map whose winner stays unknown. *)
OneMap == [s \in Snapshots |-> m1]
EvenOdds == [s \in Snapshots |-> 150]
OneAnswer == {[action |-> "BUY_A", halves |-> 2, timely |-> TRUE]}

SumInit == part \in {"snapshots", "decisions"} /\ Init /\ AiInit

(* Bounds that change nothing: of two checkpoints, c1 is recorded first; of  *)
(* two experiments, e1 is the one a failure is about, when it is about one.  *)
FirstIsC1 == c2 \in DOMAIN log' => c1 \in DOMAIN log'
Spared(e) ==
    /\ e \in enabled' <=> e \in enabled
    /\ \A s \in 1..2 : job'[s, e] = job[s, e] /\ task'[s, e] = task[s, e]
FailureOfE1 ==
    aiFaults' # aiFaults => Spared(e2) \/ \A d \in DOMAIN task' : task'[d] = NoTask

OfSnapshots(A) == part = "snapshots" /\ A /\ UNCHANGED <<part, aiVars>>
OfDecisions(A) == part = "decisions" /\ A /\ UNCHANGED <<part, vars>>

SumNext == OfSnapshots(Next /\ FirstIsC1) \/ OfDecisions(AiNext /\ FailureOfE1)

sumVars == <<part, vars, aiVars>>

(* The fairness of the two modules.                                         *)
SumFairness ==
    /\ WF_sumVars(OfSnapshots(\E batch \in SUBSET Pending : Dispatch(batch)))
    /\ WF_sumVars(OfSnapshots(\E e \in Checkpoints : Replay(e)))
    /\ WF_sumVars(OfSnapshots((\E e \in Triggers : Build(e)) \/ (\E e \in Checkpoints : Rebuild(e))))
    /\ WF_sumVars(OfDecisions(\E s \in Snapshots, e \in Experiments : Handler(s, e)))
    /\ WF_sumVars(OfDecisions(SettlementWorker))

SumSpec == SumInit /\ [][SumNext]_sumVars /\ SumFairness

(* The snapshots alone.                                                     *)
SnapshotSpec == part = "snapshots" /\ SumInit /\ [][OfSnapshots(Next)]_sumVars
=============================================================================
