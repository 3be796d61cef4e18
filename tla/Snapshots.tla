----------------------------- MODULE Snapshots -----------------------------
(***************************************************************************)
(* From a recorded domain event to a decision snapshot.                    *)
(*                                                                         *)
(* DomainEventDispatcher turns the events of the log into jobs, BUILD_-    *)
(* SNAPSHOT handlers build the snapshot of a decision time when the market *)
(* allows one, and the reconciliation replays the checkpoints that were    *)
(* left without a snapshot.  When checkpoints come due is LiveCheckpoints  *)
(* .tla; what a snapshot leads to is AiDecisions.tla.  A durable job is    *)
(* reduced to what JobContract.tla promises of it: pending until a run of  *)
(* its handler is recorded, or until it has failed for good.               *)
(***************************************************************************)
EXTENDS Integers, FiniteSets, FiniteSetsExt

CONSTANTS
    Checkpoints,   \* the DECISION_CHECKPOINT_DUE events of one map
    Moves,         \* its SIGNIFICANT_ODDS_MOVE events
    Horizon,       \* the last decision time of the model
    BatchLimit,    \* the limit of one dispatch
    Unfit,         \* the times at which the market was not fit for a decision
    MaxData,       \* bound on the changes of what a snapshot sees
    MaxFaults      \* bound on failed or unmarked job runs

ASSUME SnapshotAssumption ==
    /\ Horizon \in Nat /\ Unfit \subseteq 0 .. Horizon
    /\ BatchLimit \in Nat \ {0} /\ MaxData \in Nat /\ MaxFaults \in Nat
    /\ Checkpoints \cap Moves = {}

VARIABLES
    now,           \* the clock
    log,           \* domain_events: event -> when it occurred, whether processed
    build,         \* the BUILD_SNAPSHOT job an event is dispatched to
    replay,        \* the reconcile-snapshot-v2 job of a checkpoint
    data,          \* what the database lets a snapshot see: 0 no linked market
    built,         \* the decision_snapshots rows, and the event each was built for
    faults

vars == << now, log, build, replay, data, built, faults >>

Time     == 0 .. Horizon
Triggers == Checkpoints \cup Moves
JobState == { "none", "pending", "done", "dead" }

Recorded == DOMAIN log
Pending  == { e \in Recorded : ~log[e].processed }

-----------------------------------------------------------------------------
Init ==
    /\ now = 0
    /\ log = [ e \in {} |-> [ at |-> 0, processed |-> FALSE ] ]
    /\ build = [ e \in Triggers |-> "none" ]
    /\ replay = [ e \in Checkpoints |-> "none" ]
    /\ data = 0
    /\ built = {}
    /\ faults = 0

Tick ==
    /\ now < Horizon
    /\ now' = now + 1
    /\ UNCHANGED << log, build, replay, data, built, faults >>

Fault ==
    /\ faults < MaxFaults
    /\ faults' = faults + 1

(* EventRepository.record: the same (event_type, dedupe_key) is one row. *)
SlipRecordAnew(e) ==
    /\ log' = [ f \in Recorded \cup { e } |->
                  IF f = e THEN [ at |-> now, processed |-> FALSE ] ELSE log[f] ]
    /\ UNCHANGED << now, build, replay, data, built, faults >>
Record(e) ==
    /\ e \notin Recorded
    /\ log' = [ f \in Recorded \cup { e } |->
                  IF f = e THEN [ at |-> now, processed |-> FALSE ] ELSE log[f] ]
    /\ UNCHANGED << now, build, replay, data, built, faults >>

(* An identity merge links the market to the map, or a row stamped earlier  *)
(* commits late: the same decision time now shows something else.           *)
DataArrives ==
    /\ data < MaxData
    /\ data' = data + 1
    /\ UNCHANGED << now, log, build, replay, built, faults >>

-----------------------------------------------------------------------------
(* DomainEventDispatcher.dispatch_pending: the oldest pending events become *)
(* jobs and are marked processed, in one transaction.                       *)
OldestFirst(batch) ==
    \A e \in batch, f \in Pending \ batch : log[e].at <= log[f].at

Dispatch(batch) ==
    /\ batch # {} /\ OldestFirst(batch)
    /\ Cardinality(batch) = Min({ BatchLimit, Cardinality(Pending) })
    /\ build' = [ e \in Triggers |-> IF e \in batch THEN "pending" ELSE build[e] ]
    /\ log' = [ e \in Recorded |->
                  IF e \in batch THEN [ log[e] EXCEPT !.processed = TRUE ] ELSE log[e] ]
    /\ UNCHANGED << now, replay, data, built, faults >>

-----------------------------------------------------------------------------
(* JobHandlers.build_snapshot.  A checkpoint carries its decision time; an  *)
(* odds move does not: it is decided at the time of the run.                *)
DecisionAt(e) == IF e \in Checkpoints THEN log[e].at ELSE now

(* The gate: a market linked to the map, and fit at the decision time. *)
Eligible(at) == data > 0 /\ at \notin Unfit

(* A row is identified by the hash of its content: the same decision time    *)
(* over the same data is the same row.                                       *)
Snapshot(at) == [ at |-> at, data |-> data ]

Produce(e) ==
    built' = built \cup { [ for |-> e, row |-> Snapshot(at) ] :
                            at \in { t \in { DecisionAt(e) } : Eligible(t) } }

Decided(at) == \E b \in built : b.row.at = at

Build(e) ==
    /\ build[e] = "pending"
    /\ Produce(e)
    /\ build' = [ build EXCEPT ![e] = "done" ]
    /\ UNCHANGED << now, log, replay, data, faults >>

(* The process dies, or its lease expires, after the handler committed and   *)
(* before the job is marked: the job runs again.                             *)
BuildUnmarked(e) ==
    /\ build[e] = "pending"
    /\ Produce(e)
    /\ Fault
    /\ UNCHANGED << now, log, build, replay, data >>

BuildFails(e) ==
    /\ build[e] = "pending"
    /\ Fault
    /\ build' = [ build EXCEPT ![e] = "dead" ]
    /\ UNCHANGED << now, log, replay, data, built >>

Rebuild(e) ==
    /\ replay[e] = "pending"
    /\ Produce(e)
    /\ replay' = [ replay EXCEPT ![e] = "done" ]
    /\ UNCHANGED << now, log, build, data, faults >>

RebuildFails(e) ==
    /\ replay[e] = "pending"
    /\ Fault
    /\ replay' = [ replay EXCEPT ![e] = "dead" ]
    /\ UNCHANGED << now, log, build, data, built >>

-----------------------------------------------------------------------------
(* ReconciliationService._reconcile_snapshots: the processed checkpoints     *)
(* whose time has no snapshot although a market is linked, less those whose  *)
(* replay ran to its end and are skipped.                                    *)
SlipHeldByNewest ==
    { e \in Checkpoints \cap (Recorded \ Pending) : data > 0 /\ ~Decided(log[e].at) }
Undecided ==
    { e \in Checkpoints \cap (Recorded \ Pending) :
        data > 0 /\ ~Decided(log[e].at) /\ replay[e] # "done" }

(* One per pass, the newest first; an unfinished replay holds the others.    *)
Newest(es) == { e \in es : \A f \in es : log[f].at <= log[e].at }

Replay(e) ==
    /\ e \in Newest(Undecided)
    /\ replay[e] \in { "none", "dead" }
    /\ replay' = [ replay EXCEPT ![e] = "pending" ]
    /\ UNCHANGED << now, log, build, data, built, faults >>

-----------------------------------------------------------------------------
Next ==
    \/ Tick \/ DataArrives
    \/ \E e \in Triggers : Record(e)
    \/ \E batch \in SUBSET Pending : Dispatch(batch)
    \/ \E e \in Triggers : Build(e) \/ BuildUnmarked(e) \/ BuildFails(e)
    \/ \E e \in Checkpoints : Rebuild(e) \/ RebuildFails(e) \/ Replay(e)

Spec == Init /\ [][Next]_vars

(* The dispatcher and the reconciliation run periodically, and the workers   *)
(* keep claiming jobs; events and data are the outside world's.              *)
FairSpec ==
    /\ Spec
    /\ WF_vars(\E batch \in SUBSET Pending : Dispatch(batch))
    /\ WF_vars(\E e \in Checkpoints : Replay(e))
    /\ WF_vars((\E e \in Triggers : Build(e)) \/ (\E e \in Checkpoints : Rebuild(e)))

-----------------------------------------------------------------------------
TypeOK ==
    /\ now \in Time
    /\ Recorded \subseteq Triggers
    /\ \A e \in Recorded : log[e] \in [ at : Time, processed : BOOLEAN ]
    /\ build \in [ Triggers -> JobState ] /\ replay \in [ Checkpoints -> JobState ]
    /\ data \in 0 .. MaxData
    /\ built \subseteq [ for : Triggers, row : [ at : Time, data : 1 .. MaxData ] ]
    /\ faults \in 0 .. MaxFaults

(* The log and the job table agree: an event has its job exactly when it is  *)
(* marked processed, and a snapshot only ever comes of a processed event.    *)
JobPerProcessedEvent ==
    /\ \A e \in Triggers : (build[e] # "none") <=> (e \in Recorded \ Pending)
    /\ \A b \in built : b.for \in Recorded \ Pending

(* A checkpoint whose market is linked, then or by a later merge, gets its   *)
(* snapshot: failed builds are replayed, and a replay that can build nothing *)
(* does not hold the older checkpoints of the map for ever.                  *)
CheckpointIsDecided ==
    []<>(\A e \in Checkpoints \cap Recorded :
            log[e].at \notin Unfit /\ data > 0 => Decided(log[e].at))

(* Restart and redelivery never produce a second snapshot of one event.      *)
OneSnapshotPerEvent ==
    \A b, c \in built : b.for = c.for => b.row = c.row
=============================================================================
