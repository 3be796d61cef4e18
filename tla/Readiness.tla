------------------------------ MODULE Readiness ------------------------------
(***************************************************************************)
(* The readiness funnel of one scheduled series                             *)
(* (DecisionReadinessService, app/evaluation/readiness.py): how far its     *)
(* evidence reaches, and what it lacks first.  The rows it reads come from  *)
(* independent collectors and jobs, in any order the foreign keys allow.    *)
(***************************************************************************)
EXTENDS Integers, Sequences, FiniteSets, FiniteSetsExt

CONSTANTS SeriesMaps        \* the maps the series may get

VARIABLES
    market,      \* of the series: "none", "linked", "priced", or "both"
    progress     \* of each map: its rows, or NoMap

readinessVars == <<market, progress>>

DraftStages == <<"DRAFT_MISSING", "DRAFT_INCOMPLETE", "DRAFT_CURVE_MISSING", "SNAPSHOT_GATE_BLOCKED">>

NoMap == [known |-> FALSE, live |-> FALSE, draft |-> 1, snapshot |-> FALSE,
          success |-> FALSE, failed |-> 0, result |-> FALSE, evaluated |-> FALSE]

ReadinessInit == market = {} /\ progress = [m \in SeriesMaps |-> NoMap]

-----------------------------------------------------------------------------
(* The rows, as they are written.  Of a map's draft the furthest stage any  *)
(* version has reached counts.                                              *)
MarketRow(x) == market' = market \cup {x} /\ UNCHANGED progress

Grows(m, new) == progress[m] # new /\ progress' = [progress EXCEPT ![m] = new] /\ UNCHANGED market

MapRow(m) ==
    \/ Grows(m, [progress[m] EXCEPT !.known = TRUE])
    \/ /\ progress[m].known
       /\ \/ Grows(m, [progress[m] EXCEPT !.live = TRUE])
          \/ progress[m].draft < Len(DraftStages) /\ Grows(m, [progress[m] EXCEPT !.draft = @ + 1])
          \/ Grows(m, [progress[m] EXCEPT !.snapshot = TRUE])
          \/ Grows(m, [progress[m] EXCEPT !.result = TRUE])
    \/ /\ progress[m].snapshot
       /\ \/ progress[m].failed = 0 /\ Grows(m, [progress[m] EXCEPT !.failed = 1])
          \/ Grows(m, [progress[m] EXCEPT !.success = TRUE])
    \/ progress[m].success /\ progress[m].result /\ Grows(m, [progress[m] EXCEPT !.evaluated = TRUE])

ReadinessNext ==
    \/ \E x \in {"linked", "priced"} : MarketRow(x)
    \/ \E m \in SeriesMaps : MapRow(m)

-----------------------------------------------------------------------------
Stages == <<"scheduled", "market_linked", "market_ready", "map_identity", "live_ready",
            "snapshot_ready", "ai_decision", "result_ready", "evaluated">>

Known == {m \in SeriesMaps : progress[m].known}
With(field) == {m \in Known : progress[m][field]}
LiveMaps == With("live")

Fact(stage) ==
    CASE stage = "scheduled" -> TRUE
      [] stage = "market_linked" -> "linked" \in market
      [] stage = "market_ready" -> "priced" \in market
      [] stage = "map_identity" -> Known # {}
      [] stage = "live_ready" -> LiveMaps # {}
      [] stage = "snapshot_ready" -> With("snapshot") # {}
      [] stage = "ai_decision" -> With("success") # {}
      [] stage = "result_ready" -> With("result") # {}
      [] stage = "evaluated" -> With("evaluated") # {}

(* The funnel is cumulative: a stage counts when all before it do.          *)
Reached == {i \in DOMAIN Stages : \A j \in 1..i : Fact(Stages[j])}

\* Slip: a fact further on hides the gap before it.
SlipCurrentStage == Stages[Max({i \in DOMAIN Stages : Fact(Stages[i])})]

CurrentStage == Stages[Max(Reached)]

(* _first_blocker: what a series without a snapshot lacks is looked for in  *)
(* the drafts of the maps that are live.                                    *)
DraftReached == Max({0} \cup {progress[m].draft : m \in LiveMaps})

Missing == [market_linked |-> "MARKET_IDENTITY_MISSING",
            market_ready |-> "MARKET_OBSERVATION_MISSING",
            map_identity |-> "CANONICAL_MAP_MISSING", live_ready |-> "LIVE_DATA_MISSING",
            result_ready |-> "RESULT_MISSING", evaluated |-> "EVALUATION_MISSING"]

Reason(stage) ==
    CASE stage = "snapshot_ready" -> DraftStages[DraftReached]
      [] stage = "ai_decision" -> IF \E m \in Known : progress[m].failed > 0
                                  THEN "AI_FAILED" ELSE "AI_DECISION_MISSING"
      [] OTHER -> Missing[stage]

(* The order in which it asks.                                              *)
Checks == <<"market_linked", "market_ready", "map_identity", "live_ready", "snapshot_ready",
            "ai_decision", "result_ready", "evaluated">>

Lacking == {i \in DOMAIN Checks : ~Fact(Checks[i])}
Blocker == IF Lacking = {} THEN <<>> ELSE <<Checks[Min(Lacking)], Reason(Checks[Min(Lacking)])>>

-----------------------------------------------------------------------------
(* The funnel and the list of reasons are worked out apart and have to tell *)
(* the same story: the stage a series drops out at is the one its blocker   *)
(* names, and a series has no blocker exactly when it has come through.  A  *)
(* blocked snapshot is put down to the drafts only of a live map that is    *)
(* still without one ("a later fact never hides an earlier pipeline gap").  *)
FunnelAddsUp ==
    LET blocker == Blocker IN
    /\ blocker = <<>> <=> CurrentStage = "evaluated"
    /\ blocker # <<>> => blocker[1] = Stages[Max(Reached) + 1]
    /\ blocker # <<>> /\ blocker[2] = "SNAPSHOT_GATE_BLOCKED" =>
          \E m \in SeriesMaps : progress[m].live /\ ~progress[m].snapshot /\ progress[m].draft = Len(DraftStages)
=============================================================================
