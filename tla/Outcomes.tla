------------------------------ MODULE Outcomes ------------------------------
(***************************************************************************)
(* What happens to one map after its last live message: the frames of the  *)
(* series feed end it, postmatch jobs ask the providers for the winner, a  *)
(* settlement asks for the evaluation of its snapshot, and the periodic    *)
(* reconciliation puts back what any of these steps has lost.  An event and *)
(* the job it becomes are one step here (module Snapshots has the two),    *)
(* and a job is queued until it is done or has used up its attempts.       *)
(* The money that settlement moves is in module AiDecisions.               *)
(***************************************************************************)
EXTENDS Naturals, FiniteSets

CONSTANTS MaxDecisions,  \* bound: decisions of the one snapshot of the map
          Teams,         \* the winners a provider may name
          MaxFaults      \* bound: jobs lost to errors, repeated jobs, flickering frames

VARIABLES stored,        \* what the last stored series frame says of the map
          over,          \* the match has ended and the feed lists it no longer
          known,         \* the map has a canonical identity and an observation
          linked,        \* a match of the odds provider is mapped to it
          published,     \* the winners its providers have published
          facts,         \* the winners of its historical_maps rows
          evidence,      \* the winners of its map_result_evidence rows
          conflict,      \* map_results.provider_conflict
          job,           \* the state of every job, by its dedupe key
          built,         \* the snapshot is stored
          decided,       \* number of its successful ai_decisions
          evaluated,     \* number of those with a row of decision_evaluations
          faults

seen == <<stored, over, known, linked, published>>
result == <<facts, evidence, conflict>>
decisions == <<built, decided, evaluated>>
vars == <<seen, result, job, decisions, faults>>

ASSUME OutcomesAssumption == {MaxFaults, MaxDecisions} \subseteq Nat /\ IsFiniteSet(Teams)

States == {"none", "queued", "done", "dead"}

(* "identify": the bootstrap that carries ended_at; "resolve" and "settle":  *)
(* the jobs of MAP_ENDED and BASIC_RESULT_READY; "retry": the postmatch job  *)
(* of the current quarter of an hour; "repair": the settlement the sweep     *)
(* asks for; the evaluation of the snapshot by its event, and the one the    *)
(* sweep asks for.                                                          *)
Evaluations == {"event", "sweep"}
Resolvers == {"resolve", "retry"}
Settlers == {"settle", "repair"}
Jobs == {"identify"} \cup Resolvers \cup Settlers \cup Evaluations

Init == /\ stored = "listed" /\ over = FALSE /\ published = {}
        /\ known \in BOOLEAN /\ linked \in BOOLEAN
        /\ facts = {} /\ evidence = {} /\ conflict = FALSE
        /\ job = [j \in Jobs |-> "none"]
        /\ built = FALSE /\ decided = 0 /\ evaluated = 0
        /\ faults = 0

(* A record of these columns is inserted once: the key exists from then on. *)
Added(queue, keys) == [j \in Jobs |-> IF j \in keys /\ queue[j] = "none" THEN "queued" ELSE queue[j]]

(* The same with reopen_terminal. *)
Reopened(queue, keys) == [j \in Jobs |-> IF j \in keys /\ queue[j] \in {"none", "dead"} THEN "queued" ELSE queue[j]]

HasResult == evidence # {}

-----------------------------------------------------------------------------
(* The feed.  A frame is compared with the last one that was committed, so a *)
(* lost frame delays the end; a frame without a readable list hides it.      *)
Ends(frame) == stored = "listed" /\ frame = "gone"

Frame(frame) ==
  /\ over => frame # "listed"
  /\ ~over /\ frame # "listed" => faults < MaxFaults
  /\ faults' = IF ~over /\ frame # "listed" THEN faults + 1 ELSE faults
  /\ stored' = frame
  /\ job' = IF Ends(frame) THEN Added(job, IF known THEN {"resolve"} ELSE {"identify"}) ELSE job
  /\ UNCHANGED <<over, known, linked, published, result, decisions>>

MatchEnds ==
  /\ ~over /\ over' = TRUE
  /\ UNCHANGED <<stored, known, linked, published, result, job, decisions, faults>>

Publish(w) ==
  /\ over /\ w \notin published /\ published' = published \cup {w}
  /\ UNCHANGED <<stored, over, known, linked, result, job, decisions, faults>>

-----------------------------------------------------------------------------
(* Identity: an earlier bootstrap, or the one whose payload has ended_at,   *)
(* which also records MAP_ENDED.                                            *)
Bootstrap ==
  /\ ~known /\ known' = TRUE
  /\ UNCHANGED <<stored, over, linked, published, result, job, decisions, faults>>

Link ==
  /\ ~linked /\ linked' = TRUE
  /\ UNCHANGED <<stored, over, known, published, result, job, decisions, faults>>

Build ==
  /\ known /\ ~built /\ built' = TRUE
  /\ UNCHANGED <<seen, result, job, decided, evaluated, faults>>

(* PERSIST commits a successful decision, however late. *)
Decide ==
  /\ built /\ decided < MaxDecisions /\ decided' = decided + 1
  /\ UNCHANGED <<seen, result, job, built, evaluated, faults>>

-----------------------------------------------------------------------------
(* The jobs.  A handler that has committed may still be repeated, when its  *)
(* process dies before the job is marked.                                   *)
Finished(j, queue) ==
  \/ job' = [queue EXCEPT ![j] = "done"] /\ UNCHANGED faults
  \/ faults < MaxFaults /\ faults' = faults + 1 /\ job' = queue

Identify ==
  /\ job["identify"] = "queued"
  /\ known' = TRUE
  /\ Finished("identify", Added(job, {"resolve"}))
  /\ UNCHANGED <<stored, over, linked, published, result, decisions>>

(* A conflict of the facts, or of the evidence, is final. *)
Agreed(w, before) ==
  /\ facts' = before
  /\ evidence' = evidence \cup {w}
  /\ conflict' = (conflict \/ Cardinality(before) > 1 \/ Cardinality(evidence \cup {w}) > 1)

Resolve(j) ==
  /\ j \in Resolvers /\ job[j] = "queued" /\ known
  /\ \E w \in published : Agreed(w, facts \cup {w})
  /\ Finished(j, Added(job, {"settle"}))
  /\ UNCHANGED <<seen, decisions>>

(* SYNC_HISTORICAL persists the facts of past maps, this one included. *)
SyncHistory ==
  /\ known /\ \E w \in published \ facts : facts' = facts \cup {w}
  /\ UNCHANGED <<seen, evidence, conflict, job, decisions, faults>>

Settle(j) ==
  /\ j \in Settlers /\ job[j] = "queued"
  /\ IF HasResult THEN UNCHANGED result ELSE \E w \in facts : Agreed(w, facts)
  /\ Finished(j, Added(job, IF built THEN {"event"} ELSE {}))
  /\ UNCHANGED <<seen, decisions>>

(* All decisions there are; without a clean result the job succeeds and     *)
(* leaves nothing behind.                                                   *)
Evaluable == HasResult /\ ~conflict

Evaluate(j) ==
  /\ j \in Evaluations /\ job[j] = "queued"
  /\ evaluated' = IF Evaluable THEN decided ELSE evaluated
  /\ Finished(j, job)
  /\ UNCHANGED <<seen, result, built, decided>>

(* The attempts of a job are used up: while there is no answer to have, or  *)
(* by errors.                                                               *)
Hopeless(j) == \/ j \in Resolvers /\ (published = {} \/ ~known)
               \/ j \in Settlers /\ ~HasResult /\ facts = {}

Dies(j) ==
  /\ job[j] = "queued"
  /\ job' = [job EXCEPT ![j] = "dead"]
  /\ \/ Hopeless(j) /\ UNCHANGED faults
     \/ ~Hopeless(j) /\ faults < MaxFaults /\ faults' = faults + 1
  /\ UNCHANGED <<seen, result, decisions>>

-----------------------------------------------------------------------------
(* The reconciliation, one transaction.  The map is silent when its last    *)
(* live message is three minutes old: during the map now and then, after it *)
(* for good.                                                                *)
LacksResult(silent) == known /\ linked /\ silent /\ ~HasResult

LacksSettlement == linked /\ Cardinality(facts) = 1 /\ ~HasResult

\* Slip: the sweep asks only for an evaluation that was never asked for.
SlipAskedOnce == Evaluable /\ evaluated < decided /\ job["event"] = "none"

LacksEvaluation == Evaluable /\ evaluated < decided

Reconcile(silent) ==
  /\ job' = Reopened(Reopened(Added(job, IF LacksResult(silent) THEN {"retry"} ELSE {}),
                              IF LacksSettlement THEN {"repair"} ELSE {}),
                     IF LacksEvaluation THEN {"sweep"} ELSE {})
  /\ UNCHANGED <<seen, result, decisions, faults>>

\* Slip: the key of the sweep's postmatch job is the same for ever once used up.
SlipSameKey(state) == state = "done"

(* The key of a postmatch job of the sweep names the quarter of an hour: in *)
(* the next one the job of the last one no longer stands in its way.        *)
Expires(state) == state \in {"done", "dead"}

NextQuarter ==
  /\ Expires(job["retry"])
  /\ job' = [job EXCEPT !["retry"] = "none"]
  /\ UNCHANGED <<seen, result, decisions, faults>>

-----------------------------------------------------------------------------
Handler(j) == \/ j = "identify" /\ Identify
              \/ Resolve(j)
              \/ Settle(j)
              \/ Evaluate(j)

Next == \/ \E frame \in {"listed", "gone", "unreadable"} : Frame(frame)
        \/ MatchEnds
        \/ \E w \in Teams : Publish(w)
        \/ Bootstrap \/ Link
        \/ Build \/ Decide
        \/ Identify
        \/ \E j \in Resolvers : Resolve(j)
        \/ \E j \in Settlers : Settle(j)
        \/ \E j \in Evaluations : Evaluate(j)
        \/ SyncHistory
        \/ \E j \in Jobs : Dies(j)
        \/ \E silent \in BOOLEAN : Reconcile(silent)
        \/ NextQuarter

Spec == Init /\ [][Next]_vars

(* The workers run, time passes, the sweep comes back every minute, also    *)
(* when an ended map has been silent for three.  The feed, the providers    *)
(* and the identification owe nothing.                                      *)
Fairness == /\ WF_vars(\E j \in Jobs : Handler(j))
            /\ WF_vars(over /\ Reconcile(TRUE))
            /\ WF_vars(NextQuarter)

FairSpec == Spec /\ Fairness

-----------------------------------------------------------------------------
(* Types, and what a result rests on: a winner with a stored fact behind it *)
(* that a provider has published (resolve_postmatch and settle_map).        *)
TypeOK == /\ stored \in {"listed", "gone", "unreadable"}
          /\ over \in BOOLEAN /\ known \in BOOLEAN /\ linked \in BOOLEAN
          /\ published \subseteq Teams /\ facts \subseteq published /\ evidence \subseteq facts
          /\ conflict \in BOOLEAN /\ (conflict => HasResult)
          /\ job \in [Jobs -> States] /\ built \in BOOLEAN
          /\ decided \in 0..MaxDecisions /\ evaluated \in 0..decided
          /\ faults \in 0..MaxFaults

(* Whatever frames were lost, unreadable or early, and however often the    *)
(* providers had nothing yet: a map that ended, is known and linked and has *)
(* a published winner gets its result (_reconcile_postmatch).               *)
EndedMapHasResult == []<>(over /\ known /\ linked /\ published # {} => HasResult)

(* A decision is evaluated against the result, also one that was persisted  *)
(* after the evaluation had been asked for and had run, unless providers    *)
(* come to disagree (_reconcile_evaluations).  The job of the sweep is one  *)
(* for the snapshot and for ever: a decision that is persisted after it has *)
(* served another one is left out.                                          *)
LeftOut == job["sweep"] = "done" /\ evaluated > 0

EveryDecisionEvaluated ==
  []<>(HasResult => evaluated = decided \/ conflict \/ LeftOut)
=============================================================================
