--------------------------- MODULE OutcomesProofs ---------------------------
(***************************************************************************)
(* Proofs about Outcomes.tla, FutureOdds.tla, Readiness.tla, Reports.tla.  *)
(*                                                                         *)
(* Of the results: types, and that a result rests on a stored fact that a  *)
(* provider has published, for any set of winners, any number of decisions *)
(* and any number of faults.                                               *)
(*                                                                         *)
(* Of the captures: types, that what is captured for a horizon is          *)
(* determined by the prices alone, and that every capture is answered, for *)
(* any number of prices, buckets, repeated jobs and faults, and any retry  *)
(* window.                                                                 *)
(*                                                                         *)
(* Of the funnel: that it drops out where its first blocker says, for any  *)
(* number of maps.                                                         *)
(*                                                                         *)
(* Of the reports: that they agree with one another, for any snapshots,    *)
(* maps, events, odds, answers and results.  ReportsInv says what the      *)
(* tables have in common: the books of the accounts (BooksBalance), their  *)
(* ledger (MoneyBooked), whose a position is (Owned, DecisionsFunded),     *)
(* when a result came (ResultsDated), by which winner a decision was       *)
(* graded and a bet was settled (GradesStand, BetsGraded), and what a      *)
(* reader of the pages has seen (WalkGoesOn).                              *)
(***************************************************************************)
EXTENDS Outcomes, FutureOdds, Readiness, Reports, PortfolioProofs, SequenceTheorems

(* The part of TypeOK that is about the result of the map.                 *)
ResultOK == /\ published \subseteq Teams /\ facts \subseteq published /\ evidence \subseteq facts
            /\ conflict \in BOOLEAN /\ (conflict => HasResult)

Queue == [Jobs -> States]

DecisionsOK == built \in BOOLEAN /\ decided \in 0..MaxDecisions /\ evaluated \in 0..decided

-----------------------------------------------------------------------------
(* Whatever is put into the queue, it stays one.                           *)
LEMMA AddedType ==
  ASSUME NEW queue \in Queue, NEW keys
  PROVE  Added(queue, keys) \in Queue
  BY DEF Added, Queue, States

(* Requeueing keys keeps the types of the queue.                            *)
LEMMA ReopenedType ==
  ASSUME NEW queue \in Queue, NEW keys
  PROVE  Reopened(queue, keys) \in Queue
  BY DEF Reopened, Queue, States

(* So does a job that ends, with or without a failure.                      *)
LEMMA FinishedType ==
  ASSUME faults \in 0..MaxFaults, NEW queue \in Queue, NEW j \in Jobs, Finished(j, queue)
  PROVE  job' \in Queue /\ faults' \in 0..MaxFaults
<1>1. "done" \in States
  BY DEF States
<1> QED
  BY <1>1, OutcomesAssumption DEF Finished, Queue

(* An agreement keeps what the result rests on.                            *)
LEMMA AgreedKeeps ==
  ASSUME ResultOK, NEW before \in SUBSET published, facts \subseteq before,
         NEW w \in before, Agreed(w, before), UNCHANGED published
  PROVE  ResultOK'
  BY DEF ResultOK, Agreed, HasResult

-----------------------------------------------------------------------------
(* Types, in the beginning.                                                 *)
LEMMA InitType == Init => TypeOK
<1> SUFFICES ASSUME Init PROVE TypeOK
  OBVIOUS
<1>1. "none" \in States /\ 0 \in 0..MaxFaults /\ 0 \in 0..MaxDecisions
  BY OutcomesAssumption DEF States
<1>2. job \in [Jobs -> States]
  BY <1>1 DEF Init
<1>3. decided \in 0..MaxDecisions /\ evaluated \in 0..decided
  BY OutcomesAssumption DEF Init
<1>7. built \in BOOLEAN
  BY Zenon DEF Init
<1>4. stored \in {"listed", "gone", "unreadable"} /\ over \in BOOLEAN /\ known \in BOOLEAN /\ linked \in BOOLEAN
  BY Zenon DEF Init
<1>5. /\ published \subseteq Teams /\ facts \subseteq published /\ evidence \subseteq facts
      /\ conflict \in BOOLEAN /\ ~conflict
  BY DEF Init
<1>6. faults \in 0..MaxFaults
  BY <1>1 DEF Init
<1> QED
  BY <1>2, <1>3, <1>4, <1>5, <1>6, <1>7 DEF TypeOK

(* Types, after every step.                                                 *)
LEMMA StepType == TypeOK /\ [Next]_vars => TypeOK'
<1> SUFFICES ASSUME TypeOK, [Next]_vars PROVE TypeOK'
  OBVIOUS
<1> USE OutcomesAssumption DEF TypeOK
<1>0. job \in Queue /\ faults \in 0..MaxFaults /\ ResultOK /\ DecisionsOK
  BY DEF Queue, ResultOK, DecisionsOK
<1>1. ASSUME NEW frame \in {"listed", "gone", "unreadable"}, Frame(frame) PROVE TypeOK'
  <2>1. job' \in Queue
    BY <1>0, <1>1, AddedType DEF Frame
  <2>2. faults' \in 0..MaxFaults
    BY <1>1 DEF Frame
  <2> QED
    BY <1>1, <2>1, <2>2 DEF Frame, result, decisions, HasResult, Queue
<1>2. CASE MatchEnds
  BY <1>2 DEF MatchEnds, result, decisions, HasResult
<1>3. ASSUME NEW w \in Teams, Publish(w) PROVE TypeOK'
  BY <1>3 DEF Publish, result, decisions, HasResult
<1>4. CASE Bootstrap
  BY <1>4 DEF Bootstrap, result, decisions, HasResult
<1>5. CASE Link
  BY <1>5 DEF Link, result, decisions, HasResult
<1>6. CASE Build
  BY <1>6 DEF Build, seen, result, HasResult
<1>7. CASE Decide
  BY <1>7 DEF Decide, seen, result, HasResult
<1>8. CASE Identify
  <2>1. job' \in Queue /\ faults' \in 0..MaxFaults
    BY <1>0, <1>8, AddedType, FinishedType DEF Identify, Jobs
  <2> QED
    BY <1>8, <2>1 DEF Identify, result, decisions, HasResult, Queue
<1>9. ASSUME NEW j \in Resolvers, Resolve(j) PROVE TypeOK'
  <2>1. job' \in Queue /\ faults' \in 0..MaxFaults
    BY <1>0, <1>9, AddedType, FinishedType DEF Resolve, Jobs
  <2>2. UNCHANGED <<seen, decisions>>
    BY <1>9 DEF Resolve
  <2>3. PICK w \in published : Agreed(w, facts \cup {w})
    BY <1>9 DEF Resolve
  <2>4. ResultOK'
    BY <1>0, <2>2, <2>3, AgreedKeeps DEF seen, ResultOK
  <2> QED
    BY <2>1, <2>2, <2>4 DEF seen, decisions, ResultOK, Queue
<1>10. ASSUME NEW j \in Settlers, Settle(j) PROVE TypeOK'
  <2>1. job' \in Queue /\ faults' \in 0..MaxFaults
    BY <1>0, <1>10, AddedType, FinishedType DEF Settle, Jobs
  <2>2. UNCHANGED <<seen, decisions>>
    BY <1>10 DEF Settle
  <2>3. ResultOK'
    <3>1. CASE HasResult
      BY <1>0, <1>10, <2>2, <3>1 DEF Settle, seen, result, ResultOK, HasResult
    <3>2. CASE ~HasResult
      <4>1. PICK w \in facts : Agreed(w, facts)
        BY <1>10, <3>2 DEF Settle
      <4> QED
        BY <1>0, <2>2, <4>1, AgreedKeeps DEF seen, ResultOK
    <3> QED
      BY <3>1, <3>2
  <2> QED
    BY <2>1, <2>2, <2>3 DEF seen, decisions, ResultOK, Queue
<1>11. ASSUME NEW j \in Evaluations, Evaluate(j) PROVE TypeOK'
  <2>1. job' \in Queue /\ faults' \in 0..MaxFaults
    BY <1>0, <1>11, FinishedType DEF Evaluate, Jobs
  <2>2. evaluated' \in 0..decided /\ UNCHANGED <<seen, result, built, decided>>
    BY <1>11 DEF Evaluate
  <2> QED
    BY <2>1, <2>2 DEF seen, result, HasResult, Queue
<1>12. CASE SyncHistory
  BY <1>12 DEF SyncHistory, seen, decisions, HasResult
<1>13. ASSUME NEW j \in Jobs, Dies(j) PROVE TypeOK'
  <2>1. job' \in Queue
    BY <1>0, <1>13 DEF Dies, Queue, States
  <2>2. faults' \in 0..MaxFaults /\ UNCHANGED <<seen, result, decisions>>
    BY <1>13 DEF Dies
  <2> QED
    BY <2>1, <2>2 DEF seen, result, decisions, HasResult, Queue
<1>14. ASSUME NEW silent \in BOOLEAN, Reconcile(silent) PROVE TypeOK'
  <2>1. job' \in Queue
    BY <1>0, <1>14, AddedType, ReopenedType DEF Reconcile
  <2> QED
    BY <1>14, <2>1 DEF Reconcile, seen, result, decisions, HasResult, Queue
<1>15. CASE NextQuarter
  <2>1. job' \in Queue
    BY <1>0, <1>15 DEF NextQuarter, Queue, States
  <2> QED
    BY <1>15, <2>1 DEF NextQuarter, seen, result, decisions, HasResult, Queue
<1>16. CASE UNCHANGED vars
  BY <1>16 DEF vars, seen, result, decisions, HasResult
<1> QED
  BY <1>1, <1>2, <1>3, <1>4, <1>5, <1>6, <1>7, <1>8, <1>9, <1>10, <1>11, <1>12, <1>13, <1>14, <1>15, <1>16 DEF Next

(* Types; a result is backed by a stored fact that a provider published,   *)
(* and there is no conflict without a result (SettlementService.settle).   *)
THEOREM OutcomeTypes == Spec => []TypeOK
  BY InitType, StepType, PTL DEF Spec

-----------------------------------------------------------------------------
(* FutureOdds.                                                             *)

(* Prices are stored as they arrive.                                       *)
PricesArePast == \A p \in odds : p.at =< now

(* HorizonIsTimeless is not inductive by itself: a later price leaves the  *)
(* first ones alone only because a captured pair has a price of each leg.  *)
BothLegs(pair) == \A l \in Legs : \E p \in pair : p.leg = l

CapturedBoth == type = "horizon" /\ row.status = "CAPTURED" => BothLegs(row.pair)

(* The first prices from the due time on are a pair, of time t.            *)
FirstAt(t) == Eligible(HorizonPair, 0) /\ \A p \in HorizonPair : p.at = t

OddsInv == OddsTypeOK /\ PricesArePast /\ CapturedBoth /\ HorizonIsTimeless

-----------------------------------------------------------------------------
(* The jobs of a reconciliation keep one job per key.                      *)
OneJobPerKey(all) == \A j, k \in all : j.bucket = k.bucket => j = k

(* enqueue keeps one job per idempotency key.                               *)
LEMMA EnqueuedKeeps ==
  ASSUME NEW all \in SUBSET Job, NEW new \in Job, OneJobPerKey(all)
  PROVE  Enqueued(all, new) \in SUBSET Job /\ OneJobPerKey(Enqueued(all, new))
  BY DEF Enqueued, OneJobPerKey

(* So does a key that is asked for again after its job ended.               *)
LEMMA RequeuedKeeps ==
  ASSUME NEW all \in SUBSET Job, NEW new \in Job, OneJobPerKey(all)
  PROVE  Requeued(all, new) \in SUBSET Job /\ OneJobPerKey(Requeued(all, new))
<1> DEFINE more == Enqueued(all, new)
           again(j) == IF j.bucket = new.bucket /\ j.state = "dead" THEN [j EXCEPT !.state = "queued"] ELSE j
<1>1. more \in SUBSET Job /\ OneJobPerKey(more)
  BY EnqueuedKeeps
<1>2. Requeued(all, new) = {again(j) : j \in more}
  BY DEF Requeued
<1>3. ASSUME NEW j \in more PROVE again(j) \in Job /\ again(j).bucket = j.bucket
  BY <1>1, <1>3 DEF Job
<1> HIDE DEF more, again
<1> QED
  BY <1>1, <1>2, <1>3 DEF OneJobPerKey

(* A job of the future odds that ends keeps its key.                        *)
LEMMA BecomesKeeps ==
  ASSUME OddsTypeOK, NEW j \in jobs, NEW state \in {"queued", "done", "dead"}, Becomes(j, state)
  PROVE  jobs' \in SUBSET Job /\ OneJobPerKey(jobs')
<1>1. [j EXCEPT !.state = state] \in Job /\ [j EXCEPT !.state = state].bucket = j.bucket
  BY DEF OddsTypeOK, Job
<1> DEFINE k == [j EXCEPT !.state = state]
<1>2. jobs' = (jobs \ {j}) \cup {k}
  BY DEF Becomes
<1>3. jobs \subseteq Job /\ OneJobPerKey(jobs)
  BY DEF OddsTypeOK, OneJobPerKey
<1>4. k \in Job /\ k.bucket = j.bucket
  BY <1>1
<1> HIDE DEF k
<1> QED
  BY <1>2, <1>3, <1>4 DEF OneJobPerKey

(* The row a capture writes.                                               *)
LEMMA CapturedType ==
  ASSUME OddsTypeOK, NEW j \in jobs
  PROVE  /\ Captured(j) \in Row
         /\ type = "closing" => \A p \in Captured(j).pair : p.at =< Captured(j).at
<1>1. j.at \in Times
  BY DEF OddsTypeOK, Job
<1>2. Evidence(j.at) \subseteq odds /\ (type = "closing" => \A p \in Evidence(j.at) : p.at =< j.at)
  BY DEF OddsTypeOK, Types, Evidence, HorizonPair, FirstAfter, LastUpTo
<1>3. CASE row.status = "CAPTURED"
  BY <1>3 DEF OddsTypeOK, Captured
<1>4. CASE row.status # "CAPTURED"
  <2> DEFINE found == Quality(Evidence(j.at), j.at)
             pair == IF found THEN Evidence(j.at) ELSE {}
             status == IF found THEN "CAPTURED" ELSE "MISSING"
  <2>1. Captured(j) = [status |-> status, pair |-> pair, at |-> j.at]
    BY <1>4 DEF Captured
  <2>2. pair \in SUBSET Price /\ status \in {"none", "MISSING", "CAPTURED"}
    BY <1>2 DEF OddsTypeOK
  <2>3. type = "closing" => \A p \in pair : p.at =< j.at
    BY <1>2
  <2> HIDE DEF pair, status
  <2> QED
    BY <1>1, <2>1, <2>2, <2>3 DEF Row
<1> QED
  BY <1>3, <1>4

(* What a capture writes for a horizon is the first prices, both legs.     *)
LEMMA CapturedHorizon ==
  ASSUME NEW j, type = "horizon", CapturedBoth, HorizonIsTimeless, Captured(j).status = "CAPTURED"
  PROVE  Captured(j).pair = HorizonPair /\ BothLegs(Captured(j).pair)
<1>1. CASE row.status = "CAPTURED"
  BY <1>1 DEF Captured, CapturedBoth, HorizonIsTimeless
<1>2. CASE row.status # "CAPTURED"
  <2>1. Quality(HorizonPair, j.at)
    BY <1>2 DEF Captured, Evidence
  <2> QED
    BY <1>2, <2>1 DEF Captured, Evidence, Quality, Eligible, BothLegs
<1> QED
  BY <1>1, <1>2

-----------------------------------------------------------------------------
(* Before any price, and before any capture.                               *)
LEMMA InitOdds == ASSUME FutureOddsAssumption, OddsInit PROVE OddsInv
<1>1. DueAt \in Times /\ 0 \in Times /\ Never \in Times \cup {Never}
  BY DEF FutureOddsAssumption, Times
<1>2. NoRow \in Row
  BY DEF NoRow, Row
<1>3. jobs \subseteq Job /\ \A j, k \in jobs : j = k
  BY <1>1 DEF OddsInit, Job
<1>4. 0 \in 0..MaxOddsFaults
  BY DEF FutureOddsAssumption
<1>5. row.status = "none" /\ row.pair = {}
  BY DEF OddsInit, NoRow
<1>6. OddsTypeOK
  BY <1>1, <1>2, <1>3, <1>4, <1>5 DEF OddsInit, OddsTypeOK
<1> QED
  BY <1>5, <1>6 DEF OddsInit, OddsInv, PricesArePast, CapturedBoth, HorizonIsTimeless

(* A price that arrives is newer than any other of its leg, so a pair of   *)
(* first prices that is complete does not change (FutureOddsService.capture *)
(* takes the first price from the due time on).                            *)
LEMMA FirstPairStays ==
  ASSUME FutureOddsAssumption, OddsTypeOK, PricesArePast, BothLegs(HorizonPair),
         NEW legs \in SUBSET Legs, NEW open \in BOOLEAN, Move(legs, open)
  PROVE  HorizonPair' = HorizonPair
<1> DEFINE new == [leg : legs, at : {now}, open : {open}]
<1>1. odds' = odds \cup new /\ now' = now
  BY DEF Move
<1>2. new \subseteq Price /\ \A p \in new : p.at = now /\ p.leg \in legs
  BY DEF OddsTypeOK, Price
<1>3. now \in Nat /\ DueAt \in Nat /\ \A p \in odds \cup new : p.at \in Nat
  BY <1>2 DEF FutureOddsAssumption, OddsTypeOK, Times, Price
<1> HIDE DEF new
<1>4. ASSUME NEW p \in new PROVE p \notin FirstAfter(DueAt)'
  <2>1. PICK q \in odds : q.leg = p.leg /\ q.at >= DueAt
    BY <1>2, <1>4 DEF BothLegs, HorizonPair, FirstAfter
  <2>2. q.at < now
    BY <1>2, <1>4, <2>1 DEF Move
  <2> QED
    BY <1>1, <1>2, <1>3, <1>4, <2>1, <2>2 DEF FirstAfter
<1>5. ASSUME NEW p \in odds PROVE p \in FirstAfter(DueAt)' <=> p \in FirstAfter(DueAt)
  <2>1. \A q \in new : p.at =< q.at
    BY <1>2 DEF PricesArePast
  <2> QED
    BY <1>1, <1>5, <2>1 DEF FirstAfter
<1> QED
  BY <1>1, <1>4, <1>5 DEF HorizonPair, FirstAfter

(* A pair that a price completes has the time of that price.               *)
LEMMA NewPairIsNow ==
  ASSUME FutureOddsAssumption, OddsTypeOK, PricesArePast,
         NEW legs \in SUBSET Legs, NEW open \in BOOLEAN, Move(legs, open),
         NEW t \in Times, FirstAt(t)'
  PROVE  t = now \/ HorizonPair' = HorizonPair
<1>1. CASE BothLegs(HorizonPair)
  BY <1>1, FirstPairStays
<1>2. CASE ~BothLegs(HorizonPair)
  <2>1. PICK l \in Legs : ~\E p \in HorizonPair : p.leg = l
    BY <1>2 DEF BothLegs
  <2>2. PICK p \in HorizonPair' : p.leg = l /\ p.at = t
    BY <2>1 DEF FirstAt, Eligible
  <2>3. odds \subseteq odds' /\ \A q \in odds' \ odds : q.at = now
    BY DEF Move
  <2>4. p \in odds => p \in HorizonPair
    BY <2>2, <2>3 DEF HorizonPair, FirstAfter
  <2>5. p \in odds'
    BY <2>2 DEF HorizonPair, FirstAfter
  <2> QED
    BY <2>1, <2>2, <2>3, <2>4, <2>5
<1> QED
  BY <1>1, <1>2

(* A price that arrives leaves a captured horizon its first prices.        *)
LEMMA MoveOdds ==
  ASSUME FutureOddsAssumption, OddsInv, NEW legs \in SUBSET Legs, NEW open \in BOOLEAN, Move(legs, open)
  PROVE  OddsInv'
<1> DEFINE new == [leg : legs, at : {now}, open : {open}]
<1>1. odds' = odds \cup new /\ UNCHANGED <<now, type, row, jobs, mapEnded, firstUsable, swept, oddsFaults>>
  BY DEF Move
<1>2. new \subseteq Price /\ \A p \in new : p.at = now /\ p.leg \in legs
  BY DEF OddsInv, OddsTypeOK, Price
<1>3. OddsTypeOK'
  BY <1>1, <1>2 DEF OddsInv, OddsTypeOK
<1>4. now \in Nat /\ DueAt \in Nat /\ \A p \in odds \cup new : p.at \in Nat
  BY <1>2 DEF FutureOddsAssumption, OddsInv, OddsTypeOK, Times, Price
<1> HIDE DEF new
<1>5. PricesArePast'
  BY <1>1, <1>2, <1>4 DEF OddsInv, PricesArePast
<1>6. BothLegs(HorizonPair) => HorizonPair' = HorizonPair
  BY FirstPairStays DEF OddsInv
<1> QED
  BY <1>1, <1>3, <1>5, <1>6 DEF OddsInv, CapturedBoth, HorizonIsTimeless, BothLegs

(* A capture, marked or not, and one that is given up.                     *)
LEMMA CaptureOdds ==
  ASSUME FutureOddsAssumption, OddsInv, NEW j \in jobs, Capture(j) \/ CaptureUnmarked(j) \/ CaptureDies(j)
  PROVE  OddsInv'
<1>1. UNCHANGED <<now, type, odds, mapEnded, firstUsable, swept>>
  BY DEF Capture, CaptureUnmarked, CaptureDies
<1>2. jobs' \in SUBSET Job /\ OneJobPerKey(jobs')
  BY BecomesKeeps DEF OddsInv, OddsTypeOK, OneJobPerKey, Capture, CaptureUnmarked, CaptureDies
<1>3. row' = row \/ row' = Captured(j)
  BY DEF Capture, CaptureUnmarked, CaptureDies
<1>4. oddsFaults' \in 0..MaxOddsFaults
  BY DEF FutureOddsAssumption, OddsInv, OddsTypeOK, Capture, CaptureUnmarked, CaptureDies
<1>5. row' \in Row /\ (type = "closing" => \A p \in row'.pair : p.at =< row'.at)
  BY <1>3, CapturedType DEF OddsInv, OddsTypeOK
<1>6. OddsTypeOK'
  BY <1>1, <1>2, <1>4, <1>5 DEF OddsInv, OddsTypeOK, OneJobPerKey
<1>7. HorizonPair' = HorizonPair
  BY <1>1 DEF HorizonPair, FirstAfter
<1>8. type = "horizon" /\ row'.status = "CAPTURED" => row'.pair = HorizonPair /\ BothLegs(row'.pair)
  BY <1>3, CapturedHorizon DEF OddsInv, CapturedBoth, HorizonIsTimeless
<1> QED
  BY <1>1, <1>6, <1>7, <1>8 DEF OddsInv, PricesArePast, CapturedBoth, HorizonIsTimeless, BothLegs

(* Everything else leaves the prices and the row alone.                    *)
LEMMA QuietOdds ==
  ASSUME OddsInv, UNCHANGED <<type, odds, row>>, now' \in Nat, now =< now'
  PROVE  PricesArePast' /\ CapturedBoth' /\ HorizonIsTimeless'
<1>1. now \in Nat /\ \A p \in odds : p.at \in Nat
  BY DEF OddsInv, OddsTypeOK, Times, Price
<1>2. HorizonPair' = HorizonPair
  BY DEF HorizonPair, FirstAfter
<1> QED
  BY <1>1, <1>2 DEF OddsInv, PricesArePast, CapturedBoth, HorizonIsTimeless, BothLegs

(* MAP_ENDED enqueues the closing capture under its one key.               *)
LEMMA MapEndsOdds ==
  ASSUME FutureOddsAssumption, OddsInv, NEW time \in Times, MapEnds(time)
  PROVE  OddsInv'
<1>1. UNCHANGED <<now, type, odds, row, firstUsable, swept, oddsFaults>> /\ mapEnded' = time
  BY DEF MapEnds
<1>2. 0 \in Times
  BY DEF FutureOddsAssumption, Times
<1>3. [bucket |-> 0, at |-> time, state |-> "queued"] \in Job
  BY <1>2 DEF Job
<1>4. jobs' \in SUBSET Job /\ OneJobPerKey(jobs')
  BY <1>3, EnqueuedKeeps DEF MapEnds, OddsInv, OddsTypeOK, OneJobPerKey
<1>5. OddsTypeOK'
  BY <1>1, <1>4 DEF OddsInv, OddsTypeOK, OneJobPerKey
<1> QED
  BY <1>1, <1>5, QuietOdds DEF OddsInv, OddsTypeOK, Times

(* A result adds the time that triggers a closing capture without an end.  *)
LEMMA ResultOdds ==
  ASSUME OddsInv, ResultArrives
  PROVE  OddsInv'
<1>1. UNCHANGED <<now, type, odds, row, jobs, mapEnded, swept, oddsFaults>> /\ firstUsable' = now
  BY DEF ResultArrives
<1>2. OddsTypeOK'
  BY <1>1 DEF OddsInv, OddsTypeOK
<1> QED
  BY <1>1, <1>2, QuietOdds DEF OddsInv, OddsTypeOK, Times

(* The sweep enqueues or reopens a capture (_reconcile_future_odds).       *)
LEMMA ReconcileKeeps ==
  ASSUME FutureOddsAssumption, OddsInv, ReconcileOdds
  PROVE  OddsInv'
<1>1. UNCHANGED <<now, type, odds, row, mapEnded, firstUsable, oddsFaults>> /\ swept' = TRUE
  BY DEF ReconcileOdds
<1>2. Trigger # Never => Trigger \in Times
  BY DEF OddsInv, OddsTypeOK, Trigger, Times, FutureOddsAssumption
<1>3. Bucket \in Times
  BY DEF FutureOddsAssumption, OddsInv, OddsTypeOK, Bucket, Times
<1>4. Wanted => [bucket |-> Bucket, at |-> Trigger, state |-> "queued"] \in Job
  BY <1>2, <1>3 DEF Wanted, Job
<1>5. jobs' \in SUBSET Job /\ OneJobPerKey(jobs')
  BY <1>4, RequeuedKeeps DEF ReconcileOdds, OddsInv, OddsTypeOK, OneJobPerKey
<1>6. OddsTypeOK'
  BY <1>1, <1>5 DEF OddsInv, OddsTypeOK, OneJobPerKey
<1> QED
  BY <1>1, <1>6, QuietOdds DEF OddsInv, OddsTypeOK, Times

(* A bucket ends.                                                          *)
LEMMA TickOdds ==
  ASSUME FutureOddsAssumption, OddsInv, Tick
  PROVE  OddsInv'
<1>1. UNCHANGED <<type, odds, row, jobs, mapEnded, firstUsable>> /\ swept' = FALSE
  BY DEF Tick
<1>2. now' \in Times /\ now' = now + 1 /\ now \in Nat
  BY DEF Tick, OddsInv, OddsTypeOK, Times, FutureOddsAssumption
<1>3. oddsFaults' \in 0..MaxOddsFaults
  BY DEF Tick, OddsInv, OddsTypeOK, FutureOddsAssumption
<1>4. OddsTypeOK'
  BY <1>1, <1>2, <1>3 DEF OddsInv, OddsTypeOK
<1> QED
  BY <1>1, <1>2, <1>4, QuietOdds DEF OddsInv

-----------------------------------------------------------------------------
(* Every step keeps the invariant.                                         *)
LEMMA StepOdds ==
  ASSUME FutureOddsAssumption, OddsInv, [OddsNext]_oddsVars
  PROVE  OddsInv'
<1>1. ASSUME NEW legs \in SUBSET Legs, NEW open \in BOOLEAN, Move(legs, open) PROVE OddsInv'
  BY <1>1, MoveOdds
<1>2. ASSUME NEW j \in jobs, Capture(j) \/ CaptureUnmarked(j) \/ CaptureDies(j) PROVE OddsInv'
  BY <1>2, CaptureOdds
<1>3. ASSUME NEW time \in Times, MapEnds(time) PROVE OddsInv'
  BY <1>3, MapEndsOdds
<1>4. CASE ResultArrives
  BY <1>4, ResultOdds
<1>5. CASE ReconcileOdds
  BY <1>5, ReconcileKeeps
<1>6. CASE Tick
  BY <1>6, TickOdds
<1>7. CASE UNCHANGED oddsVars
  BY <1>7 DEF oddsVars, OddsInv, OddsTypeOK, PricesArePast, CapturedBoth, BothLegs, HorizonIsTimeless, HorizonPair, FirstAfter
<1> QED
  BY <1>1, <1>2, <1>3, <1>4, <1>5, <1>6, <1>7 DEF OddsNext

(* The invariant that carries both theorems below.                         *)
THEOREM OddsInvariance == ASSUME FutureOddsAssumption PROVE OddsSpec => []OddsInv
<1>1. OddsInit => OddsInv
  BY InitOdds
<1>2. OddsInv /\ [OddsNext]_oddsVars => OddsInv'
  BY StepOdds
<1> QED
  BY <1>1, <1>2, PTL DEF OddsSpec

(* Types, one job per dedupe key, and no price from after the end of a map *)
(* in its closing pair, however often the sweep asks again.                *)
THEOREM OddsTypes == ASSUME FutureOddsAssumption PROVE OddsSpec => []OddsTypeOK
<1>1. OddsInv => OddsTypeOK
  BY DEF OddsInv
<1> QED
  BY <1>1, OddsInvariance, PTL

(* What FutureOddsService.capture keeps for a horizon depends on the       *)
(* prices alone: not on when the job ran, was repeated or asked for again. *)
THEOREM HorizonsAreTimeless == ASSUME FutureOddsAssumption PROVE OddsSpec => []HorizonIsTimeless
<1>1. OddsInv => HorizonIsTimeless
  BY DEF OddsInv
<1> QED
  BY <1>1, OddsInvariance, PTL

-----------------------------------------------------------------------------
(* That MISSING is not the last word is a matter of counting: from the time *)
(* an answer is owed, a bucket passes without it only when a fault was      *)
(* spent.  `since` is that time, `last` the last bucket in which the sweep  *)
(* still asks for a capture.                                                *)
Counted(since, last) ==
  /\ now =< last + 1 => now - since - 1 =< oddsFaults
  /\ now > last + 1 => last - since =< oddsFaults
  /\ swept /\ since < now /\ now =< last =>
        now - since =< oddsFaults \/ (\E j \in jobs : Due(j))

(* The jobs of a capture know its time; a row that is not there was looked  *)
(* for by no job; a job that failed for good was a fault.                   *)
JobsKnowTheirTime ==
  /\ type = "horizon" => \A j \in jobs : j.at = DueAt /\ j.bucket =< now
  /\ type = "closing" => \A j \in jobs : j.at =< now
  /\ row.status = "none" => \A j \in jobs : j.state # "done"
  /\ (\E j \in jobs : j.state = "dead") => oddsFaults >= 1

(* A repeated job that is done ran before the pair was complete.            *)
RepeatsCameEarly ==
  type = "horizon" /\ row.status # "CAPTURED" =>
    \A t \in Times : FirstAt(t) =>
      \A j \in jobs : j.state = "done" /\ j.bucket > 0 => j.bucket =< t

(* The times that trigger a closing capture have passed.                    *)
TriggersArePast ==
  /\ type = "horizon" => mapEnded = Never /\ firstUsable = Never
  /\ mapEnded # Never => mapEnded =< now
  /\ firstUsable # Never => firstUsable =< now

HorizonCounted ==
  type = "horizon" /\ row.status # "CAPTURED" =>
    \A t \in Times : FirstAt(t) => Counted(t, DueAt + RetryWindow)

ClosingCounted ==
  type = "closing" /\ row.status = "none" /\ Trigger # Never =>
    Counted(Trigger, Trigger + RetryWindow)

AnswerInv == /\ OddsInv /\ JobsKnowTheirTime /\ RepeatsCameEarly /\ TriggersArePast
             /\ HorizonCounted /\ ClosingCounted

-----------------------------------------------------------------------------
(* What the lemmas below compute with.                                     *)
LEMMA Numbers ==
  ASSUME FutureOddsAssumption, OddsTypeOK
  PROVE  /\ now \in Nat /\ oddsFaults \in Nat /\ DueAt \in Nat \ {0} /\ RetryWindow \in Nat
         /\ Times \subseteq Nat /\ Never \notin Times /\ 0 \in Times
         /\ \A j \in jobs : j.at \in Nat /\ j.bucket \in Nat
         /\ \A p \in odds : p.at \in Nat
  BY DEF FutureOddsAssumption, OddsTypeOK, Times, Never, Job, Price

(* A bucket that ends without an answer has cost a fault: the sweep had run *)
(* and no job was due, or the tick was late (the periodic sweep of          *)
(* _reconcile_future_odds and the workers of the job runner).              *)
LEMMA CountedTick ==
  ASSUME FutureOddsAssumption, OddsTypeOK, NEW since \in Nat, NEW last \in Nat,
         since =< now, Counted(since, last), Tick
  PROVE  Counted(since, last)'
<1>1. now \in Nat /\ oddsFaults \in Nat
  BY Numbers
<1>2. now' = now + 1 /\ swept' = FALSE
  BY DEF Tick
<1>3. CASE swept /\ ~\E j \in jobs : Due(j)
  <2>1. oddsFaults' = oddsFaults
    BY <1>3 DEF Tick
  <2> QED
    BY <1>1, <1>2, <1>3, <2>1 DEF Counted
<1>4. CASE ~(swept /\ ~\E j \in jobs : Due(j))
  <2>1. oddsFaults' = oddsFaults + 1
    BY <1>4 DEF Tick
  <2> QED
    BY <1>1, <1>2, <2>1 DEF Counted
<1> QED
  BY <1>3, <1>4

(* A job that failed for good pays for its bucket.                         *)
LEMMA CountedDies ==
  ASSUME FutureOddsAssumption, OddsTypeOK, NEW since \in Nat, NEW last \in Nat,
         Counted(since, last), NEW j \in jobs, CaptureDies(j)
  PROVE  Counted(since, last)'
<1>1. now \in Nat /\ oddsFaults \in Nat
  BY Numbers
<1>2. now' = now /\ oddsFaults' = oddsFaults + 1
  BY DEF CaptureDies
<1> QED
  BY <1>1, <1>2 DEF Counted

(* The sweep leaves a job that is due.                                     *)
LEMMA CountedSwept ==
  ASSUME NEW since \in Nat, NEW last \in Nat, Counted(since, last), UNCHANGED <<now, oddsFaults>>,
         since < now /\ now =< last => \E j \in jobs' : Due(j)'
  PROVE  Counted(since, last)'
  BY DEF Counted

(* Of a repeated or reopened job: it is queued, unless it is done.         *)
LEMMA RequeuedHas ==
  ASSUME NEW all \in SUBSET Job, NEW new \in Job, new.state = "queued"
  PROVE  \E j \in Requeued(all, new) :
            /\ j.bucket = new.bucket
            /\ j.state = "queued" \/ (j.state = "done" /\ j \in all)
<1> DEFINE again(j) == IF j.bucket = new.bucket /\ j.state = "dead" THEN [j EXCEPT !.state = "queued"] ELSE j
<1>1. PICK j \in Enqueued(all, new) : j.bucket = new.bucket /\ (j \in all \/ j = new)
  BY DEF Enqueued
<1>2. again(j) \in Requeued(all, new)
  BY <1>1 DEF Requeued
<1>3. again(j).bucket = new.bucket /\ (again(j).state = "queued" \/ (again(j).state = "done" /\ j \in all /\ again(j) = j))
  BY <1>1 DEF Job
<1> QED
  BY <1>2, <1>3

(* ... and every job that is there then was there, or is new, or is queued  *)
(* again.                                                                  *)
LEMMA RequeuedFrom ==
  ASSUME NEW all \in SUBSET Job, NEW new \in Job, new.state = "queued",
         NEW k \in Requeued(all, new)
  PROVE  /\ k.state # "queued" => k \in all
         /\ \/ k = new
            \/ \E j \in all : k.at = j.at /\ k.bucket = j.bucket
<1> DEFINE again(j) == IF j.bucket = new.bucket /\ j.state = "dead" THEN [j EXCEPT !.state = "queued"] ELSE j
<1>1. PICK j \in Enqueued(all, new) : k = again(j)
  BY DEF Requeued
<1>2. j = new \/ j \in all
  BY <1>1 DEF Enqueued
<1>3. CASE j = new
  BY <1>1, <1>3 DEF Job
<1>4. CASE j \in all
  BY <1>1, <1>4 DEF Job
<1> QED
  BY <1>2, <1>3, <1>4

(* A capture of a pair of first prices captures it, whenever it runs.      *)
LEMMA PairIsCaptured ==
  ASSUME NEW j, type = "horizon", NEW t, FirstAt(t), row' = Captured(j)
  PROVE  row'.status = "CAPTURED"
  BY DEF FirstAt, Captured, Evidence, Quality

(* A pair of first prices has a time, from the due time on.                *)
LEMMA PairIsDue ==
  ASSUME FutureOddsAssumption, OddsTypeOK, PricesArePast, NEW t \in Times, FirstAt(t)
  PROVE  DueAt =< t /\ t =< now
<1>1. PICK l \in Legs : TRUE
  BY FS_EmptySet DEF FutureOddsAssumption
<1>2. PICK p \in HorizonPair : p.at = t
  BY <1>1 DEF FirstAt, Eligible
<1> QED
  BY <1>2, Numbers DEF HorizonPair, FirstAfter, PricesArePast

(* The pair of first prices depends on the prices alone.                   *)
LEMMA SamePair ==
  ASSUME UNCHANGED odds
  PROVE  HorizonPair' = HorizonPair /\ \A t : FirstAt(t)' <=> FirstAt(t)
  BY DEF FirstAt, Eligible, HorizonPair, FirstAfter

(* While neither time nor the jobs change, what was counted stays counted.  *)
LEMMA SameCount ==
  ASSUME UNCHANGED <<now, swept, jobs, oddsFaults>>, NEW since, NEW last, Counted(since, last)
  PROVE  Counted(since, last)'
  BY DEF Counted, Due

(* At the moment an answer is first owed nothing has to be counted.        *)
LEMMA NothingYet ==
  ASSUME FutureOddsAssumption, OddsTypeOK, NEW last \in Nat
  PROVE  Counted(now, last)
  BY Numbers DEF Counted

(* Before the first decision no capture is owed.                            *)
LEMMA InitAnswers == ASSUME FutureOddsAssumption, OddsInit PROVE AnswerInv
<1>1. OddsInv /\ OddsTypeOK
  BY InitOdds DEF OddsInv
<1>2. odds = {} /\ mapEnded = Never /\ firstUsable = Never /\ row.status = "none"
  BY DEF OddsInit, NoRow
<1>3. \A j \in jobs : type = "horizon" /\ j.at = DueAt /\ j.bucket = 0 /\ j.state = "queued"
  BY DEF OddsInit
<1>4. JobsKnowTheirTime
  BY <1>3 DEF OddsInit, JobsKnowTheirTime, Types
<1>5. \A t \in Times : ~FirstAt(t)
  <2>1. PICK l \in Legs : TRUE
    BY FS_EmptySet DEF FutureOddsAssumption
  <2> QED
    BY <1>2, <2>1 DEF FirstAt, Eligible, HorizonPair, FirstAfter
<1>6. RepeatsCameEarly /\ HorizonCounted
  BY <1>5 DEF RepeatsCameEarly, HorizonCounted
<1>7. type = "closing" => Trigger = Never
  BY <1>2 DEF Trigger
<1> QED
  BY <1>1, <1>2, <1>4, <1>6, <1>7 DEF AnswerInv, TriggersArePast, ClosingCounted

(* A price that arrives starts the count of the pair it completes.         *)
LEMMA MoveAnswers ==
  ASSUME FutureOddsAssumption, AnswerInv, NEW legs \in SUBSET Legs, NEW open \in BOOLEAN, Move(legs, open)
  PROVE  AnswerInv'
<1>1. UNCHANGED <<now, type, row, jobs, mapEnded, firstUsable, swept, oddsFaults>>
  BY DEF Move
<1>2. OddsInv' /\ OddsTypeOK /\ PricesArePast
  BY MoveOdds DEF AnswerInv, OddsInv
<1>3. JobsKnowTheirTime' /\ TriggersArePast'
  BY <1>1 DEF AnswerInv, JobsKnowTheirTime, TriggersArePast
<1>4. ASSUME NEW t \in Times, FirstAt(t)' PROVE t = now \/ FirstAt(t)
  <2>1. t = now \/ HorizonPair' = HorizonPair
    BY <1>2, <1>4, NewPairIsNow
  <2> QED
    BY <1>4, <2>1 DEF FirstAt, Eligible
<1>5. RepeatsCameEarly'
  <2> SUFFICES ASSUME type = "horizon", row.status # "CAPTURED", NEW t \in Times, FirstAt(t)',
                      NEW j \in jobs, j.state = "done", j.bucket > 0
               PROVE  j.bucket =< t
    BY <1>1 DEF RepeatsCameEarly
  <2> QED
    BY <1>4 DEF AnswerInv, JobsKnowTheirTime, RepeatsCameEarly
<1>6. HorizonCounted'
  <2> SUFFICES ASSUME type = "horizon", row.status # "CAPTURED", NEW t \in Times, FirstAt(t)'
               PROVE  Counted(t, DueAt + RetryWindow)'
    BY <1>1 DEF HorizonCounted
  <2>1. DueAt + RetryWindow \in Nat
    BY <1>2, Numbers
  <2>2. Counted(t, DueAt + RetryWindow)
    BY <1>2, <1>4, <2>1, NothingYet DEF AnswerInv, HorizonCounted
  <2> QED
    BY <1>1, <2>2, SameCount
<1>7. ClosingCounted'
  <2>1. Trigger' = Trigger
    BY <1>1 DEF Trigger
  <2> QED
    BY <1>1, <2>1, SameCount DEF AnswerInv, ClosingCounted
<1> QED
  BY <1>2, <1>3, <1>5, <1>6, <1>7 DEF AnswerInv

(* A capture answers what is owed.                                         *)
LEMMA CaptureAnswers ==
  ASSUME FutureOddsAssumption, AnswerInv, NEW j \in jobs, Capture(j) \/ CaptureUnmarked(j)
  PROVE  AnswerInv'
<1>1. /\ UNCHANGED <<now, type, odds, mapEnded, firstUsable, swept>>
      /\ row' = Captured(j)
  BY DEF Capture, CaptureUnmarked
<1>2. OddsInv' /\ OddsTypeOK
  BY CaptureOdds DEF AnswerInv, OddsInv
<1>3. row'.status # "none"
  BY <1>1 DEF Captured
<1>4. \A k \in jobs' : \E i \in jobs : /\ k.at = i.at /\ k.bucket = i.bucket
                                      /\ (k.state = "dead" => i.state = "dead")
  BY <1>2 DEF Capture, CaptureUnmarked, Becomes, OddsTypeOK, Job
<1>5. oddsFaults \in Nat /\ oddsFaults' >= oddsFaults /\ oddsFaults' \in Nat
  BY <1>2, Numbers DEF Capture, CaptureUnmarked
<1>6. JobsKnowTheirTime'
  BY <1>1, <1>3, <1>4, <1>5 DEF AnswerInv, JobsKnowTheirTime
<1>7. TriggersArePast'
  BY <1>1 DEF AnswerInv, TriggersArePast
<1>8. type' = "horizon" /\ row'.status # "CAPTURED" => \A t \in Times : ~FirstAt(t)'
  BY <1>1, SamePair, PairIsCaptured
<1> QED
  BY <1>2, <1>3, <1>6, <1>7, <1>8 DEF AnswerInv, RepeatsCameEarly, HorizonCounted, ClosingCounted

(* A capture that failed for good was a fault.                             *)
LEMMA DiesAnswers ==
  ASSUME FutureOddsAssumption, AnswerInv, NEW j \in jobs, CaptureDies(j)
  PROVE  AnswerInv'
<1>1. UNCHANGED <<now, type, odds, row, mapEnded, firstUsable, swept>> /\ oddsFaults' = oddsFaults + 1
  BY DEF CaptureDies
<1>2. OddsInv' /\ OddsTypeOK
  BY CaptureOdds DEF AnswerInv, OddsInv
<1>3. /\ oddsFaults \in Nat /\ DueAt + RetryWindow \in Nat /\ Times \subseteq Nat
      /\ RetryWindow \in Nat /\ DueAt \in Nat
  BY <1>2, Numbers
<1>4. \A k \in jobs' : /\ (k.state # "dead" => k \in jobs)
                       /\ \E i \in jobs : k.at = i.at /\ k.bucket = i.bucket
  BY <1>2 DEF CaptureDies, Becomes, OddsTypeOK, Job
<1>5. JobsKnowTheirTime'
  BY <1>1, <1>3, <1>4 DEF AnswerInv, JobsKnowTheirTime
<1>6. TriggersArePast' /\ Trigger' = Trigger
  BY <1>1 DEF AnswerInv, TriggersArePast, Trigger
<1>7. \A t \in Times : FirstAt(t)' <=> FirstAt(t)
  BY <1>1, SamePair
<1>8. RepeatsCameEarly'
  BY <1>1, <1>4, <1>7 DEF AnswerInv, RepeatsCameEarly
<1>9. HorizonCounted'
  <2> SUFFICES ASSUME type = "horizon", row.status # "CAPTURED", NEW t \in Times, FirstAt(t)
               PROVE  Counted(t, DueAt + RetryWindow)'
    BY <1>1, <1>7 DEF HorizonCounted
  <2>1. Counted(t, DueAt + RetryWindow)
    BY DEF AnswerInv, HorizonCounted
  <2> QED
    BY <1>2, <1>3, <2>1, CountedDies
<1>10. ClosingCounted'
  <2> SUFFICES ASSUME type = "closing", row.status = "none", Trigger # Never
               PROVE  Counted(Trigger, Trigger + RetryWindow)'
    BY <1>1, <1>6 DEF ClosingCounted
  <2>1. PICK since \in Nat : since = Trigger
    BY <1>2, <1>3 DEF Trigger, OddsTypeOK
  <2>2. Counted(since, since + RetryWindow)
    BY <2>1 DEF AnswerInv, ClosingCounted
  <2>3. Counted(since, since + RetryWindow)'
    BY <1>2, <1>3, <2>2, CountedDies
  <2> QED
    BY <1>6, <2>1, <2>3
<1> QED
  BY <1>2, <1>5, <1>6, <1>8, <1>9, <1>10 DEF AnswerInv

(* The end of the map sets the time its closing capture is counted from;   *)
(* the capture it enqueues may have been enqueued for the result before.   *)
LEMMA MapEndsAnswers ==
  ASSUME FutureOddsAssumption, AnswerInv, NEW time \in Times, MapEnds(time)
  PROVE  AnswerInv'
<1> DEFINE new == [bucket |-> 0, at |-> time, state |-> "queued"]
<1>1. /\ UNCHANGED <<now, type, odds, row, firstUsable, swept, oddsFaults>> /\ mapEnded' = time
      /\ type = "closing" /\ time \in {now, now - 1} /\ jobs' = Enqueued(jobs, new)
  BY DEF MapEnds
<1>2. OddsInv' /\ OddsTypeOK
  BY MapEndsOdds DEF AnswerInv, OddsInv
<1>3. /\ now \in Nat /\ time \in Nat /\ oddsFaults \in Nat /\ RetryWindow \in Nat /\ time # Never
      /\ time =< now /\ now =< time + 1
  BY <1>1, <1>2, Numbers
<1>4. new.state = "queued" /\ new.at = time /\ new.bucket = 0
  OBVIOUS
<1> HIDE DEF new
<1>5. /\ \A j \in jobs' : j \in jobs \/ j = new
      /\ \E j \in jobs' : j.bucket = 0
  BY <1>1, <1>4 DEF Enqueued
<1>6. JobsKnowTheirTime'
  BY <1>1, <1>3, <1>4, <1>5 DEF AnswerInv, JobsKnowTheirTime
<1>7. TriggersArePast'
  BY <1>1, <1>3 DEF AnswerInv, TriggersArePast
<1>8. ASSUME row.status = "none" PROVE Counted(time, time + RetryWindow)'
  <2>1. PICK j \in jobs' : j.bucket = 0
    BY <1>5
  <2>2. j.state # "done" /\ (j.state = "dead" => oddsFaults >= 1) /\ j.at =< now
    BY <1>1, <1>6, <1>8, <2>1 DEF JobsKnowTheirTime
  <2>3. j.state \in {"queued", "done", "dead"}
    BY <1>2, <2>1 DEF OddsInv, OddsTypeOK, Job
  <2>4. oddsFaults >= 1 \/ Due(j)'
    BY <1>1, <2>2, <2>3 DEF Due
  <2> QED
    BY <1>1, <1>3, <2>1, <2>4 DEF Counted
<1>9. type' = "closing" /\ Trigger' = time
  BY <1>1, <1>3 DEF Trigger
<1> QED
  BY <1>1, <1>2, <1>6, <1>7, <1>8, <1>9 DEF AnswerInv, RepeatsCameEarly, HorizonCounted, ClosingCounted

(* A result without an end of the map: the count starts now.               *)
LEMMA ResultAnswers ==
  ASSUME FutureOddsAssumption, AnswerInv, ResultArrives
  PROVE  AnswerInv'
<1>1. /\ UNCHANGED <<now, type, odds, row, jobs, mapEnded, swept, oddsFaults>> /\ firstUsable' = now
      /\ type = "closing"
  BY DEF ResultArrives
<1>2. OddsInv' /\ OddsTypeOK
  BY ResultOdds DEF AnswerInv, OddsInv
<1>3. now \in Nat /\ RetryWindow \in Nat
  BY <1>2, Numbers
<1>4. JobsKnowTheirTime' /\ TriggersArePast'
  BY <1>1, <1>3 DEF AnswerInv, JobsKnowTheirTime, TriggersArePast
<1>5. ClosingCounted'
  <2>1. CASE mapEnded = Never
    <3>1. Trigger' = now /\ now + RetryWindow \in Nat
      BY <1>1, <1>3, <2>1 DEF Trigger
    <3>2. Counted(now, now + RetryWindow)
      BY <1>2, <3>1, NothingYet
    <3>3. PICK since : since = now
      OBVIOUS
    <3>4. Counted(since, since + RetryWindow)'
      BY <1>1, <3>2, <3>3, SameCount
    <3> QED
      BY <3>1, <3>3, <3>4 DEF ClosingCounted
  <2>2. CASE mapEnded # Never
    <3>1. PICK since : since = Trigger
      OBVIOUS
    <3>2. Trigger' = since /\ Trigger # Never
      BY <1>1, <2>2, <3>1 DEF Trigger
    <3>3. row.status = "none" => Counted(since, since + RetryWindow)'
      BY <1>1, <3>1, <3>2, SameCount DEF AnswerInv, ClosingCounted
    <3> QED
      BY <1>1, <3>2, <3>3 DEF ClosingCounted
  <2> QED
    BY <2>1, <2>2
<1> QED
  BY <1>1, <1>2, <1>4, <1>5 DEF AnswerInv, RepeatsCameEarly, HorizonCounted

(* While an answer is owed the sweep leaves a job that is due: under the   *)
(* first key, of which no job is done while there is no row, or under the  *)
(* key of the bucket, of which none is done since the pair is complete     *)
(* (_reconcile_future_odds).                                               *)
LEMMA ReconcileAnswers ==
  ASSUME FutureOddsAssumption, AnswerInv, ReconcileOdds
  PROVE  AnswerInv'
<1> DEFINE new == [bucket |-> Bucket, at |-> Trigger, state |-> "queued"]
<1>1. /\ UNCHANGED <<now, type, odds, row, mapEnded, firstUsable, oddsFaults>>
      /\ jobs' = IF Wanted THEN Requeued(jobs, new) ELSE jobs
  BY DEF ReconcileOdds
<1>2. OddsInv' /\ OddsTypeOK /\ PricesArePast
  BY ReconcileKeeps DEF AnswerInv, OddsInv
<1>3. /\ now \in Nat /\ oddsFaults \in Nat /\ DueAt \in Nat \ {0} /\ RetryWindow \in Nat
      /\ Times \subseteq Nat /\ Never \notin Times /\ 0 \in Times /\ now \in Times
      /\ DueAt + RetryWindow \in Nat /\ type \in Types /\ jobs \in SUBSET Job /\ DueAt \in Times
  BY <1>2, Numbers DEF OddsTypeOK, FutureOddsAssumption, Times
<1>4. Trigger # Never => Trigger \in Times
  BY <1>2, <1>3 DEF OddsTypeOK, Trigger
<1>5. Wanted => new \in Job
  BY <1>3, <1>4 DEF Wanted, Bucket, Job
<1>6. new.state = "queued" /\ new.at = Trigger /\ new.bucket = Bucket
  OBVIOUS
<1>7. Bucket \in {0, now}
  BY DEF Bucket
<1> HIDE DEF new
<1>8. \A k \in jobs' : /\ (k.state # "queued" => k \in jobs)
                       /\ \/ Wanted /\ k = new
                          \/ \E j \in jobs : k.at = j.at /\ k.bucket = j.bucket
  <2>1. CASE Wanted
    BY <1>1, <1>3, <1>5, <1>6, <2>1, RequeuedFrom
  <2>2. CASE ~Wanted
    BY <1>1, <2>2
  <2> QED
    BY <2>1, <2>2
<1>9. ASSUME Wanted
      PROVE  \E k \in jobs' : /\ k.bucket = Bucket
                              /\ k.state = "queued" \/ (k.state = "done" /\ k \in jobs)
  BY <1>1, <1>3, <1>5, <1>6, <1>9, RequeuedHas
<1>10. Wanted => /\ type = "horizon" => Trigger = DueAt
                 /\ type = "closing" => Trigger =< now
  BY DEF Wanted, Trigger
<1>11. JobsKnowTheirTime'
  <2>1. type = "horizon" => \A k \in jobs' : k.at = DueAt /\ k.bucket =< now
    BY <1>3, <1>6, <1>7, <1>8, <1>10 DEF AnswerInv, JobsKnowTheirTime
  <2>2. type = "closing" => \A k \in jobs' : k.at =< now
    BY <1>6, <1>8, <1>10 DEF AnswerInv, JobsKnowTheirTime
  <2>3. row.status = "none" => \A k \in jobs' : k.state # "done"
    BY <1>8 DEF AnswerInv, JobsKnowTheirTime
  <2>4. (\E k \in jobs' : k.state = "dead") => oddsFaults >= 1
    BY <1>8 DEF AnswerInv, JobsKnowTheirTime
  <2> QED
    BY <1>1, <2>1, <2>2, <2>3, <2>4 DEF JobsKnowTheirTime
<1>12. TriggersArePast' /\ Trigger' = Trigger
  BY <1>1 DEF AnswerInv, TriggersArePast, Trigger
<1>13. \A t \in Times : FirstAt(t)' <=> FirstAt(t)
  BY <1>1, SamePair
<1>14. RepeatsCameEarly'
  BY <1>1, <1>8, <1>13 DEF AnswerInv, RepeatsCameEarly
<1>15. HorizonCounted'
  <2> SUFFICES ASSUME type = "horizon", row.status # "CAPTURED", NEW t \in Times, FirstAt(t)
               PROVE  Counted(t, DueAt + RetryWindow)'
    BY <1>1, <1>13 DEF HorizonCounted
  <2>1. Counted(t, DueAt + RetryWindow)
    BY DEF AnswerInv, HorizonCounted
  <2>2. ASSUME t < now, now =< DueAt + RetryWindow PROVE \E k \in jobs' : Due(k)'
    <3>1. Trigger = DueAt /\ DueAt < now
      BY <1>2, <1>3, <2>2, PairIsDue DEF Trigger
    <3>2. Wanted
      BY <1>3, <2>2, <3>1 DEF Wanted
    <3>3. PICK k \in jobs' : k.bucket = Bucket /\ (k.state = "queued" \/ (k.state = "done" /\ k \in jobs))
      BY <1>9, <3>2
    <3>4. row.status \in {"none", "MISSING"}
      BY <1>2 DEF OddsTypeOK, Row
    <3>5. k.state = "queued"
      <4>1. CASE row.status = "none"
        BY <3>3, <4>1 DEF AnswerInv, JobsKnowTheirTime
      <4>2. CASE row.status = "MISSING"
        <5>1. Bucket = now
          BY <1>3, <3>1, <4>2 DEF Bucket
        <5>2. k.state = "done" /\ k \in jobs => now =< t
          BY <1>3, <3>1, <3>3, <5>1 DEF AnswerInv, RepeatsCameEarly
        <5> QED
          BY <1>3, <2>2, <3>3, <5>2
      <4> QED
        BY <3>4, <4>1, <4>2
    <3>6. k.at = DueAt
      BY <1>1, <1>11, <3>3 DEF JobsKnowTheirTime
    <3> QED
      BY <1>1, <1>3, <3>1, <3>3, <3>5, <3>6 DEF Due
  <2> QED
    BY <1>1, <1>3, <2>1, <2>2, CountedSwept
<1>16. ClosingCounted'
  <2> SUFFICES ASSUME type = "closing", row.status = "none", Trigger # Never
               PROVE  Counted(Trigger, Trigger + RetryWindow)'
    BY <1>1, <1>12 DEF ClosingCounted
  <2>1. PICK since \in Nat : since = Trigger
    BY <1>3, <1>4
  <2>2. Counted(since, since + RetryWindow) /\ since + RetryWindow \in Nat
    BY <1>3, <2>1 DEF AnswerInv, ClosingCounted
  <2>3. ASSUME since < now, now =< since + RetryWindow PROVE \E k \in jobs' : Due(k)'
    <3>1. Wanted
      BY <1>3, <2>1, <2>3 DEF Wanted
    <3>2. PICK k \in jobs' : k.state = "queued" \/ (k.state = "done" /\ k \in jobs)
      BY <1>9, <3>1
    <3>3. k.state = "queued"
      BY <3>2 DEF AnswerInv, JobsKnowTheirTime
    <3> QED
      BY <1>1, <1>11, <3>2, <3>3 DEF JobsKnowTheirTime, Due
  <2>4. Counted(since, since + RetryWindow)'
    BY <1>1, <2>2, <2>3, CountedSwept
  <2> QED
    BY <1>12, <2>1, <2>4
<1> QED
  BY <1>2, <1>11, <1>12, <1>14, <1>15, <1>16 DEF AnswerInv

(* A bucket ends.                                                          *)
LEMMA TickAnswers ==
  ASSUME FutureOddsAssumption, AnswerInv, Tick
  PROVE  AnswerInv'
<1>1. UNCHANGED <<type, odds, row, jobs, mapEnded, firstUsable>> /\ now' = now + 1
  BY DEF Tick
<1>2. OddsInv' /\ OddsTypeOK /\ PricesArePast
  BY TickOdds DEF AnswerInv, OddsInv
<1>3. /\ now \in Nat /\ oddsFaults \in Nat /\ DueAt + RetryWindow \in Nat /\ RetryWindow \in Nat
      /\ Times \subseteq Nat /\ \A j \in jobs : j.at \in Nat /\ j.bucket \in Nat
      /\ mapEnded \in Times \cup {Never} /\ firstUsable \in Times \cup {Never} /\ oddsFaults' >= oddsFaults
      /\ oddsFaults' \in Nat /\ DueAt \in Nat
  BY <1>2, Numbers DEF OddsTypeOK, Tick
<1>4. JobsKnowTheirTime'
  BY <1>1, <1>3 DEF AnswerInv, JobsKnowTheirTime
<1>5. TriggersArePast' /\ Trigger' = Trigger
  BY <1>1, <1>3 DEF AnswerInv, TriggersArePast, Trigger
<1>6. \A t \in Times : FirstAt(t)' <=> FirstAt(t)
  BY <1>1, SamePair
<1>7. RepeatsCameEarly'
  BY <1>1, <1>6 DEF AnswerInv, RepeatsCameEarly
<1>8. HorizonCounted'
  <2> SUFFICES ASSUME type = "horizon", row.status # "CAPTURED", NEW t \in Times, FirstAt(t)
               PROVE  Counted(t, DueAt + RetryWindow)'
    BY <1>1, <1>6 DEF HorizonCounted
  <2>1. Counted(t, DueAt + RetryWindow) /\ t =< now
    BY <1>2, PairIsDue DEF AnswerInv, HorizonCounted
  <2> QED
    BY <1>2, <1>3, <2>1, CountedTick
<1>9. ClosingCounted'
  <2> SUFFICES ASSUME type = "closing", row.status = "none", Trigger # Never
               PROVE  Counted(Trigger, Trigger + RetryWindow)'
    BY <1>1, <1>5 DEF ClosingCounted
  <2>1. PICK since \in Nat : since = Trigger /\ since =< now
    BY <1>3 DEF AnswerInv, TriggersArePast, Trigger
  <2>2. Counted(since, since + RetryWindow) /\ since + RetryWindow \in Nat
    BY <1>3, <2>1 DEF AnswerInv, ClosingCounted
  <2>3. Counted(since, since + RetryWindow)'
    BY <1>2, <2>1, <2>2, CountedTick
  <2> QED
    BY <1>5, <2>1, <2>3
<1> QED
  BY <1>2, <1>4, <1>5, <1>7, <1>8, <1>9 DEF AnswerInv

(* Every step of the sweep, of a capture and of its retries keeps the       *)
(* account of every capture that is owed.                                   *)
LEMMA StepAnswers ==
  ASSUME FutureOddsAssumption, AnswerInv, [OddsNext]_oddsVars
  PROVE  AnswerInv'
<1>1. ASSUME NEW legs \in SUBSET Legs, NEW open \in BOOLEAN, Move(legs, open) PROVE AnswerInv'
  BY <1>1, MoveAnswers
<1>2. ASSUME NEW j \in jobs, Capture(j) \/ CaptureUnmarked(j) PROVE AnswerInv'
  BY <1>2, CaptureAnswers
<1>3. ASSUME NEW j \in jobs, CaptureDies(j) PROVE AnswerInv'
  BY <1>3, DiesAnswers
<1>4. ASSUME NEW time \in Times, MapEnds(time) PROVE AnswerInv'
  BY <1>4, MapEndsAnswers
<1>5. CASE ResultArrives
  BY <1>5, ResultAnswers
<1>6. CASE ReconcileOdds
  BY <1>6, ReconcileAnswers
<1>7. CASE Tick
  BY <1>7, TickAnswers
<1>8. CASE UNCHANGED oddsVars
  <2>1. OddsInv'
    BY <1>8, StepOdds DEF AnswerInv
  <2>2. Trigger' = Trigger
    BY <1>8 DEF oddsVars, Trigger
  <2>3. \A t : FirstAt(t)' <=> FirstAt(t)
    BY <1>8, SamePair DEF oddsVars
  <2>4. \A since, last : Counted(since, last) => Counted(since, last)'
    BY <1>8, SameCount DEF oddsVars
  <2> QED
    BY <1>8, <2>1, <2>2, <2>3, <2>4
       DEF oddsVars, AnswerInv, JobsKnowTheirTime, RepeatsCameEarly, TriggersArePast,
           HorizonCounted, ClosingCounted
<1> QED
  BY <1>1, <1>2, <1>3, <1>4, <1>5, <1>6, <1>7, <1>8 DEF OddsNext

(* Every count that is not over says that faults were spent.               *)
LEMMA CountsAnswer ==
  ASSUME FutureOddsAssumption, AnswerInv
  PROVE  CapturesAreAnswered
<1>1. /\ now \in Nat /\ oddsFaults \in Nat /\ DueAt \in Nat /\ RetryWindow \in Nat
      /\ Times \subseteq Nat /\ DueAt \in Times
  BY Numbers DEF AnswerInv, OddsInv, FutureOddsAssumption, Times
<1>2. HorizonIsAnswered
  <2> DEFINE time == IF HorizonPair = {} THEN Never ELSE (CHOOSE p \in HorizonPair : TRUE).at
  <2> SUFFICES ASSUME type = "horizon", now > DueAt + RetryWindow, Eligible(HorizonPair, 0),
                      time + 1 + oddsFaults =< DueAt + RetryWindow, row.status # "CAPTURED"
               PROVE  FALSE
    BY DEF HorizonIsAnswered
  <2>1. HorizonPair # {}
    <3>1. PICK l \in Legs : TRUE
      BY FS_EmptySet DEF FutureOddsAssumption
    <3> QED
      BY <3>1 DEF Eligible
  <2>2. PICK p \in HorizonPair : time = p.at
    BY <2>1
  <2>3. p.at \in Times
    BY <2>2 DEF HorizonPair, FirstAfter, AnswerInv, OddsInv, OddsTypeOK, Price
  <2>4. FirstAt(p.at)
    BY <2>2 DEF FirstAt, Eligible
  <2>5. Counted(p.at, DueAt + RetryWindow)
    BY <2>3, <2>4 DEF AnswerInv, HorizonCounted
  <2> HIDE DEF time
  <2>6. p.at \in Nat
    BY <1>1, <2>3
  <2> QED
    BY <1>1, <2>2, <2>5, <2>6 DEF Counted
<1>3. ClosingIsAnswered
  <2> SUFFICES ASSUME type = "closing", Trigger # Never, now > Trigger + 1 + oddsFaults,
                      oddsFaults < RetryWindow, row.status = "none"
               PROVE  FALSE
    BY DEF ClosingIsAnswered
  <2>1. PICK since \in Nat : since = Trigger
    BY <1>1 DEF Trigger, AnswerInv, OddsInv, OddsTypeOK
  <2>2. Counted(since, since + RetryWindow)
    BY <2>1 DEF AnswerInv, ClosingCounted
  <2> QED
    BY <1>1, <2>1, <2>2 DEF Counted
<1> QED
  BY <1>2, <1>3 DEF CapturesAreAnswered

(* MISSING is not the last word: the sweep of _reconcile_future_odds gets  *)
(* a horizon its first pair and a closing its row, unless faults use up    *)
(* the retry window, for any window, number of prices, jobs and faults.    *)
THEOREM CapturesAlwaysAnswered == ASSUME FutureOddsAssumption PROVE OddsSpec => []CapturesAreAnswered
<1>1. OddsInit => AnswerInv
  BY InitAnswers
<1>2. AnswerInv /\ [OddsNext]_oddsVars => AnswerInv'
  BY StepAnswers
<1>3. AnswerInv => CapturesAreAnswered
  BY CountsAnswer
<1> QED
  BY <1>1, <1>2, <1>3, PTL DEF OddsSpec

-----------------------------------------------------------------------------
(* Readiness.  The rows of a map follow its identity.                       *)
Progress == [known: BOOLEAN, live: BOOLEAN, draft: 1..4, snapshot: BOOLEAN,
             success: BOOLEAN, failed: {0, 1}, result: BOOLEAN, evaluated: BOOLEAN]

ReadinessInv ==
    /\ progress \in [SeriesMaps -> Progress]
    /\ \A m \in SeriesMaps : progress[m].live \/ progress[m].snapshot => progress[m].known

LEMMA ReadinessInvariance == ReadinessInit /\ [][ReadinessNext]_readinessVars => []ReadinessInv
<1>1. ReadinessInit => ReadinessInv
  BY DEF ReadinessInit, ReadinessInv, Progress, NoMap
<1>2. ReadinessInv /\ [ReadinessNext]_readinessVars => ReadinessInv'
  <2> SUFFICES ASSUME ReadinessInv, [ReadinessNext]_readinessVars
               PROVE  ReadinessInv'
    OBVIOUS
  <2>1. CASE progress' = progress
    BY <2>1 DEF ReadinessInv
  <2>2. ASSUME NEW m \in SeriesMaps, MapRow(m)
        PROVE  ReadinessInv'
    <3> DEFINE p == progress[m]
               Fits(new) == new \in Progress /\ (new.live \/ new.snapshot => new.known)
    <3>2. p \in Progress /\ (p.live \/ p.snapshot => p.known)
      BY DEF ReadinessInv
    <3> HIDE DEF p
    <3>3. Fits([p EXCEPT !.known = TRUE])
      BY <3>2 DEF Progress
    <3>4. p.known => /\ Fits([p EXCEPT !.live = TRUE]) /\ Fits([p EXCEPT !.snapshot = TRUE])
                     /\ Fits([p EXCEPT !.result = TRUE])
      BY <3>2 DEF Progress
    <3>5. p.draft < 4 => Fits([p EXCEPT !.draft = @ + 1])
      BY <3>2 DEF Progress
    <3>6. /\ Fits([p EXCEPT !.failed = 1]) /\ Fits([p EXCEPT !.success = TRUE])
          /\ Fits([p EXCEPT !.evaluated = TRUE])
      BY <3>2 DEF Progress
    <3> HIDE DEF Fits
    <3>7. Len(DraftStages) = 4
      BY DEF DraftStages
    <3>8. \/ Grows(m, [p EXCEPT !.known = TRUE])
          \/ p.known /\ (\/ Grows(m, [p EXCEPT !.live = TRUE]) \/ Grows(m, [p EXCEPT !.snapshot = TRUE])
                         \/ Grows(m, [p EXCEPT !.result = TRUE]))
          \/ p.draft < 4 /\ Grows(m, [p EXCEPT !.draft = @ + 1])
          \/ Grows(m, [p EXCEPT !.failed = 1]) \/ Grows(m, [p EXCEPT !.success = TRUE])
          \/ Grows(m, [p EXCEPT !.evaluated = TRUE])
      BY <2>2, <3>7 DEF MapRow, p
    <3> PICK new : Grows(m, new) /\ Fits(new)
      BY <3>3, <3>4, <3>5, <3>6, <3>8
    <3>9. new \in Progress /\ (new.live \/ new.snapshot => new.known)
      BY DEF Fits
    <3>1. progress' = [progress EXCEPT ![m] = new]
      BY DEF Grows
    <3> QED
      BY <3>1, <3>9 DEF ReadinessInv
  <2> QED
    BY <2>1, <2>2 DEF ReadinessNext, MarketRow, readinessVars
<1> QED
  BY <1>1, <1>2, PTL

(* What the funnel reaches and what the list lacks meet at one stage.       *)
LEMMA FunnelMeetsList ==
    ASSUME ReadinessInv
    PROVE  \/ /\ Lacking = {} /\ Reached = 1..9 /\ Max(Reached) = 9
           \/ \E k \in 1..8 :
                 /\ k \in Lacking /\ Min(Lacking) = k /\ Reached = 1..k /\ Max(Reached) = k
<1>1. /\ DOMAIN Stages = 1..9 /\ DOMAIN Checks = 1..8
      /\ \A i \in 1..8 : Checks[i] = Stages[i + 1]
      /\ Stages[1] = "scheduled"
  BY DEF Stages, Checks
<1>2. Fact(Stages[1])
  BY <1>1 DEF Fact
<1>3. \A n \in Nat \ {0} : Max(1..n) = n
  <2> TAKE n \in Nat \ {0}
  <2>1. n \in 1..n /\ \A y \in 1..n : n >= y
    OBVIOUS
  <2>2. \A x \in 1..n : (\A y \in 1..n : x >= y) => x = n
    BY <2>1
  <2> QED
    BY <2>1, <2>2 DEF Max
<1>4. Lacking = {i \in 1..8 : ~Fact(Stages[i + 1])}
  BY <1>1 DEF Lacking
<1>5. Reached = {i \in 1..9 : \A j \in 1..i : Fact(Stages[j])}
  BY <1>1 DEF Reached
<1> DEFINE F(j) == Fact(Stages[j])
<1> HIDE DEF F
<1>6. /\ Lacking = {i \in 1..8 : ~F(i + 1)} /\ Reached = {i \in 1..9 : \A j \in 1..i : F(j)} /\ F(1)
  BY <1>2, <1>4, <1>5 DEF F
<1>7. CASE Lacking = {}
  <2>1. \A j \in 1..9 : F(j)
    <3> TAKE j \in 1..9
    <3>1. CASE j = 1
      BY <1>6, <3>1
    <3>2. CASE j # 1
      <4>1. j - 1 \in 1..8 /\ (j - 1) + 1 = j
        BY <3>2
      <4> QED
        BY <1>6, <1>7, <4>1
    <3> QED
      BY <3>1, <3>2
  <2>2. Reached = 1..9
    BY <1>6, <2>1
  <2>3. Max(1..9) = 9
    <3>1. 9 \in Nat \ {0}
      OBVIOUS
    <3> QED
      BY <1>3, <3>1, Zenon
  <2> QED
    BY <1>7, <2>2, <2>3
<1>8. CASE Lacking # {}
  <2>1. \E k \in Lacking : \A j \in Lacking : k <= j
    <3> DEFINE S(k) == \A i \in 1..k : i \notin Lacking
    <3>1. CASE S(8)
      BY <1>6, <1>8, <3>1
    <3>2. CASE ~S(8)
      <4>1. S(0) /\ \A k \in 0..7 : S(k) /\ k + 1 \notin Lacking => S(k + 1)
        OBVIOUS
      <4>2. \E k \in 0..7 : S(k) /\ k + 1 \in Lacking
        <5> SUFFICES ASSUME \A k \in 0..7 : ~(S(k) /\ k + 1 \in Lacking)
                     PROVE  FALSE
          OBVIOUS
        <5> HIDE DEF S
        <5>1. \A k \in 0..7 : S(k) => S(k + 1)
          BY <4>1
        <5> QED
          BY <3>2, <4>1, <5>1
      <4>3. PICK k \in 0..7 : S(k) /\ k + 1 \in Lacking
        BY <4>2
      <4>4. \A j \in Lacking : k + 1 <= j
        BY <1>6, <4>3
      <4> QED
        BY <4>3, <4>4
    <3> QED
      BY <3>1, <3>2
  <2>2. PICK k \in Lacking : \A j \in Lacking : k <= j
    BY <2>1
  <2>3. k \in 1..8 /\ Lacking \subseteq 1..8
    BY <1>6
  <2>4. Min(Lacking) = k
    <3>1. \A x \in Lacking : (\A y \in Lacking : x <= y) => x = k
      BY <2>2, <2>3
    <3> QED
      BY <2>2, <3>1 DEF Min
  <2>5. Reached = 1..k
    <3>1. \A j \in 1..k : F(j)
      <4> TAKE j \in 1..k
      <4>1. CASE j = 1
        BY <1>6, <4>1
      <4>2. CASE j # 1
        <5>1. j - 1 \in 1..8 /\ (j - 1) + 1 = j /\ ~(k <= j - 1)
          BY <2>3, <4>2
        <5> QED
          BY <1>6, <2>2, <5>1
      <4> QED
        BY <4>1, <4>2
    <3>2. ~F(k + 1)
      BY <1>6
    <3> QED
      BY <1>6, <2>3, <3>1, <3>2
  <2> QED
    BY <1>3, <2>3, <2>4, <2>5
<1> QED
  BY <1>7, <1>8

(* The largest of a few small numbers is one of them.                       *)
LEMMA MaxIsThere ==
    ASSUME NEW S, S \subseteq 0..4, 0 \in S
    PROVE  Max(S) \in S /\ \A n \in S : n <= Max(S)
<1>1. \E x \in S : \A n \in S : x >= n
  <2>1. CASE 4 \in S
    BY <2>1
  <2>2. CASE 4 \notin S /\ 3 \in S
    BY <2>2
  <2>3. CASE 4 \notin S /\ 3 \notin S /\ 2 \in S
    BY <2>3
  <2>4. CASE 4 \notin S /\ 3 \notin S /\ 2 \notin S /\ 1 \in S
    BY <2>4
  <2>5. CASE 4 \notin S /\ 3 \notin S /\ 2 \notin S /\ 1 \notin S
    BY <2>5
  <2> QED
    BY <2>1, <2>2, <2>3, <2>4, <2>5
<1>2. Max(S) \in S /\ \A n \in S : Max(S) >= n
  BY <1>1 DEF Max
<1> QED
  BY <1>2

(* The stage at which a series drops out is the one its blocker names, no   *)
(* blocker means that it came through, and a blocked snapshot is put down   *)
(* to a live map without one (DecisionReadinessService, _first_blocker): for *)
(* any number of maps whose rows come in any order.                         *)
THEOREM FunnelAlwaysAddsUp == ReadinessInit /\ [][ReadinessNext]_readinessVars => []FunnelAddsUp
<1>1. ReadinessInv => FunnelAddsUp
  <2> SUFFICES ASSUME ReadinessInv
               PROVE  FunnelAddsUp
    OBVIOUS
  <2>1. /\ Stages[9] = "evaluated" /\ \A k \in 1..8 : Stages[k] # "evaluated"
        /\ \A k \in 1..8 : Checks[k] = Stages[k + 1]
    BY DEF Stages, Checks
  <2>2. CASE Lacking = {} /\ Max(Reached) = 9
    BY <2>1, <2>2 DEF FunnelAddsUp, Blocker, CurrentStage
  <2>3. ASSUME NEW k \in 1..8, k \in Lacking, Min(Lacking) = k, Reached = 1..k, Max(Reached) = k
        PROVE  FunnelAddsUp
    <3>1. Blocker = <<Checks[k], Reason(Checks[k])>> /\ Blocker # <<>>
      BY <2>3 DEF Blocker
    <3>2. CurrentStage # "evaluated" /\ Blocker[1] = Stages[Max(Reached) + 1]
      BY <2>1, <2>3, <3>1 DEF CurrentStage
    <3>3. ASSUME Reason(Checks[k]) = "SNAPSHOT_GATE_BLOCKED"
          PROVE  \E m \in SeriesMaps : progress[m].live /\ ~progress[m].snapshot
                                       /\ progress[m].draft = Len(DraftStages)
      <4>1. k = 5
        <5>1. /\ Checks[1] = "market_linked" /\ Checks[2] = "market_ready" /\ Checks[3] = "map_identity"
              /\ Checks[4] = "live_ready" /\ Checks[6] = "ai_decision" /\ Checks[7] = "result_ready"
              /\ Checks[8] = "evaluated"
          BY DEF Checks
        <5>2. /\ Reason("market_linked") = "MARKET_IDENTITY_MISSING"
              /\ Reason("market_ready") = "MARKET_OBSERVATION_MISSING"
              /\ Reason("map_identity") = "CANONICAL_MAP_MISSING"
              /\ Reason("live_ready") = "LIVE_DATA_MISSING"
              /\ Reason("result_ready") = "RESULT_MISSING"
              /\ Reason("evaluated") = "EVALUATION_MISSING"
              /\ Reason("ai_decision") \in {"AI_FAILED", "AI_DECISION_MISSING"}
          BY DEF Reason, Missing
        <5>3. k \in {1, 2, 3, 4, 5, 6, 7, 8}
          OBVIOUS
        <5> QED
          BY <3>3, <5>1, <5>2, <5>3
      <4>2. Checks[5] = "snapshot_ready" /\ Stages[5] = "live_ready"
        BY DEF Checks, Stages
      <4>3. LiveMaps # {}
        <5>1. 5 \in Reached
          BY <2>3, <4>1
        <5>2. Fact("live_ready")
          BY <4>2, <5>1 DEF Reached
        <5> QED
          BY <5>2 DEF Fact
      <4>4. With("snapshot") = {}
        BY <2>3, <4>1, <4>2 DEF Lacking, Fact
      <4> DEFINE S == {0} \cup {progress[m].draft : m \in LiveMaps}
      <4>5. LiveMaps \subseteq SeriesMaps /\ S \subseteq 0..4 /\ \A m \in LiveMaps : progress[m].draft \in 1..4
        <5>1. LiveMaps \subseteq SeriesMaps
          BY DEF LiveMaps, With, Known
        <5>2. \A m \in LiveMaps : progress[m].draft \in 1..4
          BY <5>1 DEF ReadinessInv, Progress
        <5> QED
          BY <5>1, <5>2
      <4>6. Max(S) \in S /\ \A n \in S : n <= Max(S)
        BY <4>5, MaxIsThere
      <4>7. DraftReached = Max(S)
        BY DEF DraftReached
      <4>8. DraftStages[Max(S)] = "SNAPSHOT_GATE_BLOCKED"
        BY <3>3, <4>1, <4>2, <4>7 DEF Reason
      <4>9. Max(S) \in 1..4
        BY <4>3, <4>5, <4>6
      <4>10. Max(S) = 4 /\ Len(DraftStages) = 4
        <5> DEFINE n == Max(S)
        <5> HIDE DEF S, n
        <5>1. n \in 1..4 /\ DraftStages[n] = "SNAPSHOT_GATE_BLOCKED"
          BY <4>8, <4>9 DEF n
        <5>2. n = 4 /\ Len(DraftStages) = 4
          BY <5>1 DEF DraftStages
        <5> QED
          BY <5>2 DEF n
      <4>11. PICK m \in LiveMaps : progress[m].draft = 4
        BY <4>6, <4>9, <4>10
      <4>12. m \in Known /\ progress[m].live
        BY DEF LiveMaps, With
      <4>13. ~progress[m].snapshot
        BY <4>4, <4>12 DEF With
      <4> QED
        BY <4>5, <4>10, <4>11, <4>12, <4>13
    <3> QED
      BY <3>1, <3>2, <3>3 DEF FunnelAddsUp
  <2> QED
    BY <2>2, <2>3, FunnelMeetsList
<1> QED
  BY <1>1, ReadinessInvariance, PTL

-----------------------------------------------------------------------------
(* REPORTS.                                                                  *)

(* What a settled position has earned, and what a refused or open one has.   *)
Net(pos, e) ==
    [s \in Snapshots |->
        CASE pos[<<s, e>>].status = "WON" ->
                 Rounded(pos[<<s, e>>].stake * Odds[s]) - pos[<<s, e>>].stake
          [] pos[<<s, e>>].status = "LOST" -> -pos[<<s, e>>].stake
          [] OTHER -> 0]

(* The profit of an account is that of its positions, and its ledger says     *)
(* where all its money came from; nothing is settled in it twice.             *)
EntriesOf(led, e) == {x \in led : x.account = e}
Funding(e) == Entry(e, "EVENT_FUNDED", 0, 0, InitialBankroll, 0)

MoneyBooked(acc, pos, led) ==
    /\ led \subseteq Entries /\ IsFiniteSet(led)
    /\ \A e \in Experiments :
          /\ acc[e].pnl = SumOver(Net(pos, e), Snapshots)
          /\ acc[e].status = "ABSENT" => acc[e] = NoAccount /\ EntriesOf(led, e) = {}
          /\ acc[e].status # "ABSENT" =>
                 /\ Funding(e) \in led
                 /\ SumOver(Moved, EntriesOf(led, e)) = acc[e].cash + acc[e].locked
    /\ \A x \in led :
          /\ x.type = "BET_PLACED" => x.cash + x.locked = 0
          /\ x.type \in {"WON", "LOST", "VOID"} =>
                 x.of \in Snapshots /\ pos[<<x.of, x.account>>].status \notin {"ABSENT", "OPEN"}

(* A position is that of a decision to buy, in the account of its event, and  *)
(* there is an account once something was decided.                            *)
Owned(pos) ==
    \A s \in Snapshots, e \in Experiments :
        pos[<<s, e>>].status # "ABSENT" =>
            /\ e = AccountOf[s] /\ s \in Decided /\ answer[s].ok /\ answer[s].action \in Buys
            /\ pos[<<s, e>>].side = SideOf(answer[s].action) /\ pos[<<s, e>>].stake = Stake

InEvent(pos) ==
    \A s \in Snapshots, e \in Experiments : pos[<<s, e>>].status # "ABSENT" => e = AccountOf[s]

DecisionsFunded ==
    \A e \in Experiments : account[e].status # "ABSENT" <=> \E s \in Decided : AccountOf[s] = e

(* Every winner was settled at some time.                                     *)
ResultsDated == \A m \in Maps : HasWinner(m) => \E k \in DOMAIN results : results[k] = m

(* An evaluation is that of a decision by a winner the map still has.         *)
GradeOf(s, side, line) ==
    [correct |-> Correct(answer[s], side), brier |-> Brier(answer[s].fair, side),
     unit |-> Unit(s, answer[s], side), clv |-> line]

GradesStand ==
    \A s \in Snapshots : evaluation[s] # {} =>
        /\ s \in Decided /\ answer[s].ok
        /\ \E side \in winner[MapOf[s]], line \in SUBSET ClosingLine(s, answer[s]) :
              evaluation[s] = {GradeOf(s, side, line)}

(* A settled bet was won by the winner the map had, and its decision was       *)
(* graded by the same.                                                        *)
BetsGraded(pos) ==
    \A s \in Snapshots, e \in Experiments : pos[<<s, e>>].status \in {"WON", "LOST"} =>
        /\ HasWinner(MapOf[s])
        /\ Clean(MapOf[s]) =>
               (pos[<<s, e>>].status = "WON" <=> Won(MapOf[s], pos[<<s, e>>].side))
        /\ evaluation[s] # {} => ValueOf(s, "correct") = {pos[<<s, e>>].status = "WON"}

(* Who turns the pages has seen what is listed before the next page.          *)
WalkGoesOn ==
    IF walk.open
    THEN walk.old \subseteq Decided /\ \A s \in walk.old : s \in walk.seen \/ Listed(s) >= walk.offset
    ELSE walk.old \subseteq walk.seen

ReportsInv ==
    /\ ReportsTypeOK
    /\ BooksBalance(account, position) /\ MoneyBooked(account, position, ledger)
    /\ Owned(position) /\ DecisionsFunded /\ ResultsDated /\ GradesStand /\ BetsGraded(position)
    /\ WalkGoesOn
-----------------------------------------------------------------------------
(* The money of the reports, for any accounts, positions and ledger.         *)

(* What a position has earned is a number of cents.                          *)
LEMMA NetIsWhole ==
    ASSUME NEW acc, NEW pos, TablesOK(acc, pos), NEW e \in Experiments, NEW s \in Snapshots
    PROVE  Net(pos, e)[s] \in Int
<1>1. pos[<<s, e>>] \in Position
  BY DecisionIsPair DEF TablesOK
<1>2. pos[<<s, e>>].stake \in Nat /\ Odds[s] \in Nat
  BY <1>1, PortfolioAssumption DEF Position
<1>3. Rounded(pos[<<s, e>>].stake * Odds[s]) \in Nat
  BY <1>2, RoundedIsCount
<1>4. PICK n \in Nat : n = Rounded(pos[<<s, e>>].stake * Odds[s])
  BY <1>3
<1>5. Net(pos, e)[s] = CASE pos[<<s, e>>].status = "WON" -> n - pos[<<s, e>>].stake
                         [] pos[<<s, e>>].status = "LOST" -> -pos[<<s, e>>].stake
                         [] OTHER -> 0
  BY <1>4 DEF Net
<1> QED
  BY <1>2, <1>5

(* What an entry moves is its cash and what it locks.                        *)
LEMMA EntryMoves ==
    ASSUME NEW led, led \subseteq Entries, NEW e
    PROVE  /\ EntriesOf(led, e) \subseteq Entries
           /\ \A x \in Entries : Moved[x] = x.cash + x.locked /\ Moved[x] \in Int
           /\ IsFiniteSet(led) => IsFiniteSet(EntriesOf(led, e))
<1>1. EntriesOf(led, e) \subseteq led
  BY DEF EntriesOf
<1>2. ASSUME NEW x \in Entries PROVE Moved[x] = x.cash + x.locked /\ Moved[x] \in Int
  <2>1. Moved[x] = x.cash + x.locked
    BY DEF Moved
  <2>2. x.cash \in Int /\ x.locked \in Int
    BY DEF Entries
  <2> QED
    BY <2>1, <2>2
<1> QED
  BY <1>1, <1>2, FS_Subset

(* An entry that moves nothing, or that is there already, changes no total.  *)
LEMMA EntryAdds ==
    ASSUME NEW led, led \subseteq Entries, IsFiniteSet(led), NEW x \in Entries, NEW e
    PROVE  /\ led \cup {x} \subseteq Entries /\ IsFiniteSet(led \cup {x})
           /\ x.account # e => EntriesOf(led \cup {x}, e) = EntriesOf(led, e)
           /\ x \notin led /\ x.account = e =>
                  SumOver(Moved, EntriesOf(led \cup {x}, e)) = Moved[x] + SumOver(Moved, EntriesOf(led, e))
           /\ x.cash + x.locked = 0 =>
                  SumOver(Moved, EntriesOf(led \cup {x}, e)) = SumOver(Moved, EntriesOf(led, e))
<1> DEFINE all == EntriesOf(led \cup {x}, e)
           old == EntriesOf(led, e)
<1>1. led \cup {x} \subseteq Entries /\ IsFiniteSet(led \cup {x})
  BY FS_AddElement
<1>2. x.account # e => all = old
  BY DEF EntriesOf
<1>3. x.account = e => x \in all /\ (x \notin led => all \ {x} = old)
  BY DEF EntriesOf
<1>4. x \in led => all = old
  BY DEF EntriesOf
<1>5. IsFiniteSet(all) /\ all \subseteq Entries /\ old \subseteq Entries /\ IsFiniteSet(old)
  BY <1>1, EntryMoves
<1>6. \A y \in Entries : Moved[y] = y.cash + y.locked /\ Moved[y] \in Int
  BY EntryMoves
<1> HIDE DEF all, old
<1>7. x \notin led /\ x.account = e => SumOver(Moved, all) = Moved[x] + SumOver(Moved, old)
  <2> SUFFICES ASSUME x \notin led, x.account = e PROVE SumOver(Moved, all) = Moved[x] + SumOver(Moved, old)
    OBVIOUS
  <2>1. x \in all /\ all \ {x} = old
    BY <1>3
  <2>2. \A y \in all : Moved[y] \in Int
    BY <1>5, <1>6
  <2> QED
    BY <1>5, <2>1, <2>2, SumWithout
<1>8. SumOver(Moved, old) \in Int
  BY <1>5, <1>6, SumIsWhole
<1>9. x.cash + x.locked = 0 => SumOver(Moved, all) = SumOver(Moved, old)
  BY <1>2, <1>4, <1>6, <1>7, <1>8
<1> QED
  BY <1>1, <1>2, <1>7, <1>9 DEF all, old

(* The fields of an entry.                                                   *)
EntryTypes == {"EVENT_FUNDED", "BET_PLACED", "WON", "LOST", "VOID"}
LEMMA EntryFields ==
    ASSUME NEW e, NEW kind, NEW of, NEW at, NEW cash, NEW locked
    PROVE  LET x == Entry(e, kind, of, at, cash, locked)
           IN  /\ x.account = e /\ x.type = kind /\ x.of = of /\ x.at = at
               /\ x.cash = cash /\ x.locked = locked
               /\ e \in Experiments /\ kind \in EntryTypes /\ of \in Nat /\ at \in Nat
                  /\ cash \in Int /\ locked \in Int => x \in Entries
BY DEF Entry, Entries, EntryTypes

(* _ensure_account writes what it funds the account with into the ledger.    *)
LEMMA FundingKeepsMoney ==
    ASSUME NEW acc, NEW pos, NEW led, TablesOK(acc, pos), MoneyBooked(acc, pos, led),
           NEW e \in Experiments, NEW new, new = [acc EXCEPT ![e] = Funded(acc[e])]
    PROVE  MoneyBooked(new, pos, led \cup {Funding(e)})
<1> DEFINE x == Funding(e)
           all == led \cup {x}
<1>1. new[e] = Funded(acc[e]) /\ \A f \in Experiments \ {e} : new[f] = acc[f]
  BY DEF TablesOK
<1>2. /\ x \in Entries /\ x.account = e /\ x.type = "EVENT_FUNDED"
      /\ x.cash = InitialBankroll /\ x.locked = 0 /\ Moved[x] = InitialBankroll
  <2>1. /\ x \in Entries /\ x.account = e /\ x.type = "EVENT_FUNDED"
        /\ x.cash = InitialBankroll /\ x.locked = 0
    <3>1. 0 \in Nat /\ 0 \in Int /\ InitialBankroll \in Int
      BY PortfolioAssumption
    <3>2. "EVENT_FUNDED" \in EntryTypes
      BY DEF EntryTypes
    <3> QED
      BY <3>1, <3>2, EntryFields DEF Funding
  <2> HIDE DEF x
  <2> QED
    BY <2>1, PortfolioAssumption DEF Moved
<1>3. led \subseteq Entries /\ IsFiniteSet(led)
  BY DEF MoneyBooked
<1> HIDE DEF x
<1>4. ASSUME NEW f \in Experiments
      PROVE  /\ new[f].pnl = SumOver(Net(pos, f), Snapshots)
             /\ new[f].status = "ABSENT" => new[f] = NoAccount /\ EntriesOf(all, f) = {}
             /\ new[f].status # "ABSENT" =>
                    /\ Funding(f) \in all
                    /\ SumOver(Moved, EntriesOf(all, f)) = new[f].cash + new[f].locked
  <2>1. CASE f # e
    <3>1. EntriesOf(all, f) = EntriesOf(led, f)
      BY <1>2, <1>3, <2>1, EntryAdds
    <3> QED
      BY <1>1, <2>1, <3>1 DEF MoneyBooked
  <2>2. CASE f = e /\ acc[e].status # "ABSENT"
    <3>1. x \in led
      BY <2>2 DEF MoneyBooked, x
    <3>2. all = led /\ new[e] = acc[e]
      BY <1>1, <2>2, <3>1 DEF Funded
    <3> QED
      BY <2>2, <3>2 DEF MoneyBooked
  <2>3. CASE f = e /\ acc[e].status = "ABSENT"
    <3>1. acc[e] = NoAccount /\ EntriesOf(led, e) = {} /\ acc[e].pnl = SumOver(Net(pos, e), Snapshots)
      BY <2>3 DEF MoneyBooked
    <3>2. new[e] = [status |-> "ACTIVE", cash |-> InitialBankroll, locked |-> 0, pnl |-> 0]
      BY <1>1, <2>3 DEF Funded
    <3>3. x \notin led
      BY <1>2, <3>1 DEF EntriesOf
    <3>4. SumOver(Moved, EntriesOf(all, e)) = Moved[x] + SumOver(Moved, EntriesOf(led, e))
      BY <1>2, <1>3, <3>3, EntryAdds
    <3>5. SumOver(Moved, EntriesOf(all, e)) = InitialBankroll
      BY <1>2, <3>1, <3>4, SumOfNothing, PortfolioAssumption
    <3> QED
      BY <2>3, <3>1, <3>2, <3>5, PortfolioAssumption DEF NoAccount, x
  <2> QED
    BY <2>1, <2>2, <2>3
<1>5. all \subseteq Entries /\ IsFiniteSet(all)
  BY <1>2, <1>3, EntryAdds
<1>6. \A y \in all : /\ y.type = "BET_PLACED" => y.cash + y.locked = 0
                     /\ y.type \in {"WON", "LOST", "VOID"} =>
                            y.of \in Snapshots /\ pos[<<y.of, y.account>>].status \notin {"ABSENT", "OPEN"}
  BY <1>2 DEF MoneyBooked
<1> QED
  BY <1>4, <1>5, <1>6 DEF MoneyBooked, x

(* A new position, refused or open, has earned nothing yet.                   *)
LEMMA NewPositionKeepsMoney ==
    ASSUME NEW acc, NEW pos, NEW led, TablesOK(acc, pos), MoneyBooked(acc, pos, led),
           NEW s \in Snapshots, NEW e \in Experiments, NEW bet \in Position,
           pos[<<s, e>>].status = "ABSENT", bet.status \in {"OPEN", "REJECTED"},
           NEW new, Rewritten(pos, new, s, e, bet)
    PROVE  MoneyBooked(acc, new, led)
<1>1. ASSUME NEW r \in Snapshots, NEW f \in Experiments
      PROVE  new[<<r, f>>] = IF r = s /\ f = e THEN bet ELSE pos[<<r, f>>]
  <2>1. <<r, f>> \in Decisions /\ (<<r, f>> = <<s, e>> <=> r = s /\ f = e)
    BY DecisionIsPair
  <2> QED
    BY <2>1 DEF Rewritten
<1>2. ASSUME NEW f \in Experiments
      PROVE  Net(new, f) = Net(pos, f)
  <2>1. ASSUME NEW r \in Snapshots PROVE Net(new, f)[r] = Net(pos, f)[r]
    BY <1>1 DEF Net
  <2>2. Net(new, f) = [r \in Snapshots |-> Net(new, f)[r]] /\ Net(pos, f) = [r \in Snapshots |-> Net(pos, f)[r]]
    BY DEF Net
  <2> QED
    BY <2>1, <2>2
<1>3. ASSUME NEW x \in led, x.type \in {"WON", "LOST", "VOID"}
      PROVE  x.of \in Snapshots /\ new[<<x.of, x.account>>].status \notin {"ABSENT", "OPEN"}
  <2>1. x.account \in Experiments /\ x.of \in Snapshots
        /\ pos[<<x.of, x.account>>].status \notin {"ABSENT", "OPEN"}
    BY <1>3 DEF MoneyBooked, Entries
  <2>2. new[<<x.of, x.account>>] = pos[<<x.of, x.account>>]
    BY <1>1, <2>1
  <2> QED
    BY <2>1, <2>2
<1> QED
  BY <1>2, <1>3 DEF MoneyBooked

(* BET_PLACED locks what it takes from the cash.                              *)
LEMMA BetKeepsMoney ==
    ASSUME NEW acc, NEW pos, NEW led, TablesOK(acc, pos), MoneyBooked(acc, pos, led),
           NEW e \in Experiments, acc[e].status # "ABSENT", NEW bet \in Position,
           NEW paid, paid = [acc EXCEPT ![e] = Reserved(@, bet)],
           NEW of \in Nat, NEW at \in Nat,
           NEW x, x = Entry(e, "BET_PLACED", of, at, -bet.stake, bet.stake)
    PROVE  MoneyBooked(paid, pos, led \cup {x})
<1> DEFINE all == led \cup {x}
<1>1. acc[e] \in Account /\ bet.stake \in Nat
  BY DEF TablesOK, Position
<1>2. /\ x \in Entries /\ x.account = e /\ x.type = "BET_PLACED"
      /\ x.cash = -bet.stake /\ x.locked = bet.stake
  <2>1. -bet.stake \in Int /\ bet.stake \in Int /\ "BET_PLACED" \in EntryTypes
    BY <1>1 DEF EntryTypes
  <2> QED
    BY <2>1, EntryFields
<1>3. led \subseteq Entries /\ IsFiniteSet(led)
  BY DEF MoneyBooked
<1>4. x.cash + x.locked = 0
  BY <1>1, <1>2
<1>5. all \subseteq Entries /\ IsFiniteSet(all)
  BY <1>2, <1>3, EntryAdds
<1>6. \A f \in Experiments : SumOver(Moved, EntriesOf(all, f)) = SumOver(Moved, EntriesOf(led, f))
  BY <1>2, <1>3, <1>4, EntryAdds
<1>7. \A f \in Experiments : f # e => EntriesOf(all, f) = EntriesOf(led, f)
  BY <1>2, <1>3, EntryAdds
<1>8. /\ paid[e].cash + paid[e].locked = acc[e].cash + acc[e].locked
      /\ paid[e].status = acc[e].status /\ paid[e].pnl = acc[e].pnl
      /\ \A f \in Experiments \ {e} : paid[f] = acc[f]
  <2>1. paid[e] = Reserved(acc[e], bet) /\ \A f \in Experiments \ {e} : paid[f] = acc[f]
    BY DEF TablesOK
  <2>2. acc[e].cash \in Nat /\ acc[e].locked \in Nat
    BY <1>1 DEF Account
  <2>3. paid[e].cash = acc[e].cash - bet.stake /\ paid[e].locked = acc[e].locked + bet.stake
        /\ paid[e].status = acc[e].status /\ paid[e].pnl = acc[e].pnl
    <3>1. PICK cash, locked : cash = acc[e].cash - bet.stake /\ locked = acc[e].locked + bet.stake
      OBVIOUS
    <3>2. paid[e] = [acc[e] EXCEPT !.cash = cash, !.locked = locked]
      BY <2>1, <3>1 DEF Reserved
    <3>3. PICK a : a = [acc[e] EXCEPT !.cash = cash]
      OBVIOUS
    <3>4. a.cash = cash /\ a.status = acc[e].status /\ a.pnl = acc[e].pnl
          /\ paid[e] = [a EXCEPT !.locked = locked]
          /\ a = [status |-> a.status, cash |-> a.cash, locked |-> a.locked, pnl |-> a.pnl]
      BY <1>1, <3>2, <3>3 DEF Account
    <3>5. paid[e].cash = cash /\ paid[e].locked = locked /\ paid[e].status = a.status /\ paid[e].pnl = a.pnl
      BY <3>4
    <3> QED
      BY <3>1, <3>4, <3>5
  <2> QED
    BY <1>1, <2>1, <2>2, <2>3
<1>9. ASSUME NEW f \in Experiments
      PROVE  /\ paid[f].pnl = SumOver(Net(pos, f), Snapshots)
             /\ paid[f].status = "ABSENT" => paid[f] = NoAccount /\ EntriesOf(all, f) = {}
             /\ paid[f].status # "ABSENT" =>
                    /\ Funding(f) \in all
                    /\ SumOver(Moved, EntriesOf(all, f)) = paid[f].cash + paid[f].locked
  <2>1. CASE f = e
    BY <1>6, <1>8, <2>1 DEF MoneyBooked
  <2>2. CASE f # e
    BY <1>6, <1>7, <1>8, <2>2 DEF MoneyBooked
  <2> QED
    BY <2>1, <2>2
<1>10. \A y \in all : /\ y.type = "BET_PLACED" => y.cash + y.locked = 0
                      /\ y.type \in {"WON", "LOST", "VOID"} =>
                             y.of \in Snapshots /\ pos[<<y.of, y.account>>].status \notin {"ABSENT", "OPEN"}
  BY <1>2, <1>4 DEF MoneyBooked
<1> QED
  BY <1>5, <1>9, <1>10 DEF MoneyBooked

(* What settle_map writes into the ledger for each position it settles.       *)
EntriesFor(pos, m, outcome, at) ==
    {Entry(d[2], Verdict(pos[d], outcome), d[1], at, Payout(d, pos[d], outcome), -pos[d].stake)
     : d \in OpenOn(pos, m)}

(* The bets of an account that it settles, and what it writes for them.       *)
BetsOn(pos, m, e) == {s \in Snapshots : <<s, e>> \in OpenOn(pos, m)}
BetEntries(pos, e, outcome, at) ==
    [s \in Snapshots |->
        Entry(e, Verdict(pos[<<s, e>>], outcome), s, at,
              Payouts(pos, e, outcome)[s], -Stakes(pos, e)[s])]
BetsBooked(pos, m, e, outcome, at) ==
    {BetEntries(pos, e, outcome, at)[s] : s \in BetsOn(pos, m, e)}

(* The entries of one account are those of its positions.                     *)
LEMMA EntriesOfAccount ==
    ASSUME NEW acc, NEW pos, TablesOK(acc, pos), NEW m, NEW outcome \in Outcomes, NEW at \in Nat,
           NEW e \in Experiments
    PROVE  /\ EntriesOf(EntriesFor(pos, m, outcome, at), e) = BetsBooked(pos, m, e, outcome, at)
           /\ \A s \in Snapshots :
                  LET x == BetEntries(pos, e, outcome, at)[s] IN
                  /\ x \in Entries /\ x.account = e /\ x.of = s
                  /\ x.type \in {"WON", "LOST", "VOID"} /\ x.type # "BET_PLACED"
                  /\ Moved[x] = Payouts(pos, e, outcome)[s] - Stakes(pos, e)[s]
<1> DEFINE G == BetEntries(pos, e, outcome, at)
           mine == BetsOn(pos, m, e)
<1>1. ASSUME NEW s \in Snapshots
      PROVE  /\ G[s] = Entry(e, Verdict(pos[<<s, e>>], outcome), s, at,
                             Payout(<<s, e>>, pos[<<s, e>>], outcome), -pos[<<s, e>>].stake)
             /\ G[s] \in Entries /\ G[s].account = e /\ G[s].of = s
             /\ G[s].type \in {"WON", "LOST", "VOID"} /\ G[s].type # "BET_PLACED"
             /\ Moved[G[s]] = Payouts(pos, e, outcome)[s] - Stakes(pos, e)[s]
  <2> DEFINE kind == Verdict(pos[<<s, e>>], outcome)
             cash == Payouts(pos, e, outcome)[s]
             stake == Stakes(pos, e)[s]
  <2>1. kind \in {"WON", "LOST", "VOID"} /\ s \in Nat
    BY PortfolioAssumption DEF Verdict
  <2>2. cash \in Nat /\ stake \in Nat
    BY BetsAreFinite
  <2>3. cash = Payout(<<s, e>>, pos[<<s, e>>], outcome) /\ stake = pos[<<s, e>>].stake
    BY DEF Payouts, Stakes
  <2>4. G[s] = Entry(e, kind, s, at, cash, -stake)
    BY DEF BetEntries
  <2> HIDE DEF kind, cash, stake, G
  <2>5. cash \in Int /\ -stake \in Int /\ kind \in EntryTypes
    BY <2>1, <2>2 DEF EntryTypes
  <2>6. /\ G[s] \in Entries /\ G[s].account = e /\ G[s].of = s /\ G[s].type = kind
        /\ G[s].cash = cash /\ G[s].locked = -stake
    BY <2>1, <2>4, <2>5, EntryFields
  <2>7. Moved[G[s]] = cash - stake
    <3>1. Moved[G[s]] = G[s].cash + G[s].locked
      BY <2>6 DEF Moved
    <3> QED
      BY <2>2, <2>6, <3>1
  <2> QED
    BY <2>1, <2>3, <2>4, <2>6, <2>7 DEF kind, cash, stake
<1> HIDE DEF G
<1>2. ASSUME NEW d \in OpenOn(pos, m)
      PROVE  LET x == Entry(d[2], Verdict(pos[d], outcome), d[1], at, Payout(d, pos[d], outcome), -pos[d].stake)
             IN  x.account = d[2]
  BY DEF Entry
<1>3. ASSUME NEW x \in EntriesOf(EntriesFor(pos, m, outcome, at), e) PROVE x \in {G[s] : s \in mine}
  <2>1. PICK d \in OpenOn(pos, m) :
            x = Entry(d[2], Verdict(pos[d], outcome), d[1], at, Payout(d, pos[d], outcome), -pos[d].stake)
    BY DEF EntriesOf, EntriesFor
  <2>2. x.account = e
    BY DEF EntriesOf
  <2>3. d[2] = e /\ d[1] \in Snapshots /\ d = <<d[1], e>>
    BY <1>2, <2>1, <2>2, DecisionIsPair DEF OpenOn
  <2>4. x = G[d[1]]
    BY <1>1, <2>1, <2>3
  <2>5. d[1] \in mine
    BY <2>3 DEF BetsOn
  <2> QED
    BY <2>4, <2>5
<1>4. ASSUME NEW s \in mine PROVE G[s] \in EntriesOf(EntriesFor(pos, m, outcome, at), e)
  <2>1. <<s, e>> \in OpenOn(pos, m) /\ s \in Snapshots
    BY DEF BetsOn
  <2>2. G[s] \in EntriesFor(pos, m, outcome, at)
    <3> DEFINE d == <<s, e>>
    <3>1. G[s] = Entry(d[2], Verdict(pos[d], outcome), d[1], at, Payout(d, pos[d], outcome), -pos[d].stake)
      BY <1>1, <2>1
    <3> HIDE DEF d
    <3>2. d \in OpenOn(pos, m)
      BY <2>1 DEF d
    <3> QED
      BY <3>1, <3>2 DEF EntriesFor
  <2> QED
    BY <1>1, <2>1, <2>2 DEF EntriesOf
<1>5. EntriesOf(EntriesFor(pos, m, outcome, at), e) = {G[s] : s \in mine}
  <2> DEFINE A == EntriesOf(EntriesFor(pos, m, outcome, at), e)
  <2>1. \A x \in A : x \in {G[s] : s \in mine}
    BY <1>3
  <2>2. \A s \in mine : G[s] \in A
    BY <1>4
  <2> HIDE DEF A
  <2> QED
    BY <2>1, <2>2 DEF A
<1> QED
  BY <1>1, <1>5 DEF G, BetsBooked

(* A settlement earns the account what it is paid, less what it staked.       *)
LEMMA SettlingEarns ==
    ASSUME NEW acc, NEW pos, TablesOK(acc, pos), NEW m, NEW outcome \in Outcomes,
           NEW new, new = SettledPositions(pos, m, outcome, OpenAccounts(pos, m)),
           NEW e \in Experiments, NEW mine, mine = BetsOn(pos, m, e),
           NEW gain, gain = [s \in Snapshots |-> Payouts(pos, e, outcome)[s] - Stakes(pos, e)[s]]
    PROVE  /\ IsFiniteSet(mine) /\ \A s \in Snapshots : gain[s] \in Int
           /\ SumOver(gain, mine) \in Int
           /\ SumOver(Payouts(pos, e, outcome), mine) \in Nat /\ SumOver(Stakes(pos, e), mine) \in Nat
           /\ SumOver(gain, mine) =
                  SumOver(Payouts(pos, e, outcome), mine) - SumOver(Stakes(pos, e), mine)
           /\ SumOver(Net(new, e), Snapshots) = SumOver(Net(pos, e), Snapshots) + SumOver(gain, mine)
<1> DEFINE stakes == Stakes(pos, e)
           payouts == Payouts(pos, e, outcome)
<1>1. IsFiniteSet(mine) /\ mine \subseteq Snapshots /\ IsFiniteSet(Snapshots)
  <2>1. mine \subseteq Snapshots
    BY DEF BetsOn
  <2> QED
    BY <2>1, PortfolioAssumption, FS_Subset
<1>2. \A s \in Snapshots : stakes[s] \in Nat /\ payouts[s] \in Nat
  BY BetsAreFinite
<1>3. \A s \in Snapshots : gain[s] = payouts[s] - stakes[s]
  OBVIOUS
<1>4. ASSUME NEW s \in Snapshots
      PROVE  /\ Net(pos, e)[s] \in Int
             /\ Net(new, e)[s] = Net(pos, e)[s] + (IF s \in mine THEN gain[s] ELSE 0)
  <2> DEFINE d == <<s, e>>
  <2>1. d \in Decisions /\ d[1] = s /\ d[2] = e /\ pos[d] \in Position
    BY DecisionIsPair DEF TablesOK
  <2>2. d \in OpenOn(pos, m) <=> s \in mine
    BY DEF BetsOn
  <2>3. d \in OpenOn(pos, m) => e \in OpenAccounts(pos, m)
    BY <2>1 DEF OpenAccounts
  <2>4. new[d] = IF s \in mine THEN [pos[d] EXCEPT !.status = Verdict(pos[d], outcome)] ELSE pos[d]
    BY <2>1, <2>2, <2>3 DEF SettledPositions
  <2>5. Net(pos, e)[s] \in Int
    BY NetIsWhole
  <2>6. CASE s \notin mine
    <3>1. Net(new, e)[s] = Net(pos, e)[s]
      BY <2>4, <2>6 DEF Net
    <3> QED
      BY <2>5, <2>6, <3>1
  <2>7. CASE s \in mine
    <3>1. pos[d].status = "OPEN"
      BY <2>2, <2>7 DEF OpenOn
    <3>2. Net(pos, e)[s] = 0
      BY <3>1 DEF Net
    <3>3. new[d].status = Verdict(pos[d], outcome) /\ new[d].stake = pos[d].stake
      BY <2>1, <2>4, <2>7 DEF Position
    <3>4. payouts[s] = Payout(d, pos[d], outcome) /\ stakes[s] = pos[d].stake
      BY DEF Payouts, Stakes
    <3>5. Net(new, e)[s] = CASE new[d].status = "WON" -> Rounded(new[d].stake * Odds[s]) - new[d].stake
                             [] new[d].status = "LOST" -> -new[d].stake
                             [] OTHER -> 0
      BY DEF Net
    <3>6. PICK stake, paid, round : stake = pos[d].stake /\ paid = payouts[s]
                                    /\ round = Rounded(pos[d].stake * Odds[s])
      OBVIOUS
    <3>7. stake \in Nat /\ paid \in Nat
      BY <1>2, <3>4, <3>6
    <3>8. Net(new, e)[s] = CASE Verdict(pos[d], outcome) = "WON" -> round - stake
                             [] Verdict(pos[d], outcome) = "LOST" -> -stake
                             [] OTHER -> 0
      BY <3>3, <3>5, <3>6
    <3>9. paid = CASE outcome = "VOID" -> stake [] pos[d].side = outcome -> round [] OTHER -> 0
      BY <2>1, <3>4, <3>6 DEF Payout
    <3>10. Net(new, e)[s] = paid - stake
      <4>1. CASE outcome = "VOID"
        BY <3>7, <3>8, <3>9, <4>1 DEF Verdict
      <4>2. CASE outcome # "VOID" /\ pos[d].side = outcome
        BY <3>7, <3>8, <3>9, <4>2 DEF Verdict
      <4>3. CASE outcome # "VOID" /\ pos[d].side # outcome
        BY <3>7, <3>8, <3>9, <4>3 DEF Verdict
      <4> QED
        BY <4>1, <4>2, <4>3
    <3> QED
      BY <1>3, <2>7, <3>2, <3>4, <3>6, <3>7, <3>10
  <2> QED
    BY <2>5, <2>6, <2>7
<1> DEFINE added == [s \in Snapshots |-> IF s \in mine THEN gain[s] ELSE 0]
<1>5. \A s \in Snapshots : added[s] = IF s \in mine THEN gain[s] ELSE 0
  OBVIOUS
<1> HIDE DEF stakes, payouts, added
<1>6. \A s \in Snapshots : gain[s] \in Int /\ added[s] \in Int
  <2> SUFFICES ASSUME NEW s \in Snapshots PROVE gain[s] \in Int /\ added[s] \in Int
    OBVIOUS
  <2>1. gain[s] = payouts[s] - stakes[s] /\ payouts[s] \in Nat /\ stakes[s] \in Nat
    BY <1>2, <1>3
  <2>2. gain[s] \in Int
    BY <2>1
  <2>3. added[s] = gain[s] \/ added[s] = 0
    BY <1>5
  <2> QED
    BY <2>2, <2>3
<1>7. SumOver(payouts, mine) \in Nat /\ SumOver(stakes, mine) \in Nat /\ SumOver(gain, mine) \in Int
  BY <1>1, <1>2, <1>6, SumIsCount, SumIsWhole
<1>8. SumOver(payouts, mine) = SumOver(gain, mine) + SumOver(stakes, mine)
  <2>1. \A s \in mine : gain[s] \in Int /\ stakes[s] \in Int /\ payouts[s] = gain[s] + stakes[s]
    BY <1>1, <1>2, <1>3
  <2> QED
    BY <1>1, <2>1, SumAdds
<1>9. SumOver(Net(new, e), Snapshots) = SumOver(Net(pos, e), Snapshots) + SumOver(added, Snapshots)
  <2>1. \A s \in Snapshots : /\ Net(pos, e)[s] \in Int /\ added[s] \in Int
                             /\ Net(new, e)[s] = Net(pos, e)[s] + added[s]
    BY <1>4, <1>5, <1>6
  <2> QED
    BY <1>1, <2>1, SumAdds
<1>10. SumOver(added, Snapshots) = SumOver(gain, mine)
  <2>1. SumOver(added, Snapshots) = SumOver(added, mine)
    <3>1. \A s \in Snapshots \ mine : added[s] = 0
      BY <1>5
    <3>2. \A s \in mine : added[s] \in Int
      BY <1>1, <1>6
    <3> QED
      BY <1>1, <3>1, <3>2, SumLeavesOut
  <2>2. \A s \in mine : added[s] \in Int /\ added[s] = gain[s]
    BY <1>1, <1>5, <1>6
  <2> QED
    BY <1>1, <2>1, <2>2, SumsAlike
<1>11. SumOver(gain, mine) = SumOver(payouts, mine) - SumOver(stakes, mine)
  BY <1>7, <1>8
<1> QED
  BY <1>1, <1>6, <1>7, <1>9, <1>10, <1>11 DEF stakes, payouts

(* An entry is of a position of the account of its event.                     *)
LEMMA EntryOfBet ==
    ASSUME NEW acc, NEW pos, TablesOK(acc, pos), InEvent(pos), NEW m, NEW outcome \in Outcomes,
           NEW at \in Nat, NEW d \in OpenOn(pos, m)
    PROVE  LET x == Entry(d[2], Verdict(pos[d], outcome), d[1], at, Payout(d, pos[d], outcome), -pos[d].stake)
           IN  /\ d[2] = AccountOf[d[1]] /\ d = <<d[1], d[2]>> /\ d[1] \in Snapshots /\ d[2] \in Experiments
               /\ x \in Entries /\ x.account = d[2] /\ x.of = d[1] /\ x.type \in {"WON", "LOST", "VOID"}
<1> DEFINE s == d[1]
           e == d[2]
           stake == Stakes(pos, e)[s]
           cash == Payouts(pos, e, outcome)[s]
           kind == Verdict(pos[d], outcome)
<1>1. d = <<s, e>> /\ s \in Snapshots /\ e \in Experiments /\ pos[d].status = "OPEN"
  BY DecisionIsPair DEF OpenOn
<1>2. e = AccountOf[s]
  BY <1>1 DEF InEvent
<1>3. stake \in Nat /\ cash \in Nat /\ s \in Nat /\ kind \in {"WON", "LOST", "VOID"}
  BY <1>1, BetsAreFinite, PortfolioAssumption DEF Verdict
<1>4. cash = Payout(d, pos[d], outcome) /\ stake = pos[d].stake
  BY <1>1 DEF Payouts, Stakes
<1>5. kind = Verdict(pos[d], outcome)
  OBVIOUS
<1>6. s = d[1] /\ e = d[2]
  OBVIOUS
<1> HIDE DEF stake, cash, kind, s, e
<1>7. cash \in Int /\ -stake \in Int /\ kind \in EntryTypes
  BY <1>3 DEF EntryTypes
<1>8. LET x == Entry(e, kind, s, at, cash, -stake)
      IN  x \in Entries /\ x.account = e /\ x.of = s /\ x.type = kind
  BY <1>1, <1>3, <1>7, EntryFields
<1> QED
  BY <1>1, <1>2, <1>3, <1>4, <1>5, <1>6, <1>8

(* settle_map books what it pays, once for every position it settles.         *)
LEMMA SettlingKeepsMoney ==
    ASSUME NEW acc, NEW pos, NEW led, TablesOK(acc, pos), BooksBalance(acc, pos),
           MoneyBooked(acc, pos, led), InEvent(pos),
           NEW m, NEW outcome \in Outcomes, NEW at \in Nat,
           NEW new, new = SettledPositions(pos, m, outcome, OpenAccounts(pos, m)),
           NEW paid, paid = SettledAccounts(acc, pos, m, outcome, OpenAccounts(pos, m))
    PROVE  MoneyBooked(paid, new, led \cup EntriesFor(pos, m, outcome, at))
<1> DEFINE entries == EntriesFor(pos, m, outcome, at)
           all == led \cup entries
<1>1. led \subseteq Entries /\ IsFiniteSet(led)
  BY DEF MoneyBooked
<1>2. ASSUME NEW d \in OpenOn(pos, m)
      PROVE  LET x == Entry(d[2], Verdict(pos[d], outcome), d[1], at, Payout(d, pos[d], outcome), -pos[d].stake)
             IN  /\ d[2] = AccountOf[d[1]] /\ d = <<d[1], d[2]>> /\ d[1] \in Snapshots /\ d[2] \in Experiments
                 /\ x \in Entries /\ x.account = d[2] /\ x.of = d[1] /\ x.type \in {"WON", "LOST", "VOID"}
  BY EntryOfBet
<1>3. entries \subseteq Entries
  BY <1>2 DEF EntriesFor
<1>4. IsFiniteSet(entries)
  <2> DEFINE pair == [s \in Snapshots |-> <<s, AccountOf[s]>>]
             write == [d \in OpenOn(pos, m) |->
                          Entry(d[2], Verdict(pos[d], outcome), d[1], at, Payout(d, pos[d], outcome),
                                -pos[d].stake)]
             pairs == {pair[s] : s \in Snapshots}
             open == OpenOn(pos, m)
  <2>1. IsFiniteSet(pairs)
    <3> HIDE DEF pair
    <3> QED
      BY ImageIsFinite, PortfolioAssumption
  <2>2. open \subseteq pairs
    BY <1>2
  <2>3. IsFiniteSet(open)
    <3> HIDE DEF pairs, open
    <3> QED
      BY <2>1, <2>2, FS_Subset
  <2>4. entries = {write[d] : d \in open}
    BY DEF EntriesFor
  <2> HIDE DEF write, entries, open
  <2> QED
    BY <2>3, <2>4, ImageIsFinite
<1>5. all \subseteq Entries /\ IsFiniteSet(all)
  BY <1>1, <1>3, <1>4, FS_Union
<1>6. ASSUME NEW x \in all
      PROVE  /\ x.type = "BET_PLACED" => x.cash + x.locked = 0
             /\ x.type \in {"WON", "LOST", "VOID"} =>
                    x.of \in Snapshots /\ new[<<x.of, x.account>>].status \notin {"ABSENT", "OPEN"}
  <2>1. CASE x \in led
    <3>1. x.type = "BET_PLACED" => x.cash + x.locked = 0
      BY <2>1 DEF MoneyBooked
    <3>2. ASSUME x.type \in {"WON", "LOST", "VOID"}
          PROVE  x.of \in Snapshots /\ new[<<x.of, x.account>>].status \notin {"ABSENT", "OPEN"}
      <4>1. x.of \in Snapshots /\ x.account \in Experiments
            /\ pos[<<x.of, x.account>>].status \notin {"ABSENT", "OPEN"}
        BY <1>1, <2>1, <3>2 DEF MoneyBooked, Entries
      <4>2. new[<<x.of, x.account>>] = pos[<<x.of, x.account>>]
        BY <4>1, PositionsSettled
      <4> QED
        BY <4>1, <4>2
    <3> QED
      BY <3>1, <3>2
  <2>2. CASE x \in entries
    <3>1. PICK d \in OpenOn(pos, m) :
              x = Entry(d[2], Verdict(pos[d], outcome), d[1], at, Payout(d, pos[d], outcome), -pos[d].stake)
      BY <2>2 DEF EntriesFor
    <3>2. /\ d = <<x.of, x.account>> /\ x.of \in Snapshots /\ x.account \in Experiments
          /\ x.type \in {"WON", "LOST", "VOID"}
      BY <1>2, <3>1
    <3>3. pos[d].status = "OPEN" /\ MapOf[x.of] = m /\ x.account \in OpenAccounts(pos, m)
      BY <3>2 DEF OpenOn, OpenAccounts
    <3>4. new[<<x.of, x.account>>].status \notin {"ABSENT", "OPEN"}
      <4>1. /\ new[d].status = "OPEN" <=>
                   pos[d].status = "OPEN" /\ ~ (x.account \in OpenAccounts(pos, m) /\ MapOf[x.of] = m)
            /\ pos[d].status = "ABSENT" <=> new[d].status = "ABSENT"
        BY <3>2, PositionsSettled
      <4> QED
        BY <3>2, <3>3, <4>1
    <3> QED
      BY <3>2, <3>4
  <2> QED
    BY <2>1, <2>2
<1>7. ASSUME NEW e \in Experiments
      PROVE  /\ paid[e].pnl = SumOver(Net(new, e), Snapshots)
             /\ paid[e].status = "ABSENT" => paid[e] = NoAccount /\ EntriesOf(all, e) = {}
             /\ paid[e].status # "ABSENT" =>
                    /\ Funding(e) \in all
                    /\ SumOver(Moved, EntriesOf(all, e)) = paid[e].cash + paid[e].locked
  <2> DEFINE a == acc[e]
             mine == BetsOn(pos, m, e)
             won == SumOver(Payouts(pos, e, outcome), mine)
             staked == SumOver(Stakes(pos, e), mine)
             gain == [s \in Snapshots |-> Payouts(pos, e, outcome)[s] - Stakes(pos, e)[s]]
             G == BetEntries(pos, e, outcome, at)
             total == SumOver(gain, mine)
             mineOf == EntriesOf(entries, e)
             old == EntriesOf(led, e)
             both == EntriesOf(all, e)
  <2>1. mine # {} => e \in OpenAccounts(pos, m)
    <3> SUFFICES ASSUME NEW s \in mine PROVE e \in OpenAccounts(pos, m)
      OBVIOUS
    <3>1. <<s, e>> \in OpenOn(pos, m) /\ <<s, e>>[2] = e
      BY DEF BetsOn
    <3> QED
      BY <3>1 DEF OpenAccounts
  <2>2. paid[e] = IF mine # {}
                  THEN [status |-> IF a.cash + won <= 0 /\ a.locked - staked <= 0
                                   THEN "BANKRUPT" ELSE "ACTIVE",
                        cash |-> a.cash + won, locked |-> a.locked - staked,
                        pnl |-> a.pnl + won - staked]
                  ELSE a
    BY <2>1 DEF SettledAccounts, BetsOn
  <2>3. /\ IsFiniteSet(mine) /\ total \in Int /\ won \in Nat /\ staked \in Nat /\ total = won - staked
        /\ SumOver(Net(new, e), Snapshots) = SumOver(Net(pos, e), Snapshots) + total
        /\ \A s \in Snapshots : gain[s] \in Int
    BY SettlingEarns
  <2>4. /\ mineOf = {G[s] : s \in mine}
        /\ \A s \in Snapshots : G[s].of = s /\ Moved[G[s]] = gain[s] /\ G[s].type \in {"WON", "LOST", "VOID"}
                                /\ G[s].account = e
    <3>1. \A s \in Snapshots : gain[s] = Payouts(pos, e, outcome)[s] - Stakes(pos, e)[s]
      OBVIOUS
    <3>2. /\ EntriesOf(EntriesFor(pos, m, outcome, at), e) = BetsBooked(pos, m, e, outcome, at)
          /\ \A s \in Snapshots :
                 LET x == BetEntries(pos, e, outcome, at)[s] IN
                 /\ x.account = e /\ x.of = s /\ x.type \in {"WON", "LOST", "VOID"}
                 /\ Moved[x] = Payouts(pos, e, outcome)[s] - Stakes(pos, e)[s]
      <4> HIDE DEF mine, G, gain, mineOf, entries
      <4> QED
        BY EntriesOfAccount
    <3> HIDE DEF gain
    <3> QED
      BY <3>1, <3>2 DEF BetsBooked
  <2>5. /\ a.status = "ABSENT" => a = NoAccount /\ old = {} /\ mine = {}
        /\ a.pnl = SumOver(Net(pos, e), Snapshots)
        /\ a.status # "ABSENT" => Funding(e) \in led /\ SumOver(Moved, old) = a.cash + a.locked
    <3>1. a.status = "ABSENT" => OpenBets(pos, e) = {}
      BY DEF BooksBalance
    <3>2. mine \subseteq OpenBets(pos, e)
      BY DEF BetsOn, OpenOn, OpenBets
    <3> QED
      BY <3>1, <3>2 DEF MoneyBooked
  <2>6. both = old \cup mineOf
    BY DEF EntriesOf
  <2>7. old \cap mineOf = {}
    <3> SUFFICES ASSUME NEW s \in mine, G[s] \in old PROVE FALSE
      BY <2>4
    <3>1. s \in Snapshots /\ G[s] \in led /\ pos[<<s, e>>].status = "OPEN"
      BY DEF EntriesOf, OpenOn, BetsOn
    <3> HIDE DEF G
    <3> QED
      BY <2>4, <3>1 DEF MoneyBooked
  <2>8. a.cash \in Nat /\ a.locked \in Nat /\ a.pnl \in Int
    BY DEF TablesOK, Account
  <2>9. SumOver(Moved, mineOf) = total
    <3>1. mine \subseteq Snapshots
      BY DEF BetsOn
    <3> HIDE DEF G, gain, mine, mineOf
    <3>2. \A s \in mine : gain[s] \in Int /\ Moved[G[s]] = gain[s]
      BY <2>3, <2>4, <3>1
    <3>3. \A s, r \in mine : G[s] = G[r] => s = r
      BY <2>4, <3>1
    <3>4. SumOver(Moved, {G[s] : s \in mine}) = SumOver(gain, mine)
      BY <2>3, <3>2, <3>3, SumReindexed
    <3> QED
      BY <2>4, <3>4
  <2>10. IsFiniteSet(both) /\ both \subseteq Entries /\ \A x \in both : Moved[x] \in Int
    BY <1>5, EntryMoves
  <2> HIDE DEF mine, mineOf, old, both, gain, G, total, won, staked
  <2>11. SumOver(Moved, both) = SumOver(Moved, old) + total
    <3>1. old \subseteq both /\ both \ old = mineOf
      BY <2>6, <2>7
    <3>2. SumOver(Moved, both) = SumOver(Moved, old) + SumOver(Moved, both \ old)
      BY <2>10, <3>1, SumSplits
    <3> QED
      BY <2>9, <3>1, <3>2
  <2>12. CASE mine = {}
    <3>1. paid[e] = a
      BY <2>2, <2>12
    <3>2. mineOf = {} /\ both = old
      BY <2>4, <2>6, <2>12
    <3>3. total = 0
      BY <2>9, <3>2, SumOfNothing
    <3> QED
      BY <2>3, <2>5, <2>8, <3>1, <3>2, <3>3 DEF both, a
  <2>13. CASE mine # {}
    <3>1. a.status # "ABSENT"
      BY <2>5, <2>13
    <3>2. PICK c, l, p : c = a.cash /\ l = a.locked /\ p = a.pnl
      OBVIOUS
    <3>3. paid[e].status # "ABSENT" /\ paid[e].cash = c + won /\ paid[e].locked = l - staked
          /\ paid[e].pnl = p + won - staked
      BY <2>2, <2>13, <3>2
    <3>4. c \in Nat /\ l \in Nat /\ p \in Int /\ SumOver(Moved, old) = c + l
      BY <2>5, <2>8, <3>1, <3>2
    <3>5. SumOver(Moved, both) = paid[e].cash + paid[e].locked
      BY <2>3, <2>11, <3>3, <3>4
    <3>6. paid[e].pnl = SumOver(Net(new, e), Snapshots)
      <4>1. SumOver(Net(new, e), Snapshots) = p + total
        BY <2>3, <2>5, <3>2
      <4> QED
        BY <2>3, <3>3, <3>4, <4>1
    <3> QED
      BY <2>5, <3>1, <3>3, <3>5, <3>6 DEF both
  <2> QED
    BY <2>12, <2>13
<1> QED
  BY <1>5, <1>6, <1>7 DEF MoneyBooked

-----------------------------------------------------------------------------
(* What the tables say of a map and of its bets.                             *)

(* A map is settled by its winner if there is one, and void if there are two. *)
LEMMA OutcomeOfMap ==
    ASSUME NEW m \in Maps, winner[m] \subseteq Sides
    PROVE  /\ IsFiniteSet(winner[m]) /\ OutcomeOf(m) \in Outcomes
           /\ Clean(m) => OutcomeOf(m) \in Sides /\ winner[m] = {OutcomeOf(m)}
           /\ ~Clean(m) => OutcomeOf(m) = "VOID"
           /\ \A x : winner[m] = {x} => Clean(m)
<1>1. IsFiniteSet(winner[m])
  <2>1. IsFiniteSet({"A"} \cup {"B"})
    BY FS_Singleton, FS_Union
  <2>2. Sides = {"A"} \cup {"B"}
    BY DEF Sides
  <2> QED
    BY <2>1, <2>2, FS_Subset
<1>2. Clean(m) <=> \E x : winner[m] = {x}
  BY <1>1, FS_Singleton DEF Clean
<1>3. Clean(m) => \E side \in Sides : Won(m, side)
  <2> SUFFICES ASSUME NEW x, winner[m] = {x} PROVE \E side \in Sides : Won(m, side)
    BY <1>2
  <2>1. x \in Sides /\ Won(m, x)
    BY DEF Won
  <2> QED
    BY <2>1
<1>4. Clean(m) => OutcomeOf(m) \in Sides /\ Won(m, OutcomeOf(m))
  BY <1>3 DEF OutcomeOf
<1>5. ~Clean(m) => OutcomeOf(m) = "VOID"
  BY DEF OutcomeOf
<1> QED
  BY <1>1, <1>2, <1>4, <1>5 DEF Won, Outcomes

(* A map that has a winner was settled at a time.                             *)
LEMMA SettlementIsDated ==
    ASSUME results \in Seq(Maps), ResultsDated, NEW m \in Maps, HasWinner(m)
    PROVE  SettledAt(m) \in Nat
<1>1. \E k \in DOMAIN results : results[k] = m
  BY DEF ResultsDated
<1>2. SettledAt(m) \in DOMAIN results
  BY <1>1 DEF SettledAt
<1>3. DOMAIN results = 1..Len(results) /\ Len(results) \in Nat
  OBVIOUS
<1> QED
  BY <1>2, <1>3

(* A position stays what it is until its map is settled.                      *)
Carried(pos, new) ==
    \A s \in Snapshots, e \in Experiments :
        LET p == pos[<<s, e>>]  q == new[<<s, e>>]  m == MapOf[s] IN
        /\ q.side = p.side /\ q.stake = p.stake /\ (q.status = "ABSENT" <=> p.status = "ABSENT")
        /\ q.status = p.status \/ (HasWinner(m) /\ q.status = Verdict(p, OutcomeOf(m)))

LEMMA SettlementCarries ==
    ASSUME NEW acc, NEW pos, TablesOK(acc, pos), NEW m, HasWinner(m),
           NEW new, new = SettledPositions(pos, m, OutcomeOf(m), OpenAccounts(pos, m))
    PROVE  Carried(pos, new)
<1> SUFFICES ASSUME NEW s \in Snapshots, NEW e \in Experiments
             PROVE  LET p == pos[<<s, e>>]  q == new[<<s, e>>]  n == MapOf[s] IN
                    /\ q.side = p.side /\ q.stake = p.stake /\ (q.status = "ABSENT" <=> p.status = "ABSENT")
                    /\ q.status = p.status \/ (HasWinner(n) /\ q.status = Verdict(p, OutcomeOf(n)))
  BY DEF Carried
<1> DEFINE d == <<s, e>>
<1>1. d \in Decisions /\ d[1] = s /\ d[2] = e /\ pos[d] \in Position
  BY DecisionIsPair DEF TablesOK
<1>2. CASE d \in OpenOn(pos, m) /\ d[2] \in OpenAccounts(pos, m)
  <2>1. new[d] = [pos[d] EXCEPT !.status = Verdict(pos[d], OutcomeOf(m))]
    BY <1>1, <1>2 DEF SettledPositions
  <2>2. pos[d].status = "OPEN" /\ MapOf[s] = m
    BY <1>1, <1>2 DEF OpenOn
  <2>3. new[d].status = Verdict(pos[d], OutcomeOf(m)) /\ new[d].side = pos[d].side /\ new[d].stake = pos[d].stake
    BY <1>1, <2>1 DEF Position
  <2>4. new[d].status # "ABSENT"
    BY <2>3 DEF Verdict
  <2> QED
    BY <2>2, <2>3, <2>4
<1>3. CASE ~ (d \in OpenOn(pos, m) /\ d[2] \in OpenAccounts(pos, m))
  <2>1. new[d] = pos[d]
    BY <1>1, <1>3 DEF SettledPositions
  <2> QED
    BY <2>1
<1> QED
  BY <1>2, <1>3

(* What the tables hold of all the rest.                                      *)
LEMMA TablesTyped ==
    ASSUME ReportsInv
    PROVE  /\ TablesOK(account, position) /\ BooksBalance(account, position)
           /\ MoneyBooked(account, position, ledger) /\ InEvent(position)
           /\ Owned(position) /\ DecisionsFunded /\ ResultsDated
           /\ answered \in Seq(Snapshots) /\ answer \in [Snapshots -> Answer]
           /\ winner \in [Maps -> SUBSET Sides] /\ results \in Seq(Maps)
           /\ evaluation \in [Snapshots -> SUBSET Grade]
           /\ Decided \subseteq Snapshots /\ IsFiniteSet(Decided)
<1>1. ReportsTypeOK
  BY DEF ReportsInv
<1>2. TablesOK(account, position)
  BY <1>1 DEF ReportsTypeOK, PortfolioTypeOK, TablesOK
<1>3. answered \in Seq(Snapshots)
  BY <1>1 DEF ReportsTypeOK
<1>4. Decided \subseteq Snapshots
  BY <1>3 DEF Decided
<1>5. IsFiniteSet(Decided)
  BY <1>4, PortfolioAssumption, FS_Subset
<1>6. Owned(position)
  BY DEF ReportsInv
<1>7. InEvent(position)
  BY <1>6 DEF Owned, InEvent
<1>8. /\ BooksBalance(account, position) /\ MoneyBooked(account, position, ledger)
      /\ DecisionsFunded /\ ResultsDated
  BY DEF ReportsInv
<1> QED
  BY <1>1, <1>2, <1>3, <1>4, <1>5, <1>6, <1>7, <1>8 DEF ReportsTypeOK

-----------------------------------------------------------------------------
(* The invariant, action by action.                                          *)
LEMMA ReportsBegin == ReportsInit => ReportsInv
<1> SUFFICES ASSUME ReportsInit PROVE ReportsInv
  OBVIOUS
<1>1. /\ account = [e \in Experiments |-> NoAccount] /\ position = [d \in Decisions |-> NoPosition]
      /\ answered = <<>> /\ answer = [s \in Snapshots |-> NoAnswer]
      /\ winner = [m \in Maps |-> {}] /\ results = <<>>
      /\ evaluation = [s \in Snapshots |-> {}]
      /\ closing = {} /\ horizon = [s \in Snapshots |-> "none"]
      /\ ledger = {} /\ walk = NoWalk
  BY DEF ReportsInit, PortfolioInit
<1>2. TablesOK(account, position)
  BY <1>1 DEF TablesOK, NoAccount, NoPosition, Account, Position
<1>3. ReportsTypeOK
  <2>1. PortfolioTypeOK
    BY <1>2 DEF TablesOK, PortfolioTypeOK
  <2>2. NoAnswer \in Answer
    BY DEF NoAnswer, Answer, Actions
  <2>3. answered \in Seq(Snapshots) /\ results \in Seq(Maps)
    BY <1>1
  <2>4. walk \in [open: BOOLEAN, offset: Nat, old: SUBSET Snapshots, seen: SUBSET Snapshots]
    BY <1>1 DEF NoWalk
  <2> QED
    BY <1>1, <2>1, <2>2, <2>3, <2>4 DEF ReportsTypeOK
<1>4. Decided = {} /\ \A m \in Maps : ~HasWinner(m)
  BY <1>1 DEF Decided, HasWinner
<1>5. \A s \in Snapshots, e \in Experiments : position[<<s, e>>].status = "ABSENT"
  BY <1>1, DecisionIsPair DEF NoPosition
<1>6. \A e \in Experiments : account[e].status = "ABSENT" /\ account[e] = NoAccount /\ account[e].pnl = 0
  BY <1>1 DEF NoAccount
<1>7. BooksBalance(account, position)
  BY <1>5, <1>6 DEF BooksBalance, OpenBets
<1>8. MoneyBooked(account, position, ledger)
  <2>1. ASSUME NEW e \in Experiments PROVE SumOver(Net(position, e), Snapshots) = 0
    <3> DEFINE net == Net(position, e)
    <3>1. \A s \in Snapshots : net[s] = 0
      BY <1>5 DEF Net
    <3> HIDE DEF net
    <3>2. SumOver(net, Snapshots) = Cardinality(Snapshots) * 0
      <4>1. PICK n \in Int : n = 0
        OBVIOUS
      <4>2. \A s \in Snapshots : net[s] = n
        BY <3>1, <4>1
      <4>3. SumOver(net, Snapshots) = Cardinality(Snapshots) * n
        BY <4>2, PortfolioAssumption, SumOfEquals
      <4> QED
        BY <4>1, <4>3
    <3>3. Cardinality(Snapshots) \in Nat
      BY PortfolioAssumption, FS_CardinalityType
    <3> QED
      BY <3>2, <3>3 DEF net
  <2>2. IsFiniteSet(ledger) /\ ledger = {}
    BY <1>1, FS_EmptySet
  <2>3. \A e \in Experiments : EntriesOf(ledger, e) = {}
    BY <2>2 DEF EntriesOf
  <2> QED
    BY <1>6, <2>1, <2>2, <2>3 DEF MoneyBooked
<1>9. Owned(position) /\ BetsGraded(position)
  BY <1>5 DEF Owned, BetsGraded
<1>10. DecisionsFunded /\ ResultsDated
  BY <1>4, <1>6 DEF DecisionsFunded, ResultsDated
<1>11. GradesStand
  BY <1>1 DEF GradesStand
<1>12. WalkGoesOn
  BY <1>1 DEF WalkGoesOn, NoWalk
<1> QED
  BY <1>3, <1>7, <1>8, <1>9, <1>10, <1>11, <1>12 DEF ReportsInv

(* What does not touch the tables leaves what is said of them as it is.       *)
LEMMA TablesStay ==
    ASSUME ReportsInv, account' = account, position' = position, ledger' = ledger,
           answered' = answered, answer' = answer
    PROVE  /\ (BooksBalance(account, position) /\ MoneyBooked(account, position, ledger))'
           /\ Owned(position)' /\ DecisionsFunded'
           /\ Decided' = Decided /\ \A s : Listed(s)' = Listed(s)
<1>1. /\ BooksBalance(account, position) /\ MoneyBooked(account, position, ledger)
      /\ Owned(position) /\ DecisionsFunded
  BY DEF ReportsInv
<1>2. Decided' = Decided
  BY DEF Decided
<1>3. BooksBalance(account, position)'
  BY <1>1
<1>4. MoneyBooked(account, position, ledger)'
  BY <1>1
<1>5. Owned(position)' /\ DecisionsFunded'
  BY <1>1, <1>2 DEF Owned, DecisionsFunded
<1>6. \A s : Listed(s)' = Listed(s)
  BY <1>2 DEF Listed
<1> QED
  BY <1>2, <1>3, <1>4, <1>5, <1>6

(* Nor does what is not about results change what is said of those.           *)
LEMMA ResultsStay ==
    ASSUME ReportsInv, position' = position, winner' = winner, results' = results,
           evaluation' = evaluation, answered' = answered, answer' = answer, closing \subseteq closing'
    PROVE  ResultsDated' /\ BetsGraded(position)' /\ GradesStand'
<1>1. ResultsDated /\ BetsGraded(position) /\ GradesStand
  BY DEF ReportsInv
<1>2. \A m : /\ HasWinner(m)' <=> HasWinner(m)
             /\ Clean(m)' <=> Clean(m)
             /\ \A side : Won(m, side)' <=> Won(m, side)
  BY DEF HasWinner, Clean, Won
<1>3. ResultsDated'
  BY <1>1, <1>2 DEF ResultsDated
<1>4. BetsGraded(position)'
  BY <1>1, <1>2 DEF BetsGraded, ValueOf
<1>5. Decided' = Decided
  BY DEF Decided
<1>6. GradesStand'
  <2> SUFFICES ASSUME NEW s \in Snapshots, evaluation'[s] # {}
               PROVE  /\ s \in Decided' /\ answer'[s].ok
                      /\ \E side \in winner'[MapOf[s]], line \in SUBSET ClosingLine(s, answer[s])' :
                            evaluation'[s] = {GradeOf(s, side, line)'}
    BY DEF GradesStand
  <2>1. PICK side \in winner[MapOf[s]], line \in SUBSET ClosingLine(s, answer[s]) :
            evaluation[s] = {GradeOf(s, side, line)}
    BY <1>1 DEF GradesStand
  <2>2. ClosingLine(s, answer[s]) \subseteq ClosingLine(s, answer[s])'
    BY DEF ClosingLine
  <2>3. line \in SUBSET ClosingLine(s, answer[s])'
    BY <2>2
  <2>4. GradeOf(s, side, line)' = GradeOf(s, side, line)
    BY DEF GradeOf
  <2> QED
    BY <1>1, <1>5, <2>1, <2>3, <2>4 DEF GradesStand
<1> QED
  BY <1>3, <1>4, <1>6

(* Close: a closing line that is there now may be missing from an evaluation. *)
LEMMA CloseKeeps == ASSUME ReportsInv, NEW r \in Snapshots, Close(r) PROVE ReportsInv'
<1>1. /\ closing' = closing \cup {r} /\ closing \subseteq closing' /\ r \in DOMAIN ClosingOdds
      /\ UNCHANGED <<account, position, ledger, answered, answer, winner, results, evaluation, horizon, walk>>
  BY DEF Close
<1>2. /\ (BooksBalance(account, position) /\ MoneyBooked(account, position, ledger))'
      /\ Owned(position)' /\ DecisionsFunded'
      /\ Decided' = Decided /\ \A s : Listed(s)' = Listed(s)
  BY <1>1, TablesStay
<1>3. ReportsTypeOK'
  BY <1>1 DEF ReportsInv, ReportsTypeOK, PortfolioTypeOK
<1>4. ResultsDated' /\ BetsGraded(position)' /\ GradesStand'
  BY <1>1, ResultsStay
<1>5. WalkGoesOn'
  BY <1>1, <1>2 DEF ReportsInv, WalkGoesOn
<1> QED
  BY <1>2, <1>3, <1>4, <1>5 DEF ReportsInv

(* CaptureHorizon touches nothing of this.                                    *)
LEMMA CaptureKeeps ==
    ASSUME ReportsInv, NEW r \in Snapshots, NEW pair \in BOOLEAN, CaptureHorizon(r, pair)
    PROVE  ReportsInv'
<1>1. /\ horizon' \in [Snapshots -> {"none", "no pair", "before", "after"}]
      /\ UNCHANGED <<account, position, ledger, answered, answer, winner, results, evaluation, closing, walk>>
  BY DEF CaptureHorizon, ReportsInv, ReportsTypeOK
<1>2. /\ (BooksBalance(account, position) /\ MoneyBooked(account, position, ledger))'
      /\ Owned(position)' /\ DecisionsFunded'
      /\ Decided' = Decided /\ \A s : Listed(s)' = Listed(s)
  BY <1>1, TablesStay
<1>3. ReportsTypeOK'
  BY <1>1 DEF ReportsInv, ReportsTypeOK, PortfolioTypeOK
<1>4. ResultsDated' /\ BetsGraded(position)' /\ GradesStand'
  BY <1>1, ResultsStay
<1>5. WalkGoesOn'
  BY <1>1, <1>2 DEF ReportsInv, WalkGoesOn
<1> QED
  BY <1>2, <1>3, <1>4, <1>5 DEF ReportsInv

LEMMA ReportsStutter == ASSUME ReportsInv, UNCHANGED reportsVars PROVE ReportsInv'
<1>1. UNCHANGED <<account, position, ledger, answered, answer, winner, results, evaluation, horizon, closing, walk>>
  BY DEF reportsVars
<1>2. /\ (BooksBalance(account, position) /\ MoneyBooked(account, position, ledger))'
      /\ Owned(position)' /\ DecisionsFunded'
      /\ Decided' = Decided /\ \A s : Listed(s)' = Listed(s)
  BY <1>1, TablesStay
<1>3. ReportsTypeOK'
  BY <1>1 DEF ReportsInv, ReportsTypeOK, PortfolioTypeOK
<1>4. ResultsDated' /\ BetsGraded(position)' /\ GradesStand'
  BY <1>1, ResultsStay
<1>5. WalkGoesOn'
  BY <1>1, <1>2 DEF ReportsInv, WalkGoesOn
<1> QED
  BY <1>2, <1>3, <1>4, <1>5 DEF ReportsInv

(* Page: what is listed before the next page has been seen.                   *)
LEMMA PageKeeps == ASSUME ReportsInv, Page PROVE ReportsInv'
<1> DEFINE begun == IF walk.open THEN walk ELSE [NoWalk EXCEPT !.old = Decided]
<1>1. /\ walk' = [open |-> HasMore(begun.offset), offset |-> begun.offset + PageSize,
                  old |-> begun.old, seen |-> begun.seen \cup PageFrom(begun.offset)]
      /\ account' = account /\ position' = position /\ ledger' = ledger /\ answered' = answered
      /\ answer' = answer /\ winner' = winner /\ results' = results /\ evaluation' = evaluation
      /\ closing' = closing /\ horizon' = horizon
  BY DEF Page
<1>2. /\ (BooksBalance(account, position) /\ MoneyBooked(account, position, ledger))'
      /\ Owned(position)' /\ DecisionsFunded'
      /\ Decided' = Decided /\ \A s : Listed(s)' = Listed(s)
  BY <1>1, TablesStay
<1>3. ResultsDated' /\ BetsGraded(position)' /\ GradesStand'
  BY <1>1, ResultsStay
<1>4. Decided \subseteq Snapshots /\ IsFiniteSet(Decided) /\ Snapshots \subseteq Nat
  BY TablesTyped, PortfolioAssumption
<1>5. PageSize \in Nat \ {0}
  BY ReportsAssumption
<1>6. /\ begun.offset \in Nat /\ begun.old \subseteq Decided /\ begun.seen \subseteq Snapshots
      /\ \A s \in begun.old : s \in begun.seen \/ Listed(s) >= begun.offset
  <2>1. CASE walk.open
    BY <2>1 DEF ReportsInv, WalkGoesOn, ReportsTypeOK
  <2>2. CASE ~walk.open
    <3>1. begun = [open |-> FALSE, offset |-> 0, old |-> Decided, seen |-> {}]
      BY <2>2 DEF NoWalk
    <3>2. \A s \in Decided : Listed(s) \in Nat
      <4> SUFFICES ASSUME NEW s \in Decided PROVE Listed(s) \in Nat
        OBVIOUS
      <4>1. IsFiniteSet({t \in Decided : t > s})
        BY <1>4, FS_Subset
      <4> QED
        BY <4>1, FS_CardinalityType DEF Listed
    <3> QED
      BY <3>1, <3>2
  <2> QED
    BY <2>1, <2>2
<1> HIDE DEF begun
<1>7. walk' \in [open: BOOLEAN, offset: Nat, old: SUBSET Snapshots, seen: SUBSET Snapshots]
  <2>1. PageFrom(begun.offset) \subseteq Snapshots
    BY <1>4 DEF PageFrom
  <2>2. begun.old \in SUBSET Snapshots /\ begun.seen \cup PageFrom(begun.offset) \in SUBSET Snapshots
    BY <1>4, <1>6, <2>1
  <2>3. HasMore(begun.offset) \in BOOLEAN /\ begun.offset + PageSize \in Nat
    BY <1>5, <1>6 DEF HasMore
  <2> QED
    BY <1>1, <2>2, <2>3
<1>8. ReportsTypeOK'
  BY <1>1, <1>7 DEF ReportsInv, ReportsTypeOK, PortfolioTypeOK
<1>9. ASSUME NEW s \in begun.old
      PROVE  /\ s \in walk'.seen \/ Listed(s) >= walk'.offset
             /\ ~HasMore(begun.offset) => s \in walk'.seen
  <2>1. s \in Decided /\ s \in Nat
    BY <1>4, <1>6
  <2> DEFINE newer == {t \in Decided : t > s}
  <2>2. newer \subseteq Decided /\ s \notin newer
    BY <2>1
  <2>3. IsFiniteSet(newer) /\ Cardinality(newer) <= Cardinality(Decided)
        /\ Cardinality(newer) # Cardinality(Decided)
    <3> HIDE DEF newer
    <3> QED
      BY <1>4, <2>1, <2>2, FS_Subset
  <2>4. PICK n, all : n = Cardinality(newer) /\ all = Cardinality(Decided)
    OBVIOUS
  <2>5. n \in Nat /\ all \in Nat /\ n < all /\ Listed(s) = n
    <3>1. Cardinality(newer) \in Nat /\ Cardinality(Decided) \in Nat
      BY <1>4, <2>3, FS_CardinalityType
    <3>2. Listed(s) = Cardinality(newer)
      BY DEF Listed
    <3> HIDE DEF newer
    <3> QED
      BY <2>3, <2>4, <3>1, <3>2
  <2> HIDE DEF newer
  <2>6. walk'.seen = begun.seen \cup PageFrom(begun.offset) /\ walk'.offset = begun.offset + PageSize
    BY <1>1
  <2>7. CASE s \in begun.seen
    BY <2>6, <2>7
  <2>8. CASE s \notin begun.seen
    <3>1. n >= begun.offset
      BY <1>6, <2>5, <2>8
    <3>2. n < begun.offset + PageSize => s \in PageFrom(begun.offset)
      BY <1>5, <1>6, <2>1, <2>5, <3>1 DEF PageFrom
    <3>3. ~HasMore(begun.offset) => n < begun.offset + PageSize
      BY <1>5, <1>6, <2>4, <2>5 DEF HasMore
    <3> QED
      BY <1>5, <1>6, <2>5, <2>6, <3>1, <3>2, <3>3
  <2> QED
    BY <2>7, <2>8
<1>10. WalkGoesOn'
  <2>1. walk'.old = begun.old /\ walk'.open = HasMore(begun.offset)
    BY <1>1
  <2> QED
    BY <1>2, <1>6, <1>9, <2>1 DEF WalkGoesOn
<1> QED
  BY <1>2, <1>3, <1>8, <1>10 DEF ReportsInv

(* A provider reports: a map that was clean becomes so no more.               *)
LEMMA WinnerKeeps ==
    ASSUME ReportsInv, NEW n \in Maps, NEW won \in Sides, ReportWinner(n, won) PROVE ReportsInv'
<1>1. /\ won \notin winner[n] /\ winner' = [winner EXCEPT ![n] = @ \cup {won}]
      /\ results' = IF HasWinner(n) THEN results ELSE Append(results, n)
      /\ account' = account /\ position' = position /\ ledger' = ledger /\ answered' = answered
      /\ answer' = answer /\ evaluation' = evaluation /\ closing' = closing /\ horizon' = horizon
      /\ walk' = walk
  BY DEF ReportWinner
<1>2. /\ (BooksBalance(account, position) /\ MoneyBooked(account, position, ledger))'
      /\ Owned(position)' /\ DecisionsFunded'
      /\ Decided' = Decided /\ \A s : Listed(s)' = Listed(s)
  BY <1>1, TablesStay
<1>3. winner \in [Maps -> SUBSET Sides] /\ results \in Seq(Maps) /\ ResultsDated
  BY TablesTyped
<1>4. /\ \A m \in Maps : winner[m] \subseteq winner'[m] /\ winner'[m] \subseteq Sides
      /\ winner'[n] = winner[n] \cup {won} /\ \A m \in Maps : m # n => winner'[m] = winner[m]
  BY <1>1, <1>3
<1>5. winner' \in [Maps -> SUBSET Sides] /\ results' \in Seq(Maps)
  BY <1>1, <1>3, <1>4
<1>6. ReportsTypeOK'
  BY <1>1, <1>5 DEF ReportsInv, ReportsTypeOK, PortfolioTypeOK
<1>7. ResultsDated'
  <2> SUFFICES ASSUME NEW m \in Maps, HasWinner(m)' PROVE \E k \in DOMAIN results' : results'[k] = m
    BY DEF ResultsDated
  <2>1. CASE HasWinner(m)
    <3>1. PICK k \in DOMAIN results : results[k] = m
      BY <1>3, <2>1 DEF ResultsDated
    <3>2. k \in DOMAIN results' /\ results'[k] = m
      BY <1>1, <1>3, <3>1
    <3> QED
      BY <3>2
  <2>2. CASE ~HasWinner(m)
    <3>1. m = n
      BY <1>4, <2>2 DEF HasWinner
    <3>2. results' = Append(results, m)
      BY <1>1, <2>2, <3>1
    <3>3. Len(results) + 1 \in DOMAIN results' /\ results'[Len(results) + 1] = m
      BY <1>3, <3>2
    <3> QED
      BY <3>3
  <2> QED
    BY <2>1, <2>2
<1>8. GradesStand'
  <2>1. GradesStand
    BY DEF ReportsInv
  <2> SUFFICES ASSUME NEW s \in Snapshots, evaluation'[s] # {}
               PROVE  /\ s \in Decided' /\ answer'[s].ok
                      /\ \E side \in winner'[MapOf[s]], line \in SUBSET ClosingLine(s, answer[s])' :
                            evaluation'[s] = {GradeOf(s, side, line)'}
    BY DEF GradesStand
  <2>2. PICK side \in winner[MapOf[s]], line \in SUBSET ClosingLine(s, answer[s]) :
            evaluation[s] = {GradeOf(s, side, line)}
    BY <1>1, <2>1 DEF GradesStand
  <2>3. GradeOf(s, side, line)' = GradeOf(s, side, line) /\ ClosingLine(s, answer[s])' = ClosingLine(s, answer[s])
    BY <1>1 DEF GradeOf, ClosingLine
  <2>4. side \in winner'[MapOf[s]]
    BY <1>4, PortfolioAssumption
  <2> QED
    BY <1>1, <1>2, <2>1, <2>2, <2>3, <2>4 DEF GradesStand
<1>9. BetsGraded(position)'
  <2>1. BetsGraded(position)
    BY DEF ReportsInv
  <2> SUFFICES ASSUME NEW s \in Snapshots, NEW e \in Experiments,
                      position[<<s, e>>].status \in {"WON", "LOST"}
               PROVE  /\ HasWinner(MapOf[s])'
                      /\ Clean(MapOf[s])' =>
                             (position[<<s, e>>].status = "WON" <=> Won(MapOf[s], position[<<s, e>>].side)')
                      /\ evaluation[s] # {} => ValueOf(s, "correct")' = {position[<<s, e>>].status = "WON"}
    BY <1>1 DEF BetsGraded
  <2> DEFINE m == MapOf[s]
  <2>2. m \in Maps /\ HasWinner(m)
    BY <2>1, PortfolioAssumption DEF BetsGraded
  <2>3. HasWinner(m)'
    BY <1>4, <2>2 DEF HasWinner
  <2>4. ValueOf(s, "correct")' = ValueOf(s, "correct")
    BY <1>1 DEF ValueOf
  <2>5. CASE m # n
    <3>1. winner'[m] = winner[m]
      BY <1>4, <2>2, <2>5
    <3>2. (Clean(m)' <=> Clean(m)) /\ \A side : Won(m, side)' <=> Won(m, side)
      BY <3>1 DEF Clean, Won
    <3> QED
      BY <1>1, <2>1, <2>3, <2>4, <3>2 DEF BetsGraded
  <2>6. CASE m = n
    <3>1. winner[n] # {} /\ winner'[n] = winner[n] \cup {won} /\ won \notin winner[n]
      BY <1>1, <1>4, <2>2, <2>6 DEF HasWinner
    <3>2. ~ \E x : winner'[n] = {x}
      BY <3>1
    <3>3. IsFiniteSet(winner'[n])
      <4>1. IsFiniteSet(winner[n])
        BY <1>3, OutcomeOfMap
      <4> QED
        BY <3>1, <4>1, FS_AddElement
    <3>4. ~Clean(m)'
      BY <2>6, <3>2, <3>3, FS_Singleton DEF Clean
    <3> QED
      BY <2>1, <2>3, <2>4, <3>4 DEF BetsGraded
  <2> QED
    BY <2>5, <2>6
<1>10. WalkGoesOn'
  BY <1>1, <1>2 DEF ReportsInv, WalkGoesOn
<1> QED
  BY <1>2, <1>6, <1>7, <1>8, <1>9, <1>10 DEF ReportsInv

(* The numbers of a decision are of their types.                              *)
LEMMA GradeIsTyped ==
    ASSUME answer \in [Snapshots -> Answer], closing \subseteq DOMAIN ClosingOdds, NEW s \in Snapshots, NEW side \in Sides,
           NEW line, line \subseteq ClosingLine(s, answer[s])
    PROVE  GradeOf(s, side, line) \in Grade
<1> DEFINE a == answer[s]
<1>1. a \in Answer /\ Odds[s] \in Nat
  BY PortfolioAssumption
<1>2. Correct(a, side) \subseteq BOOLEAN
  BY DEF Correct
<1>3. Brier(a.fair, side) \subseteq Int
  <2> SUFFICES ASSUME NEW p \in a.fair
               PROVE  (p - (IF side = "A" THEN 100 ELSE 0)) * (p - (IF side = "A" THEN 100 ELSE 0)) \in Int
    BY DEF Brier
  <2>1. p \in Int
    BY <1>1 DEF Answer
  <2>2. PICK q \in Int : q = p - (IF side = "A" THEN 100 ELSE 0)
    BY <2>1
  <2>3. q * q \in Int
    BY <2>2
  <2> QED
    BY <2>2, <2>3
<1>4. Unit(s, a, side) \subseteq Int
  BY <1>1 DEF Unit
<1>5. line \subseteq Int
  <2> SUFFICES ASSUME NEW x \in line PROVE x \in Int
    OBVIOUS
  <2>1. s \in closing /\ x = Odds[s] - ClosingOdds[s]
    BY DEF ClosingLine
  <2>2. ClosingOdds[s] \in Nat
    BY <2>1, ReportsAssumption
  <2> QED
    BY <1>1, <2>1, <2>2
<1> QED
  BY <1>2, <1>3, <1>4, <1>5 DEF GradeOf, Grade

(* evaluate_snapshot grades by the winner a settled bet was settled by.        *)
LEMMA EvaluationKeeps == ASSUME ReportsInv, NEW r \in Snapshots, EvaluateSnapshot(r) PROVE ReportsInv'
<1> DEFINE won == OutcomeOf(MapOf[r])
           grade == GradeOf(r, won, ClosingLine(r, answer[r]))
<1>1. /\ r \in Decided /\ answer[r].ok /\ Clean(MapOf[r]) /\ evaluation[r] = {}
      /\ evaluation' = [evaluation EXCEPT ![r] = {grade}]
      /\ account' = account /\ position' = position /\ ledger' = ledger /\ answered' = answered
      /\ answer' = answer /\ winner' = winner /\ results' = results
      /\ closing' = closing /\ horizon' = horizon /\ walk' = walk
  BY DEF EvaluateSnapshot, GradeOf
<1>2. /\ (BooksBalance(account, position) /\ MoneyBooked(account, position, ledger))'
      /\ Owned(position)' /\ DecisionsFunded'
      /\ Decided' = Decided /\ \A s : Listed(s)' = Listed(s)
  BY <1>1, TablesStay
<1>3. /\ winner \in [Maps -> SUBSET Sides] /\ answer \in [Snapshots -> Answer]
      /\ evaluation \in [Snapshots -> SUBSET Grade] /\ ResultsDated /\ Owned(position)
      /\ MapOf[r] \in Maps /\ closing \subseteq DOMAIN ClosingOdds
  BY TablesTyped, PortfolioAssumption DEF ReportsInv, ReportsTypeOK
<1>4. won \in Sides /\ winner[MapOf[r]] = {won}
  BY <1>1, <1>3, OutcomeOfMap
<1> HIDE DEF won
<1>5. grade \in Grade
  BY <1>3, <1>4, GradeIsTyped
<1> HIDE DEF grade
<1>6. /\ evaluation'[r] = {grade} /\ \A s \in Snapshots : s # r => evaluation'[s] = evaluation[s]
      /\ evaluation' \in [Snapshots -> SUBSET Grade]
  BY <1>1, <1>3, <1>5
<1>7. ReportsTypeOK'
  BY <1>1, <1>6 DEF ReportsInv, ReportsTypeOK, PortfolioTypeOK
<1>8. ResultsDated'
  BY <1>1, <1>3 DEF ResultsDated, HasWinner
<1>9. GradesStand'
  <2>1. GradesStand
    BY DEF ReportsInv
  <2> SUFFICES ASSUME NEW s \in Snapshots, evaluation'[s] # {}
               PROVE  /\ s \in Decided' /\ answer'[s].ok
                      /\ \E side \in winner'[MapOf[s]], line \in SUBSET ClosingLine(s, answer[s])' :
                            evaluation'[s] = {GradeOf(s, side, line)'}
    BY DEF GradesStand
  <2>2. \A side, line : GradeOf(s, side, line)' = GradeOf(s, side, line)
    BY <1>1 DEF GradeOf
  <2>3. ClosingLine(s, answer[s])' = ClosingLine(s, answer[s])
    BY <1>1 DEF ClosingLine
  <2>4. CASE s = r
    <3> PICK side, line : side = won /\ line = ClosingLine(r, answer[r])
      OBVIOUS
    <3>1. side \in winner'[MapOf[s]] /\ line \in SUBSET ClosingLine(s, answer[s])'
      BY <1>1, <1>4, <2>3, <2>4
    <3>2. evaluation'[s] = {GradeOf(s, side, line)'}
      BY <1>6, <2>2, <2>4 DEF grade
    <3>3. \E x \in winner'[MapOf[s]], y \in SUBSET ClosingLine(s, answer[s])' :
             evaluation'[s] = {GradeOf(s, x, y)'}
      BY <3>1, <3>2
    <3> QED
      BY <1>1, <1>2, <2>4, <3>3
  <2>5. CASE s # r
    <3>1. evaluation'[s] = evaluation[s]
      BY <1>6, <2>5
    <3> QED
      BY <1>1, <1>2, <2>1, <2>2, <2>3, <3>1 DEF GradesStand
  <2> QED
    BY <2>4, <2>5
<1>10. BetsGraded(position)'
  <2>1. BetsGraded(position)
    BY DEF ReportsInv
  <2> SUFFICES ASSUME NEW s \in Snapshots, NEW e \in Experiments,
                      position[<<s, e>>].status \in {"WON", "LOST"}
               PROVE  /\ HasWinner(MapOf[s])'
                      /\ Clean(MapOf[s])' =>
                             (position[<<s, e>>].status = "WON" <=> Won(MapOf[s], position[<<s, e>>].side)')
                      /\ evaluation'[s] # {} => ValueOf(s, "correct")' = {position[<<s, e>>].status = "WON"}
    BY <1>1 DEF BetsGraded
  <2> DEFINE m == MapOf[s]
             p == position[<<s, e>>]
  <2>2. HasWinner(m)' /\ (Clean(m)' => (p.status = "WON" <=> Won(m, position[<<s, e>>].side)'))
    <3>1. (HasWinner(m)' <=> HasWinner(m)) /\ (Clean(m)' <=> Clean(m))
          /\ \A side : Won(m, side)' <=> Won(m, side)
      BY <1>1 DEF HasWinner, Clean, Won
    <3> QED
      BY <1>1, <2>1, <3>1 DEF BetsGraded
  <2>3. CASE s # r
    <3>1. evaluation'[s] = evaluation[s] /\ ValueOf(s, "correct")' = ValueOf(s, "correct")
      BY <1>6, <2>3 DEF ValueOf
    <3> QED
      BY <2>1, <2>2, <3>1 DEF BetsGraded
  <2>4. CASE s = r
    <3>1. answer[r].action \in Buys /\ p.side = SideOf(answer[r].action)
      BY <1>3, <2>4 DEF Owned
    <3>2. p.status = "WON" <=> p.side = won
      BY <1>1, <1>4, <2>1, <2>4 DEF BetsGraded, Won
    <3>3. Correct(answer[r], won) = {p.status = "WON"}
      BY <3>1, <3>2 DEF Correct
    <3>4. grade.correct = Correct(answer[r], won)
      BY DEF grade, GradeOf
    <3>5. ValueOf(s, "correct")' = grade.correct
      BY <1>6, <2>4 DEF ValueOf
    <3> QED
      BY <2>2, <3>3, <3>4, <3>5
  <2> QED
    BY <2>3, <2>4
<1>11. WalkGoesOn'
  BY <1>1, <1>2 DEF ReportsInv, WalkGoesOn
<1> QED
  BY <1>2, <1>7, <1>8, <1>9, <1>10, <1>11 DEF ReportsInv

(* settle_map, as it is called for the tables of any moment.                  *)
LEMMA SettledNowKeeps ==
    ASSUME NEW acc, NEW pos, NEW led, TablesOK(acc, pos), BooksBalance(acc, pos),
           MoneyBooked(acc, pos, led), InEvent(pos),
           winner \in [Maps -> SUBSET Sides], results \in Seq(Maps), ResultsDated,
           NEW m \in Maps, HasWinner(m), SettledNow(acc, pos, led, m)
    PROVE  /\ TablesOK(account', position') /\ BooksBalance(account', position')
           /\ MoneyBooked(account', position', ledger') /\ Carried(pos, position')
           /\ \A e \in Experiments : account'[e].status = "ABSENT" <=> acc[e].status = "ABSENT"
<1> DEFINE found == OpenAccounts(pos, m)
           outcome == OutcomeOf(m)
           at == SettledAt(m)
<1>1. outcome \in Outcomes /\ at \in Nat
  BY OutcomeOfMap, SettlementIsDated
<1>2. /\ position' = SettledPositions(pos, m, outcome, found)
      /\ account' = SettledAccounts(acc, pos, m, outcome, found)
      /\ ledger' = led \cup EntriesFor(pos, m, outcome, at)
  BY DEF SettledNow, Settlements, EntriesFor
<1>3. Carried(pos, position')
  BY <1>2, SettlementCarries
<1> HIDE DEF outcome, at
<1>4. /\ TablesOK(account', position') /\ BooksBalance(account', position')
      /\ \A e \in Experiments : acc[e].status # "ABSENT" => account'[e].status # "ABSENT"
  BY <1>2, SettlingKeepsBooks
<1>5. MoneyBooked(account', position', ledger')
  BY <1>1, <1>2, SettlingKeepsMoney
<1>6. ASSUME NEW e \in Experiments, acc[e].status = "ABSENT" PROVE account'[e].status = "ABSENT"
  <2>1. OpenBets(pos, e) = {}
    BY <1>6 DEF BooksBalance
  <2>2. {s \in Snapshots : <<s, e>> \in OpenOn(pos, m)} = {}
    BY <2>1 DEF OpenBets, OpenOn
  <2>3. account'[e] = acc[e]
    BY <1>2, <2>2 DEF SettledAccounts
  <2> QED
    BY <1>6, <2>3
<1> QED
  BY <1>3, <1>4, <1>5, <1>6

(* A bet that is settled is won by the winner its decision is graded by.      *)
BetsFollow(pos) ==
    \A s \in Snapshots, e \in Experiments :
        pos[<<s, e>>].status # "ABSENT" /\ evaluation[s] # {} =>
            answer[s].action \in Buys /\ pos[<<s, e>>].side = SideOf(answer[s].action)

LEMMA CarriedIsGraded ==
    ASSUME winner \in [Maps -> SUBSET Sides], GradesStand, NEW acc, NEW pos, TablesOK(acc, pos),
           BetsGraded(pos), BetsFollow(pos), NEW new, Carried(pos, new)
    PROVE  BetsGraded(new)
<1> SUFFICES ASSUME NEW s \in Snapshots, NEW e \in Experiments, new[<<s, e>>].status \in {"WON", "LOST"}
             PROVE  /\ HasWinner(MapOf[s])
                    /\ Clean(MapOf[s]) =>
                           (new[<<s, e>>].status = "WON" <=> Won(MapOf[s], new[<<s, e>>].side))
                    /\ evaluation[s] # {} => ValueOf(s, "correct") = {new[<<s, e>>].status = "WON"}
  BY DEF BetsGraded
<1> DEFINE m == MapOf[s]
           o == OutcomeOf(m)
           p == pos[<<s, e>>]
           q == new[<<s, e>>]
<1>1. /\ q.side = p.side /\ (q.status = "ABSENT" <=> p.status = "ABSENT")
      /\ q.status = p.status \/ (HasWinner(m) /\ q.status = Verdict(p, o))
  BY DEF Carried
<1>2. CASE q.status = p.status
  BY <1>1, <1>2 DEF BetsGraded
<1>3. CASE HasWinner(m) /\ q.status = Verdict(p, o)
  <2>1. o # "VOID" /\ (q.status = "WON" <=> p.side = o)
    <3>1. q.status \in {"WON", "LOST"} /\ q.status = Verdict(p, o) /\ p.side # "VOID"
      BY <1>3, DecisionIsPair DEF TablesOK, Position, Sides
    <3> HIDE DEF q, p, o
    <3>2. o # "VOID"
      <4> SUFFICES ASSUME o = "VOID" PROVE FALSE
        OBVIOUS
      <4>1. Verdict(p, o) = "VOID"
        BY <3>1 DEF Verdict
      <4> QED
        BY <3>1, <4>1
    <3>3. CASE p.side = o
      BY <3>1, <3>2, <3>3 DEF Verdict
    <3>4. CASE p.side # o
      BY <3>1, <3>2, <3>4 DEF Verdict
    <3> QED
      BY <3>2, <3>3, <3>4
  <2>2. m \in Maps
    BY PortfolioAssumption
  <2>3. winner[m] = {o}
    BY <2>1, <2>2, OutcomeOfMap
  <2>4. Won(m, q.side) <=> p.side = o
    BY <1>1, <2>3 DEF Won
  <2>5. ASSUME evaluation[s] # {} PROVE ValueOf(s, "correct") = {q.status = "WON"}
    <3>1. answer[s].action \in Buys /\ p.side = SideOf(answer[s].action)
      BY <1>1, <2>5 DEF BetsFollow
    <3>2. PICK side \in winner[m], line \in SUBSET ClosingLine(s, answer[s]) :
              evaluation[s] = {GradeOf(s, side, line)}
      BY <2>5 DEF GradesStand
    <3>3. side = o
      BY <2>3, <3>2
    <3> HIDE DEF o, m, p, q
    <3>4. ValueOf(s, "correct") = Correct(answer[s], o)
      <4>1. GradeOf(s, side, line).correct = Correct(answer[s], o)
        BY <3>3 DEF GradeOf
      <4> QED
        BY <3>2, <4>1 DEF ValueOf
    <3>5. Correct(answer[s], o) = {p.side = o}
      BY <3>1 DEF Correct
    <3> QED
      BY <2>1, <3>4, <3>5
  <2> QED
    BY <1>3, <2>1, <2>4, <2>5
<1> QED
  BY <1>1, <1>2, <1>3

(* settle_map                                                                 *)
LEMMA SettleMapKeeps == ASSUME ReportsInv, NEW n \in Maps, SettleMap(n) PROVE ReportsInv'
<1>1. /\ HasWinner(n) /\ SettledNow(account, position, ledger, n)
      /\ answered' = answered /\ answer' = answer /\ winner' = winner /\ results' = results
      /\ evaluation' = evaluation /\ closing' = closing /\ horizon' = horizon /\ walk' = walk
  BY DEF SettleMap
<1>2. /\ TablesOK(account, position) /\ BooksBalance(account, position)
      /\ MoneyBooked(account, position, ledger) /\ InEvent(position)
      /\ winner \in [Maps -> SUBSET Sides] /\ results \in Seq(Maps) /\ ResultsDated
      /\ Owned(position) /\ DecisionsFunded
  BY TablesTyped
<1>3. /\ TablesOK(account', position') /\ BooksBalance(account', position')
      /\ MoneyBooked(account', position', ledger') /\ Carried(position, position')
      /\ \A e \in Experiments : account'[e].status = "ABSENT" <=> account[e].status = "ABSENT"
  BY <1>1, <1>2, SettledNowKeeps
<1>4. Decided' = Decided /\ \A s : Listed(s)' = Listed(s)
  BY <1>1 DEF Decided, Listed
<1>5. ReportsTypeOK'
  <2>1. PortfolioTypeOK'
    BY <1>3 DEF TablesOK, PortfolioTypeOK
  <2>2. ledger' \subseteq Entries
    BY <1>3 DEF MoneyBooked
  <2> QED
    BY <1>1, <2>1, <2>2 DEF ReportsInv, ReportsTypeOK
<1>6. Owned(position)'
  BY <1>1, <1>2, <1>3, <1>4 DEF Owned, Carried
<1>7. DecisionsFunded'
  BY <1>2, <1>3, <1>4 DEF DecisionsFunded
<1>8. ResultsDated' /\ GradesStand'
  <2>1. GradesStand
    BY DEF ReportsInv
  <2>2. ResultsDated'
    BY <1>1, <1>2 DEF ResultsDated, HasWinner
  <2>3. \A s : ClosingLine(s, answer[s])' = ClosingLine(s, answer[s])
    BY <1>1 DEF ClosingLine
  <2>4. \A s, side, line : GradeOf(s, side, line)' = GradeOf(s, side, line)
    BY <1>1 DEF GradeOf
  <2>5. GradesStand'
    BY <1>1, <1>4, <2>1, <2>3, <2>4 DEF GradesStand
  <2> QED
    BY <2>2, <2>5
<1>9. BetsGraded(position)'
  <2>1. GradesStand /\ BetsGraded(position)
    BY DEF ReportsInv
  <2>2. BetsFollow(position)
    BY <1>2 DEF BetsFollow, Owned
  <2>3. PICK new : new = position'
    OBVIOUS
  <2>4. BetsGraded(new)
    BY <1>2, <1>3, <2>1, <2>2, <2>3, CarriedIsGraded
  <2>5. \A m : /\ HasWinner(m)' <=> HasWinner(m)
               /\ Clean(m)' <=> Clean(m)
               /\ \A side : Won(m, side)' <=> Won(m, side)
    BY <1>1 DEF HasWinner, Clean, Won
  <2>6. \A s, field : ValueOf(s, field)' = ValueOf(s, field)
    BY <1>1 DEF ValueOf
  <2> QED
    BY <1>1, <2>3, <2>4, <2>5, <2>6 DEF BetsGraded
<1>10. WalkGoesOn'
  BY <1>1, <1>4 DEF ReportsInv, WalkGoesOn
<1> QED
  BY <1>3, <1>5, <1>6, <1>7, <1>8, <1>9, <1>10 DEF ReportsInv

(* The position of a BUY: as much as the model asked for, refused when it is  *)
(* late, cannot be executed or is more than the account holds.                *)
LEMMA NewPositionIs ==
    ASSUME NEW s, NEW side \in Sides, NEW cash \in Nat, NEW outcome, NEW late
    PROVE  LET p == NewPosition(s, side, 2 * Stake, cash, outcome, late) IN
           /\ p \in Position /\ p.status \in {"OPEN", "REJECTED"} /\ p.side = side /\ p.stake = Stake
           /\ p.status = "OPEN" => p.stake <= cash
<1> DEFINE p == NewPosition(s, side, 2 * Stake, cash, outcome, late)
           stake == Cents(2 * Stake)
           why == CASE outcome # "NONE" /\ late -> "MAP_ALREADY_SETTLED"
                    [] s \notin Executable -> "NOT_EXECUTABLE"
                    [] stake > cash -> "INSUFFICIENT_CASH"
                    [] OTHER -> "NONE"
<1>1. stake = Stake /\ Stake \in Nat
  BY ReportsAssumption DEF Cents
<1>2. p = [status |-> IF why = "NONE" THEN "OPEN" ELSE "REJECTED", side |-> side,
           stake |-> stake, cash_before |-> cash, reason |-> why]
  BY DEF NewPosition
<1>3. /\ why \in {"NONE", "MAP_ALREADY_SETTLED", "NOT_EXECUTABLE", "INSUFFICIENT_CASH"}
      /\ why = "NONE" => ~ (stake > cash)
  OBVIOUS
<1> HIDE DEF why, stake, p
<1>4. p \in Position
  BY <1>1, <1>2, <1>3 DEF Position
<1>5. /\ p.status = IF why = "NONE" THEN "OPEN" ELSE "REJECTED"
      /\ p.stake = stake /\ p.side = side
  BY <1>2
<1> QED
  BY <1>1, <1>3, <1>4, <1>5 DEF p

(* The tables after an answer: the account of the event is there, the bet of  *)
(* a BUY is entered, and settled at once where the map has a result.          *)
LEMMA PersistTables ==
    ASSUME ReportsInv, NEW s \in Snapshots, NEW late \in BOOLEAN, NEW a \in Answer, Persist(s, a, late)
    PROVE  /\ TablesOK(account', position') /\ BooksBalance(account', position')
           /\ MoneyBooked(account', position', ledger')
           /\ \A e \in Experiments :
                  account'[e].status # "ABSENT" <=> account[e].status # "ABSENT" \/ e = AccountOf[s]
           /\ \E placed :
                  /\ \/ placed = position
                     \/ /\ a.ok /\ a.action \in Buys
                        /\ \E bet \in Position :
                              /\ Rewritten(position, placed, s, AccountOf[s], bet)
                              /\ bet.status \in {"OPEN", "REJECTED"} /\ bet.stake = Stake
                              /\ bet.side = SideOf(a.action)
                  /\ Carried(placed, position')
<1> DEFINE e == AccountOf[s]
           d == DecisionOf(s)
           m == MapOf[s]
           open == Funded(account[e])
           funded == [account EXCEPT ![e] = open]
           funding == ledger \cup {Funding(e)}
           p == NewPosition(s, SideOf(a.action), 2 * Stake, open.cash, OutcomeOf(m), late)
           placed == [position EXCEPT ![d] = p]
           reserved == [funded EXCEPT ![e] = Reserved(open, p)]
           x == Entry(e, "BET_PLACED", s, Len(results), -p.stake, p.stake)
           bet == funding \cup {x}
<1>1. /\ s \notin Decided
      /\ \/ /\ ~a.ok \/ a.action \notin Buys
            /\ account' = funded /\ ledger' = funding /\ position' = position
         \/ /\ a.ok /\ a.action \in Buys /\ p.status = "REJECTED"
            /\ account' = funded /\ ledger' = funding /\ position' = placed
         \/ /\ a.ok /\ a.action \in Buys /\ p.status # "REJECTED" /\ HasWinner(m)
            /\ SettledNow(reserved, placed, bet, m)
         \/ /\ a.ok /\ a.action \in Buys /\ p.status # "REJECTED" /\ ~HasWinner(m)
            /\ account' = reserved /\ position' = placed /\ ledger' = bet
  BY DEF Persist, Funding
<1>2. /\ TablesOK(account, position) /\ BooksBalance(account, position)
      /\ MoneyBooked(account, position, ledger) /\ InEvent(position) /\ Owned(position)
      /\ winner \in [Maps -> SUBSET Sides] /\ results \in Seq(Maps) /\ ResultsDated
  BY TablesTyped
<1>3. e \in Experiments /\ m \in Maps /\ s \in Nat
  BY PortfolioAssumption, ReportsAssumption
<1>4. funded = [f \in Experiments |-> IF f = e THEN Funded(account[e]) ELSE account[f]]
  BY <1>2 DEF TablesOK
<1>5. /\ TablesOK(funded, position) /\ BooksBalance(funded, position)
      /\ funded[e] = open /\ funded[e].status # "ABSENT"
      /\ \A f \in Experiments \ {e} : funded[f] = account[f]
  <2> HIDE DEF funded, e, open
  <2>1. /\ TablesOK(funded, position) /\ BooksBalance(funded, position)
        /\ funded[e] = Funded(account[e]) /\ funded[e].status # "ABSENT"
        /\ \A f \in Experiments \ {e} : funded[f] = account[f]
    BY <1>2, <1>3, <1>4, FundingKeepsBooks
  <2> QED
    BY <2>1 DEF open
<1>6. MoneyBooked(funded, position, funding)
  <2>1. funded = [account EXCEPT ![e] = Funded(account[e])]
    OBVIOUS
  <2> HIDE DEF funded, e
  <2> QED
    BY <1>2, <1>3, <2>1, FundingKeepsMoney
<1>7. \A f \in Experiments :
          funded[f].status # "ABSENT" <=> account[f].status # "ABSENT" \/ f = e
  BY <1>5
<1>8. position[<<s, e>>].status = "ABSENT"
  BY <1>1, <1>2, <1>3 DEF Owned
<1>9. CASE /\ ~a.ok \/ a.action \notin Buys
           /\ account' = funded /\ ledger' = funding /\ position' = position
  <2>1. Carried(position, position')
    BY <1>9 DEF Carried
  <2> HIDE DEF funded, funding, e
  <2> QED
    BY <1>5, <1>6, <1>7, <1>9, <2>1 DEF e
<1>10. CASE a.ok /\ a.action \in Buys
  <2>1. open.cash \in Nat /\ SideOf(a.action) \in Sides
    <3>1. open \in Account
      BY <1>3, <1>5 DEF TablesOK
    <3> QED
      BY <3>1 DEF Account, SideOf, Sides
  <2>2. /\ p \in Position /\ p.status \in {"OPEN", "REJECTED"} /\ p.side = SideOf(a.action)
        /\ p.stake = Stake /\ (p.status = "OPEN" => p.stake <= open.cash)
    <3> HIDE DEF open, m
    <3> QED
      BY <2>1, NewPositionIs
  <2>3. d = <<s, e>> /\ d \in Decisions
    BY <1>3, DecisionIsPair DEF DecisionOf
  <2>4. Rewritten(position, placed, s, e, p)
    <3> HIDE DEF p, e
    <3> QED
      BY <1>2, <2>2, <2>3 DEF Rewritten, TablesOK
  <2> HIDE DEF p, placed, funded, funding, e, open, d
  <2>5. TablesOK(funded, placed) /\ MoneyBooked(funded, placed, funding)
    <3>1. MoneyBooked(funded, placed, funding)
      BY <1>3, <1>5, <1>6, <1>8, <2>2, <2>4, NewPositionKeepsMoney
    <3>2. TablesOK(funded, placed)
      BY <1>5, <2>4 DEF TablesOK, Rewritten
    <3> QED
      BY <3>1, <3>2
  <2>6. \/ placed = position
        \/ /\ a.ok /\ a.action \in Buys
           /\ \E b \in Position :
                 /\ Rewritten(position, placed, s, AccountOf[s], b)
                 /\ b.status \in {"OPEN", "REJECTED"} /\ b.stake = Stake
                 /\ b.side = SideOf(a.action)
    BY <1>10, <2>2, <2>4 DEF e
  <2>7. CASE /\ p.status = "REJECTED"
             /\ account' = funded /\ ledger' = funding /\ position' = placed
    <3>1. BooksBalance(funded, placed)
      BY <1>3, <1>5, <1>8, <2>2, <2>4, <2>7, RefusalKeepsBooks
    <3>2. Carried(placed, position')
      BY <2>7 DEF Carried
    <3> QED
      BY <1>7, <2>5, <2>6, <2>7, <3>1, <3>2 DEF e
  <2>8. CASE p.status # "REJECTED"
    <3>1. p.status = "OPEN" /\ p.stake <= funded[e].cash
      BY <1>5, <2>2, <2>8
    <3>2. reserved = [funded EXCEPT ![e] = Reserved(@, p)]
      BY <1>5
    <3> HIDE DEF reserved
    <3>3. TablesOK(reserved, placed) /\ BooksBalance(reserved, placed)
      BY <1>3, <1>5, <1>8, <2>2, <2>4, <3>1, <3>2, BetKeepsBooks
    <3>4. MoneyBooked(reserved, placed, bet)
      <4>1. Len(results) \in Nat /\ x = Entry(e, "BET_PLACED", s, Len(results), -p.stake, p.stake)
        BY <1>2
      <4> HIDE DEF x
      <4> QED
        BY <1>3, <1>5, <2>2, <2>5, <3>2, <4>1, BetKeepsMoney
    <3>5. \A f \in Experiments :
              reserved[f].status = "ABSENT" <=> funded[f].status = "ABSENT"
      <4>1. reserved[e] = Reserved(funded[e], p) /\ \A f \in Experiments \ {e} : reserved[f] = funded[f]
        BY <1>3, <1>5, <3>2 DEF TablesOK
      <4>2. Reserved(funded[e], p).status = funded[e].status
        <5>1. funded[e] \in Account
          BY <1>3, <1>5 DEF TablesOK
        <5> QED
          BY <5>1 DEF Reserved, Account
      <4> QED
        BY <4>1, <4>2
    <3> HIDE DEF bet
    <3>6. CASE ~HasWinner(m) /\ account' = reserved /\ position' = placed /\ ledger' = bet
      <4>1. Carried(placed, position')
        BY <3>6 DEF Carried
      <4> QED
        BY <1>7, <2>6, <3>3, <3>4, <3>5, <3>6, <4>1 DEF e
    <3>7. CASE HasWinner(m) /\ SettledNow(reserved, placed, bet, m)
      <4>1. InEvent(placed)
        BY <1>2, <2>3, <2>4, DecisionIsPair DEF InEvent, Rewritten, e
      <4> HIDE DEF m
      <4>2. /\ TablesOK(account', position') /\ BooksBalance(account', position')
            /\ MoneyBooked(account', position', ledger') /\ Carried(placed, position')
            /\ \A f \in Experiments : account'[f].status = "ABSENT" <=> reserved[f].status = "ABSENT"
        BY <1>2, <1>3, <3>3, <3>4, <3>7, <4>1, SettledNowKeeps
      <4> QED
        BY <1>7, <2>6, <3>5, <4>2 DEF e
    <3> QED
      BY <1>1, <1>10, <2>8, <3>6, <3>7 DEF p, placed, funded, funding, e, open, d, reserved, bet
  <2> QED
    BY <1>1, <1>10, <2>7, <2>8 DEF p, placed, funded, funding, e, open, d
<1> QED
  BY <1>1, <1>9, <1>10

(* persist: a failed call, a refused stake, a bet and a bet settled at once.  *)
LEMMA PersistKeeps ==
    ASSUME ReportsInv, NEW s \in Snapshots, NEW late \in BOOLEAN, NEW a \in Answer, Persist(s, a, late)
    PROVE  ReportsInv'
<1> DEFINE e == AccountOf[s]
<1>1. /\ s \notin Decided /\ answered' = Append(answered, s) /\ answer' = [answer EXCEPT ![s] = a]
      /\ winner' = winner /\ results' = results /\ evaluation' = evaluation /\ closing' = closing
      /\ horizon' = horizon /\ walk' = walk
  BY DEF Persist
<1>2. /\ TablesOK(account', position') /\ BooksBalance(account', position')
      /\ MoneyBooked(account', position', ledger')
      /\ \A f \in Experiments :
             account'[f].status # "ABSENT" <=> account[f].status # "ABSENT" \/ f = e
  BY PersistTables
<1>3. PICK placed :
          /\ \/ placed = position
             \/ /\ a.ok /\ a.action \in Buys
                /\ \E bet \in Position :
                      /\ Rewritten(position, placed, s, e, bet)
                      /\ bet.status \in {"OPEN", "REJECTED"} /\ bet.stake = Stake
                      /\ bet.side = SideOf(a.action)
          /\ Carried(placed, position')
  BY PersistTables
<1>4. /\ TablesOK(account, position) /\ Owned(position) /\ DecisionsFunded /\ ResultsDated
      /\ answered \in Seq(Snapshots) /\ answer \in [Snapshots -> Answer]
      /\ winner \in [Maps -> SUBSET Sides]
      /\ Decided \subseteq Snapshots /\ IsFiniteSet(Decided) /\ GradesStand /\ BetsGraded(position)
  BY TablesTyped DEF ReportsInv
<1>5. Decided' = Decided \cup {s}
  <2>1. Len(answered) \in Nat /\ DOMAIN answered = 1..Len(answered)
        /\ DOMAIN answered' = 1..(Len(answered) + 1)
        /\ answered'[Len(answered) + 1] = s
        /\ \A i \in DOMAIN answered : answered'[i] = answered[i]
    BY <1>1, <1>4
  <2>2. Decided' \subseteq Decided \cup {s}
    BY <2>1 DEF Decided
  <2>3. Decided \cup {s} \subseteq Decided'
    <3>1. ASSUME NEW i \in DOMAIN answered PROVE answered[i] \in Decided'
      BY <2>1, <3>1 DEF Decided
    <3>2. s \in Decided'
      <4>1. Len(answered) + 1 \in DOMAIN answered'
        BY <2>1
      <4> QED
        BY <2>1, <4>1 DEF Decided
    <3> QED
      BY <3>1, <3>2 DEF Decided
  <2> QED
    BY <2>2, <2>3
<1>6. /\ answer'[s] = a /\ \A r \in Snapshots : r # s => answer'[r] = answer[r]
      /\ answer' \in [Snapshots -> Answer] /\ answered' \in Seq(Snapshots)
  BY <1>1, <1>4
<1>7. ReportsTypeOK'
  <2>1. PortfolioTypeOK'
    BY <1>2 DEF TablesOK, PortfolioTypeOK
  <2>2. ledger' \subseteq Entries
    BY <1>2 DEF MoneyBooked
  <2> QED
    BY <1>1, <1>6, <2>1, <2>2 DEF ReportsInv, ReportsTypeOK
<1>8. /\ e \in Experiments
      /\ \A f \in Experiments : position[<<s, f>>].status = "ABSENT"
      /\ evaluation[s] = {}
  BY <1>1, <1>4, ReportsAssumption DEF Owned, GradesStand
<1>9. ASSUME NEW r \in Snapshots, NEW f \in Experiments
      PROVE  /\ placed[<<r, f>>] \in Position
             /\ r # s \/ f # e => placed[<<r, f>>] = position[<<r, f>>]
             /\ r = s /\ f = e /\ placed[<<r, f>>].status # "ABSENT" =>
                    /\ a.ok /\ a.action \in Buys
                    /\ placed[<<r, f>>].side = SideOf(a.action) /\ placed[<<r, f>>].stake = Stake
                    /\ placed[<<r, f>>].status \in {"OPEN", "REJECTED"}
  <2>1. <<r, f>> \in Decisions /\ (<<r, f>> = <<s, e>> <=> r = s /\ f = e)
    BY DecisionIsPair
  <2>2. CASE placed = position
    BY <1>4, <1>8, <2>1, <2>2 DEF TablesOK
  <2>3. CASE placed # position
    BY <1>3, <2>1, <2>3 DEF Rewritten
  <2> QED
    BY <2>2, <2>3
<1> HIDE DEF e
<1>10. ASSUME NEW r \in Snapshots, NEW f \in Experiments, placed[<<r, f>>].status # "ABSENT"
       PROVE  /\ f = AccountOf[r] /\ r \in Decided' /\ answer'[r].ok /\ answer'[r].action \in Buys
              /\ placed[<<r, f>>].side = SideOf(answer'[r].action) /\ placed[<<r, f>>].stake = Stake
  <2>1. CASE r = s /\ f = e
    BY <1>5, <1>6, <1>9, <1>10, <2>1 DEF e
  <2>2. CASE r # s
    BY <1>4, <1>5, <1>6, <1>9, <1>10, <2>2 DEF Owned
  <2>3. CASE r = s /\ f # e
    BY <1>8, <1>9, <1>10, <2>3
  <2> QED
    BY <2>1, <2>2, <2>3
<1>11. Owned(position)'
  <2> SUFFICES ASSUME NEW r \in Snapshots, NEW f \in Experiments, position'[<<r, f>>].status # "ABSENT"
               PROVE  /\ f = AccountOf[r] /\ r \in Decided' /\ answer'[r].ok /\ answer'[r].action \in Buys
                      /\ position'[<<r, f>>].side = SideOf(answer'[r].action)
                      /\ position'[<<r, f>>].stake = Stake
    BY DEF Owned
  <2>1. /\ position'[<<r, f>>].side = placed[<<r, f>>].side
        /\ position'[<<r, f>>].stake = placed[<<r, f>>].stake
        /\ placed[<<r, f>>].status # "ABSENT"
    BY <1>3 DEF Carried
  <2> QED
    BY <1>10, <2>1
<1>12. DecisionsFunded'
  BY <1>2, <1>4, <1>5 DEF DecisionsFunded, e
<1>13. ResultsDated'
  BY <1>1, <1>4 DEF ResultsDated, HasWinner
<1>14. \A r \in Snapshots : r # s =>
           /\ ClosingLine(r, answer[r])' = ClosingLine(r, answer[r])
           /\ \A side, line : GradeOf(r, side, line)' = GradeOf(r, side, line)
  BY <1>1, <1>6 DEF ClosingLine, GradeOf
<1>15. GradesStand'
  <2> SUFFICES ASSUME NEW r \in Snapshots, evaluation'[r] # {}
               PROVE  /\ r \in Decided' /\ answer'[r].ok
                      /\ \E side \in winner'[MapOf[r]], line \in SUBSET ClosingLine(r, answer[r])' :
                            evaluation'[r] = {GradeOf(r, side, line)'}
    BY DEF GradesStand
  <2>1. r # s
    BY <1>1, <1>8
  <2> QED
    BY <1>1, <1>4, <1>5, <1>6, <1>14, <2>1 DEF GradesStand
<1>16. BetsGraded(position)'
  <2>1. BetsGraded(placed)
    <3> SUFFICES ASSUME NEW r \in Snapshots, NEW f \in Experiments,
                        placed[<<r, f>>].status \in {"WON", "LOST"}
                 PROVE  placed[<<r, f>>] = position[<<r, f>>]
      BY <1>4 DEF BetsGraded
    <3> QED
      BY <1>9
  <2>2. BetsFollow(placed)
    <3> SUFFICES ASSUME NEW r \in Snapshots, NEW f \in Experiments,
                        placed[<<r, f>>].status # "ABSENT", evaluation[r] # {}
                 PROVE  answer[r].action \in Buys /\ placed[<<r, f>>].side = SideOf(answer[r].action)
      BY DEF BetsFollow
    <3>1. r # s
      BY <1>8
    <3> QED
      BY <1>6, <1>10, <3>1
  <2>3. PICK new : new = position'
    OBVIOUS
  <2>4. TablesOK(account, placed)
    <3>1. placed \in [Decisions -> Position]
      BY <1>3, <1>4 DEF Rewritten, TablesOK
    <3> QED
      BY <1>4, <3>1 DEF TablesOK
  <2>5. BetsGraded(new)
    BY <1>3, <1>4, <2>1, <2>2, <2>3, <2>4, CarriedIsGraded
  <2>6. \A m : /\ HasWinner(m)' <=> HasWinner(m)
               /\ Clean(m)' <=> Clean(m)
               /\ \A side : Won(m, side)' <=> Won(m, side)
    BY <1>1 DEF HasWinner, Clean, Won
  <2>7. \A r, field : ValueOf(r, field)' = ValueOf(r, field)
    BY <1>1 DEF ValueOf
  <2> QED
    BY <1>1, <2>3, <2>5, <2>6, <2>7 DEF BetsGraded
<1>17. WalkGoesOn'
  <2>1. ASSUME NEW r \in Decided PROVE Listed(r) <= Listed(r)'
    <3> DEFINE newer == {t \in Decided : t > r}
               more == {t \in Decided' : t > r}
    <3>1. newer \subseteq more
      BY <1>5
    <3>2. IsFiniteSet(Decided') /\ more \subseteq Decided'
      BY <1>4, <1>5, FS_AddElement
    <3>3. Listed(r) = Cardinality(newer) /\ Listed(r)' = Cardinality(more)
      BY DEF Listed
    <3> HIDE DEF newer, more
    <3>4. IsFiniteSet(more)
      BY <3>2, FS_Subset
    <3> QED
      BY <3>1, <3>3, <3>4, FS_Subset
  <2>2. WalkGoesOn /\ walk.offset \in Nat
    BY DEF ReportsInv, ReportsTypeOK
  <2>3. ASSUME NEW r \in Decided PROVE Listed(r) \in Nat /\ Listed(r)' \in Nat
    <3>1. IsFiniteSet({t \in Decided : t > r})
      BY <1>4, FS_Subset
    <3>2. IsFiniteSet({t \in Decided' : t > r})
      <4>1. IsFiniteSet(Decided')
        BY <1>4, <1>5, FS_AddElement
      <4> QED
        BY <4>1, FS_Subset
    <3> QED
      BY <3>1, <3>2, FS_CardinalityType DEF Listed
  <2>4. CASE walk.open
    <3> SUFFICES ASSUME NEW r \in walk.old PROVE r \in walk.seen \/ Listed(r)' >= walk.offset
      BY <1>1, <1>5, <2>2, <2>4 DEF WalkGoesOn
    <3>1. r \in Decided /\ (r \in walk.seen \/ Listed(r) >= walk.offset)
      BY <2>2, <2>4 DEF WalkGoesOn
    <3>2. Listed(r) <= Listed(r)' /\ Listed(r) \in Nat /\ Listed(r)' \in Nat
      BY <2>1, <2>3, <3>1
    <3> QED
      BY <2>2, <3>1, <3>2
  <2>5. CASE ~walk.open
    BY <1>1, <2>2, <2>5 DEF WalkGoesOn
  <2> QED
    BY <2>4, <2>5
<1> QED
  BY <1>2, <1>7, <1>11, <1>12, <1>13, <1>15, <1>16, <1>17 DEF ReportsInv

(* What holds of the reports' tables holds of them at all times.              *)
LEMMA ReportsInductive == ASSUME ReportsInv, [ReportsNext]_reportsVars PROVE ReportsInv'
<1>1. ASSUME NEW s \in Snapshots, NEW late \in BOOLEAN, NEW a \in Says[s], Persist(s, a, late)
      PROVE  ReportsInv'
  <2>1. a \in Answer
    BY ReportsAssumption
  <2> QED
    BY <1>1, <2>1, PersistKeeps
<1>2. ASSUME NEW m \in Maps, NEW side \in Sides, ReportWinner(m, side) PROVE ReportsInv'
  BY <1>2, WinnerKeeps
<1>3. ASSUME NEW m \in Maps, SettleMap(m) PROVE ReportsInv'
  BY <1>3, SettleMapKeeps
<1>4. ASSUME NEW s \in Snapshots, Close(s) PROVE ReportsInv'
  BY <1>4, CloseKeeps
<1>5. ASSUME NEW s \in Snapshots, EvaluateSnapshot(s) PROVE ReportsInv'
  BY <1>5, EvaluationKeeps
<1>6. ASSUME NEW s \in Snapshots, NEW pair \in BOOLEAN, CaptureHorizon(s, pair) PROVE ReportsInv'
  BY <1>6, CaptureKeeps
<1>7. CASE Page
  BY <1>7, PageKeeps
<1>8. CASE UNCHANGED reportsVars
  BY <1>8, ReportsStutter
<1> QED
  BY <1>1, <1>2, <1>3, <1>4, <1>5, <1>6, <1>7, <1>8 DEF ReportsNext

-----------------------------------------------------------------------------
(* What the invariant says of the reports.                                   *)

(* The first of a map that will do.                                           *)
LEMMA FirstOfMap ==
    ASSUME NEW S, S \subseteq Snapshots
    PROVE  /\ \A s : s \in FirstPerMap(S) <=>
                  s \in S /\ \A t \in S : MapOf[t] = MapOf[s] => s <= t
           /\ OncePerMap(FirstPerMap(S))
<1>1. ASSUME NEW s PROVE s \in FirstPerMap(S) <=> s \in S /\ \A t \in S : MapOf[t] = MapOf[s] => s <= t
  <2>1. s \in S => MapOf[s] \in Maps
    BY PortfolioAssumption
  <2> QED
    BY <2>1 DEF FirstPerMap, FirstOf
<1>2. OncePerMap(FirstPerMap(S))
  <2> SUFFICES ASSUME NEW s \in FirstPerMap(S), NEW t \in FirstPerMap(S), MapOf[s] = MapOf[t]
               PROVE  s = t
    BY DEF OncePerMap
  <2>1. s \in Nat /\ t \in Nat /\ s <= t /\ t <= s
    BY <1>1, PortfolioAssumption
  <2> QED
    BY <2>1
<1> QED
  BY <1>1, <1>2

(* The forecasts of the events are those of the benchmark across them, since  *)
(* the decisions on a map belong to one event.                                *)
LEMMA ForecastsAgree ==
    ASSUME ReportsInv PROVE UNION {QualityForecasts(e) : e \in Experiments} = BenchmarkForecasts
<1> DEFINE Good(s) == Gradable(MapOf[s]) /\ Has(s, "brier")
           Of(e) == {s \in Rows(e) : Good(s)}
           all == {s \in AllRows : Good(s)}
<1>1. Decided \subseteq Snapshots
  BY TablesTyped
<1>2. \A s : s \in all <=> s \in Decided /\ answer[s].ok /\ Good(s)
  BY <1>1, ReportsAssumption DEF AllRows, Rows
<1>3. \A e, s : s \in Of(e) <=> s \in all /\ AccountOf[s] = e
  BY <1>2 DEF Rows
<1>4. BenchmarkForecasts = FirstPerMap(all) /\ \A e : QualityForecasts(e) = FirstPerMap(Of(e))
  <2>1. {s \in AllRows : Has(s, "brier") /\ Gradable(MapOf[s])} = all
    OBVIOUS
  <2> QED
    BY <2>1 DEF BenchmarkForecasts, QualityForecasts
<1> HIDE DEF Of, all, Good
<1>5. all \subseteq Snapshots /\ \A e : Of(e) \subseteq Snapshots
  BY <1>1, <1>2, <1>3
<1>6. ASSUME NEW s, NEW e PROVE s \in FirstPerMap(Of(e)) <=> s \in FirstPerMap(all) /\ AccountOf[s] = e
  <2>1. s \in FirstPerMap(Of(e)) <=> s \in Of(e) /\ \A t \in Of(e) : MapOf[t] = MapOf[s] => s <= t
    BY <1>5, FirstOfMap
  <2>2. s \in FirstPerMap(all) <=> s \in all /\ \A t \in all : MapOf[t] = MapOf[s] => s <= t
    BY <1>5, FirstOfMap
  <2>3. s \in all /\ AccountOf[s] = e =>
            \A t \in all : MapOf[t] = MapOf[s] => t \in Of(e)
    BY <1>3, <1>5, ReportsAssumption
  <2> QED
    BY <1>3, <2>1, <2>2, <2>3
<1>7. \A s \in FirstPerMap(all) : AccountOf[s] \in Experiments
  <2>1. FirstPerMap(all) \subseteq all
    BY <1>5, FirstOfMap
  <2> QED
    BY <1>5, <2>1, ReportsAssumption
<1>8. UNION {FirstPerMap(Of(e)) : e \in Experiments} = FirstPerMap(all)
  BY <1>6, <1>7
<1> QED
  BY <1>4, <1>8

(* A stored evaluation of a clean map has the numbers of the backtest.        *)
LEMMA StoredIsGraded ==
    ASSUME ReportsInv, NEW s \in Snapshots, evaluation[s] # {}
    PROVE  /\ s \in Decided /\ answer[s].ok /\ winner[MapOf[s]] # {}
           /\ Clean(MapOf[s]) =>
                  \E line \in SUBSET ClosingLine(s, answer[s]) :
                      evaluation[s] = {GradeOf(s, OutcomeOf(MapOf[s]), line)}
           /\ ~Clean(MapOf[s]) => Cardinality(winner[MapOf[s]]) > 1
           /\ \E side \in winner[MapOf[s]], line \in SUBSET ClosingLine(s, answer[s]) :
                  evaluation[s] = {GradeOf(s, side, line)}
<1> DEFINE m == MapOf[s]
<1>1. m \in Maps /\ winner[m] \subseteq Sides
  BY TablesTyped, PortfolioAssumption
<1>2. PICK side \in winner[m], line \in SUBSET ClosingLine(s, answer[s]) :
          evaluation[s] = {GradeOf(s, side, line)}
  BY DEF ReportsInv, GradesStand
<1>3. s \in Decided /\ answer[s].ok
  BY DEF ReportsInv, GradesStand
<1>4. Clean(m) => winner[m] = {OutcomeOf(m)}
  BY <1>1, OutcomeOfMap
<1>5. Clean(m) => side = OutcomeOf(m)
  BY <1>4
<1>6. ~Clean(m) => Cardinality(winner[m]) > 1
  <2>1. IsFiniteSet(winner[m]) /\ winner[m] # {}
    BY <1>1, OutcomeOfMap
  <2>2. Cardinality(winner[m]) \in Nat /\ Cardinality(winner[m]) # 0
    BY <2>1, FS_CardinalityType, FS_EmptySet
  <2> QED
    BY <2>2 DEF Clean
<1> QED
  BY <1>2, <1>3, <1>5, <1>6

LEMMA SamplesMatch == ReportsInv => SamplesAgree
<1> SUFFICES ASSUME ReportsInv PROVE SamplesAgree
  OBVIOUS
<1>1. Decided \subseteq Snapshots /\ AllRows \subseteq Decided
  BY TablesTyped DEF AllRows, Rows
<1>2. ASSUME NEW s \in BacktestRows, evaluation[s] # {}
      PROVE  /\ \A field \in {"correct", "brier", "unit"} : ValueOf(s, field) = BacktestRow(s)[field]
             /\ ValueOf(s, "clv") \subseteq BacktestRow(s).clv
  <2>1. s \in Snapshots /\ Clean(MapOf[s])
    BY <1>1 DEF BacktestRows, Gradable
  <2>2. PICK line \in SUBSET ClosingLine(s, answer[s]) :
            evaluation[s] = {GradeOf(s, OutcomeOf(MapOf[s]), line)}
    BY <1>2, <2>1, StoredIsGraded
  <2>3. PICK side : side = OutcomeOf(MapOf[s])
    OBVIOUS
  <2>4. PICK grade : grade = GradeOf(s, side, line)
    OBVIOUS
  <2>5. \A field : ValueOf(s, field) = grade[field]
    BY <2>2, <2>3, <2>4 DEF ValueOf
  <2>6. /\ grade.correct = Correct(answer[s], side) /\ grade.brier = Brier(answer[s].fair, side)
        /\ grade.unit = Unit(s, answer[s], side) /\ grade.clv = line
    BY <2>4 DEF GradeOf
  <2>7. PICK graded : graded = BacktestRow(s)
    OBVIOUS
  <2>8. /\ graded.correct = Correct(answer[s], side) /\ graded.brier = Brier(answer[s].fair, side)
        /\ graded.unit = Unit(s, answer[s], side) /\ graded.clv = ClosingLine(s, answer[s])
    BY <2>3, <2>7 DEF BacktestRow
  <2> QED
    BY <2>5, <2>6, <2>7, <2>8
<1>3. ASSUME NEW s \in AllRows, evaluation[s] # {}, BacktestRow(s).correct # {}
      PROVE  IF s \in BacktestRows THEN s \in SettledBuys /\ (s \in UnitBets <=> Priced(s))
                                   ELSE Cardinality(winner[MapOf[s]]) > 1
  <2>1. s \in Snapshots
    BY <1>1
  <2>2. s \in BacktestRows <=> Clean(MapOf[s])
    BY <1>3 DEF BacktestRows, Gradable
  <2>3. answer[s].action \in Buys
    BY <1>3 DEF BacktestRow, Correct
  <2>4. PICK side \in winner[MapOf[s]], line \in SUBSET ClosingLine(s, answer[s]) :
            evaluation[s] = {GradeOf(s, side, line)}
    BY <1>3, <2>1, StoredIsGraded
  <2>5. /\ Has(s, "correct") <=> Correct(answer[s], side) # {}
        /\ Has(s, "unit") <=> Unit(s, answer[s], side) # {}
    BY <2>4 DEF Has, GradeOf
  <2>6. Correct(answer[s], side) # {} /\ (Unit(s, answer[s], side) # {} <=> Priced(s))
    BY <2>3 DEF Correct, Unit
  <2>7. s \in SettledBuys /\ (s \in UnitBets <=> Priced(s))
    BY <1>3, <2>5, <2>6 DEF SettledBuys, UnitBets
  <2>8. ~Clean(MapOf[s]) => Cardinality(winner[MapOf[s]]) > 1
    BY <1>3, <2>1, StoredIsGraded
  <2> QED
    BY <2>2, <2>7, <2>8
<1>4. ASSUME NEW s \in Decided, IsSettled(s), evaluation[s] # {}
      PROVE  ValueOf(s, "correct") = {PositionOf(s).status = "WON"}
  <2>1. s \in Snapshots /\ AccountOf[s] \in Experiments
    BY <1>1, ReportsAssumption
  <2> QED
    BY <1>4, <2>1 DEF ReportsInv, BetsGraded, IsSettled, PositionOf, DecisionOf
<1> QED
  BY <1>2, <1>3, <1>4, ForecastsAgree DEF SamplesAgree

(* The settled bets of an account, the first of each map, in the order they   *)
(* were opened in.                                                            *)
LEMMA FirstBetsOfMaps ==
    ASSUME ReportsInv, NEW e \in Experiments
    PROVE  OncePerMap(FirstSettled(e)) /\ FirstSettled(e) \subseteq SettledBets(e)
<1>1. FirstSettled(e) \subseteq SettledBets(e)
  BY DEF FirstSettled
<1>2. ASSUME NEW s \in Decided PROVE Opened(s) \in Nat /\ answered[Opened(s)] = s
  <2>1. \E i \in DOMAIN answered : answered[i] = s
    BY DEF Decided
  <2>2. Opened(s) \in DOMAIN answered /\ answered[Opened(s)] = s
    BY <2>1 DEF Opened
  <2>3. DOMAIN answered = 1..Len(answered) /\ Len(answered) \in Nat
    BY TablesTyped
  <2> QED
    BY <2>2, <2>3
<1>3. OncePerMap(FirstSettled(e))
  <2> SUFFICES ASSUME NEW s \in FirstSettled(e), NEW t \in FirstSettled(e), MapOf[s] = MapOf[t]
               PROVE  s = t
    BY DEF OncePerMap
  <2>1. s \in Decided /\ t \in Decided
    BY DEF FirstSettled, SettledBets
  <2>2. Opened(s) <= Opened(t) /\ Opened(t) <= Opened(s)
    BY DEF FirstSettled
  <2>3. Opened(s) = Opened(t)
    BY <1>2, <2>1, <2>2
  <2> QED
    BY <1>2, <2>1, <2>3
<1> QED
  BY <1>1, <1>3

(* An account with settled bets none of which was won has made a loss.        *)
LEMMA LosersLose ==
    ASSUME ReportsInv, NEW e \in Experiments, NEW s \in SettledBets(e),
           \A r \in Bets("WON") : AccountOf[r] # e
    PROVE  account[e].pnl < 0
<1> DEFINE net == Net(position, e)
<1>1. /\ TablesOK(account, position) /\ MoneyBooked(account, position, ledger) /\ Owned(position)
      /\ Decided \subseteq Snapshots
  BY TablesTyped
<1>2. s \in Snapshots /\ AccountOf[s] = e /\ position[<<s, e>>].status \in {"WON", "LOST"}
  BY <1>1 DEF SettledBets, IsSettled, PositionOf, DecisionOf
<1>3. ASSUME NEW r \in Snapshots PROVE position[<<r, e>>].status # "WON"
  <2> SUFFICES ASSUME position[<<r, e>>].status = "WON" PROVE FALSE
    OBVIOUS
  <2>1. e = AccountOf[r] /\ r \in Decided
    BY <1>1 DEF Owned
  <2>2. r \in Bets("WON")
    BY <2>1 DEF Bets, PositionOf, DecisionOf
  <2> QED
    BY <2>1, <2>2
<1>4. ASSUME NEW r \in Snapshots
      PROVE  /\ net[r] \in Int /\ net[r] <= 0
             /\ position[<<r, e>>].status = "LOST" => net[r] = -Stake
  <2>1. net[r] \in Int
    BY <1>1, NetIsWhole
  <2>2. position[<<r, e>>].status # "ABSENT" => position[<<r, e>>].stake = Stake
    BY <1>1 DEF Owned
  <2>3. Stake \in Nat
    BY ReportsAssumption
  <2>4. CASE position[<<r, e>>].status = "LOST"
    <3>1. net[r] = -Stake
      BY <2>2, <2>4 DEF Net
    <3> QED
      BY <2>1, <2>3, <3>1
  <2>5. CASE position[<<r, e>>].status # "LOST"
    <3>1. net[r] = 0
      BY <1>3, <2>5 DEF Net
    <3> QED
      BY <2>5, <3>1
  <2> QED
    BY <2>4, <2>5
<1> HIDE DEF net
<1>5. SumOver(net, Snapshots) = net[s] + SumOver(net, Snapshots \ {s})
  BY <1>2, <1>4, PortfolioAssumption, SumWithout
<1>6. SumOver(net, Snapshots \ {s}) \in Int /\ SumOver(net, Snapshots \ {s}) <= 0
  <2>1. IsFiniteSet(Snapshots \ {s}) /\ \A r \in Snapshots \ {s} : net[r] \in Int /\ net[r] <= 0
    BY <1>4, PortfolioAssumption, FS_Subset
  <2> QED
    BY <2>1, SumOfLosses, SumIsWhole
<1>7. net[s] = -Stake /\ Stake \in Nat \ {0}
  BY <1>2, <1>3, <1>4, ReportsAssumption
<1>8. account[e].pnl = SumOver(net, Snapshots)
  BY <1>1 DEF MoneyBooked, net
<1> QED
  BY <1>5, <1>6, <1>7, <1>8

LEMMA GateHolds == ReportsInv => GateIsEarned
<1> SUFFICES ASSUME ReportsInv PROVE GateIsEarned
  OBVIOUS
<1>1. Decided \subseteq Snapshots /\ AllRows \subseteq Decided /\ \A e : Rows(e) \subseteq Decided
  BY TablesTyped DEF AllRows, Rows
<1>2. OncePerMap(BenchmarkForecasts) /\ OncePerMap(BenchmarkClvs)
  <2>1. {s \in AllRows : Has(s, "brier") /\ Gradable(MapOf[s])} \subseteq Snapshots
    BY <1>1
  <2>2. {s \in AllRows : Has(s, "clv")} \subseteq Snapshots
    BY <1>1
  <2> QED
    BY <2>1, <2>2, FirstOfMap DEF BenchmarkForecasts, BenchmarkClvs
<1>3. ASSUME NEW e \in Experiments
      PROVE  /\ OncePerMap(QualityClvs(e)) /\ OncePerMap(HorizonEvidence(e))
             /\ {MapOf[s] : s \in QualityForecasts(e) \cup QualityClvs(e)} \subseteq SettledMaps(e)
             /\ Gate(e) = "PASS" => \E s \in Bets("WON") : AccountOf[s] = e
             /\ Gate(e) = "PASS" => account[e].cash + account[e].locked >= InitialBankroll
  <2>1. QualityClvs(e) \subseteq FirstSettled(e) /\ HorizonEvidence(e) \subseteq FirstSettled(e)
    BY DEF QualityClvs, HorizonEvidence
  <2>2. OncePerMap(FirstSettled(e)) /\ FirstSettled(e) \subseteq SettledBets(e)
    BY FirstBetsOfMaps
  <2>3. OncePerMap(QualityClvs(e)) /\ OncePerMap(HorizonEvidence(e))
    BY <2>1, <2>2 DEF OncePerMap
  <2>4. {MapOf[s] : s \in QualityForecasts(e) \cup QualityClvs(e)} \subseteq SettledMaps(e)
    <3>1. ASSUME NEW s \in QualityForecasts(e) \cup QualityClvs(e)
          PROVE  s \in Rows(e) /\ Gradable(MapOf[s])
      <4>1. QualityForecasts(e) \subseteq {t \in Rows(e) : Gradable(MapOf[t]) /\ Has(t, "brier")}
        <5> DEFINE S == {t \in Rows(e) : Gradable(MapOf[t]) /\ Has(t, "brier")}
        <5>1. S \subseteq Snapshots
          BY <1>1
        <5>2. QualityForecasts(e) = FirstPerMap(S)
          BY DEF QualityForecasts
        <5> HIDE DEF S
        <5>3. FirstPerMap(S) \subseteq S
          BY <5>1, FirstOfMap
        <5> QED
          BY <5>2, <5>3 DEF S
      <4>2. CASE s \in QualityForecasts(e)
        BY <4>1, <4>2
      <4>3. CASE s \in QualityClvs(e)
        BY <4>3 DEF QualityClvs
      <4> QED
        BY <4>2, <4>3
    <3> QED
      BY <3>1 DEF SettledMaps
  <2>5. ASSUME Gate(e) = "PASS"
        PROVE  /\ \E s \in Bets("WON") : AccountOf[s] = e
               /\ account[e].cash + account[e].locked >= InitialBankroll
    <3>1. ~Failures(e)
      BY <2>5 DEF Gate
    <3>2. ~(account[e].pnl < 0) /\ QualityClvs(e) # {}
      BY <3>1 DEF Failures
    <3>3. PICK s : s \in SettledBets(e)
      BY <2>1, <2>2, <3>2
    <3>4. \E r \in Bets("WON") : AccountOf[r] = e
      BY <3>2, <3>3, LosersLose
    <3>5. account[e].status # "ABSENT"
      <4>1. s \in Decided /\ AccountOf[s] = e
        BY <3>3 DEF SettledBets
      <4> QED
        BY <4>1, TablesTyped DEF DecisionsFunded
    <3>6. account[e].cash + account[e].locked = InitialBankroll + account[e].pnl
      BY <3>5, TablesTyped DEF BooksBalance
    <3>7. account[e].pnl \in Int /\ InitialBankroll \in Nat
      BY TablesTyped, PortfolioAssumption DEF TablesOK, Account
    <3>8. account[e].pnl >= 0
      BY <3>2, <3>7
    <3> QED
      BY <3>4, <3>6, <3>7, <3>8
  <2> QED
    BY <2>3, <2>4, <2>5
<1> QED
  BY <1>2, <1>3 DEF GateIsEarned

(* A finite set of times has a latest.                                        *)
LEMMA LatestExists ==
    ASSUME NEW S, IsFiniteSet(S), S \subseteq Nat, S # {}
    PROVE  Max(S) \in S /\ \A x \in S : x <= Max(S)
<1> DEFINE Good == {T \in SUBSET S : T # {} => \E x \in T : \A y \in T : x >= y}
<1>1. {} \in Good
  OBVIOUS
<1>2. ASSUME NEW T \in SUBSET S, T # {}, \A x \in T : T \ {x} \in Good PROVE T \in Good
  <2>1. PICK x \in T : TRUE
    BY <1>2
  <2>2. CASE T \ {x} = {}
    <3>1. \A y \in T : x >= y
      BY <2>1, <2>2
    <3> QED
      BY <2>1, <3>1
  <2>3. CASE T \ {x} # {}
    <3>1. PICK z \in T \ {x} : \A y \in T \ {x} : z >= y
      BY <1>2, <2>1, <2>3
    <3>2. x \in Nat /\ z \in Nat /\ T \subseteq Nat
      BY <2>1, <3>1
    <3>3. CASE z >= x
      <4>1. \A y \in T : z >= y
        BY <3>1, <3>3
      <4> QED
        BY <3>1, <4>1
    <3>4. CASE ~(z >= x)
      <4>1. \A y \in T : x >= y
        BY <3>1, <3>2, <3>4
      <4> QED
        BY <2>1, <4>1
    <3> QED
      BY <3>3, <3>4
  <2> QED
    BY <2>2, <2>3
<1>3. S \in Good
  <2> HIDE DEF Good
  <2> QED
    BY <1>1, <1>2, SubsetsInduct
<1>4. \E x \in S : \A y \in S : x >= y
  BY <1>3
<1>5. Max(S) \in S /\ \A y \in S : Max(S) >= y
  BY <1>4 DEF Max
<1> QED
  BY <1>5

(* The curve of an account ends at its equity: what is booked after its last  *)
(* point are bets placed, which move nothing.                                 *)
LEMMA CurveEndsAtEquity ==
    ASSUME ReportsInv, NEW e \in Accounts
    PROVE  EquityCurve(e)[Max(Instants(e))] = account[e].cash + account[e].locked
<1>1. e \in Experiments /\ account[e].status # "ABSENT"
  BY DEF Accounts
<1>2. MoneyBooked(account, position, ledger)
  BY TablesTyped
<1>3. /\ ledger \subseteq Entries /\ IsFiniteSet(ledger) /\ Funding(e) \in ledger
      /\ SumOver(Moved, EntriesOf(ledger, e)) = account[e].cash + account[e].locked
      /\ \A x \in ledger : x.type = "BET_PLACED" => x.cash + x.locked = 0
  BY <1>1, <1>2 DEF MoneyBooked
<1> DEFINE drawn == {y \in ledger : y.account = e /\ y.type # "BET_PLACED"}
           at == [x \in Entries |-> x.at]
           last == Max(Instants(e))
           all == EntriesOf(ledger, e)
           booked == {x \in ledger : x.account = e /\ x.at <= last}
<1>4. Funding(e) \in drawn
  BY <1>3 DEF Funding, Entry
<1>5. Instants(e) # {} /\ IsFiniteSet(Instants(e)) /\ Instants(e) \subseteq Nat
  <2>1. drawn \subseteq Entries /\ IsFiniteSet(drawn)
    BY <1>3, FS_Subset
  <2>2. Instants(e) = {at[x] : x \in drawn}
    BY <2>1 DEF Instants
  <2>3. \A x \in drawn : at[x] \in Nat
    BY <2>1 DEF Entries
  <2> HIDE DEF drawn, at
  <2>4. IsFiniteSet({at[x] : x \in drawn})
    BY <2>1, ImageIsFinite
  <2> QED
    BY <1>4, <2>2, <2>3, <2>4
<1>6. last \in Instants(e) /\ last \in Nat /\ \A t \in Instants(e) : t <= last
  BY <1>5, LatestExists
<1> HIDE DEF last
<1>7. EquityCurve(e)[last] = SumOver(Moved, booked)
  BY <1>6 DEF EquityCurve, EquityAt
<1>8. /\ all \subseteq Entries /\ IsFiniteSet(all)
      /\ \A x \in Entries : Moved[x] = x.cash + x.locked /\ Moved[x] \in Int
  BY <1>3, EntryMoves
<1>9. booked \subseteq all
  BY DEF EntriesOf
<1>10. ASSUME NEW x \in all \ booked PROVE Moved[x] = 0
  <2>1. x \in ledger /\ x.account = e /\ ~(x.at <= last)
    BY DEF EntriesOf
  <2>2. x.type = "BET_PLACED"
    <3> SUFFICES ASSUME x.type # "BET_PLACED" PROVE FALSE
      OBVIOUS
    <3>1. x.at \in Instants(e)
      BY <2>1 DEF Instants
    <3> QED
      BY <1>6, <2>1, <3>1
  <2> QED
    BY <1>3, <1>8, <2>1, <2>2
<1> HIDE DEF all, booked
<1>11. SumOver(Moved, all) = SumOver(Moved, booked)
  BY <1>8, <1>9, <1>10, SumLeavesOut
<1> QED
  BY <1>3, <1>7, <1>11 DEF all, last

(* There are as many accounts as events that something was decided on.        *)
LEMMA AccountsAreFinite ==
    ASSUME ReportsInv
    PROVE  IsFiniteSet(Accounts) /\ \A s \in Decided : AccountOf[s] \in Accounts
<1>1. Decided \subseteq Snapshots /\ IsFiniteSet(Decided) /\ DecisionsFunded
  BY TablesTyped
<1>2. \A s \in Decided : AccountOf[s] \in Accounts
  BY <1>1, ReportsAssumption DEF DecisionsFunded, Accounts
<1>3. Accounts \subseteq {AccountOf[s] : s \in Decided}
  BY <1>1 DEF DecisionsFunded, Accounts
<1>4. IsFiniteSet({AccountOf[s] : s \in Decided})
  BY <1>1, ImageIsFinite
<1> QED
  BY <1>2, <1>3, <1>4, FS_Subset

(* What the accounts hold is what they were given and have made.              *)
LEMMA TotalsBalance ==
    ASSUME ReportsInv
    PROVE  Total("cash") + Total("locked") = Cardinality(Accounts) * InitialBankroll + Total("pnl")
<1> DEFINE cash == [e \in Experiments |-> account[e]["cash"]]
           locked == [e \in Experiments |-> account[e]["locked"]]
           pnl == [e \in Experiments |-> account[e]["pnl"]]
           given == [e \in Experiments |-> InitialBankroll]
           equity == [e \in Experiments |-> account[e].cash + account[e].locked]
           A == Accounts
<1>1. IsFiniteSet(A) /\ A \subseteq Experiments
  BY AccountsAreFinite DEF Accounts
<1>2. ASSUME NEW e \in A
      PROVE  /\ cash[e] \in Int /\ locked[e] \in Int /\ pnl[e] \in Int /\ given[e] \in Int
             /\ given[e] = InitialBankroll
             /\ equity[e] = cash[e] + locked[e] /\ equity[e] = given[e] + pnl[e]
  <2>1. e \in Experiments /\ account[e].status # "ABSENT"
    BY DEF Accounts
  <2>2. account[e] \in Account
    BY <2>1, TablesTyped DEF TablesOK
  <2>3. account[e].cash + account[e].locked = InitialBankroll + account[e].pnl
    BY <2>1, TablesTyped DEF BooksBalance
  <2>4. account[e].cash \in Nat /\ account[e].locked \in Nat /\ account[e].pnl \in Int
    BY <2>2 DEF Account
  <2> QED
    BY <2>1, <2>3, <2>4, PortfolioAssumption
<1>3. /\ Total("cash") = SumOver(cash, A) /\ Total("locked") = SumOver(locked, A)
      /\ Total("pnl") = SumOver(pnl, A)
  BY DEF Total
<1> HIDE DEF cash, locked, pnl, given, equity, A
<1>4. SumOver(equity, A) = SumOver(cash, A) + SumOver(locked, A)
  BY <1>1, <1>2, SumAdds
<1>5. SumOver(equity, A) = SumOver(given, A) + SumOver(pnl, A)
  BY <1>1, <1>2, SumAdds
<1>6. SumOver(given, A) = Cardinality(A) * InitialBankroll
  BY <1>1, <1>2, SumOfEquals, PortfolioAssumption
<1> QED
  BY <1>3, <1>4, <1>5, <1>6 DEF A

(* What the accounts have made is what their bets have.                       *)
LEMMA ProfitsAgree ==
    ASSUME ReportsInv PROVE Total("pnl") = GrossProfit - StakedOn(Bets("LOST"))
<1> DEFINE pnl == [e \in Experiments |-> account[e]["pnl"]]
           made == [s \in Snapshots |-> Net(position, AccountOf[s])[s]]
           stake == [s \in Snapshots |-> PositionOf(s).stake]
           zero == [s \in Snapshots |-> 0]
           won == Bets("WON")
           lost == Bets("LOST")
           D == Decided
           A == Accounts
<1>1. /\ TablesOK(account, position) /\ MoneyBooked(account, position, ledger) /\ Owned(position)
      /\ D \subseteq Snapshots /\ IsFiniteSet(D)
  BY TablesTyped
<1>2. IsFiniteSet(A) /\ \A s \in D : AccountOf[s] \in A
  BY AccountsAreFinite
<1>3. ASSUME NEW s \in Snapshots
      PROVE  /\ made[s] \in Int /\ stake[s] \in Nat
             /\ s \in won => made[s] = Profits[s]
             /\ s \in lost => made[s] + stake[s] = 0
             /\ s \in D /\ s \notin won /\ s \notin lost => made[s] = 0
  <2> DEFINE p == PositionOf(s)
  <2>1. AccountOf[s] \in Experiments /\ p = position[<<s, AccountOf[s]>>]
    BY ReportsAssumption DEF PositionOf, DecisionOf
  <2>2. p \in Position
    BY <1>1, <2>1, DecisionIsPair DEF TablesOK
  <2>3. made[s] \in Int
    BY <1>1, <2>1, NetIsWhole
  <2>4. made[s] = CASE p.status = "WON" -> Rounded(p.stake * Odds[s]) - p.stake
                    [] p.status = "LOST" -> -p.stake
                    [] OTHER -> 0
    BY <2>1 DEF Net
  <2>5. s \in won => p.status = "WON"
    BY DEF Bets
  <2>6. s \in lost => p.status = "LOST"
    BY DEF Bets
  <2>7. s \in D /\ s \notin won /\ s \notin lost => p.status # "WON" /\ p.status # "LOST"
    BY DEF Bets
  <2>8. stake[s] = p.stake /\ stake[s] \in Nat /\ Profits[s] = Rounded(p.stake * Odds[s]) - p.stake
    BY <2>2 DEF Position, Profits
  <2> HIDE DEF made, stake, won, lost, p, D
  <2>9. s \in won => made[s] = Profits[s]
    BY <2>4, <2>5, <2>8
  <2>10. s \in lost => made[s] = -stake[s]
    BY <2>4, <2>6, <2>8
  <2>11. s \in D /\ s \notin won /\ s \notin lost => made[s] = 0
    BY <2>4, <2>7
  <2> QED
    BY <2>3, <2>8, <2>9, <2>10, <2>11
<1>4. won \subseteq D /\ lost \subseteq D \ won
  BY DEF Bets
<1>5. Total("pnl") = SumOver(pnl, A) /\ GrossProfit = SumOver(Profits, won)
      /\ StakedOn(lost) = SumOver(stake, lost)
  BY DEF Total, GrossProfit, StakedOn
<1>6. ASSUME NEW e \in A
      PROVE  pnl[e] = SumOver(made, OwnedBy(D, AccountOf, e))
  <2> DEFINE mine == OwnedBy(D, AccountOf, e)
             net == Net(position, e)
  <2>1. e \in Experiments
    BY DEF Accounts
  <2>2. pnl[e] = SumOver(net, Snapshots)
    BY <1>1, <2>1 DEF MoneyBooked
  <2>3. \A s \in Snapshots : net[s] \in Int
    BY <1>1, <2>1, NetIsWhole
  <2>4. \A s \in Snapshots \ mine : net[s] = 0
    <3> SUFFICES ASSUME NEW s \in Snapshots \ mine PROVE net[s] = 0
      OBVIOUS
    <3>1. position[<<s, e>>].status = "ABSENT"
      BY <1>1, <2>1 DEF Owned, OwnedBy
    <3> QED
      BY <3>1 DEF Net
  <2>5. \A s \in mine : net[s] \in Int /\ net[s] = made[s]
    BY <1>1, <2>3 DEF OwnedBy
  <2>6. mine \subseteq Snapshots /\ IsFiniteSet(mine)
    BY <1>1, FS_Subset DEF OwnedBy
  <2> HIDE DEF mine, net, made, pnl
  <2>7. SumOver(net, Snapshots) = SumOver(net, mine)
    <3>1. IsFiniteSet(Snapshots) /\ \A s \in mine : net[s] \in Int
      BY <2>5, PortfolioAssumption
    <3> QED
      BY <2>4, <2>6, <3>1, SumLeavesOut
  <2>8. SumOver(net, mine) = SumOver(made, mine)
    BY <2>5, <2>6, SumsAlike
  <2> QED
    BY <2>2, <2>7, <2>8 DEF mine
<1> HIDE DEF pnl, made, stake, zero, won, lost, D, A
<1>7. SumOver(pnl, A) = SumOver(made, D)
  <2>1. \A s \in D : made[s] \in Int
    BY <1>1, <1>3
  <2> QED
    BY <1>1, <1>2, <1>6, <2>1, SumOfSums
<1>8. SumOver(made, D) = SumOver(made, won) + SumOver(made, D \ won)
  BY <1>1, <1>3, <1>4, SumSplits
<1>9. IsFiniteSet(won) /\ IsFiniteSet(D \ won) /\ IsFiniteSet(lost)
  BY <1>1, <1>4, FS_Subset
<1>10. SumOver(made, won) = SumOver(Profits, won)
  <2>1. \A s \in won : made[s] \in Int /\ made[s] = Profits[s]
    BY <1>1, <1>3, <1>4
  <2> QED
    BY <1>9, <2>1, SumsAlike
<1>11. SumOver(made, D \ won) = SumOver(made, lost)
  <2>1. (\A s \in (D \ won) \ lost : made[s] = 0) /\ \A s \in lost : made[s] \in Int
    BY <1>1, <1>3, <1>4
  <2> QED
    BY <1>4, <1>9, <2>1, SumLeavesOut
<1>12. SumOver(zero, lost) = SumOver(made, lost) + SumOver(stake, lost)
  <2>1. \A s \in lost : made[s] \in Int /\ stake[s] \in Int /\ zero[s] = made[s] + stake[s]
    BY <1>1, <1>3, <1>4 DEF zero
  <2> QED
    BY <1>9, <2>1, SumAdds
<1>13. SumOver(zero, lost) = 0
  <2>1. PICK n \in Int : n = 0
    OBVIOUS
  <2>2. \A s \in lost : zero[s] = n
    BY <1>1, <1>4, <2>1 DEF zero
  <2>3. SumOver(zero, lost) = Cardinality(lost) * n
    BY <1>9, <2>2, SumOfEquals
  <2>4. Cardinality(lost) \in Nat
    BY <1>9, FS_CardinalityType
  <2> QED
    BY <2>1, <2>3, <2>4
<1>14. SumOver(made, lost) \in Int /\ SumOver(stake, lost) \in Int /\ SumOver(made, won) \in Int
  <2>1. (\A s \in lost : made[s] \in Int /\ stake[s] \in Int) /\ \A s \in won : made[s] \in Int
    BY <1>1, <1>3, <1>4
  <2> QED
    BY <1>9, <2>1, SumIsWhole
<1>15. SumOver(made, lost) = -SumOver(stake, lost)
  BY <1>12, <1>13, <1>14
<1> QED
  BY <1>5, <1>7, <1>8, <1>10, <1>11, <1>14, <1>15 DEF lost

(* What the accounts have locked is what their open bets have staked.         *)
LEMMA LockedAgrees ==
    ASSUME ReportsInv PROVE Total("locked") = StakedOn(Bets("OPEN"))
<1> DEFINE locked == [e \in Experiments |-> account[e]["locked"]]
           stake == [s \in Snapshots |-> PositionOf(s).stake]
           open == Bets("OPEN")
           A == Accounts
<1>1. /\ TablesOK(account, position) /\ BooksBalance(account, position) /\ Owned(position)
      /\ Decided \subseteq Snapshots /\ IsFiniteSet(Decided)
  BY TablesTyped
<1>2. IsFiniteSet(A) /\ \A s \in open : AccountOf[s] \in A
  BY AccountsAreFinite DEF Bets
<1>3. open \subseteq Snapshots /\ IsFiniteSet(open)
  BY <1>1, FS_Subset DEF Bets
<1>4. \A s \in Snapshots : AccountOf[s] \in Experiments /\ stake[s] = position[<<s, AccountOf[s]>>].stake
                           /\ stake[s] \in Nat
  BY <1>1, ReportsAssumption, DecisionIsPair DEF TablesOK, Position, PositionOf, DecisionOf
<1>5. ASSUME NEW e \in A PROVE locked[e] = SumOver(stake, OwnedBy(open, AccountOf, e))
  <2> DEFINE mine == OwnedBy(open, AccountOf, e)
             stakes == Stakes(position, e)
  <2>1. e \in Experiments /\ account[e].status # "ABSENT"
    BY DEF Accounts
  <2>2. locked[e] = SumOver(stakes, OpenBets(position, e))
    BY <1>1, <2>1 DEF BooksBalance
  <2>3. OpenBets(position, e) = mine
    <3>1. ASSUME NEW s \in Snapshots
          PROVE  position[<<s, e>>].status = "OPEN" <=>
                     s \in Decided /\ AccountOf[s] = e /\ position[<<s, AccountOf[s]>>].status = "OPEN"
      BY <1>1, <2>1 DEF Owned
    <3> QED
      BY <1>1, <3>1 DEF OpenBets, Bets, PositionOf, DecisionOf, OwnedBy
  <2>4. \A s \in mine : stakes[s] \in Int /\ stakes[s] = stake[s]
    BY <1>3, <1>4 DEF Stakes, OwnedBy
  <2>5. IsFiniteSet(mine)
    BY <1>3, FS_Subset DEF OwnedBy
  <2> HIDE DEF mine, stakes, stake
  <2>6. SumOver(stakes, mine) = SumOver(stake, mine)
    BY <2>4, <2>5, SumsAlike
  <2> QED
    BY <2>2, <2>3, <2>6 DEF mine
<1>6. Total("locked") = SumOver(locked, A) /\ StakedOn(open) = SumOver(stake, open)
  BY DEF Total, StakedOn
<1> HIDE DEF locked, stake, open, A
<1>7. SumOver(locked, A) = SumOver(stake, open)
  <2>1. ASSUME NEW s \in open PROVE stake[s] \in Int
    <3>1. s \in Snapshots
      BY <1>3
    <3>2. stake[s] \in Nat
      BY <1>4, <3>1
    <3> QED
      BY <3>2
  <2> QED
    BY <1>2, <1>3, <1>5, <2>1, SumOfSums
<1> QED
  BY <1>6, <1>7 DEF open

(* The reports agree, whatever was answered, reported, settled, evaluated and *)
(* captured in whatever order (app/evaluation, app/web/performance.py).       *)
LEMMA InvReportsAgree == ReportsInv => ReportsAgree
<1> SUFFICES ASSUME ReportsInv PROVE ReportsAgree
  OBVIOUS
<1>1. ReportsTypeOK
  BY DEF ReportsInv
<1>2. MoneyAddsUp
  BY CurveEndsAtEquity, TotalsBalance, ProfitsAgree, LockedAgrees DEF MoneyAddsUp
<1>3. WalkMissesNothing
  BY DEF ReportsInv, WalkGoesOn, WalkMissesNothing
<1> QED
  BY <1>1, <1>2, <1>3, SamplesMatch, GateHolds DEF ReportsAgree

THEOREM ReportsAlwaysAgree == ReportsSpec => []ReportsAgree
<1>1. ReportsInit => ReportsInv
  BY ReportsBegin
<1>2. ReportsInv /\ [ReportsNext]_reportsVars => ReportsInv'
  BY ReportsInductive
<1>3. ReportsInv => ReportsAgree
  BY InvReportsAgree
<1> QED
  BY <1>1, <1>2, <1>3, PTL DEF ReportsSpec
=============================================================================
