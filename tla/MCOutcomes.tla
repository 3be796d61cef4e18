---------------------------- MODULE MCOutcomes ----------------------------
(* Outcomes, FutureOdds, Reports and Readiness in one run: a behaviour is   *)
(* one of the module that `part` names while the others stand still.        *)
EXTENDS Outcomes, FutureOdds, Readiness, Reports, TLC

CONSTANTS t1, t2, a, b, Event, Map1, Map2

VARIABLE part

MCLegs == {a, b}
MCMaps == {Map1, Map2}

(* One event: two snapshots of its first map, one of its second.            *)
Saying(action, fair) == [ok |-> TRUE, action |-> action, fair |-> fair]
BuyA == Saying("BUY_A", {70})
BuyB == Saying("BUY_B", {40})
Abstain == Saying("INSUFFICIENT_DATA", {})
Failed == [ok |-> FALSE, action |-> "INSUFFICIENT_DATA", fair |-> {}]

MCMapOf == <<Map1, Map1, Map2>>
MCAccountOf == <<Event, Event, Event>>
MCOdds == <<180, 210, 150>>
MCSays == <<{BuyA, Abstain}, {BuyB, Failed}, {BuyA}>>
MCReported == Map1 :> {"A", "B"} @@ Map2 :> {"A"}
MCClosingOdds == 1 :> 160

ASSUME CapturesAssumption == FutureOddsAssumption

SumInit == /\ part \in {"outcomes", "odds", "reports", "readiness"}
           /\ Init /\ OddsInit /\ ReportsInit /\ ReadinessInit
           /\ part \in {"outcomes", "odds"} \/ type = "horizon"
           /\ part = "outcomes" => type = "horizon"
           /\ part # "outcomes" => ~known /\ ~linked

OfOutcomes(A) == part = "outcomes" /\ A /\ UNCHANGED <<part, oddsVars, reportsVars, readinessVars>>

MCTeams == {t1, t2}

(* Bounds.  The winner that is published first is t1.  A frame that comes   *)
(* after the one that ended the map says nothing new.  Of a second decision, *)
(* a conflict of the providers and a fault, a map that is decided has one.   *)
FirstIsT1 == published' # {t2}
NothingNew == over /\ stored = "gone" => stored' = "gone"
OneComplication == Cardinality(published') + decided' + faults' =< 3

(* Of the captures: the leg that moves first is a, alone or not; a closing  *)
(* has two prices, where a horizon needs three.                             *)
FirstIsA == odds = {} /\ odds' # {} => a \in {p.leg : p \in odds'}
TwoForClosing == type = "closing" => Cardinality(odds') =< 2

(* Of the reports: maps are played one after the other, a horizon is        *)
(* captured before there is a result and a closing after it, neither goes   *)
(* with a bet on the second map, and a walk through the pages, one, has the *)
(* behaviour to itself.                                                     *)
InTurn == /\ results' # <<>> => results'[1] = Map1
          /\ results' = <<>> => answer[3]' = answer[3] /\ closing' = {}
          /\ results # <<>> => horizon' = horizon
OneCapture == Cardinality(closing') + (IF horizon'[1] = "none" THEN 0 ELSE 1)
                + (IF 3 \in {answered'[i] : i \in DOMAIN answered'} THEN 1 ELSE 0) =< 1
WalkAlone == walk' # NoWalk => results' = <<>> /\ horizon'[1] = "none"
OneWalk == walk.open \/ walk.offset = 0 \/ walk' = walk

(* Of the funnel: one map of the two gets as far as a snapshot.             *)
OneDecides == ~progress'[Map2].snapshot

SumNext == \/ OfOutcomes(Next /\ FirstIsT1 /\ NothingNew /\ OneComplication)
           \/ /\ part = "odds" /\ OddsNext /\ FirstIsA /\ TwoForClosing
              /\ UNCHANGED <<part, vars, reportsVars, readinessVars>>
           \/ /\ part = "reports" /\ ReportsNext /\ OneCapture /\ WalkAlone /\ OneWalk /\ InTurn
              /\ UNCHANGED <<part, vars, oddsVars, readinessVars>>
           \/ /\ part = "readiness" /\ ReadinessNext /\ OneDecides
              /\ UNCHANGED <<part, vars, oddsVars, reportsVars>>

sumVars == <<part, vars, oddsVars, reportsVars, readinessVars>>

(* The fairness of Outcomes; the captures keep time by Tick.              *)
SumFairness == /\ WF_sumVars(OfOutcomes(\E j \in Jobs : Handler(j)))
               /\ WF_sumVars(OfOutcomes(over /\ Reconcile(TRUE)))
               /\ WF_sumVars(OfOutcomes(NextQuarter))

SumSpec == SumInit /\ [][SumNext]_sumVars /\ SumFairness
=============================================================================
