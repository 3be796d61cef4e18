------------------------------- MODULE Reports -------------------------------
(***************************************************************************)
(* The reports on the experiments: tournament quality and its gate, the     *)
(* benchmark, the backtest, the leaderboard, the latency report and the     *)
(* performance pages (app/evaluation, app/web/performance.py).  They read   *)
(* the same tables by different queries while the jobs go on writing them.  *)
(*                                                                         *)
(* There is one experiment, with an account per event: `Experiments` of     *)
(* Portfolio are those accounts and AccountOf the event of a snapshot.  A   *)
(* nullable number is a set of at most one.  Probabilities are percentages, *)
(* returns hundredths of a unit, a Brier score 1/10000, and the closing     *)
(* line value is the difference of the two odds, whose sign it has.  The    *)
(* log loss is there whenever the Brier score is; averages are not formed   *)
(* where sums and counts say as much.                                       *)
(***************************************************************************)
EXTENDS Portfolio

CONSTANTS
    AccountOf,       \* the account of each snapshot's event
    Says,            \* what the model may answer to each snapshot
    Reported,        \* what the providers may report of each map
    ClosingOdds,     \* closing odds of each snapshot that may have them
    Late,            \* snapshots a time horizon may be captured for
    Stake,           \* of every BUY, in cents
    PageSize,        \* of the performance page
    MinSamples       \* every minimum of QualityGatePolicy

Buys == {"BUY_A", "BUY_B"}
Actions == Buys \cup {"INSUFFICIENT_DATA"}
Answer == [ok: BOOLEAN, action: Actions, fair: SUBSET (0..100)]

(* A map belongs to one event, its series' event_id being written once, and *)
(* no stake is zero (validate_ai_decision).                                 *)
ASSUME ReportsAssumption ==
    /\ AccountOf \in [Snapshots -> Experiments]
    /\ \A s, t \in Snapshots : MapOf[s] = MapOf[t] => AccountOf[s] = AccountOf[t]
    /\ \A s \in Snapshots : Says[s] \subseteq Answer
    /\ \A m \in Maps : Reported[m] \subseteq Sides
    /\ DOMAIN ClosingOdds \subseteq Snapshots /\ Late \subseteq Snapshots
    /\ \A s \in DOMAIN ClosingOdds : ClosingOdds[s] \in Nat
    /\ Stake \in Nat \ {0} /\ PageSize \in Nat \ {0} /\ MinSamples \in Nat

VARIABLES
    answered,        \* the decided snapshots, in the order of the answers
    answer,          \* ai_decisions, by snapshot
    winner,          \* map_results: the winners the evidence names
    results,         \* the maps that have a result, in the order of settled_at
    evaluation,      \* decision_evaluations, by snapshot
    closing,         \* snapshots with a captured closing
    horizon,         \* the captured time horizon of each snapshot
    ledger,          \* ai_tournament_ledger
    walk             \* a reader who turns the performance pages

reportsVars == <<account, position, answered, answer, winner, results, evaluation, closing, horizon,
                 ledger, walk>>

Entries == [account: Experiments, type: {"EVENT_FUNDED", "BET_PLACED", "WON", "LOST", "VOID"},
            of: Nat, at: Nat, cash: Int, locked: Int]
Grade == [correct: SUBSET BOOLEAN, brier: SUBSET Int, unit: SUBSET Int, clv: SUBSET Int]

ReportsTypeOK ==
    /\ PortfolioTypeOK
    /\ answered \in Seq(Snapshots) /\ answer \in [Snapshots -> Answer]
    /\ winner \in [Maps -> SUBSET Sides] /\ results \in Seq(Maps)
    /\ evaluation \in [Snapshots -> SUBSET Grade]
    /\ closing \subseteq DOMAIN ClosingOdds
    /\ horizon \in [Snapshots -> {"none", "no pair", "before", "after"}]
    /\ ledger \subseteq Entries
    /\ walk \in [open: BOOLEAN, offset: Nat, old: SUBSET Snapshots, seen: SUBSET Snapshots]

NoAnswer == [ok |-> FALSE, action |-> "INSUFFICIENT_DATA", fair |-> {}]
NoWalk == [open |-> FALSE, offset |-> 0, old |-> {}, seen |-> {}]

ReportsInit ==
    /\ PortfolioInit
    /\ answered = <<>> /\ answer = [s \in Snapshots |-> NoAnswer]
    /\ winner = [m \in Maps |-> {}] /\ results = <<>>
    /\ evaluation = [s \in Snapshots |-> {}]
    /\ closing = {} /\ horizon = [s \in Snapshots |-> "none"]
    /\ ledger = {} /\ walk = NoWalk

-----------------------------------------------------------------------------
(* The tables, as the jobs write them.                                      *)
Decided == {answered[i] : i \in DOMAIN answered}
Opened(s) == CHOOSE i \in DOMAIN answered : answered[i] = s
DecisionOf(s) == <<s, AccountOf[s]>>
PositionOf(s) == position[DecisionOf(s)]
HasWinner(m) == winner[m] # {}
Clean(m) == Cardinality(winner[m]) = 1
Won(m, side) == winner[m] = {side}
SideOf(action) == IF action = "BUY_A" THEN "A" ELSE "B"
OutcomeOf(m) == IF Clean(m) THEN CHOOSE side \in Sides : Won(m, side) ELSE "VOID"
SettledAt(m) == CHOOSE k \in DOMAIN results : results[k] = m

Entry(e, type, of, at, cash, locked) ==
    [account |-> e, type |-> type, of |-> of, at |-> at, cash |-> cash, locked |-> locked]

(* The entries settle_map writes for the positions it settles.              *)
Settlements(pos, m) ==
    {Entry(d[2], Verdict(pos[d], OutcomeOf(m)), d[1], SettledAt(m),
           Payout(d, pos[d], OutcomeOf(m)), -pos[d].stake) : d \in OpenOn(pos, m)}

SettledNow(acc, pos, led, m) ==
    /\ position' = SettledPositions(pos, m, OutcomeOf(m), OpenAccounts(pos, m))
    /\ account' = SettledAccounts(acc, pos, m, OutcomeOf(m), OpenAccounts(pos, m))
    /\ ledger' = led \cup Settlements(pos, m)

(* PREPARE has funded the account, so a failed decision has one too; a BUY  *)
(* takes a position, which is settled at once when there is a result.  The  *)
(* answer of a late decision came after the result was usable.              *)
Persist(s, a, late) ==
    LET e == AccountOf[s]  d == DecisionOf(s)  m == MapOf[s]
        open == Funded(account[e])
        funded == [account EXCEPT ![e] = open]
        funding == ledger \cup {Entry(e, "EVENT_FUNDED", 0, 0, InitialBankroll, 0)}
        p == NewPosition(s, SideOf(a.action), 2 * Stake, open.cash, OutcomeOf(m), late)
        placed == [position EXCEPT ![d] = p]
        reserved == [funded EXCEPT ![e] = Reserved(open, p)]
        bet == funding \cup {Entry(e, "BET_PLACED", s, Len(results), -p.stake, p.stake)}
    IN  /\ s \notin Decided /\ (late => HasWinner(m))
        /\ answered' = Append(answered, s) /\ answer' = [answer EXCEPT ![s] = a]
        /\ IF ~a.ok \/ a.action \notin Buys
           THEN account' = funded /\ ledger' = funding /\ UNCHANGED position
           ELSE IF p.status = "REJECTED"
           THEN account' = funded /\ ledger' = funding /\ position' = placed
           ELSE IF HasWinner(m)
           THEN SettledNow(reserved, placed, bet, m)
           ELSE account' = reserved /\ position' = placed /\ ledger' = bet
        /\ UNCHANGED <<winner, results, evaluation, closing, horizon, walk>>

(* A provider reports; a second winner is a conflict.                       *)
ReportWinner(m, side) ==
    /\ side \in Reported[m] \ winner[m]
    /\ winner' = [winner EXCEPT ![m] = @ \cup {side}]
    /\ results' = IF HasWinner(m) THEN results ELSE Append(results, m)
    /\ UNCHANGED <<account, position, answered, answer, evaluation, closing, horizon, ledger, walk>>

SettleMap(m) ==
    /\ HasWinner(m) /\ OpenOn(position, m) # {}
    /\ SettledNow(account, position, ledger, m)
    /\ UNCHANGED <<answered, answer, winner, results, evaluation, closing, horizon, walk>>

Close(s) ==
    /\ s \in DOMAIN ClosingOdds \ closing /\ closing' = closing \cup {s}
    /\ UNCHANGED <<account, position, answered, answer, winner, results, evaluation, horizon,
                   ledger, walk>>

(* A price is observed a horizon after the snapshot: it may be there before *)
(* the answer is, and may be no pair.                                       *)
CaptureHorizon(s, pair) ==
    /\ s \in Late /\ horizon[s] = "none"
    /\ horizon' = [horizon EXCEPT ![s] = IF ~pair THEN "no pair"
                                         ELSE IF s \in Decided THEN "after" ELSE "before"]
    /\ UNCHANGED <<account, position, answered, answer, winner, results, evaluation, closing,
                   ledger, walk>>

-----------------------------------------------------------------------------
(* The numbers of one decision, given the winner.                           *)
Brier(fair, side) == {(p - (IF side = "A" THEN 100 ELSE 0)) * (p - (IF side = "A" THEN 100 ELSE 0))
                      : p \in fair}
Correct(a, side) == IF a.action \in Buys THEN {SideOf(a.action) = side} ELSE {}
Priced(s) == s \in Executable
Unit(s, a, side) ==
    IF a.action \in Buys /\ Priced(s)
    THEN {IF SideOf(a.action) = side THEN Odds[s] - 100 ELSE -100} ELSE {}
ClosingLine(s, a) ==
    IF a.action \in Buys /\ Priced(s) /\ s \in closing THEN {Odds[s] - ClosingOdds[s]} ELSE {}

\* Slip: a conflicted map is graded by either winner.
SlipGradable(m) == HasWinner(m)

Gradable(m) == Clean(m)

(* evaluate_snapshot: once for every decision there is.                     *)
EvaluateSnapshot(s) ==
    /\ s \in Decided /\ answer[s].ok /\ Clean(MapOf[s]) /\ evaluation[s] = {}
    /\ LET side == OutcomeOf(MapOf[s]) IN
       evaluation' = [evaluation EXCEPT ![s] =
           {[correct |-> Correct(answer[s], side), brier |-> Brier(answer[s].fair, side),
             unit |-> Unit(s, answer[s], side), clv |-> ClosingLine(s, answer[s])]}]
    /\ UNCHANGED <<account, position, answered, answer, winner, results, closing, horizon,
                   ledger, walk>>

Has(s, field) == \E e \in evaluation[s] : e[field] # {}
ValueOf(s, field) == UNION {e[field] : e \in evaluation[s]}

-----------------------------------------------------------------------------
(* What the reports have in common: the successful decisions of an account, *)
(* in decision_at order, and the first of a map that will do.               *)
Rows(e) == {s \in Decided : AccountOf[s] = e /\ answer[s].ok}
FirstOf(S, m) == {s \in S : MapOf[s] = m /\ \A t \in S : MapOf[t] = m => s <= t}
FirstPerMap(S) == UNION {FirstOf(S, m) : m \in Maps}

(* The settled positions of an account in the order they were opened, and   *)
(* the first of each map.                                                   *)
IsSettled(s) == PositionOf(s).status \in {"WON", "LOST"}
SettledBets(e) == {s \in Decided : AccountOf[s] = e /\ IsSettled(s)}
FirstSettled(e) ==
    {s \in SettledBets(e) :
        \A t \in SettledBets(e) : MapOf[t] = MapOf[s] => Opened(s) <= Opened(t)}

-----------------------------------------------------------------------------
(* TournamentQualityService: one account.                                   *)
SettledMaps(e) == {MapOf[s] : s \in {r \in Rows(e) : Gradable(MapOf[r])}}
QualityForecasts(e) == FirstPerMap({s \in Rows(e) : Gradable(MapOf[s]) /\ Has(s, "brier")})
Comparable(S) == {s \in S : Priced(s)}
QualityClvs(e) == {s \in FirstSettled(e) : s \in Rows(e) /\ Gradable(MapOf[s]) /\ Has(s, "clv")}

SumOf(S, field) == MapThenSumSet(LAMBDA s : SumSet(ValueOf(s, field)), S)
MarketBrier(S) == MapThenSumSet(LAMBDA s : SumSet(Brier({50}, OutcomeOf(MapOf[s]))), S)

SampleFailures(e) ==
    {n \in {Cardinality(SettledMaps(e)), Cardinality(SettledBets(e)), Cardinality(QualityForecasts(e)),
            Cardinality(QualityClvs(e)), Cardinality(Comparable(QualityForecasts(e)))}
     : n < MinSamples}

Failures(e) ==
    LET compared == Comparable(QualityForecasts(e)) IN
    \/ account[e].pnl < 0
    \/ QualityClvs(e) = {} \/ SumOf(QualityClvs(e), "clv") < 0
    \/ compared = {} \/ MarketBrier(compared) < SumOf(compared, "brier")
    \/ account[e].status = "BANKRUPT"

Gate(e) == IF SampleFailures(e) # {} THEN "INSUFFICIENT_SAMPLE"
           ELSE IF Failures(e) THEN "FAIL" ELSE "PASS"

(* _equity_curve: a point for every instant of the ledger at which more     *)
(* happened than bets being placed.                                         *)
Instants(e) == {x.at : x \in {y \in ledger : y.account = e /\ y.type # "BET_PLACED"}}
Moved == [x \in Entries |-> x.cash + x.locked]
EquityAt(e, t) == SumOver(Moved, {x \in ledger : x.account = e /\ x.at <= t})
EquityCurve(e) == [t \in Instants(e) |-> EquityAt(e, t)]

-----------------------------------------------------------------------------
(* AiBaselineBenchmarkService and TournamentLeaderboardService: the         *)
(* experiment over all its accounts.                                        *)
AllRows == UNION {Rows(e) : e \in Experiments}
BenchmarkForecasts == FirstPerMap({s \in AllRows : Has(s, "brier") /\ Gradable(MapOf[s])})
BenchmarkClvs == FirstPerMap({s \in AllRows : Has(s, "clv")})

Accounts == {e \in Experiments : account[e].status # "ABSENT"}
Total(field) == SumOver([e \in Experiments |-> account[e][field]], Accounts)
Bets(status) == {s \in Decided : PositionOf(s).status = status}
StakedOn(S) == SumOver([s \in Snapshots |-> PositionOf(s).stake], S)
Profits == [s \in Snapshots |-> Rounded(PositionOf(s).stake * Odds[s]) - PositionOf(s).stake]
GrossProfit == SumOver(Profits, Bets("WON"))

-----------------------------------------------------------------------------
(* BacktestService: every decision of a map with a clean result, graded     *)
(* anew from the snapshot's prices and today's closing.                     *)
BacktestRows == {s \in AllRows : Gradable(MapOf[s])}
BacktestRow(s) ==
    LET side == OutcomeOf(MapOf[s]) IN
    [correct |-> Correct(answer[s], side), brier |-> Brier(answer[s].fair, side),
     unit |-> Unit(s, answer[s], side), clv |-> ClosingLine(s, answer[s])]

-----------------------------------------------------------------------------
(* LatencyExecutionService: the horizons of the first settled positions.    *)
HorizonEvidence(e) == {s \in FirstSettled(e) : horizon[s] # "none"}
InvalidPairs(e) == {s \in HorizonEvidence(e) : horizon[s] = "no pair"}
PreResponse(e) == {s \in HorizonEvidence(e) : horizon[s] = "before"}
HorizonSamples(e) == HorizonEvidence(e) \ (InvalidPairs(e) \cup PreResponse(e))

-----------------------------------------------------------------------------
(* build_ai_performance_payload: the newest requests first, so a decision is *)
(* preceded by all that are newer.  The reader asks for the next page until  *)
(* there is none.                                                            *)
Listed(s) == Cardinality({t \in Decided : t > s})
HasMore(offset) == Cardinality(Decided) > offset + PageSize
PageFrom(offset) == {s \in Decided : Listed(s) \in offset..(offset + PageSize - 1)}

Page ==
    LET begun == IF walk.open THEN walk ELSE [NoWalk EXCEPT !.old = Decided]
    IN  /\ walk' = [open |-> HasMore(begun.offset), offset |-> begun.offset + PageSize,
                    old |-> begun.old, seen |-> begun.seen \cup PageFrom(begun.offset)]
        /\ UNCHANGED <<account, position, answered, answer, winner, results, evaluation, closing,
                       horizon, ledger>>

(* The summary of a page, here of all, and of an experiment: every stored   *)
(* evaluation counts, whatever has become of the result.                    *)
UnitBets == {s \in AllRows : Has(s, "unit")}
SettledBuys == {s \in AllRows : Has(s, "correct")}

-----------------------------------------------------------------------------
ReportsNext ==
    \/ \E s \in Snapshots, late \in BOOLEAN : \E a \in Says[s] : Persist(s, a, late)
    \/ \E m \in Maps : \/ \E side \in Sides : ReportWinner(m, side)
                       \/ SettleMap(m)
    \/ \E s \in Snapshots : \/ Close(s) \/ EvaluateSnapshot(s)
                            \/ \E pair \in BOOLEAN : CaptureHorizon(s, pair)
    \/ Page

ReportsSpec == ReportsInit /\ [][ReportsNext]_reportsVars

-----------------------------------------------------------------------------
(* Two reports that name the same sample take the same one, and grade it    *)
(* the same: the quality of the events and the benchmark across them        *)
(* ("FIRST_EVALUABLE_FORECAST_PER_MAP"); the stored evaluation and the      *)
(* backtest that works it out anew, except that a closing captured since    *)
(* gives the backtest a value more; the bets of the performance page, of    *)
(* which the backtest drops those of a conflict; the settled position and   *)
(* the evaluation of its decision.  This has to hold however results,       *)
(* conflicts, settlements, evaluations and captures interleave.             *)
SamplesAgree ==
    /\ UNION {QualityForecasts(e) : e \in Experiments} = BenchmarkForecasts
    /\ \A s \in BacktestRows : evaluation[s] # {} =>
          /\ \A field \in {"correct", "brier", "unit"} : ValueOf(s, field) = BacktestRow(s)[field]
          /\ ValueOf(s, "clv") \subseteq BacktestRow(s).clv
    /\ \A s \in AllRows : evaluation[s] # {} /\ BacktestRow(s).correct # {} =>
          IF s \in BacktestRows THEN s \in SettledBuys /\ (s \in UnitBets <=> Priced(s))
                                ELSE Cardinality(winner[MapOf[s]]) > 1
    /\ \A s \in Decided : IsSettled(s) /\ evaluation[s] # {} =>
          ValueOf(s, "correct") = {PositionOf(s).status = "WON"}

(* A map counts once in every sample that says so, whatever was decided on  *)
(* it, and never counts for more than was settled (_experiment_report,      *)
(* build_experiment_report); a gate that passes has a won bet and the       *)
(* bankroll it began with behind it (_gate).                                *)
OncePerMap(S) == \A s, t \in S : MapOf[s] = MapOf[t] => s = t
GateIsEarned ==
    /\ OncePerMap(BenchmarkForecasts) /\ OncePerMap(BenchmarkClvs)
    /\ \A e \in Experiments :
          /\ OncePerMap(QualityClvs(e)) /\ OncePerMap(HorizonEvidence(e))
          /\ {MapOf[s] : s \in QualityForecasts(e) \cup QualityClvs(e)} \subseteq SettledMaps(e)
          /\ Gate(e) = "PASS" => \E s \in Bets("WON") : AccountOf[s] = e
          /\ Gate(e) = "PASS" => account[e].cash + account[e].locked >= InitialBankroll

(* The money adds up in every report: the curve of an account, drawn from   *)
(* the ledger by time, ends at the account's equity (_equity_curve), and    *)
(* the leaderboard's sums over the accounts are those over the bets         *)
(* (_aggregate_experiment).                                                 *)
MoneyAddsUp ==
    /\ \A e \in Accounts :
          EquityCurve(e)[Max(Instants(e))] = account[e].cash + account[e].locked
    /\ Total("cash") + Total("locked") = Cardinality(Accounts) * InitialBankroll + Total("pnl")
    /\ Total("pnl") = GrossProfit - StakedOn(Bets("LOST"))
    /\ Total("locked") = StakedOn(Bets("OPEN"))

(* Whoever turns the pages to the end has seen every decision there was     *)
(* when they began, whatever was persisted meanwhile                        *)
(* (build_ai_performance_payload).                                          *)
WalkMissesNothing == ~walk.open => walk.old \subseteq walk.seen

(* All of it together, on tables whose rows are of their types.              *)
ReportsAgree ==
    ReportsTypeOK /\ SamplesAgree /\ GateIsEarned /\ MoneyAddsUp /\ WalkMissesNothing
=============================================================================
