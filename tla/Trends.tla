------------------------------- MODULE Trends -------------------------------
(***************************************************************************)
(* What a snapshot derives from the observations of a live map: how far    *)
(* the market runs ahead of the broadcast (TemporalAligner), the path of   *)
(* the odds and their drift (_odds_path), and the course of the game       *)
(* (_live_trend).  All three read the rows received so far; the rows grow  *)
(* one at a time, several may share the instant of one packet.             *)
(***************************************************************************)
EXTENDS Integers, Sequences, FiniteSets, SequencesExt

CONSTANTS
    Quotes,          \* the prices of the two selections, as [leg, price]
    Plays,           \* the states of the game, as [kills, lead]; Null is unknown
    Limits,          \* bounds: [odds, live, clock] on the rows and the clock, and in
                     \* late, by how much the clock of the game may be ahead
    Window,          \* live_sync_calibration_window_seconds, in instants
    Margin,          \* live_sync_ambiguity_margin_seconds, in instants
    Safe, Caution,   \* live_sync_safe_seconds, live_sync_caution_seconds
    MinSamples,      \* live_sync_min_samples
    Horizon,         \* the five minutes of the drift, in instants
    TailPoints       \* how many of the newest points are displayed

TrendsAssumption ==
    /\ Window > 0 /\ Margin >= 0 /\ Safe >= 0 /\ Caution >= Safe /\ MinSamples > 0
    /\ Horizon \in Nat /\ TailPoints \in Nat \ {0}

VARIABLES
    instant,         \* the clock
    odds,            \* odds_observations of the map: [at, leg, price]
    live,            \* dltv_live_observations of the map: [at, second, kills, lead]
    limit            \* the bounds of this behaviour

trendVars == <<instant, odds, live, limit>>

Null == -9999
Leg == {"a", "b"}

(* The last row of a sequence that satisfies a condition, 0 if none does.   *)
LastWhere(rows, P(_)) ==
    LET fits == {i \in DOMAIN rows : P(rows[i])}
    IN  IF fits = {} THEN 0 ELSE CHOOSE i \in fits : \A j \in fits : j <= i

Init == instant = 1 /\ odds = <<>> /\ live = <<>> /\ limit \in Limits

Passes ==
    /\ instant < limit.clock
    /\ instant' = instant + 1
    /\ UNCHANGED <<odds, live, limit>>

(* A delta of either selection; one that says nothing new is not stored.    *)
Quote(q) ==
    /\ Len(odds) < limit.odds
    /\ LET last == LastWhere(odds, LAMBDA row : row.leg = q.leg)
       IN  last # 0 => odds[last].price # q.price /\ odds[last].at < instant
    /\ odds' = Append(odds, [at |-> instant, leg |-> q.leg, price |-> q.price])
    /\ UNCHANGED <<instant, live, limit>>

(* A row of the collector; the game may be paused, and does not go back.    *)
Play(p, second) ==
    /\ Len(live) < limit.live
    /\ live # <<>> => second >= Last(live).second
    /\ live' = Append(live, [at |-> instant, second |-> second,
                             kills |-> p.kills, lead |-> p.lead])
    /\ UNCHANGED <<instant, odds, limit>>

Next ==
    \/ Passes
    \/ \E q \in Quotes : Quote(q)
    \/ \E p \in Plays, late \in limit.late : Play(p, 60 * (instant + late))

Spec == Init /\ [][Next]_trendVars

-----------------------------------------------------------------------------
(* _raybet_signals: the rows whose price moved by 3 % or more against the   *)
(* previous one of their selection.                                         *)
Abs(n) == IF n < 0 THEN -n ELSE n
MarketMoves ==
    LET Before(i) == LastWhere(SubSeq(odds, 1, i - 1), LAMBDA row : row.leg = odds[i].leg)
        Moved(i) == /\ Before(i) # 0
                    /\ LET was == odds[Before(i)].price
                       IN  100 * Abs(odds[i].price - was) >= 3 * was
    IN  SetToSortSeq({i \in DOMAIN odds : Moved(i)}, <)

(* _dltv_signals: a kill, or a swing of the lead of at least a thousand     *)
(* against the row before.                                                  *)
GameMoves ==
    LET Known(u, v) == u # Null /\ v # Null
        Moved(i) == LET u == live[i - 1] v == live[i]
                    IN  \/ Known(u.kills, v.kills) /\ u.kills # v.kills
                        \/ Known(u.lead, v.lead) /\ Abs(u.lead - v.lead) >= 1000
    IN  {i \in 2 .. Len(live) : Moved(i)}

(* _calibrate: every move of the market, in its order, is paired with the   *)
(* nearest later move of the game that is left, unless that is too far or   *)
(* not the only near one.                                                   *)
Pairing(moves) ==
    LET Later(m, free) == {g \in free : live[g].at >= odds[m].at}
        Nearest(gs) == CHOOSE g \in gs : \A h \in gs : live[g].at < live[h].at
                                             \/ (live[g].at = live[h].at /\ g <= h)
        Pair(m, gs) ==
            IF gs = {} \/ live[Nearest(gs)].at - odds[m].at > Window
            THEN [market |-> m, game |-> 0, verdict |-> "NO_FORWARD_CANDIDATE"]
            ELSE LET g == Nearest(gs) others == gs \ {g}
                 IN  [market |-> m, game |-> g, verdict |->
                        IF /\ others # {}
                           /\ live[Nearest(others)].at - live[g].at <= Margin
                        THEN "AMBIGUOUS_NEAREST" ELSE "ACCEPTED"]
        Step(seen, m) ==
            LET p == Pair(m, Later(m, seen.free))
            IN  [free |-> IF p.verdict = "ACCEPTED" THEN seen.free \ {p.game} ELSE seen.free,
                 pairs |-> Append(seen.pairs, p)]
    IN  FoldLeft(Step, [free |-> GameMoves, pairs |-> <<>>], moves).pairs

Verdicts(pairs, verdict) == {p \in ToSet(pairs) : p.verdict = verdict}
Lag(p) == live[p.game].at - odds[p.market].at

(* The pairs that count for the ratios: those that had a candidate.         *)
SlipEverySignalCounts(pairs) == Len(pairs)
Candidates(pairs) ==
    Cardinality(Verdicts(pairs, "ACCEPTED")) + Cardinality(Verdicts(pairs, "AMBIGUOUS_NEAREST"))

(* p90 by nearest rank and the standard deviation, each compared with a     *)
(* bound.                                                                   *)
P90AtMost(accepted, bound) ==
    10 * Cardinality({p \in accepted : Lag(p) <= bound}) >= 9 * Cardinality(accepted)
JitterAtMost(accepted, bound) ==
    LET n == Cardinality(accepted)
        lags == SetToSeq({<<p.market, Lag(p)>> : p \in accepted})
        sum == FoldLeft(LAMBDA s, x : s + x[2], 0, lags)
        squares == FoldLeft(LAMBDA s, x : s + x[2] * x[2], 0, lags)
    IN  n * squares - sum * sum <= n * n * bound * bound

(* The status of the estimate; one accepted pair in 0.6 suffices.           *)
StatusOf(pairs) ==
    LET accepted == Verdicts(pairs, "ACCEPTED")
        n == Cardinality(accepted)
        total == Candidates(pairs)
        Within(bound) == P90AtMost(accepted, bound) /\ JitterAtMost(accepted, bound)
    IN  CASE total = 0 -> "UNKNOWN"
          [] total # 0 /\ (n < MinSamples \/ 10 * n < 6 * total) -> "CALIBRATING"
          [] OTHER -> IF Within(Safe) /\ n = total THEN "SAFE"
                      ELSE IF Within(Caution) THEN "CAUTION" ELSE "UNSAFE"

-----------------------------------------------------------------------------
(* _odds_path: the pairs of prices, the other side's carried forward; a     *)
(* price that is not known yet is Null.                                     *)
Points ==
    LET Step(path, row) ==
            LET was == IF path = <<>> THEN [a |-> Null, b |-> Null] ELSE Last(path).pair
                now == [was EXCEPT ![row.leg] = row.price]
            IN  IF path # <<>> /\ now = was THEN path
                ELSE Append(path, [at |-> row.at, pair |-> now])
    IN  FoldLeft(Step, <<>>, odds)

(* The last point that is at least five minutes old.                        *)
Anchor(path) == LastWhere(path, LAMBDA p : p.at <= instant - Horizon)

(* _sample_odds_trajectory: the first point, the anchor and the newest      *)
(* ones, each only if its instant is not among those already chosen.        *)
SlipNoAnchor(path) ==
    LET tail == {i \in DOMAIN path : i > Len(path) - TailPoints}
    IN  SetToSortSeq({1} \cup {i \in tail : path[i].at # path[1].at}, <)
Chosen(path) ==
    LET anchor == Anchor(path)
        two == {1} \cup (IF anchor # 0 /\ path[anchor].at # path[1].at THEN {anchor} ELSE {})
        tail == {i \in DOMAIN path : i > Len(path) - TailPoints}
        fresh == {i \in tail : /\ \A j \in two : path[i].at # path[j].at
                               /\ \A j \in tail : j < i => path[i].at # path[j].at}
    IN  SetToSortSeq(two \cup fresh, <)
Trajectory(path) == [k \in DOMAIN Chosen(path) |-> path[Chosen(path)[k]]]

(* _odds_drift, which _odds_drift_view computes from a trajectory for       *)
(* snapshots that froze none: Team A's first, present and former price.     *)
Drift(path) ==
    LET paired == SelectSeq(path, LAMBDA p : p.pair.a # Null)
        former == Anchor(paired)
    IN  IF Len(paired) < 2 THEN <<>>
        ELSE <<paired[1].pair.a, Last(paired).pair.a,
               IF former = 0 THEN Null ELSE paired[former].pair.a>>

-----------------------------------------------------------------------------
(* _live_window: the row nearest to so many seconds of the game ago, if it  *)
(* is near enough and earlier.                                              *)
Tolerance(seconds) == LET quarter == seconds \div 4
                          low == IF quarter > 20 THEN quarter ELSE 20
                      IN  IF low < 90 THEN low ELSE 90
Baseline(seconds) ==
    LET target == Last(live).second - seconds
        Off(i) == Abs(live[i].second - target)
        i == CHOOSE i \in DOMAIN live :
                \A j \in DOMAIN live : Off(i) < Off(j) \/ (Off(i) = Off(j) /\ i <= j)
    IN  IF Off(i) <= Tolerance(seconds) /\ live[i].second < Last(live).second THEN i ELSE 0

(* _last_lead_flip: the row at which the lead last changed sides.           *)
SideOf(row) == IF row.lead > 0 THEN "RADIANT" ELSE "DIRE"
SlipNullForgets ==
    LET Step(seen, i) ==
            IF live[i].lead \in {Null, 0} THEN [seen EXCEPT !.side = "none"]
            ELSE [side |-> SideOf(live[i]),
                  flip |-> IF seen.side \notin {"none", SideOf(live[i])} THEN i ELSE seen.flip]
    IN  FoldLeft(Step, [side |-> "none", flip |-> 0], [i \in DOMAIN live |-> i]).flip
LastLeadFlip ==
    LET Step(seen, i) ==
            IF live[i].lead \in {Null, 0} THEN seen
            ELSE [side |-> SideOf(live[i]),
                  flip |-> IF seen.side \notin {"none", SideOf(live[i])} THEN i ELSE seen.flip]
    IN  FoldLeft(Step, [side |-> "none", flip |-> 0], [i \in DOMAIN live |-> i]).flip

-----------------------------------------------------------------------------
(* The calibration, greedy as it is, pairs like a viewer would: no move of  *)
(* the game is counted for two of the market, none before an earlier one's, *)
(* and that most moves of the market have no counterpart "is a cadence      *)
(* mismatch, not a pairing-quality failure": without them the verdict is    *)
(* the same.  SAFE means that nine of ten accepted lags are safe.           *)
SyncIsEarned ==
    LET pairs == Pairing(MarketMoves)
        accepted == Verdicts(pairs, "ACCEPTED")
        Had(m) == \E p \in ToSet(pairs) : p.market = m /\ p.game # 0
    IN  /\ \A p, q \in accepted : p.market < q.market => p.game < q.game
        /\ StatusOf(Pairing(SelectSeq(MarketMoves, Had))) = StatusOf(pairs)
        /\ StatusOf(pairs) = "SAFE" =>
              10 * Cardinality({p \in accepted : Lag(p) > Safe}) <= Cardinality(accepted)

(* "Compressing the display path can never change the statistics": as long  *)
(* as no two changes share an instant and Team A's price came first, the    *)
(* drift of the displayed path is that of all changes.  The flip that the   *)
(* model is told of is the newest row with another leader than the last     *)
(* known one before it, and a window of momentum spans what it says.        *)
TrendsAreTrue ==
    LET path == Points
        Led(i) == live[i].lead \notin {Null, 0}
        Flips == {i \in DOMAIN live : /\ Led(i)
                     /\ \E j \in 1 .. i - 1 : /\ Led(j) /\ SideOf(live[j]) # SideOf(live[i])
                                              /\ \A k \in j + 1 .. i - 1 : ~Led(k)}
    IN  /\ (/\ path # <<>> /\ path[1].pair.a # Null
            /\ \A i, j \in DOMAIN path : i # j => path[i].at # path[j].at) =>
              Drift(Trajectory(path)) = Drift(path)
        /\ IF Flips = {} THEN LastLeadFlip = 0
           ELSE LastLeadFlip \in Flips /\ \A i \in Flips : i <= LastLeadFlip
        /\ \A seconds \in {60, 180} : live # <<>> /\ Baseline(seconds) # 0 =>
              LET span == Last(live).second - live[Baseline(seconds)].second
              IN  span > 0 /\ 4 * Abs(span - seconds) <= (IF seconds < 80 THEN 80 ELSE seconds)

(* The first change, the anchor "and the CURRENT price all survive" in the  *)
(* displayed path.                                                          *)
CurrentPriceSurvives ==
    Len(Points) >= 2 => Last(Trajectory(Points)).pair = Last(Points).pair
=============================================================================
