----------------------------- MODULE MCObserved ------------------------------
(* LiveCheckpoints and how else the system learns of a match, in one run:   *)
(* the prices (Market), which team is meant (Teams), who plays for it       *)
(* (Rosters) and which series is played (Series).  A behaviour is one of    *)
(* the module that `part` names while the others stand still.               *)
EXTENDS LiveCheckpoints, Market, Rosters, TLC

VARIABLES part,
    teams, mapping, pair, facts, evidence, result,
    event, series, card, market, maps, odds

TwoMinutes == {2, 5}

-----------------------------------------------------------------------------
(* Two odds ids of one match.                                               *)
CONSTANTS o1, o2

MCOdds == {o1, o2}
MCPrice == <<2, 3, 3>>

(* Bounds.  What the recovery rests on; three publications in all; the      *)
(* match is discovered first.                                               *)
FewChanges == offer'[o1] + offer'[o2] <= 3
DiscoveredFirst == asked # {} \/ asked' # {}

PriceNext == MarketNext /\ FewConnects /\ QuietLearning /\ FewChanges /\ DiscoveredFirst

-----------------------------------------------------------------------------
CONSTANTS Radiant, Dire, None

Who == INSTANCE Teams WITH series <- pair

teamVars == <<teams, mapping, pair, facts, evidence, result>>

(* Bound.  The answers of the providers name both teams: facts that lack a  *)
(* side are never found to agree, so their conflicts stay.                  *)
BothNamed ==
    \A p \in Who!Sources : facts[p] = None /\ facts'[p] # None =>
        None \notin {facts'[p].sides[r] : r \in Who!Real}

-----------------------------------------------------------------------------
(* Two meetings, so far apart that no time of the one is within the window  *)
(* of a time of the other.                                                  *)
CONSTANTS Matches, Games, Cards, Listed, StartOf, Window, Unknown

MCMatches == {1, 2}
MCGames == {<<1, 1>>, <<1, 2>>, <<2, 1>>}
MCAt(t) == [at |-> t, bo |-> 3]
MCCards == <<{MCAt(0), [at |-> 1, bo |-> Unknown]}, {MCAt(8)}>>
MCListed == <<{MCAt(1)}, {MCAt(8)}>>
MCStartOf == [g \in MCGames |-> IF g = <<1, 1>> THEN 1 ELSE IF g = <<1, 2>> THEN 3 ELSE 8]

Meet == INSTANCE Series

seriesVars == <<event, series, card, market, maps, odds>>

(* Bounds.  One game is stored by history or has no number; the prices are   *)
(* of one map, and a guess of earlier times is one about its match.         *)
FewStored == Cardinality({k \in DOMAIN maps : maps[k].number = Unknown}) <= 1
OneMap == \A r \in odds : r.match = 1 /\ r.number = 1

-----------------------------------------------------------------------------
(* One club and two players; the event lasts two cycles.                    *)
CONSTANTS p1, p2

MCClubs == {Radiant}
MCPlayers == {p1, p2}
MCListable == {3}

(* Bounds.  The event is known from the start; time passes while nobody      *)
(* looks up; of one club the commands differ only if it is disputed; the    *)
(* first lookup alone fails, having entered somebody.                       *)
EventFirst == tournament' # tournament => instant = 0
QuietTime == instant' # instant /\ lookup' = lookup => \A a \in Lookers : ~lookup[a].on
OneCommand == lookup'["command"].profiles => disputed # {}
FailsEntering ==
    rosterFaults' # rosterFaults
        => told = {} /\ \E a \in Lookers : lookup[a].opened # {} /\ lookup'[a].opened = {}

-----------------------------------------------------------------------------
ASSUME ObservedAssumption == Who!TeamsAssumption /\ Meet!SeriesAssumption

SumInit ==
    /\ part \in {"live", "market", "teams", "series", "rosters"}
    /\ Init /\ MarketInit /\ Who!Init /\ Meet!Init /\ RosterInit
    /\ disputed # {} => part = "rosters" /\ roster = {}
    /\ roster # {} => part = "rosters" /\ {m.player : m \in roster} = {p1}
    /\ series # <<>> => part = "series" /\ market[1].guessed

SumNext ==
    /\ part' = part
    /\ \/ part = "live" /\ Next /\ UNCHANGED <<marketVars, teamVars, seriesVars, rosterVars>>
       \/ part = "market" /\ PriceNext /\ UNCHANGED <<vars, teamVars, seriesVars, rosterVars>>
       \/ /\ part = "teams" /\ Who!Next /\ BothNamed
          /\ UNCHANGED <<vars, marketVars, seriesVars, rosterVars>>
       \/ /\ part = "series" /\ Meet!Next /\ FewStored' /\ OneMap'
          /\ UNCHANGED <<vars, marketVars, teamVars, rosterVars>>
       \/ /\ part = "rosters" /\ RosterNext /\ EventFirst /\ QuietTime
          /\ OneCommand /\ FailsEntering /\ UNCHANGED <<vars, marketVars, teamVars, seriesVars>>

SumSpec == SumInit /\ [][SumNext]_<<part, vars, marketVars, teamVars, seriesVars, rosterVars>>

SumSymmetry == Permutations({o1, o2})

IdentityIsTold ==
    /\ part = "teams" => Who!TypeOK /\ Who!MergedWhole /\ Who!ConflictIsReal
    /\ part = "series" => Meet!TypeOK /\ Meet!OneMeetingPerSeries /\ Meet!PricesAreFound
    /\ part = "rosters" => RosterIsTold
=============================================================================
