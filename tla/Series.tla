------------------------------- MODULE Series --------------------------------
(* How the schedule (Liquipedia), the market (RayBet) and the games (DLTV    *)
(* and the providers of history) of a match of two teams find each other in  *)
(* one canonical series (app/providers/liquipedia/projection.py,             *)
(* app/identity).  The teams, whose names are known, meet more than once in  *)
(* one tournament, which has an event of Liquipedia's ("page") unless it is  *)
(* first found through a series with another event ("other").  Only          *)
(* Liquipedia makes series that others may attach to; history makes one of   *)
(* its own for a game that nobody announced.                                 *)
EXTENDS Naturals, Sequences, FiniteSets, FiniteSetsExt

CONSTANTS
    Matches,      \* the meetings of the two teams, as Liquipedia lists them
    Games,        \* of a meeting and a map number
    Cards,        \* what Liquipedia may show of a meeting: [at, bo]
    Listed,       \* what RayBet may list of a meeting: [at, bo]
    StartOf,      \* when a game starts
    Window,       \* start_time_window
    Unknown

BestOf == Nat \cup {Unknown}
Shown == [at : Nat, bo : BestOf]

Apart(s, t) == IF s > t THEN s - t ELSE t - s

(* Whatever is shown of different meetings is further apart than the window. *)
Times(m) ==
    {c.at : c \in Cards[m] \cup Listed[m]} \cup {StartOf[g] : g \in {h \in Games : h[1] = m}}

FarApart ==
    \A m, x \in Matches : m # x => \A s \in Times(m), t \in Times(x) : Apart(s, t) > Window

SeriesAssumption ==
    /\ IsFiniteSet(Matches) /\ Window \in Nat /\ Games \subseteq Matches \X (Nat \ {0})
    /\ \A m \in Matches : Cards[m] \subseteq Shown /\ Listed[m] \subseteq Shown
    /\ \A g \in Games : StartOf[g] \in Nat
    /\ FarApart

VARIABLES
    event,        \* the event the tournament's page is mapped to
    series,       \* CanonicalSeries: when it is scheduled, best of how many, of which event
    card,         \* the Liquipedia mapping of a meeting, 0 = none
    market,       \* its RayBet mapping: the series, and was it a guess of earlier times?
    maps,         \* CanonicalMap: its series, its number and its Valve match
    odds          \* OddsObservationRecord

vars == <<event, series, card, market, maps, odds>>

(* Earlier versions made a series for a match of RayBet themselves          *)
(* ("PROVIDER_DISCOVERY").                                                  *)
Init ==
    /\ event = Unknown
    /\ card = [m \in Matches |-> 0] /\ maps = <<>> /\ odds = {}
    /\ \/ series = <<>> /\ market = [m \in Matches |-> [series |-> 0, guessed |-> FALSE]]
       \/ \E m \in Matches : \E l \in Listed[m] :
             /\ series = <<[at |-> l.at, bo |-> Unknown, event |-> "other"]>>
             /\ market = [x \in Matches |-> [series |-> IF x = m THEN 1 ELSE 0, guessed |-> x = m]]

SlipNear(all, at) == DOMAIN all
Near(all, at) == {i \in DOMAIN all : Apart(all[i].at, at) <= Window}
Fits(row, bo) == bo = Unknown \/ row.bo \in {Unknown, bo}
Backed == {card[m] : m \in Matches} \ {0}

(* _liquipedia_series_candidates, of the linker and of the resolver         *)
Announced(at) == Near(series, at) \cap Backed

-----------------------------------------------------------------------------
(* LiquipediaCanonicalProjector.project_series                              *)

(* _resolve_event of the page, for a series that may have one already       *)
Resolved(known, own) == IF known # Unknown THEN known ELSE IF own # Unknown THEN own ELSE "page"

(* project_tournaments                                                      *)
Directory ==
    /\ event' = Resolved(event, Unknown)
    /\ UNCHANGED <<series, card, market, maps, odds>>

(* _apply_schedule                                                          *)
Scheduled(row, c, e) ==
    [at |-> c.at, bo |-> IF c.bo = Unknown THEN row.bo ELSE c.bo,
     event |-> IF row.event = Unknown THEN e ELSE row.event]

(* _series_candidates: of the event, once the page is mapped to one         *)
Candidates(st, c) ==
    {i \in Near(st.series, c.at) : /\ Fits(st.series[i], c.bo)
                                   /\ st.event \in {Unknown, st.series[i].event}}

(* _project_one_series: the series of that card, else the one near its time, *)
(* else a new one.  Two near its time are an error, another event as well.  *)
Projected(st, m, c) ==
    LET near == Candidates(st, c)
        Of(i) == LET own == st.series[i].event
                     e == Resolved(st.event, own)
                 IN  [st EXCEPT !.card[m] = i, !.series[i] = Scheduled(@, c, e), !.event = e,
                                !.failed = own \notin {Unknown, e}]
        new == Resolved(st.event, Unknown)
    IN  IF c = Unknown \/ st.failed THEN st
        ELSE IF st.card[m] # 0 THEN Of(st.card[m])
        ELSE IF Cardinality(near) > 1 THEN [st EXCEPT !.failed = TRUE]
        ELSE IF near # {} THEN Of(CHOOSE i \in near : TRUE)
        ELSE [st EXCEPT !.series = Append(@, [at |-> c.at, bo |-> c.bo, event |-> new]),
                        !.card[m] = Len(st.series) + 1, !.event = new]

(* One transaction for the whole page: an error undoes all of it.           *)
Project(page) ==
    LET start == [event |-> event, series |-> series, card |-> card, failed |-> FALSE]
        end == FoldSet(LAMBDA m, st : Projected(st, m, page[m]), start, Matches)
    IN  /\ ~end.failed
        /\ event' = end.event /\ series' = end.series /\ card' = end.card
        /\ UNCHANGED <<market, maps, odds>>

-----------------------------------------------------------------------------
(* RayBetExistingSeriesLinker.link, with observe_raybet_match after it.     *)

HasMaps(i) == \E k \in DOMAIN maps : maps[k].series = i
MayLink(m) == market[m].series = 0 \/ (market[m].guessed /\ ~HasMaps(market[m].series))

(* Prices that were recorded under the guess and belong to no map follow.   *)
Relinked(m, i) ==
    {IF r.match = m /\ r.series = market[m].series /\ r.series # 0 /\ r.map = 0
     THEN [r EXCEPT !.series = i] ELSE r : r \in odds}

\* Of the announced series near the time shown, those of as many maps.
Linkable(l) == {i \in Announced(l.at) : Fits(series[i], l.bo)}

Link(m, l) ==
    LET near == Linkable(l)
        i == CHOOSE x \in near : TRUE
    IN  /\ MayLink(m) /\ Cardinality(near) = 1
        /\ market' = [market EXCEPT ![m] = [series |-> i, guessed |-> FALSE]]
        /\ series' = [series EXCEPT ![i].bo = IF @ = Unknown THEN l.bo ELSE @]
        /\ odds' = Relinked(m, i)
        /\ UNCHANGED <<event, card, maps>>

-----------------------------------------------------------------------------
MapsOf(g) == {k \in DOMAIN maps : maps[k].valve = g}
SlotsOf(i, n) == {k \in DOMAIN maps : n # Unknown /\ maps[k].series = i /\ maps[k].number = n}

(* IdentityResolver.resolve_dltv_bootstrap of a game that has no map yet;   *)
(* DLTV may not tell its number.  A slot of that number is taken over.      *)
Bootstrap(g, n) ==
    LET near == Announced(StartOf[g])
        i == CHOOSE x \in near : TRUE
    IN  /\ MapsOf(g) = {} /\ Cardinality(near) = 1
        /\ maps' = IF SlotsOf(i, n) = {}
                   THEN Append(maps, [series |-> i, number |-> n, valve |-> g])
                   ELSE [maps EXCEPT ![CHOOSE k \in SlotsOf(i, n) : TRUE].valve = g]
        /\ UNCHANGED <<event, series, card, market, odds>>

(* HistoricalRepository._canonical_map of a finished game without a map     *)
Store(g, own) ==
    /\ MapsOf(g) = {}
    /\ series' = Append(series, [at |-> StartOf[g], bo |-> Unknown, event |-> own])
    /\ maps' = Append(maps, [series |-> Len(series) + 1, number |-> Unknown, valve |-> g])
    /\ UNCHANGED <<event, card, market, odds>>

(* RayBetOddsCollector: the map a price is about is the one of its number   *)
(* in the series of the match, if there is one by now.                      *)
Collect(g) ==
    LET i == market[g[1]].series
        slots == IF i = 0 THEN {} ELSE SlotsOf(i, g[2])
    IN  /\ odds' = odds \cup {[match |-> g[1], number |-> g[2], series |-> i,
                               map |-> IF slots = {} THEN 0 ELSE CHOOSE k \in slots : TRUE]}
        /\ UNCHANGED <<event, series, card, market, maps>>

Next ==
    \/ Directory
    \/ \E page \in [Matches -> UNION {Cards[m] : m \in Matches} \cup {Unknown}] :
          /\ \A m \in Matches : page[m] \in Cards[m] \cup {Unknown}
          /\ Project(page)
    \/ \E m \in Matches : \E l \in Listed[m] : Link(m, l)
    \/ \E g \in Games : \/ \E n \in {g[2], Unknown} : Bootstrap(g, n)
                        \/ \E own \in {Unknown, "other"} : Store(g, own)
                        \/ Collect(g)

Spec == Init /\ [][Next]_vars

-----------------------------------------------------------------------------
Event == {Unknown, "page", "other"}
Row == [at : Nat, bo : BestOf, event : Event]

TypeOK ==
    /\ event \in Event /\ series \in Seq(Row) /\ card \in [Matches -> Nat]
    /\ market \in [Matches -> [series : Nat, guessed : BOOLEAN]]
    /\ maps \in Seq([series : Nat \ {0}, number : BestOf, valve : Games])
    /\ odds \subseteq [match : Matches, number : Nat, series : Nat, map : Nat]

(* A series that is announced stands for one meeting, whoever attached to   *)
(* it and in whatever order: the prices and the games in it are of that     *)
(* meeting, although the teams meet again and the times shown change        *)
(* (_project_one_series, link, resolve_dltv_bootstrap).                     *)
OneMeetingPerSeries ==
    /\ \A m, x \in Matches : card[m] # 0 /\ card[m] = card[x] => m = x
    /\ \A m \in Matches : market[m].series \in Backed => market[m].series = card[m]
    /\ \A k \in DOMAIN maps :
          maps[k].series \in Backed => maps[k].series = card[maps[k].valve[1]]

(* A price that names a map names one of its own series, and the series it  *)
(* names is the one its match is mapped to now, also when a guess was       *)
(* corrected: the builder asks for the prices of a series.                  *)
PricesAreFound ==
    \A r \in odds :
        /\ r.map # 0 => maps[r.map].series = r.series /\ maps[r.map].valve = <<r.match, r.number>>
        /\ r.series # 0 => r.series = market[r.match].series
=============================================================================
