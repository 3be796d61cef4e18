------------------------------- MODULE History -------------------------------
(***************************************************************************)
(* The history of teams and players (app/history): facts about finished     *)
(* maps, fetched from two providers by the historical sync and by the       *)
(* postmatch job, and the ratings, forms and hero figures built from them   *)
(* as of a cutoff.  A decision reads, as of its own time, what was built.   *)
(*                                                                         *)
(* Every figure is stood for by the set of maps it was worked out from;     *)
(* what Elo, the weighted forms and the z-scores make of a map is left out, *)
(* and so is the limit of 20 or 100 maps of a form.  Both sides of a map    *)
(* are known teams, maps are played in their order, and one player plays    *)
(* every map of one team.                                                   *)
(***************************************************************************)
EXTENDS Integers, FiniteSets, FiniteSetsExt

CONSTANTS
    Matches,         \* 1..n
    Playing,         \* the two teams of each match
    Pairings,        \* the series that may be synced: sets of two teams
    Answers,         \* what each provider may answer about each match
    Drafted,         \* whether a sync may find a complete draft: {TRUE}, {FALSE} or both
    MaxClock         \* bound on the number of instants

Primary == "stratz"
Fallback == "opendota"
Providers == {Primary, Fallback}
Winners == {"radiant", "dire", "?"}
FactAnswer == [winner: Winners, advanced: BOOLEAN]

HistoryAssumption ==
    /\ Matches \subseteq Nat /\ IsFiniteSet(Matches) /\ MaxClock \in Nat /\ Drafted \subseteq BOOLEAN
    /\ \A m \in Matches : Cardinality(Playing[m]) = 2
    /\ \A p \in Providers, m \in Matches : Answers[p][m] \subseteq FactAnswer

VARIABLES
    clock,           \* the instant
    fact,            \* historical_maps, by provider and match
    rating,          \* team_rating_snapshots
    form,            \* team_form_snapshots
    player,          \* the player's form and hero snapshots, by cutoff
    syncing,         \* the running sync_historical job
    asked,           \* the postmatch job's response, not yet stored
    built            \* a history variable: of every sync that finished, its teams and its cutoff

historyVars == <<clock, fact, rating, form, player, syncing, asked, built>>

(* A fact: when it was first usable; when its advanced figures were (0 =    *)
(* not yet); and, a history variable, since when it could be read as it is. *)
NoFact == [status |-> "NONE", winner |-> "?", usable |-> 0, advanced |-> 0, since |-> 0]
Idle == [on |-> {}, cutoff |-> 0]
NotAsked == [of |-> 0, answer |-> 0, from |-> "none", at |-> 0]

HistoryInit ==
    /\ clock = 1
    /\ fact = [p \in Providers |-> [m \in Matches |-> NoFact]]
    /\ rating = {} /\ form = {} /\ player = {} /\ built = {}
    /\ syncing = Idle /\ asked = NotAsked

-----------------------------------------------------------------------------
(* persist_bundle: what is known is kept, the earliest time a fact was      *)
(* usable too; another winner of the same or of the other provider is a     *)
(* conflict for ever.                                                       *)
AdvancedAt(old, a, at) == IF old.advanced = 0 /\ a.advanced THEN at ELSE old.advanced

Merged(old, a, at, commit) ==
    LET conflict == \/ old.status = "DATA_CONFLICT"
                    \/ old.winner # "?" /\ a.winner # "?" /\ old.winner # a.winner
        first == old.status = "NONE"
        advanced == AdvancedAt(old, a, at)
        winner == IF old.winner # "?" THEN old.winner ELSE a.winner
    IN  [status |-> CASE conflict -> "DATA_CONFLICT"
                      [] ~conflict /\ advanced > 0 -> "ADVANCED_READY"
                      [] OTHER -> "BASIC_READY",
         winner |-> winner,
         usable |-> IF first THEN at ELSE Min({old.usable, at}),
         advanced |-> advanced,
         since |-> IF winner = "?" THEN 0
                   ELSE IF old.winner # "?" /\ old.usable =< at THEN old.since ELSE commit]

Conflicted(f) == [f EXCEPT !.status = "DATA_CONFLICT"]

Other(p) == CHOOSE q \in Providers : q # p

Stored(facts, p, m, a, at, commit) ==
    LET new == Merged(facts[p][m], a, at, commit)
        other == facts[Other(p)][m]
        differ == new.winner # "?" /\ other.winner # "?" /\ new.winner # other.winner
    IN  [facts EXCEPT ![p][m] = IF differ THEN Conflicted(new) ELSE new,
                      ![Other(p)][m] = IF differ THEN Conflicted(other) ELSE other]

(* The postmatch job asks without a transaction and stores in one.          *)
AskProvider(p, m, a) ==
    /\ asked = NotAsked /\ clock < MaxClock
    /\ asked' = [of |-> m, answer |-> a, from |-> p, at |-> clock] /\ clock' = clock + 1
    /\ UNCHANGED <<fact, rating, form, player, syncing, built>>

Store ==
    /\ asked # NotAsked /\ asked' = NotAsked
    /\ LET new == Stored(fact, asked.from, asked.of, asked.answer, asked.at, clock)
       IN  fact' = IF new[asked.from][asked.of].winner = "?" THEN fact ELSE new
    /\ UNCHANGED <<clock, rating, form, player, syncing, built>>

-----------------------------------------------------------------------------
(* The features.  The winner of a fact counts from its first_usable_at on.  *)
\* Slip: the facts this job has just fetched count too.
SlipUsable(f, cutoff) == f.status \notin {"NONE", "DATA_CONFLICT"}

Usable(f, cutoff) == f.status \notin {"NONE", "DATA_CONFLICT"} /\ f.usable =< cutoff
Rateable(f, cutoff) == Usable(f, cutoff) /\ f.winner # "?"
Advanced(f, cutoff) == Usable(f, cutoff) /\ f.advanced \in 1..cutoff

(* Of two facts of a map the primary provider's, if it will do.             *)
Preferred(facts, m, sources) == facts[IF Primary \in sources THEN Primary ELSE Fallback][m]

(* The newest row of a table by its cutoff, as of an instant.  (No two maps  *)
(* count from the same instant: every response has its own.)                *)
\* Slip: whoever reads gets the newest row there is.
SlipNewestAsOf(rows, t) == {r \in rows : \A q \in rows : q.cutoff =< r.cutoff}

NewestAsOf(rows, t) ==
    {r \in rows : r.cutoff =< t /\ \A q \in rows : q.cutoff =< t => q.cutoff =< r.cutoff}
MapsOf(rows, t) == UNION {r.maps : r \in NewestAsOf(rows, t)}

(* The facts of a map that will do at the cutoff, and when the chosen one   *)
(* became usable.                                                           *)
Eligible(facts, m, cutoff) == {p \in Providers : Rateable(facts[p][m], cutoff)}
UsableAt(facts, m, cutoff) == Preferred(facts, m, Eligible(facts, m, cutoff)).usable

(* build_team_ratings: every map that has not been rated is, in the order   *)
(* in which the facts became usable; each of its teams continues from the   *)
(* rating it had last: its newest up to the cutoff, then this job's own.    *)
OfTeam(rows, team) == {r \in rows : r.team = team}
Teams == UNION {Playing[m] : m \in Matches}
Rated(rows) == {r.match : r \in rows}

Unrated(rows, facts, cutoff) == {m \in Matches \ Rated(rows) : Eligible(facts, m, cutoff) # {}}

\* m is rated before n
Precedes(facts, cutoff, m, n) ==
    \/ UsableAt(facts, m, cutoff) < UsableAt(facts, n, cutoff)
    \/ UsableAt(facts, m, cutoff) = UsableAt(facts, n, cutoff) /\ m < n

RatedUpTo(rows, facts, cutoff, x, m) ==
    MapsOf(OfTeam(rows, x), cutoff)
        \cup {n \in Unrated(rows, facts, cutoff) : x \in Playing[n] /\ Precedes(facts, cutoff, n, m)}
        \cup {m}

Ratings(rows, facts, cutoff) ==
    rows \cup UNION {{[team |-> x, match |-> m, cutoff |-> UsableAt(facts, m, cutoff),
                      maps |-> RatedUpTo(rows, facts, cutoff, x, m)] : x \in Playing[m]} :
                     m \in Unrated(rows, facts, cutoff)}

(* build_team_form: a form is as old as the last of its maps, and is not    *)
(* built again.                                                             *)
FormMaps(facts, x, cutoff) == {m \in Matches : x \in Playing[m] /\ Eligible(facts, m, cutoff) # {}}
LastOf(facts, x, cutoff) == Max({UsableAt(facts, m, cutoff) : m \in FormMaps(facts, x, cutoff)})

Forms(rows, facts, teams, cutoff) ==
    rows \cup {[team |-> x, cutoff |-> LastOf(facts, x, cutoff), maps |-> FormMaps(facts, x, cutoff)] :
               x \in {y \in teams : /\ FormMaps(facts, y, cutoff) # {}
                                    /\ \A r \in OfTeam(rows, y) : r.cutoff # LastOf(facts, y, cutoff)}}

(* build_player_hero and build_player_form, as of the cutoff: the maps the   *)
(* hero was used in, and those whose advanced figures can be scored.        *)
HeroUses(facts, cutoff) ==
    {m \in Matches : \E p \in Providers : Usable(facts[p][m], cutoff)}
Scored(facts, cutoff) ==
    {m \in Matches : \E p \in Providers : Advanced(facts[p][m], cutoff)}
Players(rows, facts, cutoff) ==
    rows \cup {r \in {[cutoff |-> cutoff, maps |-> HeroUses(facts, cutoff),
                       scored |-> Scored(facts, cutoff)]} : r.maps # {}}

-----------------------------------------------------------------------------
(* sync_historical: the cutoff comes first, then the maps that the listing  *)
(* provider has no fact of are fetched, each from the primary or, when that *)
(* fails, from the fallback; then everything is built as of the cutoff.     *)
(* One transaction: a failure leaves nothing behind.                        *)
BeginSync(teams) ==
    /\ syncing = Idle /\ clock < MaxClock
    /\ syncing' = [on |-> teams, cutoff |-> clock] /\ clock' = clock + 1
    /\ UNCHANGED <<fact, rating, form, player, asked, built>>

Lacking(list, teams) ==
    {m \in Matches : Playing[m] \cap teams # {} /\ fact[list][m] = NoFact}

(* The i-th of n responses <<provider, match, answer>>, n at most two.      *)
Persisted(facts, response, i, n) ==
    Stored(facts, response[1], response[2], response[3], clock - 1 + i, clock + n)

FinishSync(facts, n, drafted) ==
    LET c == syncing.cutoff IN
    /\ syncing # Idle /\ clock + n =< MaxClock
    /\ fact' = facts
    /\ rating' = Ratings(rating, facts, c)
    /\ form' = Forms(form, facts, syncing.on, c)
    /\ player' = IF drafted THEN Players(player, facts, c) ELSE player
    /\ built' = built \cup {syncing}
    /\ clock' = clock + n
    /\ syncing' = Idle /\ UNCHANGED asked

FailSync == syncing # Idle /\ syncing' = Idle
            /\ UNCHANGED <<clock, fact, rating, form, player, asked, built>>

Responses(list) == {r \in Providers \X Lacking(list, syncing.on) \X FactAnswer :
                        r[3] \in Answers[r[1]][r[2]]}

HistoryNext ==
    \/ \E p \in Providers, m \in Matches : \E a \in Answers[p][m] : AskProvider(p, m, a)
    \/ Store
    \/ \E teams \in Pairings : BeginSync(teams)
    \/ \E list \in Providers, drafted \in Drafted :
          \/ FinishSync(fact, 0, drafted)
          \/ \E r \in Responses(list) :
                \/ FinishSync(Persisted(fact, r, 1, 1), 1, drafted)
                \/ \E s \in Responses(list) :
                      s[2] # r[2] /\ FinishSync(Persisted(Persisted(fact, r, 1, 2), s, 2, 2), 2, drafted)
    \/ FailSync

HistorySpec == HistoryInit /\ [][HistoryNext]_historyVars

-----------------------------------------------------------------------------
(* What a decision reads (HistoricalIntelligenceService), as of t.          *)
TeamPayload(team, t) == [rating |-> MapsOf(OfTeam(rating, team), t),
                         form |-> MapsOf(OfTeam(form, team), t)]
PlayerPayload(t) == UNION {r.scored : r \in NewestAsOf(player, t)}
HeroPayload(t) == MapsOf(player, t)
RecentUses(t) == {m \in Matches : \E p \in Providers : Usable(fact[p][m], t)}

UsableBy(t) == {m \in Matches : \E p \in Providers : fact[p][m].usable \in 1..t}
AdvancedBy(t) == {m \in Matches : \E p \in Providers : fact[p][m].advanced \in 1..t}

(* A fact that came late: the cutoff of a sync that has finished lies       *)
(* between the instant it counts from and the one it could be read: its     *)
(* winner was reported later, or a response was stored after it.            *)
Cutoffs == {b.cutoff : b \in built}
CameLate(m) == \E p \in Providers, c \in Cutoffs :
                  fact[p][m].since > c /\ fact[p][m].usable =< c

(* A decision is never told what was not known at its time, whenever it is  *)
(* read and whatever was fetched or built since                             *)
(* (HISTORICAL_DATA_FUTURE_LEAK of gates.py; ARCHITECTURE.md: "knowledge_   *)
(* cutoff <= :decision_at").  A rating that rests on a map that came late    *)
(* is the exception: it is dated by that map and goes on from newer ones.   *)
NoFutureLeak ==
    \A t \in 0..clock :
        /\ \A x \in Teams :
              /\ TeamPayload(x, t).form \subseteq UsableBy(t)
              /\ \/ TeamPayload(x, t).rating \subseteq UsableBy(t)
                 \/ \E m \in TeamPayload(x, t).rating : CameLate(m)
        /\ HeroPayload(t) \cup RecentUses(t) \subseteq UsableBy(t)
        /\ PlayerPayload(t) \subseteq AdvancedBy(t)

(* The chain of ratings: no team is rated twice for a map, though two       *)
(* providers report it; both of its teams are; and the newest rating of a   *)
(* team rests on every map it was rated for, unless one of them came late   *)
(* (build_team_ratings).                                                    *)
ChainHolds ==
    /\ \A r, q \in rating : r.match = q.match /\ r.team = q.team => r = q
    /\ \A m \in Rated(rating) : {r.team : r \in {q \in rating : q.match = m}} = Playing[m]
    /\ \A x \in Teams :
          LET maps == Rated(OfTeam(rating, x)) IN
          (\A m \in maps : ~CameLate(m)) => MapsOf(OfTeam(rating, x), clock) = maps

HistoryIsSound == NoFutureLeak /\ ChainHolds

(* What a sync has built as of its cutoff stays what a decision up to that  *)
(* cutoff reads: a later sync changes nothing for it, the form of a team    *)
(* and its rating apart when a fact of one of its maps came late, its form  *)
(* also when a conflict was found.                                          *)
Settled(t) == \E b \in built : t =< b.cutoff
SettledFor(x, t) == \E b \in built : x \in b.on /\ t =< b.cutoff
MapsWith(x) == {m \in Matches : x \in Playing[m]}
Disturbed(x) == \E m \in MapsWith(x) :
                   \/ CameLate(m)
                   \/ \E p \in Providers : fact[p][m].status = "DATA_CONFLICT"

AsOfStays ==
    \A t \in {u \in 0..clock : Settled(u)} :
        /\ PlayerPayload(t)' = PlayerPayload(t) /\ HeroPayload(t)' = HeroPayload(t)
        /\ \A x \in Teams :
              /\ \/ TeamPayload(x, t).rating' = TeamPayload(x, t).rating
                 \/ \E m \in MapsWith(x) : CameLate(m)'
              /\ SettledFor(x, t) => \/ TeamPayload(x, t).form' = TeamPayload(x, t).form
                                     \/ Disturbed(x)'

AsOfIsStable == [][AsOfStays]_historyVars
=============================================================================
