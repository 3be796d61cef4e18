------------------------------ MODULE Rosters -------------------------------
(* The registry of teams and rosters: when a team of a RayBet event is       *)
(* looked up at OpenDota, and what the answers make of the memberships that  *)
(* the team pages show as roster and roster history.  The worker looks up    *)
(* all teams of a job in one transaction; an administrator may run either    *)
(* command beside it: sync_team_registry does what the worker does,          *)
(* sync_team_rosters takes one team per transaction and reads no profile.    *)
(* The teams here are mapped to OpenDota; how they come to be is in Teams.   *)
EXTENDS Integers, FiniteSets

CONSTANTS
    Clubs,           \* canonical teams
    Players,
    Cycle,           \* TEAM_REGISTRY_REFRESH_SECONDS, in instants
    Listable,        \* when a series of the event may be scheduled to start
    MaxInstant,      \* bound on the clock
    MaxRosterFaults, \* bound on failures
    Current          \* of a membership: no valid_to

ASSUME RosterAssumption ==
    /\ Cycle \in Nat \ {0} /\ MaxInstant \in Nat /\ MaxRosterFaults \in Nat
    /\ Listable \subseteq Nat /\ Current \notin Nat

VARIABLES
    instant,         \* since the event was created; each answer has one of its own
    tournament,      \* the canonical event: is a RayBet tournament mapped to it, the
                     \* clubs of its series, and when they are scheduled
    registryJob,     \* SYNC_TEAM_REGISTRY jobs of the event, by cycle
    disputed,        \* clubs whose maintained Valve id is not that of the mapping
    roster,          \* team_roster_memberships
    lookup,          \* the open transaction of the worker and of a command
    told,            \* a history variable: the answers of the committed transactions
    mixed,           \* another: clubs that two transactions looked up at once
    rosterFaults

lookupVars == <<disputed, roster, lookup, told, mixed>>
rosterVars == <<instant, tournament, registryJob, lookupVars, rosterFaults>>

Lookers == {"worker", "command"}
Instants == 0..MaxInstant

AnswerRow == [team: Clubs, at: Instants, players: SUBSET Players, whole: BOOLEAN]
Membership == [team: Clubs, player: Players, from: Instants, to: Instants \cup {Current},
               by: {"opendota", "hand"}]
NoLookup == [on |-> FALSE, cycle |-> 0, profiles |-> FALSE, todo |-> {}, asked |-> {},
             seen |-> {}, opened |-> {}, closed |-> {}]

RosterInit ==
    /\ instant = 0
    /\ tournament = [bound |-> FALSE, clubs |-> {}, starts |-> {}]
    /\ registryJob = [c \in {} |-> {}]
    /\ disputed \in SUBSET Clubs
    /\ \E byHand \in SUBSET (Clubs \X Players) :
           roster = {[team |-> m[1], player |-> m[2], from |-> 0, to |-> Current, by |-> "hand"]
                        : m \in byHand}
    /\ lookup = [a \in Lookers |-> NoLookup]
    /\ told = {} /\ mixed = {} /\ rosterFaults = 0

-----------------------------------------------------------------------------
(* The event and its refreshes                                              *)

(* Liquipedia schedules a series of the event.                              *)
ListSeries ==
    \E at \in Listable, playing \in SUBSET Clubs :
        /\ Cardinality(playing) \in 1..2
        /\ tournament' = [tournament EXCEPT !.clubs = @ \cup playing, !.starts = @ \cup {at}]
        /\ UNCHANGED <<instant, registryJob, lookupVars, rosterFaults>>

(* _attach_event_mapping: a match of RayBet is linked to one of its series  *)
BindTournament ==
    /\ tournament.starts # {} /\ ~tournament.bound
    /\ tournament' = [tournament EXCEPT !.bound = TRUE]
    /\ UNCHANGED <<instant, registryJob, lookupVars, rosterFaults>>

(* _raybet_event_teams: the start is that of the earliest series            *)
Ahead == \A at \in tournament.starts : at > instant
RayBetClubs == IF tournament.bound THEN tournament.clubs ELSE {}

Discovered == {0 : c \in {x \in RayBetClubs : instant < Cycle}}
Prestart == {instant \div Cycle : c \in {x \in RayBetClubs : instant >= Cycle /\ Ahead}}

(* The job of a cycle is enqueued once, with the clubs of that moment.      *)
Enqueued(due) ==
    [c \in DOMAIN registryJob \cup due |->
        IF c \in DOMAIN registryJob THEN registryJob[c]
        ELSE [clubs |-> RayBetClubs, state |-> "queued"]]

(* schedule_team_registry_refresh, every minute                             *)
ScheduleRefresh ==
    /\ registryJob' = Enqueued(Discovered \cup Prestart)
    /\ UNCHANGED <<instant, tournament, lookupVars, rosterFaults>>

TimePasses ==
    /\ instant < MaxInstant /\ instant' = instant + 1
    /\ UNCHANGED <<tournament, registryJob, lookupVars, rosterFaults>>

-----------------------------------------------------------------------------
(* A lookup.  Its transaction is open from the first club to the last, with *)
(* a request to OpenDota for each.                                          *)

BeginJob(c) ==
    /\ ~lookup["worker"].on /\ registryJob[c].state = "queued"
    /\ registryJob' = [registryJob EXCEPT ![c].state = "running"]
    /\ lookup' = [lookup EXCEPT !["worker"] =
           [NoLookup EXCEPT !.on = TRUE, !.cycle = c, !.profiles = TRUE, !.todo = registryJob[c].clubs]]
    /\ UNCHANGED <<instant, tournament, disputed, roster, told, mixed, rosterFaults>>

Command(profiles, clubs) ==
    /\ ~lookup["command"].on
    /\ lookup' = [lookup EXCEPT !["command"] =
           [NoLookup EXCEPT !.on = TRUE, !.profiles = profiles, !.todo = clubs]]
    /\ UNCHANGED <<instant, tournament, registryJob, disputed, roster, told, mixed, rosterFaults>>

(* sync_team_registry, sync_team_rosters                                    *)
RegistryCommand == Command(TRUE, Clubs)
RosterCommand == \E t \in Clubs : Command(FALSE, {t})

(* populate: whose provider identity is in dispute is passed over           *)
PassOver(a) ==
    /\ lookup[a].on /\ lookup[a].profiles /\ lookup[a].todo \cap disputed # {}
    /\ lookup' = [lookup EXCEPT ![a].todo = @ \ disputed]
    /\ UNCHANGED <<instant, tournament, registryJob, disputed, roster, told, mixed, rosterFaults>>

Touched(a) == {x.team : x \in lookup[a].asked \cup lookup[a].seen}

(* get_team_players.  An answer that names nobody changes nothing.          *)
Answered(a, t, players, whole) ==
    /\ lookup[a].on /\ t \in lookup[a].todo /\ lookup[a].asked = {}
    /\ lookup[a].profiles => t \notin disputed
    /\ instant < MaxInstant /\ instant' = instant + 1
    /\ lookup' = [lookup EXCEPT ![a].todo = @ \ {t}, ![a].asked =
           IF players = {} THEN {}
           ELSE {[team |-> t, at |-> instant + 1, players |-> players, whole |-> whole]}]
    /\ mixed' = mixed \cup {x \in {t} : players # {} /\ \E b \in Lookers \ {a} : t \in Touched(b)}
    /\ UNCHANGED <<tournament, registryJob, disputed, roster, told, rosterFaults>>

(* The memberships are read after the answer came.  Who is missing has left *)
(* only if every row of the answer has an account.                          *)
Entered(answer) ==
    {[team |-> answer.team, player |-> p, from |-> answer.at, to |-> Current, by |-> "opendota"]
        : p \in {q \in answer.players :
               ~\E m \in roster : m.team = answer.team /\ m.player = q /\ m.to = Current}}

Left(answer) ==
    {m \in roster : /\ m.team = answer.team /\ m.to = Current /\ answer.whole
                    /\ m.by = "opendota" /\ m.player \notin answer.players}

SyncTeam(a) ==
    /\ \E answer \in lookup[a].asked :
          lookup' = [lookup EXCEPT ![a].asked = {}, ![a].seen = @ \cup {answer},
              ![a].opened = @ \cup Entered(answer),
              ![a].closed = @ \cup {[row |-> m, at |-> answer.at] : m \in Left(answer)}]
    /\ UNCHANGED <<instant, tournament, registryJob, disputed, roster, told, mixed, rosterFaults>>

(* the check constraint of the table: valid_to >= valid_from                *)
Inverted(a) == \E c \in lookup[a].closed : c.at < c.row.from

(* The rows are updated by their id, whatever they are by now.              *)
Closing(m, c) == c.row = [m EXCEPT !.to = Current]
Closed(m, closed) ==
    IF \E c \in closed : Closing(m, c)
    THEN [m EXCEPT !.to = (CHOOSE c \in closed : Closing(m, c)).at]
    ELSE m

JobEnds(a, state) ==
    registryJob' = IF a = "worker" THEN [registryJob EXCEPT ![lookup[a].cycle].state = state]
                   ELSE registryJob

CommitLookup(a) ==
    /\ lookup[a].on /\ lookup[a].todo = {} /\ lookup[a].asked = {} /\ ~Inverted(a)
    /\ roster' = {Closed(m, lookup[a].closed) : m \in roster} \cup lookup[a].opened
    /\ told' = told \cup lookup[a].seen
    /\ lookup' = [lookup EXCEPT ![a] = NoLookup]
    /\ JobEnds(a, "done")
    /\ UNCHANGED <<instant, tournament, disputed, mixed, rosterFaults>>

(* The request, the transaction or the process fails; the worker's job is   *)
(* retried (JobQueue).                                                      *)
LookupFails(a) ==
    /\ lookup[a].on
    /\ \/ Inverted(a) /\ UNCHANGED rosterFaults
       \/ rosterFaults < MaxRosterFaults /\ rosterFaults' = rosterFaults + 1
    /\ lookup' = [lookup EXCEPT ![a] = NoLookup]
    /\ JobEnds(a, "queued")
    /\ UNCHANGED <<instant, tournament, disputed, roster, told, mixed>>

LookerStep(a) ==
    \/ PassOver(a) \/ SyncTeam(a) \/ CommitLookup(a) \/ LookupFails(a)
    \/ \E t \in Clubs, players \in SUBSET Players, whole \in BOOLEAN :
           Answered(a, t, players, whole)

RosterNext ==
    \/ ListSeries \/ BindTournament \/ ScheduleRefresh \/ TimePasses
    \/ \E c \in DOMAIN registryJob : BeginJob(c)
    \/ RegistryCommand \/ RosterCommand
    \/ \E a \in Lookers : LookerStep(a)

RosterSpec == RosterInit /\ [][RosterNext]_rosterVars

-----------------------------------------------------------------------------
RosterTypeOK ==
    /\ instant \in Instants /\ rosterFaults \in 0..MaxRosterFaults
    /\ tournament \in [bound: BOOLEAN, clubs: SUBSET Clubs, starts: SUBSET Listable]
    /\ \A c \in DOMAIN registryJob :
           c \in Nat /\ registryJob[c] \in [clubs: SUBSET Clubs, state: {"queued", "running", "done"}]
    /\ roster \subseteq Membership /\ told \subseteq AnswerRow
    /\ mixed \subseteq Clubs /\ disputed \subseteq Clubs
    /\ \A a \in Lookers :
           /\ lookup[a].asked \subseteq AnswerRow /\ lookup[a].seen \subseteq AnswerRow
           /\ lookup[a].opened \subseteq Membership
           /\ lookup[a].closed \subseteq [row: Membership, at: Instants]

Covers(m, at) == m.from <= at /\ (m.to = Current \/ at < m.to)

(* The roster history tells who played when (docs/TEAM_ROSTER_REGISTRY.md:  *)
(* "what roster existed at a historical point in time"): at the time of any *)
(* answer that was taken in, each player it names is a member, and if it is *)
(* whole nobody else is, but who was entered by hand; no player is a member *)
(* twice.  A club that a command looked up while the worker did is excepted: *)
(* each of them may enter the same player.                                  *)
HistoryTellsAnswers ==
    /\ \A x \in told : x.team \notin mixed =>
           /\ \A p \in x.players :
                  \E m \in roster : m.team = x.team /\ m.player = p /\ Covers(m, x.at)
           /\ \A m \in roster :
                  x.whole /\ m.team = x.team /\ m.by = "opendota" /\ Covers(m, x.at)
                      => m.player \in x.players
    /\ \A m, n \in roster :
           m # n /\ m.team = n.team /\ m.player = n.player /\ m.team \notin mixed
               => ~Covers(m, n.from)

(* current_roster of the page of a team                                     *)
CurrentRoster(t) == {m.player : m \in {n \in roster : n.team = t /\ n.to = Current}}

(* The page shows what the newest answer said.                              *)
PageTellsNewest ==
    \A x \in told :
        x.team \notin mixed /\ (\A y \in told : y.team = x.team => y.at <= x.at)
            => /\ x.players \subseteq CurrentRoster(x.team)
               /\ x.whole => \A p \in CurrentRoster(x.team) \ x.players :
                      [team |-> x.team, player |-> p, from |-> 0, to |-> Current, by |-> "hand"]
                          \in roster

(* Whoever ran at once: a membership begins with an answer that names the   *)
(* player and ends, later, with a whole one that does not; what was entered *)
(* by hand never ends.                                                      *)
MembershipsHaveReasons ==
    \A m \in roster :
        IF m.by = "hand" THEN m.to = Current
        ELSE /\ \E x \in told : x.team = m.team /\ x.at = m.from /\ m.player \in x.players
             /\ m.to # Current =>
                    /\ m.to > m.from
                    /\ \E x \in told : /\ x.team = m.team /\ x.at = m.to /\ x.whole
                                       /\ m.player \notin x.players

RosterIsTold == RosterTypeOK /\ HistoryTellsAnswers /\ PageTellsNewest /\ MembershipsHaveReasons
=============================================================================
