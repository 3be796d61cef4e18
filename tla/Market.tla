------------------------------- MODULE Market --------------------------------
(* How the prices of one RayBet match reach the database (app/market).  The *)
(* socket publishes changes only; an HTTP answer tells what each odds id is *)
(* (the registry) and its price at that moment.   A change of an unknown id, *)
(* a match seen for the first time and a new connection each ask, once per  *)
(* deduplication key, for a refresh, which the one worker of that job type  *)
(* runs.  The clock moves with every connection and every message received, *)
(* so that the times of reception differ.                                   *)
EXTENDS Naturals, Sequences, FiniteSets

CONSTANTS
    Odds,              \* the odds ids RayBet may open for the match
    Price,             \* the price RayBet gives at each of its own times
    SignificantMove,   \* settings.significant_odds_move
    MinuteLen, HourLen,
    MaxClock

Versions == DOMAIN Price      \* provider_updated_at of a price, in order

ASSUME MarketAssumption ==
    /\ Versions = 1..Len(Price)
    /\ MinuteLen \in Nat \ {0} /\ HourLen \in Nat \ {0} /\ MaxClock \in Nat

VARIABLES
    clock,       \* time of the last connection or reception
    offer,       \* per odds id: the version RayBet shows, 0 = not opened
    link,        \* "down", "subscribed" (handshake done) or "up" (CONNECTED)
    wire,        \* changes published on the socket and not yet handled
    linked,      \* is the match mapped to a series of the last hours?
    held,        \* ... was it, when the socket connected last?
    registered,  \* the odds ids the registry knows
    rows,        \* OddsObservationRecord
    asked,       \* deduplication keys of the refreshes asked for
    pending,     \* those whose job is not done
    answer,      \* the HTTP request under way
    builds       \* deduplication keys of the snapshots asked for

marketVars == <<clock, offer, link, wire, linked, held, registered, rows, asked, pending, answer, builds>>

NoAnswer == [job |-> <<>>, offer |-> <<>>, at |-> 0]

MarketInit ==
    /\ clock = 1 /\ offer = [o \in Odds |-> 0]
    /\ link = "down" /\ wire = <<>> /\ linked = FALSE /\ held = FALSE
    /\ registered = {} /\ rows = {}
    /\ asked = {} /\ pending = {} /\ answer = NoAnswer /\ builds = {}

Minute(t) == t \div MinuteLen
Hour(t) == t \div HourLen

(* The job of a key that was used before is not made again, done or not.    *)
Ask(key) ==
    /\ asked' = asked \cup {key}
    /\ pending' = IF key \in asked THEN pending ELSE pending \cup {key}

-----------------------------------------------------------------------------
(* What RayBet and the network do.                                          *)

(* RayBet opens an odds id or changes its price.                            *)
Publish(o) ==
    /\ offer[o] + 1 \in Versions
    /\ offer' = [offer EXCEPT ![o] = @ + 1]
    /\ wire' = IF link = "down" THEN wire
               ELSE Append(wire, [odds |-> o, version |-> offer[o] + 1])
    /\ UNCHANGED <<clock, link, linked, held, registered, rows, asked, pending, answer, builds>>

Handshake ==
    /\ link = "down" /\ link' = "subscribed"
    /\ UNCHANGED <<clock, offer, wire, linked, held, registered, rows, asked, pending, answer, builds>>

(* The connection breaks, or brings no business message for too long: what  *)
(* was on its way is gone.                                                  *)
Disconnect ==
    /\ link # "down" /\ link' = "down" /\ wire' = <<>>
    /\ UNCHANGED <<clock, offer, linked, held, registered, rows, asked, pending, answer, builds>>

-----------------------------------------------------------------------------
(* RayBetDiscoveryService.discover_once: the match is recorded and, as soon *)
(* as the linker knows its series, linked.                                  *)
Discover ==
    /\ Ask(<<"raybet-match">>)
    /\ linked' \in {linked, TRUE}
    /\ UNCHANGED <<clock, offer, link, wire, held, registered, rows, answer, builds>>

SlipOneKey(t) == <<"raybet-socket-recovery">>
RecoveryKey(t) == <<"raybet-socket-recovery", Minute(t)>>

(* raybet_state("CONNECTED"), before any message of the connection is       *)
(* handled: the matches of the last twelve hours are refreshed.             *)
Connected ==
    /\ link = "subscribed" /\ clock < MaxClock
    /\ link' = "up" /\ clock' = clock + 1
    /\ held' = linked
    /\ IF linked THEN Ask(RecoveryKey(clock'))
       ELSE UNCHANGED <<asked, pending>>
    /\ UNCHANGED <<offer, wire, linked, registered, rows, answer, builds>>

-----------------------------------------------------------------------------
(* RayBetOddsCollector._collect_deltas                                      *)

RowsOf(o) == {r \in rows : r.odds = o}
Previous(o) == CHOOSE r \in RowsOf(o) : \A s \in RowsOf(o) : s.at <= r.at
Apart(p, q) == IF p > q THEN p - q ELSE q - p

(* The row a change writes, none when the newest one says the same.         *)
NewRows(o, version, at) ==
    IF RowsOf(o) # {} /\ Previous(o).version = version THEN {}
    ELSE {[odds |-> o, version |-> version, at |-> at]}

(* The snapshot a significant move asks for, once per provider time.        *)
NewBuilds(o, version) ==
    IF RowsOf(o) # {} /\ linked /\ Previous(o).version # version
         /\ Apart(Price[version], Price[Previous(o).version]) >= SignificantMove
    THEN {<<"odds-move", o, version>>} ELSE {}

(* collect: one message of the socket.                                      *)
Receive ==
    LET delta == Head(wire)
        o == delta.odds
    IN  /\ link = "up" /\ wire # <<>> /\ clock < MaxClock
        /\ clock' = clock + 1 /\ wire' = Tail(wire)
        /\ IF o \notin registered
           THEN /\ Ask(<<"unknown-odds", Hour(clock')>>)
                /\ UNCHANGED <<rows, builds>>
           ELSE /\ rows' = rows \cup NewRows(o, delta.version, clock')
                /\ builds' = builds \cup NewBuilds(o, delta.version)
                /\ UNCHANGED <<asked, pending>>
        /\ UNCHANGED <<offer, link, linked, held, registered, answer>>

-----------------------------------------------------------------------------
(* refresh_odds_registry, RayBetRegistryRefreshService.refresh              *)

Request(key) ==
    /\ key \in pending /\ answer = NoAnswer
    /\ answer' = [job |-> key, offer |-> offer, at |-> 0]
    /\ UNCHANGED <<clock, offer, link, wire, linked, held, registered, rows, asked, pending, builds>>

(* Both transports fail, or the process stops: the job runs again.          *)
RequestFails ==
    /\ answer # NoAnswer /\ answer' = NoAnswer
    /\ UNCHANGED <<clock, offer, link, wire, linked, held, registered, rows, asked, pending, builds>>

AnswerArrives ==
    /\ answer # NoAnswer /\ answer.at = 0 /\ clock < MaxClock
    /\ clock' = clock + 1 /\ answer' = [answer EXCEPT !.at = clock + 1]
    /\ UNCHANGED <<offer, link, wire, linked, held, registered, rows, asked, pending, builds>>

(* The transaction commits: registry and prices carry the time the answer   *)
(* was received, whatever was received since.  (The snapshot it asks for    *)
(* has a key of its own every time; one key stands for all here.)           *)
Refresh ==
    LET opened == {o \in Odds : answer.offer[o] > 0}
    IN  /\ answer # NoAnswer /\ answer.at > 0
        /\ registered' = registered \cup opened
        /\ rows' = rows \cup
               UNION {NewRows(o, answer.offer[o], answer.at) : o \in opened}
        /\ builds' = builds
               \cup UNION {NewBuilds(o, answer.offer[o]) : o \in opened}
               \cup (IF linked THEN {<<"MARKET_BOOTSTRAP">>} ELSE {})
        /\ pending' = pending \ {answer.job} /\ answer' = NoAnswer
        /\ UNCHANGED <<clock, offer, link, wire, linked, held, asked>>

MarketNext ==
    \/ \E o \in Odds : Publish(o)
    \/ Handshake \/ Disconnect \/ Discover \/ Connected \/ Receive
    \/ \E key \in pending : Request(key)
    \/ RequestFails \/ AnswerArrives \/ Refresh

MarketSpec == MarketInit /\ [][MarketNext]_marketVars

-----------------------------------------------------------------------------
(* What the recovery rests on.  No two connections within one minute: the   *)
(* second one asks for nothing.                                             *)
FewConnects ==
    link # "up" /\ link' = "up" => <<"raybet-socket-recovery", Minute(clock')>> \notin asked

(* The price of an odds id stands still while the request that learns it is *)
(* under way: its changes are dropped as unknown, the answer is older.      *)
QuietLearning ==
    \A o \in Odds : answer # NoAnswer /\ o \notin registered /\ answer.offer[o] > 0 =>
        offer'[o] = offer[o]

(* SocketCluster publishes changes only, so what is missed while the        *)
(* connection is away must come from HTTP: whenever the socket is connected *)
(* and nothing is on its way any more, the price RayBet shows of every odds *)
(* id that was learned has been recorded (registry_recovery.py, _collect_   *)
(* deltas).                                                                 *)
NothingUnderWay == link = "up" /\ wire = <<>> /\ pending = {}

NoPriceMissed ==
    NothingUnderWay /\ held =>
        \A o \in registered : \E r \in RowsOf(o) : r.version = offer[o]
=============================================================================
