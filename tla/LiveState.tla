------------------------------ MODULE LiveState ------------------------------
(***************************************************************************)
(* What a decision is shown of the running game, and how old it is.        *)
(*                                                                         *)
(* The socket sends sparse messages: each carries the fields that the      *)
(* broadcaster chose.  LiveCollector reduces them over the newest row of   *)
(* the map; a bootstrap writes a row of its own that holds nothing but     *)
(* what its payload carries.  The newest row is what is shown; how old its *)
(* fields are is read from the raw events.                                 *)
(*                                                                         *)
(* Of the raw events only the newest that refreshes each field is kept; a  *)
(* field has two values that it may leave and take again, unlike the game  *)
(* time, which never goes back.                                            *)
(***************************************************************************)
EXTENDS Integers, FiniteSets

CONSTANTS
    Field,         \* LIVE_BASIC_REQUIRED_FIELDS
    LiveMaxAge,        \* live_max_age_seconds, in units of the clock
    MaxLiveClock       \* bound on the clock

ASSUME LiveStateAssumption == LiveMaxAge \in Nat /\ MaxLiveClock \in Nat

VARIABLES
    clock,         \* the clock; each value of a field lives at least one unit
    game,          \* the true value of each field
    lastTrue,      \* per field and value, when it was last true
    row,           \* the newest dltv_live_observations row of the map
    carriedAt,     \* per field, the newest raw event that proves it
    messageAt,     \* the newest message of the socket
    bootstrapped   \* the answer whose transaction is open

liveVars == <<clock, game, lastTrue, row, carriedAt, messageAt, bootstrapped>>

Value == {0, 1}
Null == -1
Never == 0
NoObservation == [at |-> Never, values |-> [f \in Field |-> Null]]
NoBootstrap == [at |-> Never, values |-> [f \in {} |-> Null]]

LiveInit ==
    /\ clock = 1
    /\ game = [f \in Field |-> 0]
    /\ lastTrue = [f \in Field |-> [v \in Value |-> IF v = 0 THEN 1 ELSE Never]]
    /\ row = NoObservation
    /\ carriedAt = [f \in Field |-> Never]
    /\ messageAt = Never
    /\ bootstrapped = NoBootstrap

(* Time passes, and the game goes on.                                       *)
GameTick ==
    /\ clock < MaxLiveClock
    /\ clock' = clock + 1
    /\ \E turned \in SUBSET Field :
          game' = [f \in Field |-> IF f \in turned THEN 1 - game[f] ELSE game[f]]
    /\ lastTrue' = [f \in Field |-> [lastTrue[f] EXCEPT ![game'[f]] = clock']]
    /\ UNCHANGED <<row, carriedAt, messageAt, bootstrapped>>

(* parse_fast_patch: a payload carries some of the fields, and may say of   *)
(* one that it is null.                                                     *)
Patches ==
    {[f \in carried |-> IF f \in cleared THEN Null ELSE game[f]] :
        carried \in SUBSET Field, cleared \in {{}} \cup {{f} : f \in Field}}

(* reduce_fast_state                                                        *)
Reduced(values, patch) ==
    [f \in Field |-> IF f \in DOMAIN patch THEN patch[f] ELSE values[f]]

(* The raw events that load_live_basic_field_freshness goes through: a      *)
(* field is proved by what carries a value of it.                           *)
Proves(patch) == {f \in DOMAIN patch : patch[f] # Null}
Proved(patch, at) ==
    [f \in Field |-> IF f \in Proves(patch) /\ at > carriedAt[f] THEN at ELSE carriedAt[f]]

-----------------------------------------------------------------------------
(* LiveCollector: before the map is known a message leaves its raw event,   *)
(* which nothing marks as a duplicate; afterwards it is a duplicate when it *)
(* changes nothing, and then proves no field.  A row of the same instant is *)
(* overtaken.                                                               *)
ReduceMessage(patch) ==
    LET values == Reduced(row.values, patch)
        changed == DOMAIN patch # {} /\ (row = NoObservation \/ values # row.values)
    IN  /\ messageAt' = clock
        /\ IF changed \/ row = NoObservation
           THEN carriedAt' = Proved(patch, clock)
           ELSE UNCHANGED carriedAt
        /\ \/ row = NoObservation /\ UNCHANGED row
           \/ row' = IF changed THEN [at |-> clock, values |-> values] ELSE row
        /\ UNCHANGED <<clock, game, lastTrue, bootstrapped>>

(* DltvBootstrapCoordinator.bootstrap: the answer is received ...           *)
Answer(patch) ==
    /\ bootstrapped = NoBootstrap
    /\ bootstrapped' = [at |-> clock, values |-> patch]
    /\ UNCHANGED <<clock, game, lastTrue, row, carriedAt, messageAt>>

(* ... and committed: _append_bootstrap_fast_state adds a row unless the    *)
(* newest one says the same.  The row is the newest unless a message was    *)
(* received since.                                                          *)
BootstrapCommits ==
    LET values == Reduced(NoObservation.values, bootstrapped.values)
    IN  /\ bootstrapped # NoBootstrap
        /\ bootstrapped' = NoBootstrap
        /\ carriedAt' = Proved(bootstrapped.values, bootstrapped.at)
        /\ row' = IF /\ DOMAIN bootstrapped.values # {} /\ values # row.values
                     /\ bootstrapped.at >= row.at
                  THEN [at |-> bootstrapped.at, values |-> values] ELSE row
        /\ UNCHANGED <<clock, game, lastTrue, messageAt>>

(* The stages of the bootstrap's worker fail: the transaction is lost.      *)
BootstrapFails ==
    /\ bootstrapped # NoBootstrap
    /\ bootstrapped' = NoBootstrap
    /\ UNCHANGED <<clock, game, lastTrue, row, carriedAt, messageAt>>

LiveNext ==
    \/ GameTick \/ BootstrapCommits \/ BootstrapFails
    \/ \E patch \in Patches : ReduceMessage(patch) \/ Answer(patch)

LiveSpec == LiveInit /\ [][LiveNext]_liveVars

-----------------------------------------------------------------------------
(* load_live_basic_field_freshness: the age of each field, among the raw    *)
(* events of the window; _load_live: the age of the last message.           *)
Age(at) == clock - at
SlipStreamIsFresh == {f \in Field : messageAt # Never /\ Age(messageAt) <= LiveMaxAge}
FreshFields == {f \in Field : carriedAt[f] # Never /\ Age(carriedAt[f]) <= LiveMaxAge}

(* _load_live finds the row complete.                                       *)
LiveComplete == row # NoObservation /\ \A f \in Field : row.values[f] # Null

(* evaluate_gate: LIVE_BASIC for a synchronised map with a complete draft.  *)
LiveBasic ==
    /\ LiveComplete
    /\ FreshFields = Field
    /\ messageAt # Never => Age(messageAt) <= LiveMaxAge

(* A bootstrap is archived with the time of its answer: while the answer is *)
(* processed the newest row can be a message's.  What follows needs that    *)
(* none comes in between.                                                   *)
QuietBootstrap == bootstrapped # NoBootstrap => messageAt' = messageAt

(* "A newer sparse socket packet only refreshes the fields it actually      *)
(* carries": in a LIVE_BASIC snapshot everything shown was true within the  *)
(* last LiveMaxAge, although the shown row carries old values on, a         *)
(* bootstrap drops those it does not name, and repeats are not counted.     *)
LiveIsFresh ==
    LiveBasic => \A f \in Field : Age(lastTrue[f][row.values[f]]) <= LiveMaxAge
=============================================================================
