-------------------------- MODULE ObservedProofs ---------------------------
(***************************************************************************)
(* Proofs about MCObserved.tla and the modules it puts together, for all    *)
(* values of their constants: LiveCheckpoints, for every schedule of        *)
(* checkpoints that ScheduleAssumption allows, every horizon and any number *)
(* of faults; Market, for any odds ids, prices and number of connections;   *)
(* Teams, for any two teams; Rosters, for any clubs, players and number of  *)
(* faults; and Series, for any meetings that are further apart than the     *)
(* window of start times and any number of games.                           *)
(***************************************************************************)
EXTENDS MCObserved, TLAPS, FiniteSetTheorems, WellFoundedInduction
(* What keeps a checkpoint that was heard and is not recorded within reach   *)
(* of the next sweep: the anchor can be read, the observation is of this     *)
(* tick or, before the pass of this tick, of the last one, and the pass      *)
(* still to come is inside the grace.                                        *)
WithinReach(m) ==
    /\ AnchorKnown /\ m <= now
    /\ swept  => obs.at = now /\ now + 1 < m + Grace
    /\ ~swept => now <= obs.at + 1 /\ now < m + Grace

Covered == \A m \in heard : Due(m) \in recorded \/ WithinReach(m)

CheckpointInv == TypeOK /\ StartIsRecorded /\ Covered

-----------------------------------------------------------------------------
(* The game time of a patch and the one it leaves in the state.              *)
LEMMA MergedType ==
    ASSUME TypeOK, NEW patch \in Patch
    PROVE  Merged(patch) \in GameTime
  <1>1. obs.game \in GameTime
    BY DEF TypeOK
  <1>2. patch \in GameTime \/ patch = Absent
    BY DEF Patch
  <1>3. \A t \in GameTime : t > Absent
    BY CheckpointAssumption DEF GameTime, NoTime, Absent, Time
  <1> QED
    BY <1>1, <1>2, <1>3 DEF Merged, Absent, GameTime, NoTime, Time

(* A crossing is one of the schedule, and on real time it is in the past.    *)
LEMMA CrossedSome ==
    ASSUME NEW before, NEW current
    PROVE  Crossed(before, current) \subseteq { m \in Minutes : m <= current }
  BY DEF Crossed, Latest

(* A sweep looks at minutes that have passed and at no other.               *)
LEMMA SweepSome == Sweep \subseteq { m \in Minutes : m <= now }
  BY DEF Sweep, Overdue, Latest

(* The type invariant.                                                       *)
LEMMA TypeStep ==
    ASSUME TypeOK, [Next]_vars
    PROVE  TypeOK'
  <1> USE CheckpointAssumption
  <1>t. /\ \A ms \in SUBSET Minutes : { Due(m) : m \in ms } \subseteq Events
        /\ Started \in Events /\ Found \in Events /\ Regained \in Events
    BY DEF Events, Checkpoints, Discoveries
  <1>1. CASE Tick
    <2>1. now' \in Time
      BY <1>1 DEF TypeOK, Tick, Time
    <2>3. swept' \in BOOLEAN
      BY <1>1 DEF Tick
    <2>2. UNCHANGED << obs, bootstrap, booted, lastReal, anchored, recorded, heard, faults >>
      BY <1>1 DEF Tick, collector, provider
    <2> QED
      BY <2>1, <2>2, <2>3 DEF TypeOK
  <1>2. CASE UnknownMap \/ Repeat \/ Restart
    <2>1. recorded' \subseteq Events
      BY <1>2, <1>t DEF TypeOK, UnknownMap, Repeat, Restart, Record
    <2>2. UNCHANGED << now, obs, bootstrap, booted, heard, swept >>
      BY <1>2 DEF UnknownMap, Repeat, Restart, provider
    <2>3. faults' \in 0 .. MaxFaults
      BY <1>2 DEF TypeOK, UnknownMap, Repeat, Restart, Fault
    <2>4. lastReal' \in GameTime /\ anchored' \in BOOLEAN
      BY <1>2 DEF TypeOK, UnknownMap, Repeat, Restart, collector, GameTime
    <2> QED
      BY <2>1, <2>2, <2>3, <2>4 DEF TypeOK
  <1>3. ASSUME NEW patch \in Patch, NEW again \in BOOLEAN, Message(patch, again)
        PROVE  TypeOK'
    <2>1. obs' \in [ game : GameTime, at : { -1 } \cup Time ]
      BY <1>3, MergedType DEF TypeOK, Message
    <2>2. recorded' \subseteq Events
      <3>1. CrossedBy(patch) \subseteq Minutes
        BY CrossedSome DEF CrossedBy
      <3> QED
        BY <1>3, <1>t, <3>1 DEF TypeOK, Message, Record, StartsWith, Reconnects
    <2>3. lastReal' \in GameTime /\ anchored' \in BOOLEAN
      BY <1>3 DEF TypeOK, Message, Remember, OnRealTime, AnchorKnown, GameTime
    <2>4. heard' \subseteq Minutes
      BY <1>3 DEF TypeOK, Message, Heard
    <2>5. UNCHANGED << now, bootstrap, booted, swept, faults >>
      BY <1>3 DEF Message, provider
    <2> QED
      BY <2>1, <2>2, <2>3, <2>4, <2>5 DEF TypeOK
  <1>4. ASSUME LostMessage PROVE TypeOK'
    <2>1. lastReal' \in GameTime /\ anchored' \in BOOLEAN
      BY <1>4 DEF TypeOK, LostMessage, Remember, OnRealTime, AnchorKnown, GameTime
    <2>2. faults' \in 0 .. MaxFaults
      BY <1>4 DEF TypeOK, LostMessage, Fault
    <2>3. UNCHANGED << now, obs, bootstrap, booted, recorded, heard, swept >>
      BY <1>4 DEF LostMessage, provider
    <2> QED
      BY <2>1, <2>2, <2>3 DEF TypeOK
  <1>5. ASSUME NEW e \in Discoveries, NEW kind \in { "blank", "anchor" },
               NEW patch \in GameTime, NEW fresh \in BOOLEAN,
               Bootstrap(e, kind, patch, fresh)
        PROVE  TypeOK'
    <2>1. obs' \in [ game : GameTime, at : { -1 } \cup Time ]
      BY <1>5 DEF TypeOK, Bootstrap, Appended
    <2>2. recorded' \subseteq Events
      BY <1>5, <1>t DEF TypeOK, Bootstrap, Appended, Record
    <2>3. heard' \subseteq Minutes
      BY <1>5 DEF TypeOK, Bootstrap, Appended
    <2>4. booted' \subseteq Discoveries /\ bootstrap' \in { "none", "blank", "anchor" }
      BY <1>5 DEF TypeOK, Bootstrap, Appended
    <2>5. UNCHANGED << now, lastReal, anchored, swept, faults >>
      BY <1>5 DEF Bootstrap, Appended, collector
    <2> QED
      BY <2>1, <2>2, <2>3, <2>4, <2>5 DEF TypeOK
  <1>6. CASE Reconcile
    <2>1. recorded' \subseteq Events
      BY <1>6, <1>t, SweepSome DEF TypeOK, Reconcile, Record, MissingStart
    <2>2. swept' \in BOOLEAN
      BY <1>6 DEF Reconcile
    <2>3. UNCHANGED << now, obs, bootstrap, booted, lastReal, anchored, heard, faults >>
      BY <1>6 DEF Reconcile, provider, collector
    <2> QED
      BY <2>1, <2>2, <2>3 DEF TypeOK
  <1>7. CASE ReconcileFails
    <2>1. faults' \in 0 .. MaxFaults
      BY <1>7 DEF TypeOK, ReconcileFails, Fault
    <2>2. heard' \subseteq Minutes /\ swept' \in BOOLEAN
      BY <1>7 DEF TypeOK, ReconcileFails
    <2>3. UNCHANGED << now, obs, bootstrap, booted, lastReal, anchored, recorded >>
      BY <1>7 DEF ReconcileFails, provider, collector
    <2> QED
      BY <2>1, <2>2, <2>3 DEF TypeOK
  <1>8. CASE UNCHANGED vars
    BY <1>8 DEF TypeOK, vars
  <1> QED
    BY <1>1, <1>2, <1>3, <1>4, <1>5, <1>6, <1>7, <1>8 DEF Next

(* Both writers of an observation with a positive clock log MAP_STARTED, and *)
(* no event is ever taken back.                                              *)
LEMMA StartStep ==
    ASSUME TypeOK, StartIsRecorded, [Next]_vars
    PROVE  StartIsRecorded'
  <1>1. ASSUME recorded \subseteq recorded', UNCHANGED obs
        PROVE  StartIsRecorded'
    BY <1>1 DEF StartIsRecorded
  <1>2. CASE Tick \/ UnknownMap \/ Repeat \/ Restart \/ Reconcile \/ ReconcileFails
                 \/ UNCHANGED vars
    BY <1>1, <1>2 DEF Tick, UnknownMap, Repeat, Restart, Reconcile, ReconcileFails, Record, vars
  <1>3. ASSUME NEW patch \in Patch, NEW again \in BOOLEAN, Message(patch, again)
        PROVE  StartIsRecorded'
    <2>1. obs.game \in GameTime /\ Merged(patch) \in GameTime
      BY MergedType DEF TypeOK
    <2>2. recorded' = recorded \cup (StartsWith(patch) \cup Reconnects(again)
                                       \cup { Due(m) : m \in CrossedBy(patch) })
      BY <1>3 DEF Message, Record
    <2>3. CASE obs.game <= 0 /\ Merged(patch) > 0
      BY <2>2, <2>3 DEF StartsWith, StartIsRecorded
    <2>4. CASE ~(obs.game <= 0) \/ ~(Merged(patch) > 0)
      <3>1. obs'.game = Merged(patch)
        BY <1>3 DEF Message
      <3>2. obs'.game > 0 => obs.game > 0
        BY <2>1, <2>4, <3>1 DEF GameTime, Time, NoTime
      <3> QED
        BY <2>2, <3>2 DEF StartIsRecorded
    <2> QED
      BY <2>3, <2>4
  <1>4. ASSUME LostMessage PROVE StartIsRecorded'
    BY <1>1, <1>4 DEF LostMessage
  <1>5. ASSUME NEW e \in Discoveries, NEW kind \in { "blank", "anchor" },
               NEW patch \in GameTime, NEW fresh \in BOOLEAN,
               Bootstrap(e, kind, patch, fresh)
        PROVE  StartIsRecorded'
    <2>1. recorded' = recorded \cup (IF patch > 0 THEN { Started } ELSE {})
      BY <1>5 DEF Bootstrap, Appended, Record
    <2>2. obs' = obs \/ obs'.game = patch
      BY <1>5 DEF Bootstrap, Appended
    <2> QED
      BY <2>1, <2>2 DEF StartIsRecorded
  <1> QED
    BY <1>2, <1>3, <1>4, <1>5 DEF Next

-----------------------------------------------------------------------------
(* A committed pass records every checkpoint within its reach: at most one   *)
(* is overdue at a time, so the rule that a first sweep fires only the last  *)
(* one loses nothing.                                                        *)
LEMMA SweepReaches ==
    ASSUME TypeOK, NEW m \in Minutes, WithinReach(m), Due(m) \notin recorded
    PROVE  m \in Sweep
  <1> USE CheckpointAssumption, ScheduleAssumption
  <1>1. now \in Nat /\ m \in Nat /\ obs.at \in Int /\ swept \in BOOLEAN /\ m >= 1
    BY DEF TypeOK, Time
  <1>2. m <= now /\ now < m + Grace /\ now <= obs.at + 1
    BY <1>1 DEF WithinReach
  <1>3. Live
    <2>1. obs.at # -1
      BY <1>1, <1>2
    <2> QED
      BY <1>1, <1>2, <2>1 DEF Live, NoObs
  <1>4. m \in Overdue
    BY <1>1, <1>2 DEF Overdue
  <1>5. ASSUME NEW n \in Overdue PROVE n <= m
    <2>1. n \in Minutes /\ n <= now /\ n \in Int
      BY DEF Overdue
    <2>2. m < n => m + Grace <= n
      BY <2>1
    <2> QED
      BY <1>1, <1>2, <2>1, <2>2
  <1>6. m \in Latest(Overdue)
    BY <1>4, <1>5 DEF Latest
  <1>7. AnchorKnown
    BY DEF WithinReach
  <1> QED
    BY <1>3, <1>4, <1>6, <1>7 DEF Sweep

(* Every step keeps each minute that was heard of recorded, or within reach *)
(* of the sweep.                                                            *)
LEMMA CoveredStep ==
    ASSUME TypeOK, Covered, [Next]_vars
    PROVE  Covered'
  <1> USE CheckpointAssumption, ScheduleAssumption
  <1>t. now \in Nat /\ obs.at \in Int /\ swept \in BOOLEAN /\ heard \subseteq Minutes
        /\ Minutes \subseteq Nat
    BY DEF TypeOK, Time
  <1>1. ASSUME UNCHANGED << now, obs, bootstrap, swept >>, recorded \subseteq recorded',
               heard' \subseteq heard
        PROVE  Covered'
    BY <1>1 DEF Covered, WithinReach, AnchorKnown
  <1>2. CASE UnknownMap \/ Repeat \/ Restart \/ UNCHANGED vars
    BY <1>1, <1>2 DEF UnknownMap, Repeat, Restart, Record, provider, vars
  <1>3. CASE Tick
    <2> SUFFICES ASSUME NEW m \in heard, Due(m) \notin recorded
                 PROVE  WithinReach(m)'
      BY <1>3 DEF Covered, Tick
    <2>1. WithinReach(m) /\ swept
      BY <1>3 DEF Covered, Tick
    <2>2. now' = now + 1 /\ ~swept' /\ obs' = obs /\ bootstrap' = bootstrap
      BY <1>3 DEF Tick, provider
    <2>3. m \in Nat
      BY <1>t
    <2> QED
      BY <1>t, <2>1, <2>2, <2>3 DEF WithinReach, AnchorKnown
  <1>4. ASSUME NEW patch \in Patch, NEW again \in BOOLEAN, Message(patch, again)
        PROVE  Covered'
    <2>1. UNCHANGED << now, bootstrap, swept >> /\ obs'.at = now
      BY <1>4 DEF Message, provider
    <2>2. recorded \subseteq recorded' /\ heard' = heard \cup Heard
      BY <1>4 DEF Message, Record
    <2>3. ASSUME NEW m \in heard, Due(m) \notin recorded PROVE WithinReach(m)'
      <3>1. WithinReach(m) /\ m \in Nat
        BY <1>t, <2>3 DEF Covered
      <3> QED
        BY <1>t, <2>1, <3>1 DEF WithinReach, AnchorKnown
    <2>4. ASSUME NEW m \in Heard PROVE WithinReach(m)'
      <3>1. AnchorKnown /\ m \in Nat /\ m <= now /\ now + 1 < m + Grace
        BY <1>t DEF Heard
      <3> QED
        BY <1>t, <2>1, <3>1 DEF WithinReach, AnchorKnown
    <2> QED
      BY <2>2, <2>3, <2>4 DEF Covered
  <1>5. ASSUME LostMessage PROVE Covered'
    BY <1>1, <1>5 DEF LostMessage, provider
  <1>6. ASSUME NEW e \in Discoveries, NEW kind \in { "blank", "anchor" },
               NEW patch \in GameTime, NEW fresh \in BOOLEAN,
               Bootstrap(e, kind, patch, fresh)
        PROVE  Covered'
    <2>1. UNCHANGED << now, swept >> /\ recorded \subseteq recorded' /\ bootstrap' = kind
      BY <1>6 DEF Bootstrap, Appended, Record
    <2>2. CASE kind = "anchor"
      <3>1. heard' = heard /\ (obs' = obs \/ obs'.at = now)
        BY <1>6, <2>2 DEF Bootstrap, Appended
      <3>2. ASSUME NEW m \in heard, Due(m) \notin recorded PROVE WithinReach(m)'
        <4>1. WithinReach(m) /\ m \in Nat
          BY <1>t, <3>2 DEF Covered
        <4> QED
          BY <1>t, <2>1, <2>2, <3>1, <4>1 DEF WithinReach, AnchorKnown
      <3> QED
        BY <2>1, <3>1, <3>2 DEF Covered
    <2>3. CASE kind # "anchor"
      BY <1>6, <2>1, <2>3 DEF Bootstrap, Appended, Covered
    <2> QED
      BY <2>2, <2>3
  <1>7. CASE Reconcile
    <2>1. heard' = heard
          /\ recorded' = recorded \cup (MissingStart \cup { Due(m) : m \in Sweep })
      BY <1>7 DEF Reconcile, Record
    <2>2. ASSUME NEW m \in heard PROVE Due(m) \in recorded'
      <3>1. Due(m) \in recorded \/ m \in Sweep
        BY <1>t, SweepReaches DEF Covered
      <3> QED
        BY <2>1, <3>1
    <2> QED
      BY <2>1, <2>2 DEF Covered
  <1>8. CASE ReconcileFails
    BY <1>8 DEF ReconcileFails, Covered
  <1> QED
    BY <1>2, <1>3, <1>4, <1>5, <1>6, <1>7, <1>8 DEF Next

-----------------------------------------------------------------------------
(* The invariant holds from the first state on.                              *)
THEOREM CheckpointInvariance == Spec => []CheckpointInv
  <1>1. Init => CheckpointInv
    <2> SUFFICES ASSUME Init PROVE CheckpointInv
      OBVIOUS
    <2>1. TypeOK
      <3>1. now \in Time /\ faults \in 0 .. MaxFaults
        BY CheckpointAssumption DEF Init, Time
      <3>2. obs \in [ game : GameTime, at : { -1 } \cup Time ] /\ lastReal \in GameTime
        BY DEF Init, NoObs, GameTime
      <3>3. /\ bootstrap \in { "none", "blank", "anchor" } /\ booted \subseteq Discoveries
            /\ recorded \subseteq Events /\ heard \subseteq Minutes
        BY DEF Init
      <3>4. anchored \in BOOLEAN /\ swept \in BOOLEAN
        BY DEF Init
      <3> QED
        BY <3>1, <3>2, <3>3, <3>4 DEF TypeOK
    <2>2. StartIsRecorded /\ Covered
      BY DEF Init, StartIsRecorded, Covered, NoObs, NoTime
    <2> QED
      BY <2>1, <2>2 DEF CheckpointInv
  <1>2. CheckpointInv /\ [Next]_vars => CheckpointInv'
    BY TypeStep, StartStep, CoveredStep DEF CheckpointInv
  <1> QED
    BY <1>1, <1>2, PTL DEF Spec

(* The clock, the collector's memory and the log keep their types.           *)
THEOREM CheckpointTypes == Spec => []TypeOK
  <1>1. CheckpointInv => TypeOK
    BY DEF CheckpointInv
  <1> QED
    BY <1>1, CheckpointInvariance, PTL

(* A checkpoint the stream was heard for in time is recorded before its      *)
(* grace has run out, through lost commits and restarts of the collector.    *)
THEOREM CheckpointsKept == Spec => []NoCheckpointSkipped
  <1>1. CheckpointInv => NoCheckpointSkipped
    <2> SUFFICES ASSUME CheckpointInv, NEW m \in heard, Due(m) \notin recorded
                 PROVE  now < m + Grace
      BY DEF NoCheckpointSkipped
    <2>1. WithinReach(m)
      BY DEF CheckpointInv, Covered
    <2>2. now \in Nat /\ m \in Nat /\ Grace \in Nat /\ swept \in BOOLEAN
      BY CheckpointAssumption, ScheduleAssumption DEF CheckpointInv, TypeOK, Time
    <2> QED
      BY <2>1, <2>2 DEF WithinReach
  <1> QED
    BY <1>1, CheckpointInvariance, PTL

(* MAP_STARTED is in the log whenever the newest observation has a positive  *)
(* clock, whichever of the two writers wrote it.                             *)
THEOREM StartKept == Spec => []StartIsRecorded
  <1>1. CheckpointInv => StartIsRecorded
    BY DEF CheckpointInv
  <1> QED
    BY <1>1, CheckpointInvariance, PTL

(* On real time no checkpoint is recorded before its minute.                 *)
NotEarly == OnRealTime => \A m \in Minutes : Due(m) \in recorded' \ recorded => m <= now

(* Once the map is measured on real time, neither the collector nor the     *)
(* sweep records a checkpoint before its real minute.                       *)
THEOREM RealTimeHolds == Spec => NeverEarlyOnRealTime
  <1>d. /\ \A m, n \in Minutes : Due(m) = Due(n) => m = n
        /\ \A m \in Minutes : Due(m) \notin { Started, Found, Regained }
    BY DEF Due, Started, Found, Regained
  <1>1. ASSUME [Next]_vars PROVE NotEarly
    <2> SUFFICES ASSUME OnRealTime, NEW m \in Minutes, Due(m) \in recorded' \ recorded
                 PROVE  m <= now
      BY DEF NotEarly
    <2>1. CASE UnknownMap \/ Repeat
      BY <1>d, <2>1 DEF UnknownMap, Repeat, Record
    <2>2. CASE Tick \/ Restart \/ ReconcileFails \/ UNCHANGED vars
      BY <2>2 DEF Tick, Restart, ReconcileFails, vars
    <2>3. ASSUME NEW patch \in Patch, NEW again \in BOOLEAN, Message(patch, again)
          PROVE  m <= now
      <3>1. CrossedBy(patch) \subseteq { n \in Minutes : n <= now }
        BY CrossedSome DEF CrossedBy
      <3>2. Due(m) \in { Due(n) : n \in CrossedBy(patch) }
        BY <1>d, <2>3 DEF Message, Record, StartsWith, Reconnects
      <3> QED
        BY <1>d, <3>1, <3>2
    <2>4. ASSUME LostMessage PROVE m <= now
      BY <2>4 DEF LostMessage
    <2>5. ASSUME NEW e \in Discoveries, NEW kind \in { "blank", "anchor" },
                 NEW patch \in GameTime, NEW fresh \in BOOLEAN,
                 Bootstrap(e, kind, patch, fresh)
          PROVE  m <= now
      BY <1>d, <2>5 DEF Bootstrap, Appended, Record
    <2>6. CASE Reconcile
      <3>1. Due(m) \in { Due(n) : n \in Sweep }
        BY <1>d, <2>6 DEF Reconcile, Record, MissingStart
      <3> QED
        BY <1>d, <3>1, SweepSome
    <2> QED
      BY <1>1, <2>1, <2>2, <2>3, <2>4, <2>5, <2>6 DEF Next
  <1>2. [Next]_vars => [NotEarly]_vars
    BY <1>1
  <1>3. Spec => [][NotEarly]_vars
    BY <1>2, PTL DEF Spec
  <1> QED
    BY <1>3 DEF NeverEarlyOnRealTime, NotEarly
-----------------------------------------------------------------------------
(* Market.  An odds id that was learned is told of: its price is recorded,  *)
(* or on the wire of the connection, or a refresh is asked for that has not *)
(* been requested yet or was requested since its last change.               *)
Deltas == [odds: Odds, version: Nat]

MarketTypes ==
    /\ clock \in Nat /\ offer \in [Odds -> Nat]
    /\ link \in {"down", "subscribed", "up"}
    /\ wire \in Seq(Deltas)
    /\ registered \subseteq {o \in Odds : offer[o] > 0}
    /\ rows \subseteq [odds: Odds, version: Nat, at: Nat]
    /\ pending \subseteq asked
    /\ answer # NoAnswer =>
          /\ answer \in [job: pending, offer: [Odds -> Nat], at: Nat]
          /\ \A o \in Odds : answer.offer[o] <= offer[o]

NewestExists == \A o \in Odds : RowsOf(o) # {} => \E r \in RowsOf(o) : \A s \in RowsOf(o) : s.at <= r.at

PriceRecorded(o) == \E r \in rows : r.odds = o /\ r.version = offer[o]
OnTheWire(o) == \E i \in 1..Len(wire) : wire[i].odds = o /\ wire[i].version = offer[o]
Awaited(o) == \E key \in pending : answer = NoAnswer \/ answer.job # key \/ answer.offer[o] = offer[o]

LearnedAreTold ==
    link = "up" /\ held => \A o \in registered : PriceRecorded(o) \/ OnTheWire(o) \/ Awaited(o)

LearnsWhatIs ==
    answer # NoAnswer => \A o \in Odds \ registered : answer.offer[o] > 0 => answer.offer[o] = offer[o]

MarketInv == MarketTypes /\ NewestExists /\ LearnedAreTold /\ LearnsWhatIs

(* A change that is not written says what the newest row says.              *)
LEMMA NewRowsTell ==
    ASSUME NewestExists, NEW o \in Odds, NEW version, NEW at
    PROVE  \E r \in rows \cup NewRows(o, version, at) : r.odds = o /\ r.version = version
<1>1. CASE RowsOf(o) # {} /\ Previous(o).version = version
  <2>1. Previous(o) \in RowsOf(o)
    BY <1>1 DEF NewestExists, Previous
  <2> QED
    BY <1>1, <2>1, Zenon DEF RowsOf
<1>2. CASE ~(RowsOf(o) # {} /\ Previous(o).version = version)
  <2>1. [odds |-> o, version |-> version, at |-> at] \in NewRows(o, version, at)
    BY <1>2 DEF NewRows
  <2> QED
    BY <2>1
<1> QED
  BY <1>1, <1>2

(* Every odds id has a newest row again when each gets one row at most.     *)
LEMMA NewestStays ==
    ASSUME NewestExists, NEW more, rows \subseteq [odds: Odds, version: Nat, at: Nat],
           more \subseteq [odds: Odds, version: Nat, at: Nat],
           \A r, s \in more : r.odds = s.odds => r = s, rows' = rows \cup more
    PROVE  NewestExists'
<1> SUFFICES ASSUME NEW o \in Odds, RowsOf(o)' # {}
             PROVE  \E r \in RowsOf(o)' : \A s \in RowsOf(o)' : s.at <= r.at
  BY DEF NewestExists
<1>1. \A s : s \in RowsOf(o)' <=> s \in RowsOf(o) \/ (s \in more /\ s.odds = o)
  BY DEF RowsOf
<1>2. RowsOf(o) \subseteq [odds: Odds, version: Nat, at: Nat]
  BY DEF RowsOf
<1>3. CASE \E n \in more : n.odds = o
  <2> PICK n \in more : n.odds = o
    BY <1>3
  <2>1. \A s \in more : s.odds = o => s = n
    OBVIOUS
  <2>2. CASE RowsOf(o) = {}
    BY <1>1, <2>1, <2>2
  <2>3. CASE RowsOf(o) # {}
    <3> PICK r \in RowsOf(o) : \A s \in RowsOf(o) : s.at <= r.at
      BY <2>3 DEF NewestExists
    <3>1. r.at \in Nat /\ n.at \in Nat /\ \A s \in RowsOf(o) : s.at \in Nat
      BY <1>2
    <3>2. CASE r.at <= n.at
      <4>1. \A s \in RowsOf(o) : s.at <= n.at
        BY <3>1, <3>2
      <4> QED
        BY <1>1, <2>1, <3>1, <4>1
    <3>3. CASE ~(r.at <= n.at)
      <4>1. n.at <= r.at
        BY <3>1, <3>3
      <4> QED
        BY <1>1, <2>1, <4>1
    <3> QED
      BY <3>2, <3>3
  <2> QED
    BY <2>2, <2>3
<1>4. CASE ~\E n \in more : n.odds = o
  <2>1. RowsOf(o)' = RowsOf(o)
    BY <1>1, <1>4
  <2> QED
    BY <2>1 DEF NewestExists
<1> QED
  BY <1>3, <1>4

(* Who had a row of its price has one still.                                *)
LEMMA PriceStays ==
    ASSUME NEW o, PriceRecorded(o), rows \subseteq rows', offer'[o] = offer[o]
    PROVE  PriceRecorded(o)'
BY DEF PriceRecorded

(* RayBet changes a price: who is connected hears of it.                    *)
LEMMA PublishKeeps ==
    ASSUME MarketInv, QuietLearning, NEW p \in Odds, Publish(p)
    PROVE  MarketInv'
<1> DEFINE change == [odds |-> p, version |-> offer[p] + 1]
<1>1. /\ offer' \in [Odds -> Nat] /\ offer'[p] = offer[p] + 1
      /\ \A o \in Odds \ {p} : offer'[o] = offer[o]
      /\ \A o \in Odds : offer[o] \in Nat /\ offer'[o] \in Nat /\ offer[o] <= offer'[o]
  BY DEF Publish, MarketInv, MarketTypes
<1>2. change \in Deltas
  BY <1>1 DEF Deltas
<1>3. wire' \in Seq(Deltas)
  <2>1. wire \in Seq(Deltas)
    BY DEF MarketInv, MarketTypes
  <2>2. wire' = wire \/ wire' = Append(wire, change)
    BY DEF Publish
  <2> HIDE DEF change
  <2> QED
    BY <1>2, <2>1, <2>2
<1>4. /\ registered' = registered /\ rows' = rows /\ pending' = pending /\ asked' = asked
      /\ answer' = answer /\ clock' = clock /\ link' = link /\ held' = held
  BY DEF Publish
<1>5. MarketTypes'
  <2>1. answer # NoAnswer => \A o \in Odds : answer.offer[o] <= offer'[o]
    <3> SUFFICES ASSUME answer # NoAnswer, NEW o \in Odds
                 PROVE  answer.offer[o] <= offer'[o]
      OBVIOUS
    <3>1. answer.offer[o] \in Nat /\ answer.offer[o] <= offer[o]
      BY DEF MarketInv, MarketTypes
    <3> QED
      BY <1>1, <3>1
  <2>2. registered \subseteq {o \in Odds : offer'[o] > 0}
    BY <1>1 DEF MarketInv, MarketTypes
  <2> QED
    BY <1>1, <1>3, <1>4, <2>1, <2>2 DEF MarketInv, MarketTypes
<1>6. NewestExists'
  BY <1>4 DEF MarketInv, NewestExists, RowsOf
<1>7. LearnedAreTold'
  <2> SUFFICES ASSUME link = "up", held, NEW o \in registered
               PROVE  (PriceRecorded(o) \/ OnTheWire(o) \/ Awaited(o))'
    BY <1>4 DEF LearnedAreTold
  <2>1. wire' = Append(wire, change)
    BY DEF Publish
  <2>2. /\ Len(wire') = Len(wire) + 1 /\ wire'[Len(wire) + 1] = change /\ Len(wire) \in Nat
        /\ \A i \in 1..Len(wire) : wire'[i] = wire[i]
    BY <1>2, <2>1 DEF MarketInv, MarketTypes
  <2>3. CASE o = p
    BY <1>1, <2>2, <2>3 DEF OnTheWire
  <2>4. CASE o # p
    <3>1. offer'[o] = offer[o] /\ o \in Odds
      BY <1>1, <2>4 DEF MarketInv, MarketTypes
    <3>2. CASE PriceRecorded(o)
      BY <1>4, <3>1, <3>2 DEF PriceRecorded
    <3>3. CASE OnTheWire(o)
      BY <2>2, <3>1, <3>3 DEF OnTheWire
    <3>4. CASE Awaited(o)
      BY <1>4, <3>1, <3>4 DEF Awaited
    <3> QED
      BY <3>2, <3>3, <3>4 DEF MarketInv, LearnedAreTold
  <2> QED
    BY <2>3, <2>4
<1>8. LearnsWhatIs'
  <2>1. \A o \in Odds : answer # NoAnswer /\ o \notin registered /\ answer.offer[o] > 0 =>
            offer'[o] = offer[o]
    BY DEF QuietLearning
  <2> QED
    BY <1>4, <2>1 DEF MarketInv, LearnsWhatIs
<1> QED
  BY <1>5, <1>6, <1>7, <1>8 DEF MarketInv

(* The link goes, comes, and the match is discovered.                       *)
LEMMA LinkKeeps ==
    ASSUME MarketInv, Handshake \/ Disconnect \/ Discover
    PROVE  MarketInv'
<1>1. /\ offer' = offer /\ rows' = rows /\ registered' = registered /\ answer' = answer
      /\ held' = held /\ clock' = clock /\ pending \subseteq pending' /\ pending' \subseteq asked'
      /\ link' \in {"down", "subscribed", "up"} /\ wire' \in Seq(Deltas)
      /\ (link' = "up" => link = "up" /\ wire' = wire)
  <2>1. /\ link \in {"down", "subscribed", "up"} /\ wire \in Seq(Deltas)
        /\ pending \subseteq asked
    BY DEF MarketInv, MarketTypes
  <2>2. CASE Handshake
    BY <2>1, <2>2 DEF Handshake
  <2>3. CASE Disconnect
    <3>1. wire' \in Seq(Deltas)
      BY <2>3 DEF Disconnect
    <3> QED
      BY <2>1, <2>3, <3>1 DEF Disconnect
  <2>4. CASE Discover
    BY <2>1, <2>4 DEF Discover, Ask
  <2> QED
    BY <2>2, <2>3, <2>4
<1>2. MarketTypes' /\ NewestExists'
  BY <1>1 DEF MarketInv, MarketTypes, NewestExists, RowsOf
<1>3. LearnedAreTold'
  BY <1>1 DEF MarketInv, LearnedAreTold, PriceRecorded, OnTheWire, Awaited
<1>4. LearnsWhatIs'
  BY <1>1 DEF MarketInv, LearnsWhatIs
<1> QED
  BY <1>2, <1>3, <1>4 DEF MarketInv

(* A new connection of a linked match asks for a refresh under a new key,   *)
(* which the request under way is not for.                                  *)
LEMMA ConnectedKeeps ==
    ASSUME MarketInv, FewConnects, Connected
    PROVE  MarketInv'
<1>1. /\ offer' = offer /\ rows' = rows /\ registered' = registered /\ answer' = answer
      /\ held' = linked /\ clock' \in Nat /\ link' = "up" /\ wire' = wire /\ link # "up"
  BY DEF Connected, MarketInv, MarketTypes
<1>2. pending \subseteq pending' /\ pending' \subseteq asked'
  BY DEF Connected, Ask, MarketInv, MarketTypes
<1>3. MarketTypes' /\ NewestExists'
  BY <1>1, <1>2 DEF MarketInv, MarketTypes, NewestExists, RowsOf
<1>4. LearnedAreTold'
  <2> SUFFICES ASSUME linked, NEW o \in registered
               PROVE  Awaited(o)'
    BY <1>1 DEF LearnedAreTold
  <2>1. RecoveryKey(clock') \notin asked
    BY <1>1 DEF FewConnects, RecoveryKey
  <2>2. RecoveryKey(clock') \in pending'
    BY <2>1 DEF Connected, Ask
  <2>3. answer = NoAnswer \/ answer.job # RecoveryKey(clock')
    BY <2>1 DEF MarketInv, MarketTypes
  <2> QED
    BY <1>1, <2>2, <2>3 DEF Awaited
<1>5. LearnsWhatIs'
  BY <1>1 DEF MarketInv, LearnsWhatIs
<1> QED
  BY <1>3, <1>4, <1>5 DEF MarketInv

(* A message of the socket: a change of a known id is recorded.             *)
LEMMA ReceiveKeeps ==
    ASSUME MarketInv, Receive
    PROVE  MarketInv'
<1> DEFINE delta == Head(wire)
           o == delta.odds
<1>1. /\ delta \in Deltas /\ wire' = Tail(wire) /\ wire' \in Seq(Deltas)
      /\ clock' \in Nat /\ wire # <<>> /\ clock \in Nat
  <2>1. wire \in Seq(Deltas) /\ clock \in Nat
    BY DEF MarketInv, MarketTypes
  <2>2. wire # <<>> /\ wire' = Tail(wire) /\ clock' = clock + 1
    BY DEF Receive
  <2>3. delta \in Deltas /\ wire' \in Seq(Deltas)
    BY <2>1, <2>2
  <2> QED
    BY <2>1, <2>2, <2>3
<1>2. /\ Len(wire) \in Nat \ {0} /\ Len(wire') = Len(wire) - 1 /\ delta = wire[1]
      /\ \A i \in 1..Len(wire') : wire'[i] = wire[i + 1]
  BY <1>1 DEF MarketInv, MarketTypes
<1>3. /\ offer' = offer /\ registered' = registered /\ answer' = answer /\ held' = held /\ link' = link
      /\ pending \subseteq pending' /\ pending' \subseteq asked' /\ o \in Odds /\ rows \subseteq rows'
  BY <1>1 DEF Receive, Ask, MarketInv, MarketTypes, Deltas
<1> DEFINE more == IF o \notin registered THEN {} ELSE NewRows(o, delta.version, clock')
<1>4. rows' = rows \cup more /\ more \subseteq [odds: Odds, version: Nat, at: Nat]
      /\ \A r, s \in more : r = s
  BY <1>1, <1>3 DEF Receive, NewRows, Deltas
<1>5. MarketTypes'
  BY <1>1, <1>3, <1>4 DEF MarketInv, MarketTypes
<1>6. NewestExists'
  <2>1. rows \subseteq [odds: Odds, version: Nat, at: Nat] /\ NewestExists
    BY DEF MarketInv, MarketTypes
  <2> HIDE DEF more
  <2> QED
    BY <1>4, <2>1, NewestStays
<1>7. LearnedAreTold'
  <2> SUFFICES ASSUME link = "up", held, NEW q \in registered
               PROVE  (PriceRecorded(q) \/ OnTheWire(q) \/ Awaited(q))'
    BY <1>3 DEF LearnedAreTold
  <2>1. CASE PriceRecorded(q) \/ Awaited(q)
    BY <1>3, <2>1 DEF PriceRecorded, Awaited
  <2>2. CASE OnTheWire(q)
    <3> PICK i \in 1..Len(wire) : wire[i].odds = q /\ wire[i].version = offer[q]
      BY <2>2 DEF OnTheWire
    <3>1. CASE i = 1
      <4>1. o = q /\ delta.version = offer[q] /\ rows' = rows \cup NewRows(q, offer[q], clock')
        BY <1>2, <1>4, <3>1
      <4>2. NewestExists /\ q \in Odds
        BY DEF MarketInv, MarketTypes
      <4>3. \E r \in rows \cup NewRows(q, offer[q], clock') : r.odds = q /\ r.version = offer[q]
        BY <4>2, NewRowsTell
      <4> QED
        BY <1>3, <4>1, <4>3 DEF PriceRecorded
    <3>2. CASE i # 1
      <4>1. i - 1 \in 1..Len(wire') /\ wire'[i - 1] = wire[i]
        BY <1>2, <3>2
      <4> QED
        BY <1>3, <4>1 DEF OnTheWire
    <3> QED
      BY <3>1, <3>2
  <2> QED
    BY <2>1, <2>2 DEF MarketInv, LearnedAreTold
<1>8. LearnsWhatIs'
  BY <1>3 DEF MarketInv, LearnsWhatIs
<1> QED
  BY <1>5, <1>6, <1>7, <1>8 DEF MarketInv

(* A refresh is requested, fails, or is answered.                           *)
LEMMA RequestKeeps ==
    ASSUME MarketInv, (\E key \in pending : Request(key)) \/ RequestFails \/ AnswerArrives
    PROVE  MarketInv'
<1>1. /\ offer' = offer /\ rows' = rows /\ registered' = registered /\ wire' = wire /\ asked' = asked
      /\ held' = held /\ link' = link /\ pending' = pending
  BY DEF Request, RequestFails, AnswerArrives
<1>2. clock' \in Nat
  BY DEF Request, RequestFails, AnswerArrives, MarketInv, MarketTypes
<1>3. CASE \E key \in pending : Request(key)
  <2> PICK key \in pending : Request(key)
    BY <1>3
  <2>1. answer = NoAnswer /\ answer' = [job |-> key, offer |-> offer, at |-> 0]
    BY DEF Request
  <2>2. answer'.job = key /\ answer'.offer = offer /\ answer'.at = 0
    BY <2>1
  <2>3. MarketTypes'
    <3>1. offer \in [Odds -> Nat]
      BY DEF MarketInv, MarketTypes
    <3>2. answer' \in [job: pending, offer: [Odds -> Nat], at: Nat] /\ \A o \in Odds : answer'.offer[o] <= offer[o]
      BY <2>1, <3>1
    <3> QED
      BY <1>1, <1>2, <3>2 DEF MarketInv, MarketTypes
  <2>4. LearnedAreTold'
    BY <1>1, <2>1, <2>2 DEF MarketInv, LearnedAreTold, PriceRecorded, OnTheWire, Awaited
  <2>5. LearnsWhatIs' /\ NewestExists'
    BY <1>1, <2>2 DEF MarketInv, LearnsWhatIs, NewestExists, RowsOf
  <2> QED
    BY <2>3, <2>4, <2>5 DEF MarketInv
<1>4. CASE RequestFails
  <2>1. answer' = NoAnswer
    BY <1>4 DEF RequestFails
  <2> QED
    BY <1>1, <1>2, <2>1 DEF MarketInv, MarketTypes, LearnedAreTold, PriceRecorded, OnTheWire, Awaited, LearnsWhatIs, NewestExists, RowsOf
<1>5. CASE AnswerArrives
  <2>1. answer # NoAnswer /\ answer' = [answer EXCEPT !.at = clock + 1] /\ clock \in Nat
    BY <1>5 DEF AnswerArrives, MarketInv, MarketTypes
  <2>2. answer'.job = answer.job /\ answer'.offer = answer.offer
    BY <2>1
  <2>3. answer' \in [job: pending, offer: [Odds -> Nat], at: Nat]
    <3>1. answer \in [job: pending, offer: [Odds -> Nat], at: Nat] /\ clock + 1 \in Nat
      BY <2>1 DEF MarketInv, MarketTypes
    <3> QED
      BY <2>1, <3>1
  <2>4. MarketTypes'
    BY <1>1, <1>2, <2>1, <2>2, <2>3 DEF MarketInv, MarketTypes
  <2>5. LearnedAreTold'
    BY <1>1, <2>1, <2>2 DEF MarketInv, LearnedAreTold, PriceRecorded, OnTheWire, Awaited
  <2> QED
    BY <1>1, <2>1, <2>2, <2>4, <2>5 DEF MarketInv, LearnsWhatIs, NewestExists, RowsOf
<1> QED
  BY <1>3, <1>4, <1>5

(* The answer is written: what it opens is registered and recorded as it    *)
(* was when it was requested.                                               *)
LEMMA RefreshKeeps ==
    ASSUME MarketInv, Refresh
    PROVE  MarketInv'
<1> DEFINE opened == {o \in Odds : answer.offer[o] > 0}
           more == UNION {NewRows(o, answer.offer[o], answer.at) : o \in opened}
<1>1. /\ answer # NoAnswer /\ answer' = NoAnswer /\ registered' = registered \cup opened
      /\ rows' = rows \cup more /\ pending' = pending \ {answer.job}
      /\ clock' = clock /\ offer' = offer /\ link' = link /\ wire' = wire /\ held' = held /\ asked' = asked
  BY DEF Refresh
<1>2. /\ answer \in [job: pending, offer: [Odds -> Nat], at: Nat]
      /\ \A o \in Odds : answer.offer[o] <= offer[o]
      /\ offer \in [Odds -> Nat] /\ NewestExists
  BY <1>1 DEF MarketInv, MarketTypes
<1>3. more \subseteq [odds: Odds, version: Nat, at: Nat]
  BY <1>2 DEF NewRows
<1>4. \A r, s \in more : r.odds = s.odds => r = s
  BY DEF NewRows
<1>5. \A o \in opened : \E r \in rows' : r.odds = o /\ r.version = answer.offer[o]
  <2> SUFFICES ASSUME NEW o \in opened
               PROVE  \E r \in rows' : r.odds = o /\ r.version = answer.offer[o]
    OBVIOUS
  <2>1. rows \cup NewRows(o, answer.offer[o], answer.at) \subseteq rows'
    BY <1>1
  <2>2. \E r \in rows \cup NewRows(o, answer.offer[o], answer.at) : r.odds = o /\ r.version = answer.offer[o]
    BY <1>2, NewRowsTell
  <2> QED
    BY <2>1, <2>2
<1>6. NewestExists'
  <2>1. rows \subseteq [odds: Odds, version: Nat, at: Nat]
    BY DEF MarketInv, MarketTypes
  <2> HIDE DEF more
  <2> QED
    BY <1>1, <1>2, <1>3, <1>4, <2>1, NewestStays
<1>7. MarketTypes'
  <2>1. opened \subseteq {o \in Odds : offer[o] > 0}
    BY <1>2
  <2> HIDE DEF more, opened
  <2> QED
    BY <1>1, <1>3, <2>1 DEF MarketInv, MarketTypes
<1>8. LearnedAreTold'
  <2> SUFFICES ASSUME link = "up", held, NEW o \in registered \cup opened
               PROVE  (PriceRecorded(o) \/ OnTheWire(o) \/ Awaited(o))'
    BY <1>1 DEF LearnedAreTold
  <2>1. CASE o \in opened /\ answer.offer[o] = offer[o]
    BY <1>1, <1>5, <2>1 DEF PriceRecorded
  <2>2. CASE o \notin registered
    <3>1. o \in opened /\ answer.offer[o] = offer[o]
      BY <1>1, <2>2 DEF MarketInv, LearnsWhatIs
    <3> QED
      BY <2>1, <3>1
  <2>3. CASE o \in registered
    <3>1. CASE PriceRecorded(o) \/ OnTheWire(o)
      BY <1>1, <3>1 DEF PriceRecorded, OnTheWire
    <3>2. CASE Awaited(o)
      <4> PICK key \in pending : answer.job # key \/ answer.offer[o] = offer[o]
        BY <1>1, <3>2 DEF Awaited
      <4>1. CASE answer.offer[o] = offer[o]
        <5>1. o \in opened
          BY <1>2, <2>3, <4>1 DEF MarketInv, MarketTypes
        <5> QED
          BY <2>1, <4>1, <5>1
      <4>2. CASE answer.job # key
        BY <1>1, <4>2 DEF Awaited
      <4> QED
        BY <4>1, <4>2
    <3> QED
      BY <2>3, <3>1, <3>2 DEF MarketInv, LearnedAreTold
  <2> QED
    BY <2>2, <2>3
<1>9. LearnsWhatIs'
  BY <1>1 DEF LearnsWhatIs
<1> QED
  BY <1>6, <1>7, <1>8, <1>9 DEF MarketInv

(* Whenever the socket of a linked match is connected, nothing is on the    *)
(* wire and no refresh is due, the price RayBet shows of every odds id that *)
(* was learned is recorded: for any odds, prices and lengths of minute and  *)
(* hour, however often the connection breaks and requests fail.  Needed:    *)
(* connections in different minutes, and prices that stand still while they *)
(* are learned.                                                             *)
THEOREM NoPriceIsMissed ==
    MarketSpec /\ [][FewConnects /\ QuietLearning]_marketVars => []NoPriceMissed
<1>1. MarketInit => MarketInv
  <2> SUFFICES ASSUME MarketInit
               PROVE  MarketInv
    OBVIOUS
  <2>1. MarketTypes
    BY DEF MarketInit, MarketTypes
  <2> QED
    BY <2>1 DEF MarketInit, MarketInv, NewestExists, RowsOf, LearnedAreTold, LearnsWhatIs
<1>2. MarketInv /\ [MarketNext]_marketVars /\ [FewConnects /\ QuietLearning]_marketVars => MarketInv'
  <2> SUFFICES ASSUME MarketInv, [MarketNext]_marketVars, [FewConnects /\ QuietLearning]_marketVars
               PROVE  MarketInv'
    OBVIOUS
  <2>1. CASE UNCHANGED marketVars
    <3>1. /\ clock' = clock /\ offer' = offer /\ link' = link /\ wire' = wire /\ held' = held
          /\ registered' = registered /\ rows' = rows /\ asked' = asked /\ pending' = pending
          /\ answer' = answer
      BY <2>1 DEF marketVars
    <3>2. MarketTypes' /\ NewestExists'
      BY <3>1 DEF MarketInv, MarketTypes, NewestExists, RowsOf
    <3>3. LearnedAreTold' /\ LearnsWhatIs'
      BY <3>1 DEF MarketInv, LearnedAreTold, LearnsWhatIs, PriceRecorded, OnTheWire, Awaited
    <3> QED
      BY <3>2, <3>3 DEF MarketInv
  <2>2. CASE MarketNext /\ FewConnects /\ QuietLearning
    <3>1. CASE \E o \in Odds : Publish(o)
      BY <2>2, <3>1, PublishKeeps
    <3>2. CASE Handshake \/ Disconnect \/ Discover
      BY <3>2, LinkKeeps
    <3>3. CASE Connected
      BY <2>2, <3>3, ConnectedKeeps
    <3>4. CASE Receive
      BY <3>4, ReceiveKeeps
    <3>5. CASE (\E key \in pending : Request(key)) \/ RequestFails \/ AnswerArrives
      BY <3>5, RequestKeeps
    <3>6. CASE Refresh
      BY <3>6, RefreshKeeps
    <3> QED
      BY <2>2, <3>1, <3>2, <3>3, <3>4, <3>5, <3>6 DEF MarketNext
  <2> QED
    BY <2>1, <2>2
<1>3. MarketInv => NoPriceMissed
  <2> SUFFICES ASSUME MarketInv, link = "up", wire = <<>>, pending = {}, held, NEW o \in registered
               PROVE  \E r \in RowsOf(o) : r.version = offer[o]
    BY DEF NoPriceMissed, NothingUnderWay
  <2>1. ~OnTheWire(o) /\ ~Awaited(o)
    BY DEF OnTheWire, Awaited
  <2> QED
    BY <2>1 DEF MarketInv, LearnedAreTold, PriceRecorded, RowsOf
<1> QED
  BY <1>1, <1>2, <1>3, PTL DEF MarketSpec

-----------------------------------------------------------------------------
Pending(a) == lookup[a].asked \cup lookup[a].seen
Answers == told \cup Pending("worker") \cup Pending("command")
MembersOf(t) == {m \in roster : m.team = t}

Lookup == [on: BOOLEAN, cycle: Nat, profiles: BOOLEAN, todo: SUBSET Clubs,
           asked: SUBSET AnswerRow, seen: SUBSET AnswerRow, opened: SUBSET Membership,
           closed: SUBSET [row: Membership, at: Instants]]

RosterTypes ==
    /\ RosterTypeOK
    /\ registryJob = [c \in DOMAIN registryJob |-> registryJob[c]]
    /\ lookup \in [Lookers -> Lookup]

(* Each answer has a time of its own.                                       *)
AnswersInOrder ==
    /\ \A x \in Answers : 0 < x.at /\ x.at <= instant
    /\ \A x, y \in Answers : x.at = y.at => x = y

(* A lookup asks for each club once.                                        *)
AskedOnce ==
    \A a \in Lookers :
        /\ lookup[a].asked \cap lookup[a].seen = {}
        /\ \A x, y \in Pending(a) : x.team = y.team => x = y
        /\ \A x \in Pending(a) : x.team \notin lookup[a].todo

(* What a lookup is about to enter and to close is what an answer told it.  *)
ChangesHaveReasons ==
    \A a \in Lookers :
        /\ \A m \in lookup[a].opened :
              /\ m.to = Current /\ m.by = "opendota"
              /\ \E x \in lookup[a].seen : x.team = m.team /\ x.at = m.from /\ m.player \in x.players
        /\ \A c \in lookup[a].closed :
              /\ c.row.to = Current /\ c.row.by = "opendota"
              /\ \E x \in lookup[a].seen : /\ x.team = c.row.team /\ x.at = c.at /\ x.whole
                                           /\ c.row.player \notin x.players

HandsFromTheStart == \A m \in roster : m.by = "hand" => m.from = 0

(* Of a club that only one lookup is about, nothing older is still to come, *)
(* and the changes are still those the answer makes to the roster.          *)
NotShared ==
    \A x \in Pending("worker"), y \in Pending("command") : x.team = y.team => x.team \in mixed
NewerThanTold ==
    \A a \in Lookers : \A x \in Pending(a) : x.team \notin mixed =>
        \A y \in told : y.team = x.team => y.at < x.at
ChangesStillApply ==
    \A a \in Lookers : \A x \in lookup[a].seen : x.team \notin mixed =>
        /\ {m \in lookup[a].opened : m.team = x.team} = Entered(x)
        /\ {c \in lookup[a].closed : c.row.team = x.team} = {[row |-> m, at |-> x.at] : m \in Left(x)}

RosterInv ==
    /\ RosterTypes /\ AnswersInOrder /\ AskedOnce
    /\ ChangesHaveReasons /\ HandsFromTheStart /\ MembershipsHaveReasons
    /\ NotShared /\ NewerThanTold /\ ChangesStillApply
    /\ HistoryTellsAnswers /\ PageTellsNewest

-----------------------------------------------------------------------------
(* RosterInit: nothing was answered, and what was entered by hand dates     *)
(* from the start.                                                          *)
LEMMA RosterBegins == RosterInit => RosterInv
  <1> SUFFICES ASSUME RosterInit PROVE RosterInv
    OBVIOUS
  <1> USE RosterAssumption
  <1>0. \A a \in Lookers : lookup[a] = NoLookup
    BY DEF RosterInit
  <1>1. /\ told = {} /\ Answers = {} /\ \A a \in Lookers : Pending(a) = {}
    BY <1>0 DEF RosterInit, Answers, Pending, NoLookup, Lookers
  <1>2. \A m \in roster : /\ m \in Membership /\ m.by = "hand" /\ m.from = 0 /\ m.to = Current
    <2>1. PICK byHand \in SUBSET (Clubs \X Players) :
             roster = {[team |-> m[1], player |-> m[2], from |-> 0, to |-> Current, by |-> "hand"] : m \in byHand}
      BY DEF RosterInit
    <2>2. 0 \in Instants
      BY DEF Instants
    <2> QED
      BY <2>1, <2>2 DEF Membership
  <1>3. RosterTypes
    <2>1. NoLookup \in Lookup
      BY DEF NoLookup, Lookup
    <2>2. lookup \in [Lookers -> Lookup]
      BY <2>1 DEF RosterInit
    <2>3. RosterTypeOK
      BY <1>0, <1>1, <1>2 DEF RosterInit, RosterTypeOK, Instants, NoLookup
    <2>4. registryJob = [c \in DOMAIN registryJob |-> registryJob[c]]
      BY DEF RosterInit
    <2> QED
      BY <2>2, <2>3, <2>4 DEF RosterTypes
  <1>4. AnswersInOrder /\ AskedOnce /\ NotShared /\ NewerThanTold
    BY <1>0, <1>1 DEF AnswersInOrder, AskedOnce, NotShared, NewerThanTold, NoLookup, Lookers
  <1>5. ChangesHaveReasons /\ ChangesStillApply
    BY <1>0 DEF ChangesHaveReasons, ChangesStillApply, NoLookup
  <1>6. HandsFromTheStart /\ MembershipsHaveReasons
    BY <1>2 DEF HandsFromTheStart, MembershipsHaveReasons
  <1>7. HistoryTellsAnswers
    <2>1. \A m, n \in roster : m # n /\ m.team = n.team /\ m.player = n.player => FALSE
      BY <1>2 DEF Membership
    <2> QED
      BY <1>1, <2>1 DEF HistoryTellsAnswers
  <1>8. PageTellsNewest
    BY <1>1 DEF PageTellsNewest
  <1> QED
    BY <1>3, <1>4, <1>5, <1>6, <1>7, <1>8 DEF RosterInv

-----------------------------------------------------------------------------
(* A step that takes in no answer: the changes of a lookup stay or go.      *)
Waits(a) ==
    \/ /\ lookup'[a].asked = lookup[a].asked /\ lookup'[a].seen = lookup[a].seen
       /\ lookup'[a].opened = lookup[a].opened /\ lookup'[a].closed = lookup[a].closed
       /\ lookup'[a].todo \subseteq lookup[a].todo
    \/ /\ lookup'[a].asked = {} /\ lookup'[a].seen = {}
       /\ lookup'[a].opened = {} /\ lookup'[a].closed = {}

(* A step that only takes away from what is looked up, or lets time pass,   *)
(* keeps what is said of memberships and answers.                           *)
LEMMA WaitingKeeps ==
    ASSUME RosterInv, RosterTypes', instant' >= instant,
           UNCHANGED <<roster, told, mixed>>, \A a \in Lookers : Waits(a)
    PROVE  RosterInv'
  <1> USE RosterAssumption
  <1>1. \A a \in Lookers : /\ Pending(a)' \subseteq Pending(a)
                           /\ lookup'[a].seen \subseteq lookup[a].seen
                           /\ lookup'[a].asked \subseteq lookup[a].asked
    BY DEF Waits, Pending
  <1>2. Answers' \subseteq Answers
    BY <1>1 DEF Answers, Lookers
  <1>3. AnswersInOrder'
    <2>1. \A x \in Answers : x.at \in Nat /\ instant \in Nat /\ instant' \in Nat
      BY DEF RosterInv, RosterTypes, RosterTypeOK, Answers, Pending, Lookers, AnswerRow, Instants
    <2> QED
      BY <1>2, <2>1 DEF RosterInv, AnswersInOrder
  <1>4. AskedOnce'
    <2> SUFFICES ASSUME NEW a \in Lookers
                 PROVE  /\ lookup'[a].asked \cap lookup'[a].seen = {}
                        /\ \A x, y \in Pending(a)' : x.team = y.team => x = y
                        /\ \A x \in Pending(a)' : x.team \notin lookup'[a].todo
      BY DEF AskedOnce
    <2>1. /\ lookup[a].asked \cap lookup[a].seen = {}
          /\ \A x, y \in Pending(a) : x.team = y.team => x = y
          /\ \A x \in Pending(a) : x.team \notin lookup[a].todo
      BY DEF RosterInv, AskedOnce
    <2>2. Pending(a)' = {} \/ lookup'[a].todo \subseteq lookup[a].todo
      BY DEF Waits, Pending
    <2> QED
      BY <1>1, <2>1, <2>2
  <1>5. ChangesHaveReasons'
    BY DEF RosterInv, ChangesHaveReasons, Waits
  <1>6. NotShared' /\ NewerThanTold'
    BY <1>1 DEF RosterInv, NotShared, NewerThanTold, Lookers
  <1>7. ChangesStillApply'
    <2> SUFFICES ASSUME NEW a \in Lookers, NEW x \in lookup'[a].seen, x.team \notin mixed
                 PROVE  /\ {m \in lookup'[a].opened : m.team = x.team} = Entered(x)'
                        /\ {c \in lookup'[a].closed : c.row.team = x.team}
                              = {[row |-> m, at |-> x.at] : m \in Left(x)'}
      BY DEF ChangesStillApply
    <2>1. Entered(x)' = Entered(x) /\ Left(x)' = Left(x)
      BY DEF Entered, Left
    <2>2. lookup'[a].opened = lookup[a].opened /\ lookup'[a].closed = lookup[a].closed /\ x \in lookup[a].seen
      BY DEF Waits
    <2> QED
      BY <2>1, <2>2 DEF RosterInv, ChangesStillApply
  <1>8. HandsFromTheStart' /\ MembershipsHaveReasons' /\ HistoryTellsAnswers' /\ PageTellsNewest'
    BY DEF RosterInv, HandsFromTheStart, MembershipsHaveReasons, HistoryTellsAnswers, PageTellsNewest,
           CurrentRoster, Covers
  <1> QED
    BY <1>3, <1>4, <1>5, <1>6, <1>7, <1>8 DEF RosterInv

-----------------------------------------------------------------------------
(* A step of one transaction leaves the other one as it is.                 *)
LEMMA LookupChanged ==
    ASSUME RosterTypes, NEW a \in Lookers, NEW new \in Lookup,
           lookup' = [lookup EXCEPT ![a] = new]
    PROVE  /\ lookup' \in [Lookers -> Lookup] /\ lookup'[a] = new
           /\ \A b \in Lookers \ {a} : lookup'[b] = lookup[b] /\ Waits(b)
  <1>1. lookup \in [Lookers -> Lookup]
    BY DEF RosterTypes
  <1>2. /\ lookup' \in [Lookers -> Lookup] /\ lookup'[a] = new
        /\ \A b \in Lookers \ {a} : lookup'[b] = lookup[b]
    BY <1>1
  <1> QED
    BY <1>2 DEF Waits

(* What a type needs beside the lookups, the roster and the answers.        *)
LEMMA TypesFromLookups ==
    ASSUME RosterTypes, lookup' \in [Lookers -> Lookup],
           instant' \in Instants, rosterFaults' \in 0..MaxRosterFaults,
           roster' \subseteq Membership, told' \subseteq AnswerRow, mixed' \subseteq Clubs,
           tournament' = tournament, disputed' = disputed,
           \/ registryJob' = registryJob
           \/ \E c \in DOMAIN registryJob, s \in {"queued", "running", "done"} :
                  registryJob' = [registryJob EXCEPT ![c].state = s]
    PROVE  RosterTypes'
  <1>1. \A a \in Lookers : lookup'[a] \in Lookup
    OBVIOUS
  <1>2. /\ registryJob' = [c \in DOMAIN registryJob' |-> registryJob'[c]]
        /\ \A c \in DOMAIN registryJob' :
              c \in Nat /\ registryJob'[c] \in [clubs: SUBSET Clubs, state: {"queued", "running", "done"}]
    BY DEF RosterTypes, RosterTypeOK
  <1>3. RosterTypeOK'
    BY <1>1, <1>2 DEF RosterTypes, RosterTypeOK, Lookup
  <1> QED
    BY <1>2, <1>3 DEF RosterTypes

(* The schedule of the event: a listed series, the mapping of the RayBet    *)
(* tournament, the jobs that ScheduleRefresh enqueues, and time.            *)
LEMMA ScheduleKeeps ==
    ASSUME RosterInv, ListSeries \/ BindTournament \/ ScheduleRefresh \/ TimePasses
    PROVE  RosterInv'
  <1> USE RosterAssumption
  <1>t. RosterTypes /\ RosterTypeOK
    BY DEF RosterInv, RosterTypes
  <1>0. UNCHANGED lookupVars
    BY DEF ListSeries, BindTournament, ScheduleRefresh, TimePasses
  <1>1. UNCHANGED <<roster, told, mixed, lookup, disputed>> /\ \A a \in Lookers : Waits(a)
    BY <1>0 DEF lookupVars, Waits
  <1>2. instant' \in Instants /\ instant' >= instant
    <2>0. instant \in 0..MaxInstant /\ instant \in Nat
      BY <1>t DEF RosterTypeOK, Instants
    <2>1. instant' = instant \/ (instant < MaxInstant /\ instant' = instant + 1)
      BY DEF ListSeries, BindTournament, ScheduleRefresh, TimePasses
    <2> QED
      BY <2>0, <2>1 DEF Instants
  <1>3. rosterFaults' = rosterFaults
    BY DEF ListSeries, BindTournament, ScheduleRefresh, TimePasses
  <1>4. tournament' \in [bound: BOOLEAN, clubs: SUBSET Clubs, starts: SUBSET Listable]
    <2>0. tournament \in [bound: BOOLEAN, clubs: SUBSET Clubs, starts: SUBSET Listable]
      BY <1>t DEF RosterTypeOK
    <2>1. CASE ListSeries
      <3>1. PICK at \in Listable, playing \in SUBSET Clubs :
               tournament' = [tournament EXCEPT !.clubs = @ \cup playing, !.starts = @ \cup {at}]
        BY <2>1 DEF ListSeries
      <3> QED
        BY <2>0, <3>1
    <2>2. CASE BindTournament
      BY <2>0, <2>2 DEF BindTournament
    <2>3. CASE ScheduleRefresh \/ TimePasses
      BY <2>0, <2>3 DEF ScheduleRefresh, TimePasses
    <2> QED
      BY <2>1, <2>2, <2>3
  <1>5. /\ registryJob' = [c \in DOMAIN registryJob' |-> registryJob'[c]]
        /\ \A c \in DOMAIN registryJob' :
              c \in Nat /\ registryJob'[c] \in [clubs: SUBSET Clubs, state: {"queued", "running", "done"}]
    <2>1. CASE registryJob' = registryJob
      BY <1>t, <2>1 DEF RosterTypes, RosterTypeOK
    <2>2. CASE ScheduleRefresh
      <3> DEFINE due == Discovered \cup Prestart
      <3>1. registryJob' = Enqueued(due)
        BY <2>2 DEF ScheduleRefresh
      <3>2. due \subseteq Nat
        <4>1. instant \in Nat /\ Cycle \in Nat \ {0}
          BY <1>t DEF RosterTypeOK, Instants
        <4>2. instant \div Cycle \in Nat
          BY <4>1
        <4> QED
          BY <4>2 DEF Discovered, Prestart
      <3>3. RayBetClubs \subseteq Clubs
        BY <1>t DEF RosterTypeOK, RayBetClubs
      <3> HIDE DEF due
      <3> QED
        BY <1>t, <3>1, <3>2, <3>3 DEF Enqueued, RosterTypeOK
    <2> QED
      BY <2>1, <2>2 DEF ListSeries, BindTournament, ScheduleRefresh, TimePasses
  <1>6. RosterTypes'
    BY <1>t, <1>1, <1>2, <1>3, <1>4, <1>5 DEF RosterTypes, RosterTypeOK
  <1> QED
    BY <1>1, <1>2, <1>6, WaitingKeeps

(* The worker that claims a SYNC_TEAM_REGISTRY job and the two commands     *)
(* begin with nothing looked up.                                            *)
LEMMA LookupsBegin ==
    ASSUME RosterInv,
           \/ \E c \in DOMAIN registryJob : BeginJob(c)
           \/ RegistryCommand \/ RosterCommand
    PROVE  RosterInv'
  <1> USE RosterAssumption
  <1>t. RosterTypes /\ RosterTypeOK
    BY DEF RosterInv, RosterTypes
  <1>1. /\ UNCHANGED <<instant, tournament, disputed, roster, told, mixed, rosterFaults>>
        /\ \/ registryJob' = registryJob
           \/ \E c \in DOMAIN registryJob, s \in {"queued", "running", "done"} :
                  registryJob' = [registryJob EXCEPT ![c].state = s]
    BY DEF BeginJob, RegistryCommand, RosterCommand, Command
  <1>2. \E a \in Lookers, new \in Lookup :
           /\ lookup' = [lookup EXCEPT ![a] = new]
           /\ new.asked = {} /\ new.seen = {} /\ new.opened = {} /\ new.closed = {}
    <2>1. CASE \E c \in DOMAIN registryJob : BeginJob(c)
      <3>1. PICK c \in DOMAIN registryJob : BeginJob(c)
        BY <2>1
      <3> DEFINE new == [NoLookup EXCEPT !.on = TRUE, !.cycle = c, !.profiles = TRUE, !.todo = registryJob[c].clubs]
      <3>2. c \in Nat /\ registryJob[c].clubs \in SUBSET Clubs
        BY <1>t DEF RosterTypeOK
      <3>3. lookup' = [lookup EXCEPT !["worker"] = new]
        BY <3>1 DEF BeginJob
      <3>4. new \in Lookup /\ new.asked = {} /\ new.seen = {} /\ new.opened = {} /\ new.closed = {}
        BY <3>2 DEF NoLookup, Lookup
      <3> HIDE DEF new
      <3> QED
        BY <3>3, <3>4 DEF Lookers
    <2>2. CASE RegistryCommand \/ RosterCommand
      <3>1. PICK profiles \in BOOLEAN, todo \in SUBSET Clubs : Command(profiles, todo)
        BY <2>2 DEF RegistryCommand, RosterCommand
      <3> DEFINE new == [NoLookup EXCEPT !.on = TRUE, !.profiles = profiles, !.todo = todo]
      <3>3. lookup' = [lookup EXCEPT !["command"] = new]
        BY <3>1 DEF Command
      <3>4. new \in Lookup /\ new.asked = {} /\ new.seen = {} /\ new.opened = {} /\ new.closed = {}
        BY DEF NoLookup, Lookup
      <3> HIDE DEF new
      <3> QED
        BY <3>3, <3>4 DEF Lookers
    <2> QED
      BY <2>1, <2>2
  <1>4. PICK a \in Lookers, new \in Lookup :
           /\ lookup' = [lookup EXCEPT ![a] = new]
           /\ new.asked = {} /\ new.seen = {} /\ new.opened = {} /\ new.closed = {}
    BY <1>2
  <1>5. /\ lookup' \in [Lookers -> Lookup] /\ lookup'[a] = new
        /\ \A b \in Lookers \ {a} : Waits(b)
    BY <1>t, <1>4, LookupChanged
  <1>6. RosterTypes'
    BY <1>t, <1>1, <1>5, TypesFromLookups DEF RosterTypeOK
  <1>7. \A b \in Lookers : Waits(b)
    BY <1>4, <1>5 DEF Waits
  <1>8. instant' >= instant
    BY <1>t, <1>1 DEF RosterTypeOK, Instants
  <1> QED
    BY <1>1, <1>6, <1>7, <1>8, WaitingKeeps

(* A team that is passed over, and a lookup that fails and rolls back.      *)
LEMMA PassOverKeeps ==
    ASSUME RosterInv, NEW a \in Lookers, PassOver(a) \/ LookupFails(a)
    PROVE  RosterInv'
  <1> USE RosterAssumption
  <1>t. RosterTypes /\ RosterTypeOK /\ lookup[a] \in Lookup /\ lookup \in [Lookers -> Lookup]
    BY DEF RosterInv, RosterTypes
  <1>1. /\ UNCHANGED <<instant, tournament, disputed, roster, told, mixed>>
        /\ rosterFaults' \in 0..MaxRosterFaults
        /\ \/ registryJob' = registryJob
           \/ \E c \in DOMAIN registryJob, s \in {"queued", "running", "done"} :
                  registryJob' = [registryJob EXCEPT ![c].state = s]
    <2>1. CASE PassOver(a)
      BY <1>t, <2>1 DEF PassOver, RosterTypeOK
    <2>2. CASE LookupFails(a)
      <3>1. rosterFaults' \in 0..MaxRosterFaults
        BY <1>t, <2>2 DEF LookupFails, RosterTypeOK
      <3>2. JobEnds(a, "queued")
        BY <2>2 DEF LookupFails
      <3>3. CASE lookup[a].cycle \in DOMAIN registryJob
        BY <2>2, <3>1, <3>2, <3>3 DEF LookupFails, JobEnds
      <3>4. CASE lookup[a].cycle \notin DOMAIN registryJob
        <4>1. registryJob' = registryJob
          BY <1>t, <3>2, <3>4 DEF JobEnds, RosterTypes
        <4> QED
          BY <2>2, <3>1, <4>1 DEF LookupFails
      <3> QED
        BY <3>3, <3>4
    <2> QED
      BY <2>1, <2>2
  <1>2. PICK new \in Lookup :
           /\ lookup' = [lookup EXCEPT ![a] = new]
           /\ \/ /\ new.asked = lookup[a].asked /\ new.seen = lookup[a].seen
                 /\ new.opened = lookup[a].opened /\ new.closed = lookup[a].closed
                 /\ new.todo \subseteq lookup[a].todo
              \/ new.asked = {} /\ new.seen = {} /\ new.opened = {} /\ new.closed = {}
    <2>1. CASE PassOver(a)
      <3> DEFINE new == [lookup[a] EXCEPT !.todo = @ \ disputed]
      <3>1. lookup' = [lookup EXCEPT ![a] = new]
        BY <2>1 DEF PassOver
      <3>2. new \in Lookup
        BY <1>t DEF Lookup
      <3> QED
        BY <1>t, <3>1, <3>2 DEF Lookup
    <2>2. CASE LookupFails(a)
      <3>1. lookup' = [lookup EXCEPT ![a] = NoLookup]
        BY <2>2 DEF LookupFails
      <3>2. NoLookup \in Lookup
        BY DEF Lookup, NoLookup
      <3> QED
        BY <3>1, <3>2 DEF NoLookup
    <2> QED
      BY <2>1, <2>2
  <1>5. /\ lookup' \in [Lookers -> Lookup] /\ lookup'[a] = new
        /\ \A b \in Lookers \ {a} : Waits(b)
    BY <1>t, <1>2, LookupChanged
  <1>6. RosterTypes'
    BY <1>t, <1>1, <1>5, TypesFromLookups DEF RosterTypeOK
  <1>7. \A b \in Lookers : Waits(b)
    BY <1>2, <1>5 DEF Waits
  <1>8. instant' >= instant
    BY <1>t, <1>1 DEF RosterTypeOK, Instants
  <1> QED
    BY <1>1, <1>6, <1>7, <1>8, WaitingKeeps

-----------------------------------------------------------------------------
(* An answer of OpenDota is newer than all that were told of its team,      *)
(* unless another transaction has looked it up too.                         *)
LEMMA AnsweredKeeps ==
    ASSUME RosterInv, NEW a \in Lookers, NEW t \in Clubs, NEW players \in SUBSET Players,
           NEW whole \in BOOLEAN, Answered(a, t, players, whole)
    PROVE  RosterInv'
  <1> USE RosterAssumption
  <1>t. RosterTypes /\ RosterTypeOK /\ lookup[a] \in Lookup
    BY DEF RosterInv, RosterTypes
  <1> DEFINE x == [team |-> t, at |-> instant + 1, players |-> players, whole |-> whole]
             new == [lookup[a] EXCEPT !.todo = @ \ {t}, !.asked = IF players = {} THEN {} ELSE {x}]
  <1>1. /\ t \in lookup[a].todo /\ lookup[a].asked = {}
        /\ instant < MaxInstant /\ instant' = instant + 1
        /\ lookup' = [lookup EXCEPT ![a] = new]
        /\ mixed' = mixed \cup {y \in {t} : players # {} /\ \E b \in Lookers \ {a} : t \in Touched(b)}
        /\ UNCHANGED <<tournament, registryJob, disputed, roster, told, rosterFaults>>
    BY DEF Answered
  <1>2. instant \in Nat /\ instant + 1 \in Instants
    BY <1>t, <1>1 DEF RosterTypeOK, Instants
  <1>3. x \in AnswerRow
    BY <1>2 DEF AnswerRow
  <1>4. new \in Lookup
    BY <1>t, <1>3 DEF Lookup
  <1>5. /\ new.asked = (IF players = {} THEN {} ELSE {x}) /\ new.seen = lookup[a].seen
        /\ new.opened = lookup[a].opened /\ new.closed = lookup[a].closed
        /\ new.todo = lookup[a].todo \ {t}
    BY <1>t DEF Lookup
  <1> HIDE DEF new
  <1>6. /\ lookup' \in [Lookers -> Lookup] /\ lookup'[a] = new
        /\ \A b \in Lookers \ {a} : lookup'[b] = lookup[b] /\ Waits(b)
    BY <1>t, <1>1, <1>4, LookupChanged
  <1>7. RosterTypes'
    BY <1>t, <1>1, <1>2, <1>6, TypesFromLookups DEF RosterTypeOK
  <1>8. CASE players = {}
    <2>1. mixed' = mixed
      BY <1>1, <1>8
    <2>2. Waits(a)
      BY <1>1, <1>5, <1>6, <1>8 DEF Waits
    <2>3. \A b \in Lookers : Waits(b)
      BY <1>6, <2>2
    <2> QED
      BY <1>1, <1>2, <1>7, <2>1, <2>3, WaitingKeeps
  <1>9. CASE players # {}
    <2>1. /\ lookup'[a].asked = {x} /\ lookup'[a].seen = lookup[a].seen
          /\ lookup'[a].opened = lookup[a].opened /\ lookup'[a].closed = lookup[a].closed
          /\ lookup'[a].todo = lookup[a].todo \ {t}
          /\ \A b \in Lookers \ {a} : lookup'[b] = lookup[b]
      BY <1>5, <1>6, <1>9
    <2>2. /\ Pending(a)' = Pending(a) \cup {x} /\ Pending(a) = lookup[a].seen
          /\ \A b \in Lookers \ {a} : Pending(b)' = Pending(b)
      BY <1>1, <2>1 DEF Pending
    <2>3. Answers' = Answers \cup {x}
      BY <1>1, <2>2 DEF Answers, Lookers
    <2>4. /\ x.team = t /\ x.at = instant + 1
          /\ \A y \in Answers : y.at \in Nat /\ y.at <= instant
      BY <1>t DEF RosterInv, AnswersInOrder, RosterTypes, RosterTypeOK, Answers, Pending, Lookers, AnswerRow, Instants
    <2> HIDE DEF x
    <2>5. AnswersInOrder'
      <3>1. \A y \in Answers : 0 < y.at
        BY DEF RosterInv, AnswersInOrder
      <3>2. \A y, z \in Answers : y.at = z.at => y = z
        BY DEF RosterInv, AnswersInOrder
      <3>3. \A y \in Answers' : 0 < y.at /\ y.at <= instant'
        BY <1>1, <1>2, <2>3, <2>4, <3>1
      <3>4. \A y \in Answers : y.at # x.at
        BY <1>2, <2>4
      <3>5. \A y, z \in Answers' : y.at = z.at => y = z
        BY <2>3, <3>2, <3>4
      <3> QED
        BY <3>3, <3>5 DEF AnswersInOrder
    <2>6. AskedOnce'
      <3> SUFFICES ASSUME NEW b \in Lookers
                   PROVE  /\ lookup'[b].asked \cap lookup'[b].seen = {}
                          /\ \A y, z \in Pending(b)' : y.team = z.team => y = z
                          /\ \A y \in Pending(b)' : y.team \notin lookup'[b].todo
        BY DEF AskedOnce
      <3>1. /\ lookup[b].asked \cap lookup[b].seen = {}
            /\ \A y, z \in Pending(b) : y.team = z.team => y = z
            /\ \A y \in Pending(b) : y.team \notin lookup[b].todo
        BY DEF RosterInv, AskedOnce
      <3>2. CASE b # a
        BY <2>1, <2>2, <3>1, <3>2
      <3>3. CASE b = a
        <4>1. \A y \in lookup[a].seen : y.team # t
          BY <1>1, <2>2, <3>1, <3>3
        <4> QED
          BY <2>1, <2>2, <2>4, <3>1, <3>3, <4>1
      <3> QED
        BY <3>2, <3>3
    <2>7. ChangesHaveReasons'
      <3>1. \A b \in Lookers : /\ lookup'[b].opened = lookup[b].opened /\ lookup'[b].closed = lookup[b].closed
                               /\ lookup'[b].seen = lookup[b].seen
        BY <2>1
      <3> QED
        BY <3>1 DEF RosterInv, ChangesHaveReasons
    <2>8. NotShared'
      <3> SUFFICES ASSUME NEW y \in Pending("worker")', NEW z \in Pending("command")', y.team = z.team
                   PROVE  y.team \in mixed'
        BY DEF NotShared
      <3>1. CASE y \in Pending("worker") /\ z \in Pending("command")
        BY <1>1, <3>1 DEF RosterInv, NotShared
      <3>2. CASE ~(y \in Pending("worker") /\ z \in Pending("command"))
        <4>1. \E b \in Lookers \ {a} : (y = x /\ z \in Pending(b)) \/ (z = x /\ y \in Pending(b))
          BY <2>2, <3>2 DEF Lookers
        <4>2. y.team = t /\ \E b \in Lookers \ {a} : t \in Touched(b)
          BY <2>4, <4>1 DEF Touched, Pending
        <4> QED
          BY <1>1, <1>9, <4>2
      <3> QED
        BY <3>1, <3>2
    <2>9. NewerThanTold'
      <3> SUFFICES ASSUME NEW b \in Lookers, NEW y \in Pending(b)', y.team \notin mixed',
                          NEW z \in told, z.team = y.team
                   PROVE  z.at < y.at
        BY <1>1 DEF NewerThanTold
      <3>1. CASE y \in Pending(b)
        BY <1>1, <3>1 DEF RosterInv, NewerThanTold
      <3>2. CASE y = x
        BY <1>2, <2>4, <3>2 DEF Answers
      <3> QED
        BY <2>2, <3>1, <3>2
    <2>10. ChangesStillApply'
      <3> SUFFICES ASSUME NEW b \in Lookers, NEW y \in lookup'[b].seen, y.team \notin mixed'
                   PROVE  /\ {m \in lookup'[b].opened : m.team = y.team} = Entered(y)'
                          /\ {c \in lookup'[b].closed : c.row.team = y.team}
                                = {[row |-> m, at |-> y.at] : m \in Left(y)'}
        BY DEF ChangesStillApply
      <3>1. Entered(y)' = Entered(y) /\ Left(y)' = Left(y)
        BY <1>1 DEF Entered, Left
      <3>2. /\ lookup'[b].opened = lookup[b].opened /\ lookup'[b].closed = lookup[b].closed
            /\ lookup'[b].seen = lookup[b].seen /\ y.team \notin mixed
        BY <1>1, <2>1
      <3> QED
        BY <3>1, <3>2 DEF RosterInv, ChangesStillApply
    <2>11. HandsFromTheStart' /\ MembershipsHaveReasons'
      BY <1>1 DEF RosterInv, HandsFromTheStart, MembershipsHaveReasons
    <2>12. mixed \subseteq mixed'
      BY <1>1
    <2>13. HistoryTellsAnswers'
      BY <1>1, <2>12 DEF RosterInv, HistoryTellsAnswers, Covers
    <2>14. PageTellsNewest'
      BY <1>1, <2>12 DEF RosterInv, PageTellsNewest, CurrentRoster
    <2> QED
      BY <1>7, <2>5, <2>6, <2>7, <2>8, <2>9, <2>10, <2>11, <2>13, <2>14 DEF RosterInv
  <1> QED
    BY <1>8, <1>9

(* TeamRosterSyncService: the memberships that an answer closes and enters. *)
LEMMA SyncKeeps ==
    ASSUME RosterInv, NEW a \in Lookers, SyncTeam(a)
    PROVE  RosterInv'
  <1> USE RosterAssumption
  <1>t. RosterTypes /\ RosterTypeOK /\ lookup[a] \in Lookup
    BY DEF RosterInv, RosterTypes
  <1>1. PICK x \in lookup[a].asked :
           lookup' = [lookup EXCEPT ![a].asked = {}, ![a].seen = @ \cup {x},
              ![a].opened = @ \cup Entered(x),
              ![a].closed = @ \cup {[row |-> m, at |-> x.at] : m \in Left(x)}]
    BY DEF SyncTeam
  <1>2. UNCHANGED <<instant, tournament, registryJob, disputed, roster, told, mixed, rosterFaults>>
    BY DEF SyncTeam
  <1> DEFINE closings == {[row |-> m, at |-> x.at] : m \in Left(x)}
             new == [lookup[a] EXCEPT !.asked = {}, !.seen = @ \cup {x},
                        !.opened = @ \cup Entered(x), !.closed = @ \cup closings]
  <1>3. x \in AnswerRow /\ x \in Pending(a)
    BY <1>t DEF Lookup, Pending
  <1>4. Entered(x) \subseteq Membership /\ closings \subseteq [row: Membership, at: Instants]
    BY <1>t, <1>3 DEF Entered, Left, Membership, AnswerRow, RosterTypeOK
  <1>5. /\ \A m \in Entered(x) : /\ m.team = x.team /\ m.from = x.at /\ m.player \in x.players
                                 /\ m.to = Current /\ m.by = "opendota"
        /\ \A c \in closings : /\ c.row.team = x.team /\ c.at = x.at /\ x.whole
                               /\ c.row.to = Current /\ c.row.by = "opendota"
                               /\ c.row.player \notin x.players
    BY DEF Entered, Left
  <1> HIDE DEF closings
  <1>6. /\ new \in Lookup
        /\ new.asked = {} /\ new.seen = lookup[a].seen \cup {x}
        /\ new.opened = lookup[a].opened \cup Entered(x) /\ new.closed = lookup[a].closed \cup closings
        /\ new.todo = lookup[a].todo
    BY <1>t, <1>3, <1>4 DEF Lookup
  <1>7. lookup' = [lookup EXCEPT ![a] = new]
    BY <1>t, <1>1 DEF RosterTypes, closings
  <1> HIDE DEF new
  <1>8. /\ lookup' \in [Lookers -> Lookup] /\ lookup'[a] = new
        /\ \A b \in Lookers \ {a} : lookup'[b] = lookup[b]
    BY <1>t, <1>6, <1>7, LookupChanged
  <1>9. RosterTypes'
    BY <1>t, <1>2, <1>8, TypesFromLookups DEF RosterTypeOK
  <1>10. /\ Pending(a)' \subseteq Pending(a)
         /\ \A b \in Lookers : Pending(b)' \subseteq Pending(b)
    BY <1>6, <1>8 DEF Pending
  <1>11. Answers' \subseteq Answers
    BY <1>2, <1>10 DEF Answers, Lookers
  <1>12. AnswersInOrder'
    BY <1>2, <1>11 DEF RosterInv, AnswersInOrder
  <1>13. AskedOnce'
    <2> SUFFICES ASSUME NEW b \in Lookers
                 PROVE  /\ lookup'[b].asked \cap lookup'[b].seen = {}
                        /\ \A y, z \in Pending(b)' : y.team = z.team => y = z
                        /\ \A y \in Pending(b)' : y.team \notin lookup'[b].todo
      BY DEF AskedOnce
    <2>1. /\ lookup[b].asked \cap lookup[b].seen = {}
          /\ \A y, z \in Pending(b) : y.team = z.team => y = z
          /\ \A y \in Pending(b) : y.team \notin lookup[b].todo
      BY DEF RosterInv, AskedOnce
    <2>2. lookup'[b].todo = lookup[b].todo
      BY <1>6, <1>8
    <2>3. lookup'[b].asked = {} \/ (lookup'[b].asked = lookup[b].asked /\ lookup'[b].seen = lookup[b].seen)
      BY <1>6, <1>8
    <2> QED
      BY <1>10, <2>1, <2>2, <2>3
  <1>14. ChangesHaveReasons'
    <2> SUFFICES ASSUME NEW b \in Lookers
                 PROVE  /\ \A m \in lookup'[b].opened :
                              /\ m.to = Current /\ m.by = "opendota"
                              /\ \E y \in lookup'[b].seen : /\ y.team = m.team /\ y.at = m.from
                                                            /\ m.player \in y.players
                        /\ \A c \in lookup'[b].closed :
                              /\ c.row.to = Current /\ c.row.by = "opendota"
                              /\ \E y \in lookup'[b].seen : /\ y.team = c.row.team /\ y.at = c.at /\ y.whole
                                                            /\ c.row.player \notin y.players
      BY DEF ChangesHaveReasons
    <2>1. /\ \A m \in lookup[b].opened :
                 /\ m.to = Current /\ m.by = "opendota"
                 /\ \E y \in lookup[b].seen : /\ y.team = m.team /\ y.at = m.from
                                              /\ m.player \in y.players
          /\ \A c \in lookup[b].closed :
                 /\ c.row.to = Current /\ c.row.by = "opendota"
                 /\ \E y \in lookup[b].seen : /\ y.team = c.row.team /\ y.at = c.at /\ y.whole
                                              /\ c.row.player \notin y.players
      BY DEF RosterInv, ChangesHaveReasons
    <2>2. CASE b # a
      BY <1>8, <2>1, <2>2
    <2>3. CASE b = a
      BY <1>5, <1>6, <1>8, <2>1, <2>3
    <2> QED
      BY <2>2, <2>3
  <1>15. NotShared' /\ NewerThanTold'
    BY <1>2, <1>10 DEF RosterInv, NotShared, NewerThanTold, Lookers
  <1>16. ChangesStillApply'
    <2> SUFFICES ASSUME NEW b \in Lookers, NEW y \in lookup'[b].seen, y.team \notin mixed
                 PROVE  /\ {m \in lookup'[b].opened : m.team = y.team} = Entered(y)
                        /\ {c \in lookup'[b].closed : c.row.team = y.team}
                              = {[row |-> m, at |-> y.at] : m \in Left(y)}
      <3>1. \A y : Entered(y)' = Entered(y) /\ Left(y)' = Left(y)
        BY <1>2 DEF Entered, Left
      <3> QED
        BY <1>2, <3>1 DEF ChangesStillApply
    <2>1. CASE b # a
      BY <1>8, <2>1 DEF RosterInv, ChangesStillApply
    <2>2. CASE b = a /\ y \in lookup[a].seen
      <3>1. y.team # x.team
        BY <1>3, <2>2 DEF RosterInv, AskedOnce, Pending
      <3>2. /\ {m \in lookup[a].opened : m.team = y.team} = Entered(y)
            /\ {c \in lookup[a].closed : c.row.team = y.team} = {[row |-> m, at |-> y.at] : m \in Left(y)}
        BY <2>2 DEF RosterInv, ChangesStillApply
      <3>3. /\ {m \in lookup'[a].opened : m.team = y.team} = {m \in lookup[a].opened : m.team = y.team}
            /\ {c \in lookup'[a].closed : c.row.team = y.team} = {c \in lookup[a].closed : c.row.team = y.team}
        BY <1>5, <1>6, <1>8, <3>1
      <3> QED
        BY <2>2, <3>2, <3>3
    <2>3. CASE b = a /\ y = x
      <3>1. \A z \in lookup[a].seen : z.team # x.team
        BY <1>3 DEF RosterInv, AskedOnce, Pending
      <3>2. /\ \A m \in lookup[a].opened : m.team # x.team
            /\ \A c \in lookup[a].closed : c.row.team # x.team
        BY <3>1 DEF RosterInv, ChangesHaveReasons
      <3>3. /\ {m \in lookup'[a].opened : m.team = x.team} = Entered(x)
            /\ {c \in lookup'[a].closed : c.row.team = x.team} = closings
        BY <1>5, <1>6, <1>8, <3>2
      <3> QED
        BY <2>3, <3>3 DEF closings
    <2> QED
      BY <1>6, <1>8, <2>1, <2>2, <2>3
  <1>17. HandsFromTheStart' /\ MembershipsHaveReasons' /\ HistoryTellsAnswers' /\ PageTellsNewest'
    BY <1>2 DEF RosterInv, HandsFromTheStart, MembershipsHaveReasons, HistoryTellsAnswers, PageTellsNewest,
           CurrentRoster, Covers
  <1> QED
    BY <1>9, <1>12, <1>13, <1>14, <1>15, <1>16, <1>17 DEF RosterInv

-----------------------------------------------------------------------------
(* Two memberships of a player in a club that begin at once are one.        *)
LEMMA BeginsOnce ==
    ASSUME RosterInv, NEW m \in roster, NEW n \in roster, m.team \notin mixed,
           m.team = n.team, m.player = n.player, m.from = n.from
    PROVE  m = n
  <1> USE RosterAssumption
  <1>1. SUFFICES ASSUME m # n PROVE FALSE
    OBVIOUS
  <1>2. ~Covers(m, n.from)
    BY <1>1 DEF RosterInv, HistoryTellsAnswers
  <1>3. m \in Membership /\ n \in Membership
    BY DEF RosterInv, RosterTypes, RosterTypeOK
  <1>4. m.to # Current => m.to > m.from
    BY DEF RosterInv, MembershipsHaveReasons
  <1> QED
    BY <1>2, <1>3, <1>4 DEF Covers, Membership, Instants

(* What is written of a row is when it ends.                                *)
LEMMA ClosedShape ==
    ASSUME NEW m \in Membership, NEW closed \in SUBSET [row: Membership, at: Instants]
    PROVE  \/ Closed(m, closed) = m /\ \A c \in closed : ~Closing(m, c)
           \/ \E c \in closed : Closing(m, c) /\ Closed(m, closed) = [m EXCEPT !.to = c.at]
  BY DEF Closed

(* The rows of a club after a commit: unchanged if the lookup is not about  *)
(* it, and else those the answer makes of them.                             *)
LEMMA OthersRowsStay ==
    ASSUME RosterInv, NEW a \in Lookers, CommitLookup(a), NEW t,
           \A x \in lookup[a].seen : x.team # t
    PROVE  {m \in roster' : m.team = t} = MembersOf(t)
  <1>t. RosterTypeOK /\ lookup[a] \in Lookup
    BY DEF RosterInv, RosterTypes
  <1>1. roster' = {Closed(m, lookup[a].closed) : m \in roster} \cup lookup[a].opened
    BY DEF CommitLookup
  <1>2. \A m \in lookup[a].opened : m.team # t
    BY DEF RosterInv, ChangesHaveReasons
  <1>3. \A c \in lookup[a].closed : c.row.team # t
    BY DEF RosterInv, ChangesHaveReasons
  <1>4. \A m \in roster : /\ Closed(m, lookup[a].closed).team = m.team
                          /\ m.team = t => Closed(m, lookup[a].closed) = m
    <2> TAKE m \in roster
    <2>1. m \in Membership /\ lookup[a].closed \in SUBSET [row: Membership, at: Instants]
      BY <1>t DEF RosterTypeOK, Lookup
    <2>2. \A c \in lookup[a].closed : Closing(m, c) => c.row.team = m.team
      BY <2>1 DEF Closing, Membership
    <2> QED
      BY <1>3, <2>1, <2>2, ClosedShape DEF Membership
  <1> QED
    BY <1>1, <1>2, <1>4 DEF MembersOf

(* What a commit makes of the memberships of a team it has an answer about, *)
(* if nobody else looked the team up meanwhile.                             *)
LEMMA RowsOfAnswer ==
    ASSUME RosterInv, NEW a \in Lookers, CommitLookup(a),
           NEW x \in lookup[a].seen, x.team \notin mixed
    PROVE  {m \in roster' : m.team = x.team} =
               (MembersOf(x.team) \ Left(x)) \cup {[m EXCEPT !.to = x.at] : m \in Left(x)} \cup Entered(x)
  <1>t. RosterTypeOK /\ lookup[a] \in Lookup
    BY DEF RosterInv, RosterTypes
  <1>1. roster' = {Closed(m, lookup[a].closed) : m \in roster} \cup lookup[a].opened
    BY DEF CommitLookup
  <1>2. /\ {m \in lookup[a].opened : m.team = x.team} = Entered(x)
        /\ {c \in lookup[a].closed : c.row.team = x.team} = {[row |-> m, at |-> x.at] : m \in Left(x)}
    BY DEF RosterInv, ChangesStillApply
  <1>3. ASSUME NEW m \in roster, m.team = x.team
        PROVE  Closed(m, lookup[a].closed) = IF m \in Left(x) THEN [m EXCEPT !.to = x.at] ELSE m
    <2>1. m \in Membership /\ lookup[a].closed \in SUBSET [row: Membership, at: Instants]
      BY <1>t, <1>3 DEF RosterTypeOK, Lookup
    <2>2. ASSUME NEW c \in lookup[a].closed, Closing(m, c)
          PROVE  c.row = m /\ m \in Left(x) /\ c.at = x.at
      <3>1. c.row.team = x.team /\ c.row.player = m.player /\ c.row.from = m.from
        BY <1>3, <2>1, <2>2 DEF Closing, Membership
      <3>2. PICK n \in Left(x) : c = [row |-> n, at |-> x.at]
        BY <1>2, <3>1
      <3>3. n \in roster /\ c.row = n /\ c.at = x.at
        BY <3>2 DEF Left
      <3>4. m = n
        BY <1>3, <3>1, <3>3, BeginsOnce
      <3> QED
        BY <3>2, <3>3, <3>4
    <2>3. CASE m \in Left(x)
      <3>1. [row |-> m, at |-> x.at] \in lookup[a].closed
        BY <1>2, <2>3
      <3>2. m = [m EXCEPT !.to = Current]
        BY <2>1, <2>3 DEF Left, Membership
      <3>3. Closing(m, [row |-> m, at |-> x.at])
        BY <3>2 DEF Closing
      <3> QED
        BY <2>1, <2>2, <2>3, <3>1, <3>3, ClosedShape
    <2>4. CASE m \notin Left(x)
      BY <2>1, <2>2, <2>4, ClosedShape
    <2> QED
      BY <2>3, <2>4
  <1>4. \A m \in roster : Closed(m, lookup[a].closed).team = m.team
    <2> TAKE m \in roster
    <2>1. m \in Membership /\ lookup[a].closed \in SUBSET [row: Membership, at: Instants]
      BY <1>t DEF RosterTypeOK, Lookup
    <2> QED
      BY <2>1, ClosedShape DEF Membership
  <1>5. Left(x) \subseteq MembersOf(x.team)
    BY DEF Left, MembersOf
  <1>6. {m \in {Closed(n, lookup[a].closed) : n \in roster} : m.team = x.team}
           = (MembersOf(x.team) \ Left(x)) \cup {[m EXCEPT !.to = x.at] : m \in Left(x)}
    <2> DEFINE C(n) == Closed(n, lookup[a].closed)
    <2>1. \A n \in roster : C(n).team = n.team
      BY <1>4
    <2>2. \A n \in MembersOf(x.team) : C(n) = IF n \in Left(x) THEN [n EXCEPT !.to = x.at] ELSE n
      BY <1>3 DEF MembersOf
    <2>3. MembersOf(x.team) = {n \in roster : n.team = x.team}
      BY DEF MembersOf
    <2> HIDE DEF C
    <2>4. {m \in {C(n) : n \in roster} : m.team = x.team} = {C(n) : n \in MembersOf(x.team)}
      BY <2>1, <2>3
    <2>5. {C(n) : n \in MembersOf(x.team)}
             = (MembersOf(x.team) \ Left(x)) \cup {[m EXCEPT !.to = x.at] : m \in Left(x)}
      BY <1>5, <2>2
    <2> QED
      BY <2>4, <2>5 DEF C
  <1> QED
    BY <1>1, <1>2, <1>6

(* The answers of a club after a commit                                     *)
LEMMA ToldOfClub ==
    ASSUME RosterInv, NEW a \in Lookers, CommitLookup(a), NEW x \in lookup[a].seen
    PROVE  /\ \A y \in told' : y.team = x.team => y = x \/ y \in told
           /\ x.team \notin mixed => \A y \in told : y.team = x.team => y.at < x.at
  <1>1. told' = told \cup lookup[a].seen /\ x \in Pending(a)
    BY DEF CommitLookup, Pending
  <1>2. \A y \in lookup[a].seen : y.team = x.team => y = x
    BY <1>1 DEF RosterInv, AskedOnce, Pending
  <1> QED
    BY <1>1, <1>2 DEF RosterInv, NewerThanTold

(* Before an answer is written, all that is known of its club is older.     *)
LEMMA RowsAreOlder ==
    ASSUME RosterInv, NEW a \in Lookers, NEW x \in lookup[a].seen, x.team \notin mixed,
           NEW m \in MembersOf(x.team)
    PROVE  m.from < x.at /\ (m.to = Current \/ m.to < x.at)
  <1> USE RosterAssumption
  <1>1. m \in roster /\ m.team = x.team /\ m \in Membership
    BY DEF MembersOf, RosterInv, RosterTypes, RosterTypeOK
  <1>2. \A y \in told : y.team = x.team => y.at < x.at
    BY DEF RosterInv, NewerThanTold, Pending
  <1>3. x.at > 0
    BY DEF RosterInv, AnswersInOrder, Answers, Pending, Lookers
  <1>4. CASE m.by = "hand"
    BY <1>1, <1>3, <1>4 DEF RosterInv, HandsFromTheStart, MembershipsHaveReasons
  <1>5. CASE m.by # "hand"
    <2>1. /\ \E y \in told : y.team = m.team /\ y.at = m.from
          /\ m.to # Current => \E y \in told : y.team = m.team /\ y.at = m.to
      BY <1>1, <1>5 DEF RosterInv, MembershipsHaveReasons
    <2> QED
      BY <1>1, <1>2, <2>1
  <1> QED
    BY <1>4, <1>5

(* Such a commit leaves, for each answer told of the team, the memberships  *)
(* that the answer proves, and no two of one player at one time.            *)
LEMMA HistoryOfAnswer ==
    ASSUME RosterInv, NEW a \in Lookers, CommitLookup(a),
           NEW x \in lookup[a].seen, x.team \notin mixed
    PROVE  /\ \A z \in told' : z.team = x.team =>
                 /\ \A p \in z.players :
                       \E m \in roster' : m.team = z.team /\ m.player = p /\ Covers(m, z.at)
                 /\ \A m \in roster' :
                       z.whole /\ m.team = z.team /\ m.by = "opendota" /\ Covers(m, z.at)
                           => m.player \in z.players
           /\ \A m, n \in roster' :
                 m # n /\ m.team = x.team /\ m.team = n.team /\ m.player = n.player
                     => ~Covers(m, n.from)
  <1> USE RosterAssumption
  <1>t. /\ RosterTypeOK /\ lookup[a] \in Lookup /\ x \in AnswerRow /\ x.at \in Nat
        /\ \A m \in roster : m \in Membership /\ m.from \in Nat /\ (m.to = Current \/ m.to \in Nat)
        /\ \A z \in told : z \in AnswerRow /\ z.at \in Nat
    BY DEF RosterInv, RosterTypes, RosterTypeOK, Lookup, AnswerRow, Membership, Instants
  <1> DEFINE old == MembersOf(x.team)
             shut == {[m EXCEPT !.to = x.at] : m \in Left(x)}
             kept == (old \ Left(x)) \cup shut \cup Entered(x)
  <1>1. {m \in roster' : m.team = x.team} = kept
    BY RowsOfAnswer
  <1>2. \A m \in old : /\ m \in roster /\ m.team = x.team
                       /\ m.from < x.at /\ (m.to = Current \/ m.to < x.at)
    BY RowsAreOlder DEF MembersOf
  <1>3. \A m \in Left(x) : /\ m \in old /\ m.to = Current /\ x.whole /\ m.by = "opendota"
                           /\ m.player \notin x.players
    BY DEF Left, MembersOf
  <1>4. \A n \in shut : \E m \in Left(x) : /\ n = [m EXCEPT !.to = x.at]
                                            /\ n.team = m.team /\ n.player = m.player /\ n.from = m.from
                                            /\ n.by = m.by /\ n.to = x.at
    BY <1>t, <1>2, <1>3 DEF Membership
  <1>5. \A n \in Entered(x) : /\ n.team = x.team /\ n.player \in x.players /\ n.from = x.at
                              /\ n.to = Current /\ n.by = "opendota"
                              /\ \A m \in old : m.player = n.player => m.to # Current
                              /\ n = [team |-> x.team, player |-> n.player, from |-> x.at,
                                      to |-> Current, by |-> "opendota"]
    BY DEF Entered, MembersOf
  <1>6. \A z \in told' : z.team = x.team => z = x \/ (z \in told /\ z.at < x.at)
    BY ToldOfClub
  <1>7. /\ \A z \in told : z.team = x.team =>
              /\ \A p \in z.players : \E m \in old : m.player = p /\ Covers(m, z.at)
              /\ \A m \in old : z.whole /\ m.by = "opendota" /\ Covers(m, z.at) => m.player \in z.players
        /\ \A m, n \in old : m # n /\ m.player = n.player => ~Covers(m, n.from)
    BY DEF RosterInv, HistoryTellsAnswers, MembersOf
  <1>8. \A m \in Left(x) : [m EXCEPT !.to = x.at] \in shut
    OBVIOUS
  <1>9. \A p \in x.players : (\E m \in old : m.player = p /\ m.to = Current) \/ \E n \in Entered(x) : n.player = p
    <2> TAKE p \in x.players
    <2> DEFINE n == [team |-> x.team, player |-> p, from |-> x.at, to |-> Current, by |-> "opendota"]
    <2>1. CASE \E m \in roster : m.team = x.team /\ m.player = p /\ m.to = Current
      BY <2>1 DEF MembersOf
    <2>2. CASE ~\E m \in roster : m.team = x.team /\ m.player = p /\ m.to = Current
      <3>1. n \in Entered(x) /\ n.player = p
        BY <2>2 DEF Entered
      <3> QED
        BY <3>1
    <2> QED
      BY <2>1, <2>2
  <1>10. \A m \in old : m.to = Current /\ x.whole /\ m.by = "opendota" /\ m.player \notin x.players => m \in Left(x)
    BY DEF Left, MembersOf
  <1> HIDE DEF old, shut
  (* the answers that were known, and this one                              *)
  <1>11. ASSUME NEW z \in told, z.team = x.team, z.at < x.at
         PROVE  /\ \A p \in z.players : \E m \in kept : m.player = p /\ Covers(m, z.at)
                /\ \A m \in kept : z.whole /\ m.by = "opendota" /\ Covers(m, z.at) => m.player \in z.players
    <2>1. \A m \in Left(x) : /\ Covers([m EXCEPT !.to = x.at], z.at) <=> Covers(m, z.at)
                             /\ [m EXCEPT !.to = x.at].player = m.player
      BY <1>t, <1>2, <1>3, <1>11 DEF Covers, Membership
    <2>2. \A n \in Entered(x) : ~Covers(n, z.at)
      BY <1>t, <1>5, <1>11 DEF Covers
    <2>3. ASSUME NEW p \in z.players PROVE \E m \in kept : m.player = p /\ Covers(m, z.at)
      <3>1. PICK m \in old : m.player = p /\ Covers(m, z.at)
        BY <1>7, <1>11
      <3> QED
        BY <1>8, <2>1, <3>1
    <2>4. ASSUME NEW n \in kept, z.whole, n.by = "opendota", Covers(n, z.at) PROVE n.player \in z.players
      <3>1. CASE n \in old
        BY <1>7, <1>11, <2>4, <3>1
      <3>2. CASE n \in shut
        BY <1>3, <1>4, <1>7, <1>11, <2>1, <2>4, <3>2
      <3> QED
        BY <2>2, <2>4, <3>1, <3>2
    <2> QED
      BY <2>3, <2>4
  <1>12. /\ \A p \in x.players : \E m \in kept : m.player = p /\ Covers(m, x.at)
         /\ \A m \in kept : x.whole /\ m.by = "opendota" /\ Covers(m, x.at) => m.player \in x.players
    <2>1. ASSUME NEW p \in x.players PROVE \E m \in kept : m.player = p /\ Covers(m, x.at)
      <3>1. CASE \E m \in old : m.player = p /\ m.to = Current
        <4>1. PICK m \in old : m.player = p /\ m.to = Current
          BY <3>1
        <4>2. m \notin Left(x) /\ Covers(m, x.at)
          BY <1>t, <1>2, <1>3, <4>1 DEF Covers
        <4> QED
          BY <4>1, <4>2
      <3>2. CASE \E n \in Entered(x) : n.player = p
        BY <1>t, <1>5, <3>2 DEF Covers
      <3> QED
        BY <1>9, <3>1, <3>2
    <2>2. ASSUME NEW n \in kept, x.whole, n.by = "opendota", Covers(n, x.at) PROVE n.player \in x.players
      <3>1. CASE n \in old \ Left(x)
        <4>1. n.to = Current
          BY <1>t, <1>2, <2>2, <3>1 DEF Covers
        <4> QED
          BY <1>10, <2>2, <3>1, <4>1
      <3>2. CASE n \in shut
        BY <1>t, <1>4, <2>2, <3>2 DEF Covers
      <3> QED
        BY <1>5, <2>2, <3>1, <3>2
    <2> QED
      BY <2>1, <2>2
  (* nobody is a member twice                                               *)
  <1>13. ASSUME NEW m \in kept, NEW n \in kept, m # n, m.player = n.player
         PROVE  ~Covers(m, n.from)
    <2>1. \A r \in kept \ Entered(x) : \E o \in old :
              /\ o.player = r.player /\ o.from = r.from
              /\ \A at \in Nat : Covers(r, at) => Covers(o, at)
              /\ r = IF o \in Left(x) THEN [o EXCEPT !.to = x.at] ELSE o
      <3> TAKE r \in kept \ Entered(x)
      <3>1. CASE r \in old \ Left(x)
        BY <3>1
      <3>2. CASE r \in shut
        <4>1. PICK o \in Left(x) : /\ r = [o EXCEPT !.to = x.at]
                                   /\ r.player = o.player /\ r.from = o.from /\ r.to = x.at
          BY <1>4, <3>2
        <4>2. o \in old /\ o.to = Current
          BY <1>3, <4>1
        <4>3. \A at \in Nat : Covers(r, at) => Covers(o, at)
          BY <4>1, <4>2 DEF Covers
        <4> QED
          BY <4>1, <4>2, <4>3
      <3> QED
        BY <3>1, <3>2
    <2>2. CASE m \notin Entered(x) /\ n \notin Entered(x)
      <3>1. PICK o \in old : /\ o.player = m.player /\ o.from = m.from
                             /\ \A at \in Nat : Covers(m, at) => Covers(o, at)
                             /\ m = IF o \in Left(x) THEN [o EXCEPT !.to = x.at] ELSE o
        BY <2>1, <2>2
      <3>2. PICK q \in old : /\ q.player = n.player /\ q.from = n.from
                             /\ n = IF q \in Left(x) THEN [q EXCEPT !.to = x.at] ELSE q
        BY <2>1, <2>2
      <3>3. o # q
        BY <1>13, <3>1, <3>2
      <3>4. ~Covers(o, q.from)
        BY <1>7, <1>13, <3>1, <3>2, <3>3
      <3>5. n.from \in Nat
        BY <1>t, <1>2, <3>2
      <3> QED
        BY <3>1, <3>2, <3>4, <3>5
    <2>3. CASE n \in Entered(x) /\ m \notin Entered(x)
      <3>1. n.from = x.at /\ \A o \in old : o.player = n.player => o.to # Current
        BY <1>5, <2>3
      <3>2. CASE m \in old \ Left(x)
        <4>1. m.to # Current /\ m.to < x.at /\ m.to \in Nat
          BY <1>t, <1>2, <1>13, <3>1, <3>2
        <4> QED
          BY <1>t, <3>1, <4>1 DEF Covers
      <3>3. CASE m \in shut
        BY <1>t, <1>4, <3>1, <3>3 DEF Covers
      <3> QED
        BY <2>3, <3>2, <3>3
    <2>4. CASE m \in Entered(x) /\ n \notin Entered(x)
      <3>1. PICK q \in old : q.from = n.from
        BY <2>1, <2>4
      <3>2. m.from = x.at /\ n.from < x.at /\ n.from \in Nat
        BY <1>t, <1>2, <1>5, <2>4, <3>1
      <3> QED
        BY <1>t, <3>2 DEF Covers
    <2>5. CASE m \in Entered(x) /\ n \in Entered(x)
      BY <1>5, <1>13, <2>5
    <2> QED
      BY <2>2, <2>3, <2>4, <2>5
  <1> HIDE DEF kept
  <1>14. \A m \in roster' : m.team = x.team => m \in kept
    BY <1>1
  <1>15. \A m \in kept : m \in roster' /\ m.team = x.team
    BY <1>1
  <1>16. ASSUME NEW z \in told', z.team = x.team
         PROVE  /\ \A p \in z.players : \E m \in kept : m.player = p /\ Covers(m, z.at)
                /\ \A m \in kept : z.whole /\ m.by = "opendota" /\ Covers(m, z.at) => m.player \in z.players
    BY <1>6, <1>11, <1>12, <1>16
  <1> QED
    BY <1>13, <1>14, <1>15, <1>16

(* The commit of a lookup: the memberships change and the answers are told. *)
LEMMA CommitKeeps ==
    ASSUME RosterInv, NEW a \in Lookers, CommitLookup(a)
    PROVE  RosterInv'
  <1> USE RosterAssumption
  <1>t. RosterTypes /\ RosterTypeOK /\ lookup[a] \in Lookup /\ lookup \in [Lookers -> Lookup]
    BY DEF RosterInv, RosterTypes
  <1>1. /\ roster' = {Closed(m, lookup[a].closed) : m \in roster} \cup lookup[a].opened
        /\ told' = told \cup lookup[a].seen
        /\ lookup' = [lookup EXCEPT ![a] = NoLookup]
        /\ ~Inverted(a) /\ JobEnds(a, "done")
        /\ UNCHANGED <<instant, tournament, disputed, mixed, rosterFaults>>
    BY DEF CommitLookup
  <1>2. NoLookup \in Lookup
    BY DEF NoLookup, Lookup
  <1>3. /\ lookup' \in [Lookers -> Lookup] /\ lookup'[a] = NoLookup
        /\ \A b \in Lookers \ {a} : lookup'[b] = lookup[b]
    BY <1>t, <1>1, <1>2, LookupChanged
  <1>4. /\ Pending(a)' = {} /\ \A b \in Lookers \ {a} : Pending(b)' = Pending(b)
    BY <1>3 DEF Pending, NoLookup
  <1>5. Answers' \subseteq Answers
    BY <1>1, <1>4 DEF Answers, Pending, Lookers
  <1>6. \A m \in roster :
           \/ Closed(m, lookup[a].closed) = m
           \/ \E c \in lookup[a].closed : /\ Closing(m, c) /\ c.at \in Instants
                                          /\ Closed(m, lookup[a].closed) = [m EXCEPT !.to = c.at]
    BY <1>t, ClosedShape DEF RosterTypeOK, Lookup
  <1>7. RosterTypes'
    <2>1. roster' \subseteq Membership
      BY <1>t, <1>1, <1>6 DEF Membership, RosterTypeOK, Lookup
    <2>2. told' \subseteq AnswerRow
      BY <1>t, <1>1 DEF RosterTypeOK, Lookup
    <2>3. \/ registryJob' = registryJob
          \/ \E c \in DOMAIN registryJob, s \in {"queued", "running", "done"} :
                 registryJob' = [registryJob EXCEPT ![c].state = s]
      <3>1. CASE lookup[a].cycle \in DOMAIN registryJob
        BY <1>1, <3>1 DEF JobEnds
      <3>2. CASE lookup[a].cycle \notin DOMAIN registryJob
        BY <1>t, <1>1, <3>2 DEF JobEnds, RosterTypes
      <3> QED
        BY <3>1, <3>2
    <2> QED
      BY <1>t, <1>1, <1>3, <2>1, <2>2, <2>3, TypesFromLookups DEF RosterTypeOK
  <1>8. AnswersInOrder'
    BY <1>1, <1>5 DEF RosterInv, AnswersInOrder
  <1>9. AskedOnce'
    BY <1>3, <1>4 DEF RosterInv, AskedOnce, NoLookup
  <1>10. ChangesHaveReasons'
    BY <1>3 DEF RosterInv, ChangesHaveReasons, NoLookup
  <1>11. HandsFromTheStart' /\ MembershipsHaveReasons'
    <2> SUFFICES ASSUME NEW n \in roster'
                 PROVE  IF n.by = "hand" THEN n.to = Current /\ n.from = 0
                        ELSE /\ \E y \in told' : y.team = n.team /\ y.at = n.from /\ n.player \in y.players
                             /\ n.to # Current =>
                                    /\ n.to > n.from
                                    /\ \E y \in told' : /\ y.team = n.team /\ y.at = n.to /\ y.whole
                                                        /\ n.player \notin y.players
      BY DEF HandsFromTheStart, MembershipsHaveReasons
    <2>1. ASSUME NEW m \in roster
          PROVE  IF m.by = "hand" THEN m.to = Current /\ m.from = 0
                 ELSE /\ \E y \in told' : y.team = m.team /\ y.at = m.from /\ m.player \in y.players
                      /\ m.to # Current =>
                             /\ m.to > m.from
                             /\ \E y \in told' : /\ y.team = m.team /\ y.at = m.to /\ y.whole
                                                 /\ m.player \notin y.players
      BY <1>1 DEF RosterInv, HandsFromTheStart, MembershipsHaveReasons
    <2>2. CASE n \in lookup[a].opened
      <3>1. /\ n.to = Current /\ n.by = "opendota"
            /\ \E y \in lookup[a].seen : y.team = n.team /\ y.at = n.from /\ n.player \in y.players
        BY <2>2 DEF RosterInv, ChangesHaveReasons
      <3> QED
        BY <1>1, <3>1
    <2>3. CASE n \notin lookup[a].opened
      <3>1. PICK m \in roster : n = Closed(m, lookup[a].closed)
        BY <1>1, <2>3
      <3>2. CASE n = m
        BY <2>1, <3>2
      <3>3. CASE n # m
        <4>1. PICK c \in lookup[a].closed : /\ Closing(m, c) /\ c.at \in Instants
                                            /\ n = [m EXCEPT !.to = c.at]
          BY <1>6, <3>1, <3>3
        <4>2. m \in Membership /\ c \in [row: Membership, at: Instants]
          BY <1>t DEF RosterTypeOK, Lookup
        <4>3. /\ n.team = m.team /\ n.player = m.player /\ n.from = m.from /\ n.by = m.by /\ n.to = c.at
          BY <4>1, <4>2 DEF Membership
        <4>4. /\ c.row.team = m.team /\ c.row.player = m.player /\ c.row.from = m.from /\ c.row.by = m.by
          BY <4>1, <4>2 DEF Closing, Membership
        <4>5. /\ c.row.by = "opendota"
              /\ \E x \in lookup[a].seen : /\ x.team = c.row.team /\ x.at = c.at /\ x.whole
                                           /\ c.row.player \notin x.players
          BY DEF RosterInv, ChangesHaveReasons
        <4>6. PICK x \in lookup[a].seen : /\ x.team = m.team /\ x.at = c.at /\ x.whole
                                          /\ m.player \notin x.players
          BY <4>4, <4>5
        <4>7. PICK y \in told : y.team = m.team /\ y.at = m.from /\ m.player \in y.players
          BY <4>4, <4>5 DEF RosterInv, MembershipsHaveReasons
        <4>8. c.at > m.from
          <5>1. c.at >= m.from /\ c.at \in Nat /\ m.from \in Nat
            BY <1>1, <4>2, <4>4 DEF Inverted, Membership, Instants
          <5>2. x \in Answers /\ y \in Answers /\ x # y
            BY <4>6, <4>7 DEF Answers, Pending, Lookers
          <5>3. x.at # y.at
            BY <5>2 DEF RosterInv, AnswersInOrder
          <5> QED
            BY <4>6, <4>7, <5>1, <5>3
        <4>9. n.by # "hand" /\ x \in told' /\ y \in told'
          BY <1>1, <4>3, <4>4, <4>5
        <4> QED
          BY <4>3, <4>6, <4>7, <4>8, <4>9
      <3> QED
        BY <3>2, <3>3
    <2> QED
      BY <2>2, <2>3
  <1>12. NotShared'
    BY <1>1, <1>4 DEF RosterInv, NotShared, Lookers
  (* who else is about a club of this lookup finds it mixed                 *)
  <1>13. \A b \in Lookers \ {a} : \A y \in Pending(b), x \in lookup[a].seen : x.team = y.team => x.team \in mixed
    BY DEF RosterInv, NotShared, Lookers, Pending
  <1>14. NewerThanTold'
    <2> SUFFICES ASSUME NEW b \in Lookers, NEW y \in Pending(b)', y.team \notin mixed,
                        NEW z \in told', z.team = y.team
                 PROVE  z.at < y.at
      BY <1>1 DEF NewerThanTold
    <2>1. b # a /\ y \in Pending(b)
      BY <1>4
    <2>2. z \in told
      BY <1>1, <1>13, <2>1
    <2> QED
      BY <2>1, <2>2 DEF RosterInv, NewerThanTold
  <1>15. ChangesStillApply'
    <2> SUFFICES ASSUME NEW b \in Lookers, NEW y \in lookup'[b].seen, y.team \notin mixed
                 PROVE  /\ {m \in lookup'[b].opened : m.team = y.team} = Entered(y)'
                        /\ {c \in lookup'[b].closed : c.row.team = y.team}
                              = {[row |-> m, at |-> y.at] : m \in Left(y)'}
      BY <1>1 DEF ChangesStillApply
    <2>1. b # a /\ lookup'[b] = lookup[b] /\ y \in lookup[b].seen
      BY <1>3 DEF NoLookup
    <2>2. \A x \in lookup[a].seen : x.team # y.team
      BY <1>13, <2>1 DEF Pending
    <2>3. {m \in roster' : m.team = y.team} = MembersOf(y.team)
      BY <2>2, OthersRowsStay
    <2>4. Entered(y)' = Entered(y) /\ Left(y)' = Left(y)
      <3>1. \A m : (m \in roster' /\ m.team = y.team) <=> (m \in roster /\ m.team = y.team)
        BY <2>3 DEF MembersOf
      <3> QED
        BY <3>1 DEF Entered, Left
    <2> QED
      BY <2>1, <2>4 DEF RosterInv, ChangesStillApply
  <1>16. HistoryTellsAnswers'
    <2>1. ASSUME NEW t, t \notin mixed
          PROVE  /\ \A z \in told' : z.team = t =>
                       /\ \A p \in z.players :
                             \E m \in roster' : m.team = z.team /\ m.player = p /\ Covers(m, z.at)
                       /\ \A m \in roster' :
                             z.whole /\ m.team = z.team /\ m.by = "opendota" /\ Covers(m, z.at)
                                 => m.player \in z.players
                 /\ \A m, n \in roster' :
                       m # n /\ m.team = t /\ m.team = n.team /\ m.player = n.player
                           => ~Covers(m, n.from)
      <3>1. CASE \E x \in lookup[a].seen : x.team = t
        BY <2>1, <3>1, HistoryOfAnswer
      <3>2. CASE \A x \in lookup[a].seen : x.team # t
        <4>1. {m \in roster' : m.team = t} = MembersOf(t)
          BY <3>2, OthersRowsStay
        <4>2. \A m : (m \in roster' /\ m.team = t) <=> (m \in roster /\ m.team = t)
          BY <4>1 DEF MembersOf
        <4>3. \A z \in told' : z.team = t => z \in told
          BY <1>1, <3>2
        <4>4. ASSUME NEW z \in told', z.team = t
              PROVE  /\ \A p \in z.players :
                           \E m \in roster' : m.team = z.team /\ m.player = p /\ Covers(m, z.at)
                     /\ \A m \in roster' :
                           z.whole /\ m.team = z.team /\ m.by = "opendota" /\ Covers(m, z.at)
                               => m.player \in z.players
          BY <2>1, <4>2, <4>3, <4>4 DEF RosterInv, HistoryTellsAnswers
        <4>5. ASSUME NEW m \in roster', NEW n \in roster',
                     m # n, m.team = t, m.team = n.team, m.player = n.player
              PROVE  ~Covers(m, n.from)
          BY <2>1, <4>2, <4>5 DEF RosterInv, HistoryTellsAnswers
        <4> QED
          BY <4>4, <4>5
      <3> QED
        BY <3>1, <3>2
    <2> QED
      BY <1>1, <2>1 DEF HistoryTellsAnswers, Covers
  <1>17. PageTellsNewest'
    <2> SUFFICES ASSUME NEW z \in told', z.team \notin mixed,
                        \A y \in told' : y.team = z.team => y.at <= z.at
                 PROVE  /\ z.players \subseteq CurrentRoster(z.team)'
                        /\ z.whole => \A p \in CurrentRoster(z.team)' \ z.players :
                               [team |-> z.team, player |-> p, from |-> 0, to |-> Current, by |-> "hand"]
                                   \in roster'
      BY <1>1 DEF PageTellsNewest
    <2>1. CASE \E x \in lookup[a].seen : x.team = z.team
      <3>1. PICK x \in lookup[a].seen : x.team = z.team
        BY <2>1
      <3>2. z = x
        <4>1. x \in told' /\ x.at <= z.at
          BY <1>1, <3>1
        <4>2. z \in told => z.at < x.at
          BY <3>1, ToldOfClub
        <4>3. z \in AnswerRow /\ x \in AnswerRow
          BY <1>7, <4>1 DEF RosterTypes, RosterTypeOK
        <4>4. z \notin told
          BY <4>1, <4>2, <4>3 DEF AnswerRow, Instants
        <4> QED
          BY <3>1, <4>4, ToldOfClub
      <3>3. {m \in roster' : m.team = x.team} =
               (MembersOf(x.team) \ Left(x)) \cup {[m EXCEPT !.to = x.at] : m \in Left(x)} \cup Entered(x)
        BY <3>1, RowsOfAnswer
      <3>4. \A m \in MembersOf(x.team) : m \in roster /\ m.team = x.team /\ m \in Membership
        BY <1>t DEF MembersOf, RosterTypeOK
      <3>5. ASSUME NEW p \in x.players PROVE p \in CurrentRoster(x.team)'
        <4>1. CASE \E m \in MembersOf(x.team) : m.player = p /\ m.to = Current
          <5>1. PICK m \in MembersOf(x.team) : m.player = p /\ m.to = Current
            BY <4>1
          <5>2. m \notin Left(x)
            BY <5>1 DEF Left
          <5>3. m \in roster' /\ m.team = x.team
            BY <3>3, <5>2
          <5> QED
            BY <5>1, <5>3 DEF CurrentRoster
        <4>2. CASE ~\E m \in MembersOf(x.team) : m.player = p /\ m.to = Current
          <5> DEFINE n == [team |-> x.team, player |-> p, from |-> x.at, to |-> Current, by |-> "opendota"]
          <5>1. n \in Entered(x)
            BY <4>2 DEF Entered, MembersOf
          <5>2. n \in roster' /\ n.team = x.team /\ n.player = p /\ n.to = Current
            BY <3>3, <5>1
          <5> QED
            BY <5>2 DEF CurrentRoster
        <4> QED
          BY <4>1, <4>2
      <3>6. ASSUME NEW p \in CurrentRoster(x.team)' \ x.players, x.whole
            PROVE  [team |-> x.team, player |-> p, from |-> 0, to |-> Current, by |-> "hand"] \in roster'
        <4>1. PICK n \in roster' : n.team = x.team /\ n.to = Current /\ n.player = p
          BY <3>6 DEF CurrentRoster
        <4>2. n \notin Entered(x)
          BY <3>6, <4>1 DEF Entered
        <4>3. n \notin {[m EXCEPT !.to = x.at] : m \in Left(x)}
          <5> SUFFICES ASSUME NEW m \in Left(x), n = [m EXCEPT !.to = x.at] PROVE FALSE
            OBVIOUS
          <5>1. m \in Membership
            BY <3>4 DEF Left, MembersOf
          <5>2. n.to = x.at
            BY <5>1 DEF Membership
          <5>3. x.at \in Nat
            BY <1>t DEF Lookup, AnswerRow, Instants
          <5> QED
            BY <4>1, <5>2, <5>3
        <4>4. n \in MembersOf(x.team) \ Left(x)
          BY <3>3, <4>1, <4>2, <4>3
        <4>5. n.by = "hand" /\ n.from = 0
          BY <3>4, <3>6, <4>1, <4>4 DEF Left, Membership, RosterInv, HandsFromTheStart
        <4>6. n = [team |-> x.team, player |-> p, from |-> 0, to |-> Current, by |-> "hand"]
          BY <3>4, <4>1, <4>4, <4>5 DEF Membership
        <4> QED
          BY <4>1, <4>6
      <3> QED
        BY <3>2, <3>5, <3>6
    <2>2. CASE \A x \in lookup[a].seen : x.team # z.team
      <3>1. {m \in roster' : m.team = z.team} = MembersOf(z.team)
        BY <2>2, OthersRowsStay
      <3>2. \A m : (m \in roster' /\ m.team = z.team) <=> (m \in roster /\ m.team = z.team)
        BY <3>1 DEF MembersOf
      <3>3. z \in told /\ \A y \in told : y.team = z.team => y.at <= z.at
        BY <1>1, <2>2
      <3>4. CurrentRoster(z.team)' = CurrentRoster(z.team)
        <4>1. \A m : (m \in roster' /\ m.team = z.team /\ m.to = Current)
                        <=> (m \in roster /\ m.team = z.team /\ m.to = Current)
          BY <3>2
        <4>2. {n \in roster' : n.team = z.team /\ n.to = Current} = {n \in roster : n.team = z.team /\ n.to = Current}
          BY <4>1
        <4> QED
          BY <4>2 DEF CurrentRoster
      <3>5. /\ z.players \subseteq CurrentRoster(z.team)
            /\ z.whole => \A p \in CurrentRoster(z.team) \ z.players :
                   [team |-> z.team, player |-> p, from |-> 0, to |-> Current, by |-> "hand"] \in roster
        BY <3>3 DEF RosterInv, PageTellsNewest
      <3>6. \A p : LET m == [team |-> z.team, player |-> p, from |-> 0, to |-> Current, by |-> "hand"]
                   IN  m \in roster => m \in roster'
        BY <3>2
      <3> QED
        BY <3>4, <3>5, <3>6
    <2> QED
      BY <2>1, <2>2
  <1> QED
    BY <1>7, <1>8, <1>9, <1>10, <1>11, <1>12, <1>14, <1>15, <1>16, <1>17 DEF RosterInv

(* Every step of Rosters keeps the invariant.                               *)
LEMMA RosterStep ==
    ASSUME RosterInv, [RosterNext]_rosterVars
    PROVE  RosterInv'
  <1>1. CASE ListSeries \/ BindTournament \/ ScheduleRefresh \/ TimePasses
    BY <1>1, ScheduleKeeps
  <1>2. CASE (\E c \in DOMAIN registryJob : BeginJob(c)) \/ RegistryCommand \/ RosterCommand
    BY <1>2, LookupsBegin
  <1>3. CASE \E a \in Lookers : LookerStep(a)
    <2>1. PICK a \in Lookers : LookerStep(a)
      BY <1>3
    <2> QED
      BY <2>1, PassOverKeeps, AnsweredKeeps, SyncKeeps, CommitKeeps DEF LookerStep
  <1>4. CASE UNCHANGED rosterVars
    <2>1. UNCHANGED <<instant, tournament, registryJob, disputed, roster, lookup, told, mixed, rosterFaults>>
      BY <1>4 DEF rosterVars, lookupVars
    <2>2. RosterTypes'
      BY <2>1 DEF RosterInv, RosterTypes, RosterTypeOK
    <2>3. instant \in Int
      BY RosterAssumption DEF RosterInv, RosterTypes, RosterTypeOK, Instants
    <2>4. \A a \in Lookers : Waits(a)
      BY <2>1 DEF Waits
    <2> QED
      BY <2>1, <2>2, <2>3, <2>4, WaitingKeeps
  <1> QED
    BY <1>1, <1>2, <1>3, <1>4 DEF RosterNext

(* The team pages: the roster history tells who played at the time of every *)
(* answer and the roster shows the newest one, unless two transactions      *)
(* looked the team up at once; and, whoever ran at once, every membership   *)
(* has its reasons.                                                         *)
THEOREM RostersAlwaysTold == RosterSpec => []RosterIsTold
  <1>1. RosterInv => RosterIsTold
    BY DEF RosterInv, RosterTypes, RosterIsTold
  <1> QED
    BY <1>1, RosterBegins, RosterStep, PTL DEF RosterSpec

-----------------------------------------------------------------------------
(* Teams and Series count with the operators of FiniteSets.                 *)
LEMMA SameSizes ==
    /\ \A S : Meet!IsFiniteSet(S) <=> IsFiniteSet(S)
    /\ \A S : Meet!Cardinality(S) = Cardinality(S)
    /\ \A S : Who!Cardinality(S) = Cardinality(S)
  BY DEF IsFiniteSet, Meet!IsFiniteSet, Cardinality, Meet!Cardinality, Who!Cardinality

-----------------------------------------------------------------------------
(* Teams.  What is assumed of the names, spelled out.                       *)
LEMMA TA ==
    /\ Radiant # Dire /\ None \notin Who!Real \cup Who!Team
    /\ None \notin SUBSET Who!Team /\ None \notin Who!Fact /\ None \notin Who!Verdict
  BY ObservedAssumption DEF ObservedAssumption, Who!TeamsAssumption

(* A mapping names a team that is there: the named one or the placeholder   *)
(* of its provider.                                                         *)
MappingsName ==
    \A p \in Who!Providers, r \in Who!Real :
        \/ mapping[p][r] = None
        \/ mapping[p][r] \in teams /\ (\/ mapping[p][r] = Who!Named(r)
                                       \/ p \in Who!Sources /\ mapping[p][r] = Who!Placeholder(p, r))

(* The series has one team for each side, and a placeholder in it is still  *)
(* what its provider's number is mapped to.                                 *)
SeriesIsOfTwo ==
    pair # None =>
        /\ pair \subseteq teams
        /\ \A r \in Who!Real : \E t \in pair : t[2] = r
        /\ \A t, u \in pair : t[2] = u[2] => t = u
        /\ \A p \in Who!Sources, r \in Who!Real : Who!Placeholder(p, r) \in pair => mapping[p][r] = Who!Placeholder(p, r)

(* What a provider's fact and evidence name is what its numbers are mapped  *)
(* to.                                                                      *)
FactsFollow ==
    \A p \in Who!Sources : facts[p] # None =>
        /\ \A r \in Who!Real : facts[p].sides[r] \in {None, mapping[p][r]}
        /\ facts[p].winner \in {None, mapping[p][Radiant]}
EvidenceFollows ==
    \A p \in Who!Sources : evidence[p] # None =>
        /\ facts[p] # None /\ facts[p].winner # None /\ mapping[p][Radiant] # None
        /\ evidence[p].winner = mapping[p][Radiant]
ResultFollows ==
    result # None =>
        \/ result.winner = None
        \/ \E q \in Who!Known(evidence) : result.winner = evidence[q].winner

TeamsInv == Who!TypeOK /\ MappingsName /\ SeriesIsOfTwo /\ FactsFollow /\ EvidenceFollows /\ ResultFollows

(* Named teams and placeholders are different teams and none of them is     *)
(* None.                                                                    *)
LEMMA TeamsDiffer ==
    /\ Radiant # Dire /\ Who!Real = {Radiant, Dire} /\ None \notin Who!Team
    /\ \A r, s \in Who!Real : Who!Named(r) = Who!Named(s) => r = s
    /\ \A r \in Who!Real : Who!Named(r) \in Who!Team /\ Who!Named(r)[2] = r /\ Who!Named(r) # None
    /\ \A p \in Who!Providers, r \in Who!Real : Who!Placeholder(p, r)[2] = r /\ Who!Placeholder(p, r)[1] = p
    /\ \A p \in Who!Sources, r \in Who!Real : Who!Placeholder(p, r) \in Who!Team /\ Who!Placeholder(p, r) # None
    /\ \A p \in Who!Providers, r, s \in Who!Real : Who!Placeholder(p, r) # Who!Named(s)
    /\ \A p, q \in Who!Providers, r, s \in Who!Real : Who!Placeholder(p, r) = Who!Placeholder(q, s) => p = q /\ r = s
  BY TA DEF Who!TeamsAssumption, Who!Team, Who!NamedPair, Who!Named, Who!Placeholder, Who!Real, Who!Sources, Who!Providers

(* Two different winners are more than one winner.                          *)
LEMMA AtMostOne ==
    ASSUME NEW S, NEW a, NEW b, S \subseteq {a, b}, NEW x \in S, NEW y \in S, ~(Cardinality(S) > 1)
    PROVE  x = y
  <1>1. IsFiniteSet({a, b})
    <2>1. IsFiniteSet({a})
      BY FS_Singleton
    <2>2. {a, b} = {a} \cup {b}
      OBVIOUS
    <2> QED
      BY <2>1, <2>2, FS_AddElement
  <1>2. IsFiniteSet(S)
    BY <1>1, FS_Subset
  <1>3. SUFFICES ASSUME x # y PROVE FALSE
    OBVIOUS
  <1>4. IsFiniteSet(S \ {x}) /\ Cardinality(S \ {x}) = Cardinality(S) - 1
    BY <1>2, FS_RemoveElement
  <1>5. IsFiniteSet((S \ {x}) \ {y}) /\ Cardinality((S \ {x}) \ {y}) = Cardinality(S \ {x}) - 1
    BY <1>3, <1>4, FS_RemoveElement
  <1>6. Cardinality((S \ {x}) \ {y}) \in Nat /\ Cardinality(S) \in Nat
    BY <1>2, <1>5, FS_CardinalityType
  <1> QED
    BY <1>4, <1>5, <1>6

(* Init: nobody is known.                                                   *)
LEMMA TeamsBegin == Who!Init => TeamsInv
  <1> SUFFICES ASSUME Who!Init PROVE TeamsInv
    OBVIOUS
  <1>1. Who!TypeOK
    BY DEF Who!Init, Who!TypeOK
  <1>2. MappingsName /\ SeriesIsOfTwo /\ FactsFollow /\ EvidenceFollows /\ ResultFollows
    BY DEF Who!Init, MappingsName, SeriesIsOfTwo, FactsFollow, EvidenceFollows, ResultFollows
  <1> QED
    BY <1>1, <1>2 DEF TeamsInv

-----------------------------------------------------------------------------
(* The pairs that Identify may be called with                               *)
Identifiable(pairs) ==
    /\ pairs \subseteq Who!Sources \X Who!Real
    /\ \A q \in pairs : Who!Named(q[2]) \in teams /\ mapping[q[1]][q[2]] \in {None, q}

(* The record of a map whose teams and winner are replaced stays one.       *)
LEMMA FactMoved ==
    ASSUME NEW f \in Who!Fact, NEW s \in [Who!Real -> Who!Team \cup {None}], NEW w \in Who!Team \cup {None}, NEW g,
           g = [f EXCEPT !.sides = s, !.winner = w]
    PROVE  /\ g \in Who!Fact /\ g.sides = s /\ g.winner = w
           /\ g.mapped = f.mapped /\ g.conflict = f.conflict
  BY DEF Who!Fact

(* The record of a map that is marked as disputed stays one.                *)
LEMMA FactFlagged ==
    ASSUME NEW f \in Who!Fact, NEW c \in BOOLEAN, NEW g, g = [f EXCEPT !.conflict = c]
    PROVE  /\ g \in Who!Fact /\ g.sides = f.sides /\ g.winner = f.winner
           /\ g.mapped = f.mapped /\ g.conflict = c
  BY DEF Who!Fact

(* What Identify makes of them                                              *)
MergedBy(pairs) == {q \in pairs : mapping[q[1]][q[2]] = q}
MovedFacts(pairs) == [p \in Who!Sources |-> Who!MovedFact(facts[p], MergedBy(pairs))]
MovedEvidence(pairs) == [p \in Who!Sources |-> Who!MovedWinner(evidence[p], MergedBy(pairs))]
MovedSeries(pairs) == IF pair = None THEN None ELSE {Who!MovedTeam(t, MergedBy(pairs)) : t \in pair}
RestoredBy(pairs) ==
    /\ MovedFacts(pairs) # facts /\ pair # None
    /\ Who!Converged(MovedFacts(pairs), MovedSeries(pairs))
AgreedBy(pairs) ==
    /\ RestoredBy(pairs) /\ Who!Known(MovedEvidence(pairs)) # {}
    /\ \A p \in Who!Known(MovedEvidence(pairs)) :
          MovedEvidence(pairs)[p].winner = MovedFacts(pairs)["stratz"].winner

(* What a team becomes, and what the numbers mean then.                     *)
LEMMA TeamsMove ==
    ASSUME TeamsInv, NEW pairs, Identifiable(pairs), Who!Identify(pairs)
    PROVE  /\ (/\ MergedBy(pairs) \subseteq Who!Sources \X Who!Real /\ Who!Sources \subseteq Who!Providers
               /\ \A r \in Who!Real : Who!Named(r) \notin MergedBy(pairs)
               /\ \A p \in Who!Sources, r \in Who!Real : Who!Placeholder(p, r) \in MergedBy(pairs) <=>
                      <<p, r>> \in pairs /\ mapping[p][r] = Who!Placeholder(p, r)
               /\ None \notin MergedBy(pairs) /\ MergedBy(pairs) \subseteq pairs)
           /\ (\A t \in Who!Team \cup {None} : /\ Who!MovedTeam(t, MergedBy(pairs)) \in Who!Team \cup {None}
                                               /\ t # None => Who!MovedTeam(t, MergedBy(pairs)) # None /\ Who!MovedTeam(t, MergedBy(pairs))[2] = t[2]
                                               /\ t = None => Who!MovedTeam(t, MergedBy(pairs)) = None)
           /\ (\A p \in Who!Providers, r \in Who!Real : /\ mapping'[p][r] \in Who!Team \cup {None}
                                                        /\ <<p, r>> \in pairs => mapping'[p][r] = Who!Named(r)
                                                        /\ <<p, r>> \notin pairs => mapping'[p][r] = mapping[p][r])
           /\ (\A p \in Who!Providers, r \in Who!Real : mapping[p][r] # None =>
                   Who!MovedTeam(mapping[p][r], MergedBy(pairs)) = mapping'[p][r] /\ mapping'[p][r] # None)
  <1> DEFINE merged == MergedBy(pairs)
             facts1 == MovedFacts(pairs)
             evidence1 == MovedEvidence(pairs)
             series1 == MovedSeries(pairs)
             restored == RestoredBy(pairs)
             winner == MovedFacts(pairs)["stratz"].winner
             agreed == AgreedBy(pairs)
  <1>1. /\ teams' = teams \ merged
        /\ mapping' = [p \in Who!Providers |-> [r \in Who!Real |->
                          IF <<p, r>> \in pairs THEN Who!Named(r) ELSE mapping[p][r]]]
        /\ pair' = series1
        /\ facts' = IF restored THEN Who!Lifted(facts1) ELSE facts1
        /\ evidence' = IF agreed THEN Who!Lifted(evidence1) ELSE evidence1
        /\ result' = IF agreed /\ result # None THEN [winner |-> winner, conflict |-> FALSE]
                     ELSE Who!MovedWinner(result, merged)
    BY DEF Who!Identify, MergedBy, MovedFacts, MovedEvidence, MovedSeries, RestoredBy, AgreedBy
  <1>t. Who!TypeOK
    BY DEF TeamsInv
  <1>2. /\ merged \subseteq Who!Sources \X Who!Real /\ Who!Sources \subseteq Who!Providers
        /\ \A r \in Who!Real : Who!Named(r) \notin merged
        /\ \A p \in Who!Sources, r \in Who!Real : Who!Placeholder(p, r) \in merged <=>
               <<p, r>> \in pairs /\ mapping[p][r] = Who!Placeholder(p, r)
        /\ None \notin merged /\ merged \subseteq pairs
    <2>1. pairs \subseteq Who!Sources \X Who!Real /\ Who!Sources \subseteq Who!Providers
      BY DEF Identifiable, Who!Providers
    <2>2. \A r \in Who!Real : Who!Named(r) \notin Who!Sources \X Who!Real
      BY DEF Who!Named, Who!Sources
    <2>3. Who!Sources \X Who!Real \subseteq Who!Team
      BY DEF Who!Team
    <2> QED
      BY <2>1, <2>2, <2>3, TeamsDiffer DEF Who!Placeholder, MergedBy
  <1> HIDE DEF merged
  <1>3. \A t \in Who!Team \cup {None} : /\ Who!MovedTeam(t, merged) \in Who!Team \cup {None}
                                        /\ t # None => Who!MovedTeam(t, merged) # None /\ Who!MovedTeam(t, merged)[2] = t[2]
                                        /\ t = None => Who!MovedTeam(t, merged) = None
    BY <1>2, TeamsDiffer DEF Who!MovedTeam, Who!Team, Who!NamedPair
  <1>4. \A p \in Who!Providers, r \in Who!Real : /\ mapping'[p][r] \in Who!Team \cup {None}
                                                 /\ <<p, r>> \in pairs => mapping'[p][r] = Who!Named(r)
                                                 /\ <<p, r>> \notin pairs => mapping'[p][r] = mapping[p][r]
    BY <1>t, <1>1, TeamsDiffer DEF Who!TypeOK
  <1>5. \A p \in Who!Providers, r \in Who!Real : mapping[p][r] # None =>
            Who!MovedTeam(mapping[p][r], merged) = mapping'[p][r] /\ mapping'[p][r] # None
    <2> SUFFICES ASSUME NEW p \in Who!Providers, NEW r \in Who!Real, mapping[p][r] # None
                 PROVE  Who!MovedTeam(mapping[p][r], merged) = mapping'[p][r] /\ mapping'[p][r] # None
      OBVIOUS
    <2>1. \/ mapping[p][r] = Who!Named(r)
          \/ p \in Who!Sources /\ mapping[p][r] = Who!Placeholder(p, r)
      BY DEF TeamsInv, MappingsName
    <2>2. /\ <<p, r>> \in pairs => mapping'[p][r] = Who!Named(r)
          /\ <<p, r>> \notin pairs => mapping'[p][r] = mapping[p][r]
      BY <1>4
    <2>3. Who!Named(r) # None
      BY TeamsDiffer
    <2>4. CASE mapping[p][r] = Who!Named(r)
      <3>1. Who!MovedTeam(Who!Named(r), merged) = Who!Named(r)
        BY <1>2 DEF Who!MovedTeam
      <3>2. mapping'[p][r] = Who!Named(r) /\ Who!Named(r) # None
        BY <2>4, <2>2, <2>3
      <3> QED
        BY <2>4, <3>1, <3>2
    <2>5. CASE p \in Who!Sources /\ mapping[p][r] = Who!Placeholder(p, r)
      <3>1. CASE <<p, r>> \in pairs
        <4>1. Who!MovedTeam(Who!Placeholder(p, r), merged) = Who!Named(r)
          BY <1>2, <2>5, <3>1, TeamsDiffer DEF Who!MovedTeam
        <4>2. mapping'[p][r] = Who!Named(r) /\ Who!Named(r) # None
          BY <2>2, <2>3, <3>1
        <4> QED
          BY <2>5, <4>1, <4>2
      <3>2. CASE <<p, r>> \notin pairs
        <4>1. Who!MovedTeam(Who!Placeholder(p, r), merged) = Who!Placeholder(p, r)
          BY <1>2, <2>5, <3>2 DEF Who!MovedTeam
        <4>2. mapping'[p][r] = mapping[p][r]
          BY <1>4, <3>2
        <4> QED
          BY <2>5, <4>1, <4>2
      <3> QED
        BY <3>1, <3>2
    <2> QED
      BY <2>1, <2>4, <2>5
  <1> QED
    BY <1>2, <1>3, <1>4, <1>5 DEF merged

(* What becomes of the facts                                                *)
LEMMA FactsMove ==
    ASSUME TeamsInv, NEW pairs, Identifiable(pairs), Who!Identify(pairs)
    PROVE  /\ (\A p \in Who!Sources :
                  IF facts[p] = None THEN MovedFacts(pairs)[p] = None
                  ELSE /\ MovedFacts(pairs)[p] \in Who!Fact
                       /\ \A r \in Who!Real : MovedFacts(pairs)[p].sides[r] = Who!MovedTeam(facts[p].sides[r], MergedBy(pairs))
                       /\ MovedFacts(pairs)[p].winner = Who!MovedTeam(facts[p].winner, MergedBy(pairs))
                       /\ MovedFacts(pairs)[p].mapped = facts[p].mapped /\ MovedFacts(pairs)[p].conflict = facts[p].conflict)
           /\ (\A p \in Who!Sources :
                 IF facts[p] = None THEN facts'[p] = None
                 ELSE /\ facts'[p] \in Who!Fact
                      /\ \A r \in Who!Real : facts'[p].sides[r] = Who!MovedTeam(facts[p].sides[r], MergedBy(pairs))
                      /\ facts'[p].winner = Who!MovedTeam(facts[p].winner, MergedBy(pairs))
                      /\ facts'[p].mapped = facts[p].mapped
                      /\ facts'[p].conflict = (facts[p].conflict /\ ~RestoredBy(pairs)))
           /\ (\A p \in Who!Sources : facts'[p] # None <=> facts[p] # None)
  <1> DEFINE merged == MergedBy(pairs)
             facts1 == MovedFacts(pairs)
             evidence1 == MovedEvidence(pairs)
             series1 == MovedSeries(pairs)
             restored == RestoredBy(pairs)
             winner == MovedFacts(pairs)["stratz"].winner
             agreed == AgreedBy(pairs)
  <1>1. /\ teams' = teams \ merged
        /\ mapping' = [p \in Who!Providers |-> [r \in Who!Real |->
                          IF <<p, r>> \in pairs THEN Who!Named(r) ELSE mapping[p][r]]]
        /\ pair' = series1
        /\ facts' = IF restored THEN Who!Lifted(facts1) ELSE facts1
        /\ evidence' = IF agreed THEN Who!Lifted(evidence1) ELSE evidence1
        /\ result' = IF agreed /\ result # None THEN [winner |-> winner, conflict |-> FALSE]
                     ELSE Who!MovedWinner(result, merged)
    BY DEF Who!Identify, MergedBy, MovedFacts, MovedEvidence, MovedSeries, RestoredBy, AgreedBy
  <1>t. Who!TypeOK
    BY DEF TeamsInv
  <1>2. /\ merged \subseteq Who!Sources \X Who!Real /\ Who!Sources \subseteq Who!Providers
        /\ \A r \in Who!Real : Who!Named(r) \notin merged
        /\ \A p \in Who!Sources, r \in Who!Real : Who!Placeholder(p, r) \in merged <=>
               <<p, r>> \in pairs /\ mapping[p][r] = Who!Placeholder(p, r)
        /\ None \notin merged /\ merged \subseteq pairs
    BY TeamsMove
  <1>3. \A t \in Who!Team \cup {None} : /\ Who!MovedTeam(t, merged) \in Who!Team \cup {None}
                                        /\ t # None => Who!MovedTeam(t, merged) # None /\ Who!MovedTeam(t, merged)[2] = t[2]
                                        /\ t = None => Who!MovedTeam(t, merged) = None
    BY TeamsMove
  <1> HIDE DEF merged
  <1>6. \A p \in Who!Sources :
           IF facts[p] = None THEN facts1[p] = None
           ELSE /\ facts1[p] \in Who!Fact
                /\ \A r \in Who!Real : facts1[p].sides[r] = Who!MovedTeam(facts[p].sides[r], merged)
                /\ facts1[p].winner = Who!MovedTeam(facts[p].winner, merged)
                /\ facts1[p].mapped = facts[p].mapped /\ facts1[p].conflict = facts[p].conflict
    <2> TAKE p \in Who!Sources
    <2>1. facts[p] \in Who!Fact \cup {None}
      BY <1>t DEF Who!TypeOK
    <2>2. CASE facts[p] = None
      BY <2>2 DEF MovedFacts, Who!MovedFact, merged
    <2>3. CASE facts[p] # None
      <3>1. facts1[p] = [facts[p] EXCEPT !.sides = [r \in Who!Real |-> Who!MovedTeam(@[r], merged)],
                                         !.winner = Who!MovedTeam(@, merged)]
        BY <2>3 DEF MovedFacts, Who!MovedFact, merged
      <3>2. /\ \A r \in Who!Real : facts[p].sides[r] \in Who!Team \cup {None}
            /\ facts[p].winner \in Who!Team \cup {None}
        BY <2>1, <2>3 DEF Who!Fact
      <3> DEFINE moved == [r \in Who!Real |-> Who!MovedTeam(facts[p].sides[r], merged)]
      <3>3. moved \in [Who!Real -> Who!Team \cup {None}] /\ \A r \in Who!Real : moved[r] = Who!MovedTeam(facts[p].sides[r], merged)
        BY <1>3, <3>2
      <3>4. Who!MovedTeam(facts[p].winner, merged) \in Who!Team \cup {None}
        BY <1>3, <3>2
      <3>5. facts1[p] = [facts[p] EXCEPT !.sides = moved, !.winner = Who!MovedTeam(facts[p].winner, merged)]
        BY <3>1
      <3> DEFINE w == Who!MovedTeam(facts[p].winner, merged)
      <3> HIDE DEF facts1, moved, w
      <3>8. w \in Who!Team \cup {None} /\ facts1[p] = [facts[p] EXCEPT !.sides = moved, !.winner = w]
        BY <3>4, <3>5 DEF w
      <3>9. facts[p] \in Who!Fact /\ moved \in [Who!Real -> Who!Team \cup {None}]
        BY <2>1, <2>3, <3>3
      <3> DEFINE g == facts1[p]
      <3>10. g = [facts[p] EXCEPT !.sides = moved, !.winner = w]
        BY <3>8
      <3> HIDE DEF g
      <3> DEFINE f == facts[p]
      <3>12. f \in Who!Fact /\ w \in Who!Team \cup {None} /\ g = [f EXCEPT !.sides = moved, !.winner = w]
        BY <3>8, <3>9, <3>10
      <3> HIDE DEF f
      <3>13. /\ g \in Who!Fact /\ g.sides = moved /\ g.winner = w
             /\ g.mapped = f.mapped /\ g.conflict = f.conflict
        BY <3>9, <3>12 DEF Who!Fact
      <3>11. /\ g \in Who!Fact /\ g.sides = moved /\ g.winner = w
             /\ g.mapped = facts[p].mapped /\ g.conflict = facts[p].conflict
        BY <3>13 DEF f
      <3>6. /\ facts1[p] \in Who!Fact /\ facts1[p].sides = moved
            /\ facts1[p].winner = w
            /\ facts1[p].mapped = facts[p].mapped /\ facts1[p].conflict = facts[p].conflict
        BY <3>11 DEF g
      <3> QED
        BY <2>3, <3>3, <3>6 DEF w
    <2> QED
      BY <2>2, <2>3
  <1>8. None \notin Who!Fact /\ None \notin Who!Verdict /\ None \notin SUBSET Who!Team
    BY TA DEF Who!TeamsAssumption
  <1> HIDE DEF facts1
  <1>10. \A p \in Who!Sources :
           IF facts[p] = None THEN facts'[p] = None
           ELSE /\ facts'[p] \in Who!Fact
                /\ \A r \in Who!Real : facts'[p].sides[r] = Who!MovedTeam(facts[p].sides[r], merged)
                /\ facts'[p].winner = Who!MovedTeam(facts[p].winner, merged)
                /\ facts'[p].mapped = facts[p].mapped
                /\ facts'[p].conflict = (facts[p].conflict /\ ~restored)
    <2> TAKE p \in Who!Sources
    <2>1. facts1[p] = None \/ facts1[p] \in Who!Fact
      BY <1>6
    <2>2. CASE ~restored
      <3>1. facts'[p] = facts1[p]
        BY <1>1, <2>2
      <3>2. facts[p] # None => facts[p].conflict \in BOOLEAN
        BY <1>t DEF Who!TypeOK, Who!Fact
      <3> HIDE DEF restored
      <3> QED
        BY <1>6, <2>2, <3>1, <3>2
    <2>3. CASE restored
      <3>1. facts'[p] = IF facts1[p] = None THEN None ELSE [facts1[p] EXCEPT !.conflict = FALSE]
        BY <1>1, <2>3 DEF Who!Lifted
      <3>2. CASE facts[p] = None
        BY <1>6, <3>1, <3>2
      <3>3. CASE facts[p] # None
        <4>1. facts1[p] \in Who!Fact /\ facts1[p] # None
          BY <1>6, <1>8, <3>3
        <4>2. facts'[p] = [facts1[p] EXCEPT !.conflict = FALSE]
          BY <3>1, <4>1
        <4>3. /\ facts'[p] \in Who!Fact /\ facts'[p].sides = facts1[p].sides
              /\ facts'[p].winner = facts1[p].winner /\ facts'[p].mapped = facts1[p].mapped
              /\ facts'[p].conflict = FALSE
          BY <4>1, <4>2, FactFlagged
        <4> QED
          BY <1>6, <2>3, <3>3, <4>3
      <3> QED
        BY <3>2, <3>3
    <2> QED
      BY <2>2, <2>3
  <1>12. \A p \in Who!Sources : facts'[p] # None <=> facts[p] # None
    BY <1>8, <1>10
  <1> QED
    BY <1>6, <1>10, <1>12 DEF merged, facts1

(* What becomes of the evidence                                             *)
LEMMA EvidenceMoves ==
    ASSUME TeamsInv, NEW pairs, Identifiable(pairs), Who!Identify(pairs)
    PROVE  /\ (\A p \in Who!Sources :
                  IF evidence[p] = None THEN MovedEvidence(pairs)[p] = None
                  ELSE /\ MovedEvidence(pairs)[p] \in Who!Verdict
                       /\ MovedEvidence(pairs)[p].winner = Who!MovedTeam(evidence[p].winner, MergedBy(pairs))
                       /\ MovedEvidence(pairs)[p].conflict = evidence[p].conflict)
           /\ (\A p \in Who!Sources :
                 IF evidence[p] = None THEN evidence'[p] = None
                 ELSE /\ evidence'[p] \in Who!Verdict /\ evidence'[p].winner = Who!MovedTeam(evidence[p].winner, MergedBy(pairs))
                      /\ evidence'[p].conflict = (evidence[p].conflict /\ ~AgreedBy(pairs)))
           /\ (\A p \in Who!Sources : evidence'[p] # None <=> evidence[p] # None)
  <1> DEFINE merged == MergedBy(pairs)
             facts1 == MovedFacts(pairs)
             evidence1 == MovedEvidence(pairs)
             series1 == MovedSeries(pairs)
             restored == RestoredBy(pairs)
             winner == MovedFacts(pairs)["stratz"].winner
             agreed == AgreedBy(pairs)
  <1>1. /\ teams' = teams \ merged
        /\ mapping' = [p \in Who!Providers |-> [r \in Who!Real |->
                          IF <<p, r>> \in pairs THEN Who!Named(r) ELSE mapping[p][r]]]
        /\ pair' = series1
        /\ facts' = IF restored THEN Who!Lifted(facts1) ELSE facts1
        /\ evidence' = IF agreed THEN Who!Lifted(evidence1) ELSE evidence1
        /\ result' = IF agreed /\ result # None THEN [winner |-> winner, conflict |-> FALSE]
                     ELSE Who!MovedWinner(result, merged)
    BY DEF Who!Identify, MergedBy, MovedFacts, MovedEvidence, MovedSeries, RestoredBy, AgreedBy
  <1>t. Who!TypeOK
    BY DEF TeamsInv
  <1>2. /\ merged \subseteq Who!Sources \X Who!Real /\ Who!Sources \subseteq Who!Providers
        /\ \A r \in Who!Real : Who!Named(r) \notin merged
        /\ \A p \in Who!Sources, r \in Who!Real : Who!Placeholder(p, r) \in merged <=>
               <<p, r>> \in pairs /\ mapping[p][r] = Who!Placeholder(p, r)
        /\ None \notin merged /\ merged \subseteq pairs
    BY TeamsMove
  <1>3. \A t \in Who!Team \cup {None} : /\ Who!MovedTeam(t, merged) \in Who!Team \cup {None}
                                        /\ t # None => Who!MovedTeam(t, merged) # None /\ Who!MovedTeam(t, merged)[2] = t[2]
                                        /\ t = None => Who!MovedTeam(t, merged) = None
    BY TeamsMove
  <1> HIDE DEF merged
  <1>7. \A row \in Who!Verdict \cup {None} :
           IF row = None THEN Who!MovedWinner(row, merged) = None
           ELSE /\ Who!MovedWinner(row, merged) \in Who!Verdict
                /\ Who!MovedWinner(row, merged).winner = Who!MovedTeam(row.winner, merged)
                /\ Who!MovedWinner(row, merged).conflict = row.conflict
    BY <1>3 DEF Who!MovedWinner, Who!Verdict
  <1>8. None \notin Who!Fact /\ None \notin Who!Verdict /\ None \notin SUBSET Who!Team
    BY TA DEF Who!TeamsAssumption
  <1>9. \A p \in Who!Sources :
           IF evidence[p] = None THEN evidence1[p] = None
           ELSE /\ evidence1[p] \in Who!Verdict
                /\ evidence1[p].winner = Who!MovedTeam(evidence[p].winner, merged)
                /\ evidence1[p].conflict = evidence[p].conflict
    BY <1>t, <1>7 DEF Who!TypeOK, MovedEvidence, merged
  <1> HIDE DEF evidence1
  <1>11. \A p \in Who!Sources :
           IF evidence[p] = None THEN evidence'[p] = None
           ELSE /\ evidence'[p] \in Who!Verdict /\ evidence'[p].winner = Who!MovedTeam(evidence[p].winner, merged)
                /\ evidence'[p].conflict = (evidence[p].conflict /\ ~agreed)
    <2> TAKE p \in Who!Sources
    <2>1. CASE ~agreed
      <3>1. evidence'[p] = evidence1[p]
        BY <1>1, <2>1
      <3>2. evidence[p] # None => evidence[p].conflict \in BOOLEAN
        BY <1>t DEF Who!TypeOK, Who!Verdict
      <3> HIDE DEF agreed
      <3> QED
        BY <1>9, <2>1, <3>1, <3>2
    <2>2. CASE agreed
      <3>1. evidence'[p] = IF evidence1[p] = None THEN None ELSE [evidence1[p] EXCEPT !.conflict = FALSE]
        BY <1>1, <2>2 DEF Who!Lifted
      <3>2. CASE evidence[p] = None
        BY <1>9, <3>1, <3>2
      <3>3. CASE evidence[p] # None
        <4>1. evidence1[p] \in Who!Verdict /\ evidence1[p] # None
          BY <1>8, <1>9, <3>3
        <4>2. evidence'[p] = [evidence1[p] EXCEPT !.conflict = FALSE]
          BY <3>1, <4>1
        <4>3. evidence'[p] \in Who!Verdict /\ evidence'[p].winner = evidence1[p].winner /\ evidence'[p].conflict = FALSE
          BY <4>1, <4>2 DEF Who!Verdict
        <4> QED
          BY <1>9, <2>2, <3>3, <4>3
      <3> QED
        BY <3>2, <3>3
    <2> QED
      BY <2>1, <2>2
  <1>13. \A p \in Who!Sources : evidence'[p] # None <=> evidence[p] # None
    BY <1>8, <1>11
  <1> QED
    BY <1>9, <1>11, <1>13 DEF merged, evidence1

(* What becomes of the series                                               *)
LEMMA SeriesMoves ==
    ASSUME TeamsInv, NEW pairs, Identifiable(pairs), Who!Identify(pairs)
    PROVE  /\ (pair # None => pair' = {Who!MovedTeam(t, MergedBy(pairs)) : t \in pair} /\ pair \in SUBSET Who!Team)
           /\ (pair = None <=> pair' = None)
  <1> DEFINE merged == MergedBy(pairs)
             facts1 == MovedFacts(pairs)
             evidence1 == MovedEvidence(pairs)
             series1 == MovedSeries(pairs)
             restored == RestoredBy(pairs)
             winner == MovedFacts(pairs)["stratz"].winner
             agreed == AgreedBy(pairs)
  <1>1. /\ teams' = teams \ merged
        /\ mapping' = [p \in Who!Providers |-> [r \in Who!Real |->
                          IF <<p, r>> \in pairs THEN Who!Named(r) ELSE mapping[p][r]]]
        /\ pair' = series1
        /\ facts' = IF restored THEN Who!Lifted(facts1) ELSE facts1
        /\ evidence' = IF agreed THEN Who!Lifted(evidence1) ELSE evidence1
        /\ result' = IF agreed /\ result # None THEN [winner |-> winner, conflict |-> FALSE]
                     ELSE Who!MovedWinner(result, merged)
    BY DEF Who!Identify, MergedBy, MovedFacts, MovedEvidence, MovedSeries, RestoredBy, AgreedBy
  <1>t. Who!TypeOK
    BY DEF TeamsInv
  <1>2. /\ merged \subseteq Who!Sources \X Who!Real /\ Who!Sources \subseteq Who!Providers
        /\ \A r \in Who!Real : Who!Named(r) \notin merged
        /\ \A p \in Who!Sources, r \in Who!Real : Who!Placeholder(p, r) \in merged <=>
               <<p, r>> \in pairs /\ mapping[p][r] = Who!Placeholder(p, r)
        /\ None \notin merged /\ merged \subseteq pairs
    BY TeamsMove
  <1>3. \A t \in Who!Team \cup {None} : /\ Who!MovedTeam(t, merged) \in Who!Team \cup {None}
                                        /\ t # None => Who!MovedTeam(t, merged) # None /\ Who!MovedTeam(t, merged)[2] = t[2]
                                        /\ t = None => Who!MovedTeam(t, merged) = None
    BY TeamsMove
  <1> HIDE DEF merged
  <1>8. None \notin Who!Fact /\ None \notin Who!Verdict /\ None \notin SUBSET Who!Team
    BY TA DEF Who!TeamsAssumption
  <1>14. pair # None => pair' = {Who!MovedTeam(t, merged) : t \in pair} /\ pair \in SUBSET Who!Team
    BY <1>t, <1>1 DEF MovedSeries, Who!TypeOK, merged
  <1>15. pair = None <=> pair' = None
    <2>1. CASE pair # None
      <3>1. pair' \in SUBSET Who!Team
        BY <1>3, <1>14, <2>1
      <3> QED
        BY <1>8, <2>1, <3>1
    <2> QED
      BY <1>1, <2>1 DEF MovedSeries, merged
  <1> QED
    BY <1>14, <1>15 DEF merged

(* What becomes of the result                                               *)
LEMMA ResultMoves ==
    ASSUME TeamsInv, NEW pairs, Identifiable(pairs), Who!Identify(pairs)
    PROVE  /\ (result # None => /\ result' \in Who!Verdict
                                /\ ~AgreedBy(pairs) => /\ result'.winner = Who!MovedTeam(result.winner, MergedBy(pairs))
                                              /\ result'.conflict = result.conflict
                                /\ AgreedBy(pairs) => result'.winner = MovedFacts(pairs)["stratz"].winner /\ result'.conflict = FALSE)
           /\ (result = None => result' = None)
  <1> DEFINE merged == MergedBy(pairs)
             facts1 == MovedFacts(pairs)
             evidence1 == MovedEvidence(pairs)
             series1 == MovedSeries(pairs)
             restored == RestoredBy(pairs)
             winner == MovedFacts(pairs)["stratz"].winner
             agreed == AgreedBy(pairs)
  <1>1. /\ teams' = teams \ merged
        /\ mapping' = [p \in Who!Providers |-> [r \in Who!Real |->
                          IF <<p, r>> \in pairs THEN Who!Named(r) ELSE mapping[p][r]]]
        /\ pair' = series1
        /\ facts' = IF restored THEN Who!Lifted(facts1) ELSE facts1
        /\ evidence' = IF agreed THEN Who!Lifted(evidence1) ELSE evidence1
        /\ result' = IF agreed /\ result # None THEN [winner |-> winner, conflict |-> FALSE]
                     ELSE Who!MovedWinner(result, merged)
    BY DEF Who!Identify, MergedBy, MovedFacts, MovedEvidence, MovedSeries, RestoredBy, AgreedBy
  <1>t. Who!TypeOK
    BY DEF TeamsInv
  <1>2. /\ merged \subseteq Who!Sources \X Who!Real /\ Who!Sources \subseteq Who!Providers
        /\ \A r \in Who!Real : Who!Named(r) \notin merged
        /\ \A p \in Who!Sources, r \in Who!Real : Who!Placeholder(p, r) \in merged <=>
               <<p, r>> \in pairs /\ mapping[p][r] = Who!Placeholder(p, r)
        /\ None \notin merged /\ merged \subseteq pairs
    BY TeamsMove
  <1>3. \A t \in Who!Team \cup {None} : /\ Who!MovedTeam(t, merged) \in Who!Team \cup {None}
                                        /\ t # None => Who!MovedTeam(t, merged) # None /\ Who!MovedTeam(t, merged)[2] = t[2]
                                        /\ t = None => Who!MovedTeam(t, merged) = None
    BY TeamsMove
  <1>6. \A p \in Who!Sources :
           IF facts[p] = None THEN facts1[p] = None
           ELSE /\ facts1[p] \in Who!Fact
                /\ \A r \in Who!Real : facts1[p].sides[r] = Who!MovedTeam(facts[p].sides[r], merged)
                /\ facts1[p].winner = Who!MovedTeam(facts[p].winner, merged)
                /\ facts1[p].mapped = facts[p].mapped /\ facts1[p].conflict = facts[p].conflict
    BY FactsMove
  <1> HIDE DEF merged
  <1>7. \A row \in Who!Verdict \cup {None} :
           IF row = None THEN Who!MovedWinner(row, merged) = None
           ELSE /\ Who!MovedWinner(row, merged) \in Who!Verdict
                /\ Who!MovedWinner(row, merged).winner = Who!MovedTeam(row.winner, merged)
                /\ Who!MovedWinner(row, merged).conflict = row.conflict
    BY <1>3 DEF Who!MovedWinner, Who!Verdict
  <1>8. None \notin Who!Fact /\ None \notin Who!Verdict /\ None \notin SUBSET Who!Team
    BY TA DEF Who!TeamsAssumption
  <1>16. result # None => /\ result' \in Who!Verdict
                          /\ ~agreed => /\ result'.winner = Who!MovedTeam(result.winner, merged)
                                        /\ result'.conflict = result.conflict
                          /\ agreed => result'.winner = winner /\ result'.conflict = FALSE
    <2> SUFFICES ASSUME result # None
                 PROVE  /\ result' \in Who!Verdict
                        /\ ~agreed => /\ result'.winner = Who!MovedTeam(result.winner, merged)
                                      /\ result'.conflict = result.conflict
                        /\ agreed => result'.winner = winner /\ result'.conflict = FALSE
      OBVIOUS
    <2>1. CASE agreed
      <3>1. facts1["stratz"] # None /\ facts1["stratz"] \in Who!Fact
        BY <1>6, <2>1 DEF AgreedBy, RestoredBy, Who!Converged, Who!Known, Who!Sources
      <3>2. winner \in Who!Team \cup {None}
        BY <3>1 DEF Who!Fact
      <3> HIDE DEF winner
      <3> QED
        BY <1>1, <2>1, <3>2 DEF Who!Verdict
    <2>2. CASE ~agreed
      BY <1>1, <1>7, <1>t, <2>2 DEF Who!TypeOK
    <2> QED
      BY <2>1, <2>2
  <1>17. result = None => result' = None
    BY <1>1, <1>7
  <1> QED
    BY <1>16, <1>17 DEF merged

(* _merge_placeholder_team and _restore_converged_match_results: mapped     *)
(* placeholders become the named teams wherever they are stored, and what   *)
(* agrees then is no longer in conflict.                                    *)
LEMMA IdentifyKeeps ==
    ASSUME TeamsInv, NEW pairs, Identifiable(pairs), Who!Identify(pairs)
    PROVE  TeamsInv'
  <1> DEFINE merged == MergedBy(pairs)
             facts1 == MovedFacts(pairs)
             evidence1 == MovedEvidence(pairs)
             series1 == MovedSeries(pairs)
             restored == RestoredBy(pairs)
             winner == MovedFacts(pairs)["stratz"].winner
             agreed == AgreedBy(pairs)
  <1>1. /\ teams' = teams \ merged
        /\ mapping' = [p \in Who!Providers |-> [r \in Who!Real |->
                          IF <<p, r>> \in pairs THEN Who!Named(r) ELSE mapping[p][r]]]
        /\ pair' = series1
        /\ facts' = IF restored THEN Who!Lifted(facts1) ELSE facts1
        /\ evidence' = IF agreed THEN Who!Lifted(evidence1) ELSE evidence1
        /\ result' = IF agreed /\ result # None THEN [winner |-> winner, conflict |-> FALSE]
                     ELSE Who!MovedWinner(result, merged)
    BY DEF Who!Identify, MergedBy, MovedFacts, MovedEvidence, MovedSeries, RestoredBy, AgreedBy
  <1>t. Who!TypeOK
    BY DEF TeamsInv
  <1>2. /\ merged \subseteq Who!Sources \X Who!Real /\ Who!Sources \subseteq Who!Providers
        /\ \A r \in Who!Real : Who!Named(r) \notin merged
        /\ \A p \in Who!Sources, r \in Who!Real : Who!Placeholder(p, r) \in merged <=>
               <<p, r>> \in pairs /\ mapping[p][r] = Who!Placeholder(p, r)
        /\ None \notin merged /\ merged \subseteq pairs
    BY TeamsMove
  <1>3. \A t \in Who!Team \cup {None} : /\ Who!MovedTeam(t, merged) \in Who!Team \cup {None}
                                        /\ t # None => Who!MovedTeam(t, merged) # None /\ Who!MovedTeam(t, merged)[2] = t[2]
                                        /\ t = None => Who!MovedTeam(t, merged) = None
    BY TeamsMove
  <1>4. \A p \in Who!Providers, r \in Who!Real : /\ mapping'[p][r] \in Who!Team \cup {None}
                                                 /\ <<p, r>> \in pairs => mapping'[p][r] = Who!Named(r)
                                                 /\ <<p, r>> \notin pairs => mapping'[p][r] = mapping[p][r]
    BY TeamsMove
  <1>5. \A p \in Who!Providers, r \in Who!Real : mapping[p][r] # None =>
            Who!MovedTeam(mapping[p][r], merged) = mapping'[p][r] /\ mapping'[p][r] # None
    BY TeamsMove
  <1>6. \A p \in Who!Sources :
           IF facts[p] = None THEN facts1[p] = None
           ELSE /\ facts1[p] \in Who!Fact
                /\ \A r \in Who!Real : facts1[p].sides[r] = Who!MovedTeam(facts[p].sides[r], merged)
                /\ facts1[p].winner = Who!MovedTeam(facts[p].winner, merged)
                /\ facts1[p].mapped = facts[p].mapped /\ facts1[p].conflict = facts[p].conflict
    BY FactsMove
  <1>8. None \notin Who!Fact /\ None \notin Who!Verdict /\ None \notin SUBSET Who!Team
    BY TA DEF Who!TeamsAssumption
  <1>9. \A p \in Who!Sources :
           IF evidence[p] = None THEN evidence1[p] = None
           ELSE /\ evidence1[p] \in Who!Verdict
                /\ evidence1[p].winner = Who!MovedTeam(evidence[p].winner, merged)
                /\ evidence1[p].conflict = evidence[p].conflict
    BY EvidenceMoves
  <1>10. \A p \in Who!Sources :
           IF facts[p] = None THEN facts'[p] = None
           ELSE /\ facts'[p] \in Who!Fact
                /\ \A r \in Who!Real : facts'[p].sides[r] = Who!MovedTeam(facts[p].sides[r], merged)
                /\ facts'[p].winner = Who!MovedTeam(facts[p].winner, merged)
                /\ facts'[p].mapped = facts[p].mapped
                /\ facts'[p].conflict = (facts[p].conflict /\ ~restored)
    BY FactsMove
  <1>11. \A p \in Who!Sources :
           IF evidence[p] = None THEN evidence'[p] = None
           ELSE /\ evidence'[p] \in Who!Verdict /\ evidence'[p].winner = Who!MovedTeam(evidence[p].winner, merged)
                /\ evidence'[p].conflict = (evidence[p].conflict /\ ~agreed)
    BY EvidenceMoves
  <1>12. \A p \in Who!Sources : facts'[p] # None <=> facts[p] # None
    BY FactsMove
  <1>13. \A p \in Who!Sources : evidence'[p] # None <=> evidence[p] # None
    BY EvidenceMoves
  <1>14. pair # None => pair' = {Who!MovedTeam(t, merged) : t \in pair} /\ pair \in SUBSET Who!Team
    BY SeriesMoves
  <1>15. pair = None <=> pair' = None
    BY SeriesMoves
  <1>16. result # None => /\ result' \in Who!Verdict
                          /\ ~agreed => /\ result'.winner = Who!MovedTeam(result.winner, merged)
                                        /\ result'.conflict = result.conflict
                          /\ agreed => result'.winner = winner /\ result'.conflict = FALSE
    BY ResultMoves
  <1>17. result = None => result' = None
    BY ResultMoves
  <1> HIDE DEF merged, facts1, evidence1, series1, restored, agreed, winner
  <1>18. Who!TypeOK'
    <2>1. teams' \subseteq Who!Team
      BY <1>t, <1>1 DEF Who!TypeOK
    <2>2. mapping' \in [Who!Providers -> [Who!Real -> Who!Team \cup {None}]]
      <3>1. mapping \in [Who!Providers -> [Who!Real -> Who!Team \cup {None}]]
        BY <1>t DEF Who!TypeOK
      <3> QED
        BY <1>1, <3>1, TeamsDiffer
    <2>3. pair' \in (SUBSET Who!Team) \cup {None}
      BY <1>3, <1>14, <1>15
    <2>4. result' \in Who!Verdict \cup {None}
      BY <1>16, <1>17
    <2>5. facts' \in [Who!Sources -> Who!Fact \cup {None}]
      <3>1. facts' = [p \in Who!Sources |-> facts'[p]]
        BY <1>1 DEF Who!Lifted, MovedFacts, facts1
      <3> QED
        BY <1>10, <3>1
    <2>6. evidence' \in [Who!Sources -> Who!Verdict \cup {None}]
      <3>1. evidence' = [p \in Who!Sources |-> evidence'[p]]
        BY <1>1 DEF Who!Lifted, MovedEvidence, evidence1
      <3> QED
        BY <1>11, <3>1
    <2> QED
      BY <2>1, <2>2, <2>3, <2>4, <2>5, <2>6 DEF Who!TypeOK
  <1>19. MappingsName'
    <2> SUFFICES ASSUME NEW p \in Who!Providers, NEW r \in Who!Real, mapping'[p][r] # None
                 PROVE  /\ mapping'[p][r] \in teams'
                        /\ \/ mapping'[p][r] = Who!Named(r)
                           \/ p \in Who!Sources /\ mapping'[p][r] = Who!Placeholder(p, r)
      BY DEF MappingsName
    <2>1. CASE <<p, r>> \in pairs
      <3>1. Who!Named(r) \in teams
        <4>1. <<p, r>>[2] = r
          OBVIOUS
        <4> QED
          BY <2>1, <4>1 DEF Identifiable
      <3> QED
        BY <1>1, <1>2, <1>4, <2>1, <3>1
    <2>2. CASE <<p, r>> \notin pairs
      <3>1. mapping'[p][r] = mapping[p][r]
        BY <1>4, <2>2
      <3>2. /\ mapping[p][r] \in teams
            /\ mapping[p][r] = Who!Named(r) \/ (p \in Who!Sources /\ mapping[p][r] = Who!Placeholder(p, r))
        BY <3>1 DEF TeamsInv, MappingsName
      <3>3. mapping[p][r] \notin merged
        BY <1>2, <2>2, <3>2
      <3> QED
        BY <1>1, <3>1, <3>2, <3>3
    <2> QED
      BY <2>1, <2>2
  <1>20. SeriesIsOfTwo'
    <2> SUFFICES ASSUME pair # None, pair' # None
                 PROVE  /\ pair' \subseteq teams'
                        /\ \A r \in Who!Real : \E t \in pair' : t[2] = r
                        /\ \A t, u \in pair' : t[2] = u[2] => t = u
                        /\ \A p \in Who!Sources, r \in Who!Real :
                              Who!Placeholder(p, r) \in pair' => mapping'[p][r] = Who!Placeholder(p, r)
      BY <1>15 DEF SeriesIsOfTwo
    <2>1. /\ pair' = {Who!MovedTeam(t, merged) : t \in pair} /\ pair \subseteq Who!Team
          /\ pair \subseteq teams
          /\ \A r \in Who!Real : \E t \in pair : t[2] = r
          /\ \A t, u \in pair : t[2] = u[2] => t = u
          /\ \A p \in Who!Sources, r \in Who!Real : Who!Placeholder(p, r) \in pair => mapping[p][r] = Who!Placeholder(p, r)
      BY <1>14 DEF TeamsInv, SeriesIsOfTwo
    <2>2. \A t \in pair : Who!MovedTeam(t, merged)[2] = t[2]
      BY <1>3, <2>1
    <2>3. ASSUME NEW t \in pair PROVE Who!MovedTeam(t, merged) \in teams'
      <3>1. CASE t \in merged
        <4>1. t[2] \in Who!Real /\ Who!Named(t[2]) \in teams
          BY <1>2, <3>1 DEF Identifiable
        <4> QED
          BY <1>1, <1>2, <3>1, <4>1 DEF Who!MovedTeam
      <3>2. CASE t \notin merged
        BY <1>1, <2>1, <3>2 DEF Who!MovedTeam
      <3> QED
        BY <3>1, <3>2
    <2>4. \A r \in Who!Real : \E t \in pair' : t[2] = r
      BY <2>1, <2>2
    <2>5. \A t, u \in pair' : t[2] = u[2] => t = u
      BY <2>1, <2>2
    <2>6. ASSUME NEW p \in Who!Sources, NEW r \in Who!Real, Who!Placeholder(p, r) \in pair'
          PROVE  mapping'[p][r] = Who!Placeholder(p, r)
      <3>1. PICK t \in pair : Who!Placeholder(p, r) = Who!MovedTeam(t, merged)
        BY <2>1, <2>6
      <3>2. p \in Who!Providers /\ t \in Who!Team
        BY <2>1 DEF Who!Providers
      <3>3. t = Who!Placeholder(p, r) /\ t \notin merged
        <4>1. t \in merged => FALSE
          <5> SUFFICES ASSUME t \in merged PROVE FALSE
            OBVIOUS
          <5>1. t[2] \in Who!Real /\ Who!MovedTeam(t, merged) = Who!Named(t[2])
            BY <1>2 DEF Who!MovedTeam
          <5> QED
            BY <3>1, <3>2, <5>1, TeamsDiffer
        <4> QED
          BY <3>1, <4>1 DEF Who!MovedTeam
      <3>4. mapping[p][r] = Who!Placeholder(p, r)
        BY <2>1, <3>3
      <3>5. <<p, r>> \notin pairs
        BY <1>2, <3>3, <3>4
      <3> QED
        BY <1>4, <3>2, <3>4, <3>5
    <2> QED
      BY <2>1, <2>3, <2>4, <2>5, <2>6
  <1>21. FactsFollow'
    <2> SUFFICES ASSUME NEW p \in Who!Sources, facts'[p] # None
                 PROVE  /\ \A r \in Who!Real : facts'[p].sides[r] \in {None, mapping'[p][r]}
                        /\ facts'[p].winner \in {None, mapping'[p][Radiant]}
      BY DEF FactsFollow
    <2>1. /\ \A r \in Who!Real : facts[p].sides[r] \in {None, mapping[p][r]}
          /\ facts[p].winner \in {None, mapping[p][Radiant]}
      BY <1>12 DEF TeamsInv, FactsFollow
    <2>2. p \in Who!Providers /\ Radiant \in Who!Real /\ Who!MovedTeam(None, merged) = None
      BY <1>3 DEF Who!Providers, Who!Real
    <2> QED
      BY <1>5, <1>10, <1>12, <2>1, <2>2
  <1>22. EvidenceFollows'
    <2> SUFFICES ASSUME NEW p \in Who!Sources, evidence'[p] # None
                 PROVE  /\ facts'[p] # None /\ facts'[p].winner # None /\ mapping'[p][Radiant] # None
                        /\ evidence'[p].winner = mapping'[p][Radiant]
      BY DEF EvidenceFollows
    <2>1. /\ facts[p] # None /\ facts[p].winner # None /\ mapping[p][Radiant] # None
          /\ evidence[p].winner = mapping[p][Radiant] /\ facts[p].winner = mapping[p][Radiant]
      BY <1>13 DEF TeamsInv, EvidenceFollows, FactsFollow
    <2>2. p \in Who!Providers /\ Radiant \in Who!Real
      BY DEF Who!Providers, Who!Real
    <2> QED
      BY <1>5, <1>10, <1>11, <1>12, <1>13, <2>1, <2>2
  <1>23. ResultFollows'
    <2> SUFFICES ASSUME result' # None
                 PROVE  \/ result'.winner = None
                        \/ \E q \in Who!Known(evidence)' : result'.winner = evidence'[q].winner
      BY DEF ResultFollows
    <2>1. Who!Known(evidence)' = Who!Known(evidence) /\ Who!Known(evidence1) = Who!Known(evidence)
      BY <1>8, <1>9, <1>13 DEF Who!Known
    <2>2. CASE agreed /\ result'.winner = winner
      <3>1. PICK q \in Who!Known(evidence1) : evidence1[q].winner = winner
        BY <2>2 DEF agreed, AgreedBy, evidence1, winner
      <3>2. q \in Who!Sources /\ evidence'[q].winner = evidence1[q].winner
        BY <1>9, <1>11, <2>1, <3>1 DEF Who!Known
      <3> QED
        BY <2>1, <2>2, <3>1, <3>2
    <2>3. CASE result'.winner = Who!MovedTeam(result.winner, merged)
      <3>1. CASE result.winner = None
        BY <1>3, <2>3, <3>1
      <3>2. CASE \E q \in Who!Known(evidence) : result.winner = evidence[q].winner
        <4>1. PICK q \in Who!Known(evidence) : result.winner = evidence[q].winner
          BY <3>2
        <4>2. q \in Who!Sources /\ evidence'[q].winner = Who!MovedTeam(evidence[q].winner, merged)
          BY <1>11, <4>1 DEF Who!Known
        <4> QED
          BY <2>1, <2>3, <4>1, <4>2
      <3> QED
        BY <1>17, <3>1, <3>2 DEF TeamsInv, ResultFollows
    <2> QED
      BY <1>16, <1>17, <2>2, <2>3
  <1> QED
    BY <1>18, <1>19, <1>20, <1>21, <1>22, <1>23 DEF TeamsInv

(* IdentityResolver._resolve_team adds a named team.                        *)
LEMMA DiscoverKeeps ==
    ASSUME TeamsInv, NEW r \in Who!Real, Who!Discover(r)
    PROVE  TeamsInv'
  <1>1. teams' = teams \cup {Who!Named(r)} /\ UNCHANGED <<mapping, pair, facts, evidence, result>>
    BY DEF Who!Discover
  <1>2. Who!TypeOK'
    <2>1. teams' \subseteq Who!Team
      BY <1>1, TeamsDiffer DEF TeamsInv, Who!TypeOK
    <2> QED
      BY <1>1, <2>1 DEF TeamsInv, Who!TypeOK
  <1>3. MappingsName' /\ SeriesIsOfTwo'
    BY <1>1 DEF TeamsInv, MappingsName, SeriesIsOfTwo
  <1>4. FactsFollow' /\ EvidenceFollows' /\ ResultFollows'
    BY <1>1 DEF TeamsInv, FactsFollow, EvidenceFollows, ResultFollows, Who!Known
  <1> QED
    BY <1>2, <1>3, <1>4 DEF TeamsInv

(* resolve_dltv_bootstrap names both teams and the series.                  *)
LEMMA BootstrapKeeps ==
    ASSUME TeamsInv, Who!Bootstrap
    PROVE  TeamsInv'
  <1>1. /\ teams' = teams \cup Who!NamedPair /\ pair' = Who!NamedPair
        /\ mapping' = [mapping EXCEPT !["dltv"] = [r \in Who!Real |-> Who!Named(r)]]
        /\ UNCHANGED <<facts, evidence, result>>
    BY DEF Who!Bootstrap
  <1>2. Who!NamedPair = {Who!Named(r) : r \in Who!Real} /\ Who!NamedPair \subseteq Who!Team /\ "dltv" \in Who!Providers
        /\ "dltv" \notin Who!Sources
    BY DEF Who!NamedPair, Who!Team, Who!Providers, Who!Sources
  <1>3. mapping \in [Who!Providers -> [Who!Real -> Who!Team \cup {None}]]
    BY DEF TeamsInv, Who!TypeOK
  <1>4. /\ mapping' \in [Who!Providers -> [Who!Real -> Who!Team \cup {None}]]
        /\ \A r \in Who!Real : mapping'["dltv"][r] = Who!Named(r)
        /\ \A p \in Who!Sources : mapping'[p] = mapping[p] /\ p \in Who!Providers
    BY <1>1, <1>2, <1>3, TeamsDiffer DEF Who!Providers
  <1>5. Who!TypeOK'
    BY <1>1, <1>2, <1>4 DEF TeamsInv, Who!TypeOK
  <1>6. MappingsName'
    <2> SUFFICES ASSUME NEW p \in Who!Providers, NEW r \in Who!Real
                 PROVE  \/ mapping'[p][r] = None
                        \/ mapping'[p][r] \in teams' /\ (\/ mapping'[p][r] = Who!Named(r)
                                                         \/ p \in Who!Sources /\ mapping'[p][r] = Who!Placeholder(p, r))
      BY DEF MappingsName
    <2>1. CASE p = "dltv"
      BY <1>1, <1>2, <1>4, <2>1
    <2>2. CASE p \in Who!Sources
      BY <1>1, <1>4, <2>2 DEF TeamsInv, MappingsName
    <2> QED
      BY <2>1, <2>2 DEF Who!Providers
  <1>7. SeriesIsOfTwo'
    <2>1. pair' \subseteq teams' /\ \A r \in Who!Real : \E t \in pair' : t[2] = r
      BY <1>1, <1>2, TeamsDiffer
    <2>2. \A t, u \in pair' : t[2] = u[2] => t = u
      BY <1>1, <1>2, TeamsDiffer
    <2>3. \A p \in Who!Sources, r \in Who!Real : Who!Placeholder(p, r) \notin pair'
      <3>1. ASSUME NEW p \in Who!Sources, NEW r \in Who!Real, NEW q \in Who!Real PROVE Who!Placeholder(p, r) # Who!Named(q)
        BY <1>4, TeamsDiffer
      <3> QED
        BY <1>1, <1>2, <3>1
    <2> QED
      BY <2>1, <2>2, <2>3 DEF SeriesIsOfTwo
  <1>8. FactsFollow' /\ EvidenceFollows' /\ ResultFollows'
    BY <1>1, <1>4 DEF TeamsInv, FactsFollow, EvidenceFollows, ResultFollows, Who!Known
  <1> QED
    BY <1>5, <1>6, <1>7, <1>8 DEF TeamsInv

-----------------------------------------------------------------------------
(* What persist_bundle makes of mappings and facts                          *)
Stores(p, given) ==
    /\ teams' = Who!TeamsWith(p, given) /\ mapping' = Who!MappingWith(p, given)
    /\ pair' = Who!SeriesWith(p, given) /\ facts' = Who!FactsWith(p, given)

(* persist_bundle maps only what was not mapped, to a placeholder.          *)
LEMMA MappingGrows ==
    ASSUME Who!TypeOK, NEW p \in Who!Sources, NEW given \in SUBSET Who!Real, mapping' = Who!MappingWith(p, given)
    PROVE  /\ mapping' \in [Who!Providers -> [Who!Real -> Who!Team \cup {None}]]
           /\ \A q \in Who!Providers, r \in Who!Real :
                 mapping'[q][r] = IF q = p /\ r \in given /\ mapping[p][r] = None
                                  THEN Who!Placeholder(p, r) ELSE mapping[q][r]
  <1>1. mapping \in [Who!Providers -> [Who!Real -> Who!Team \cup {None}]] /\ p \in Who!Providers
    BY DEF Who!TypeOK, Who!Providers
  <1>2. mapping' = [mapping EXCEPT ![p] = [r \in Who!Real |->
               IF r \in given /\ mapping[p][r] = None THEN Who!Placeholder(p, r) ELSE mapping[p][r]]]
    BY DEF Who!MappingWith
  <1>3. \A r \in Who!Real : Who!Placeholder(p, r) \in Who!Team
    BY TeamsDiffer
  <1> QED
    BY <1>1, <1>2, <1>3

(* The fact of a provider: gaps are filled with what its numbers mean now.  *)
LEMMA FactGrows ==
    ASSUME Who!TypeOK, NEW p \in Who!Sources, NEW given \in SUBSET Who!Real,
           mapping' = Who!MappingWith(p, given)
    PROVE  /\ Who!FactWith(p, given) \in Who!Fact
           /\ \A r \in Who!Real :
                 Who!FactWith(p, given).sides[r] =
                     IF facts[p] # None /\ facts[p].sides[r] # None THEN facts[p].sides[r]
                     ELSE IF r \in given THEN mapping'[p][r] ELSE None
           /\ Who!FactWith(p, given).winner =
                  IF facts[p] # None /\ facts[p].winner # None THEN facts[p].winner
                  ELSE IF Radiant \in given THEN mapping'[p][Radiant] ELSE None
           /\ Who!FactWith(p, given).mapped =
                  ((facts[p] # None /\ facts[p].mapped) \/ Who!SeriesWith(p, given) # None)
           /\ Who!FactWith(p, given).conflict =
                  (\/ facts[p] # None /\ facts[p].conflict
                   \/ /\ facts[p] # None /\ facts[p].winner # None /\ Radiant \in given
                      /\ mapping'[p][Radiant] # None /\ facts[p].winner # mapping'[p][Radiant])
  <1> DEFINE ids == [r \in Who!Real |-> IF r \in given THEN Who!MappingWith(p, given)[p][r] ELSE None]
             none == [sides |-> [r \in Who!Real |-> None], winner |-> None,
                      mapped |-> FALSE, conflict |-> FALSE]
             old == IF facts[p] = None THEN none ELSE facts[p]
             sides == [r \in Who!Real |-> Who!Filled(old.sides[r], ids[r])]
             differs == None \notin {old.winner, ids[Radiant]} /\ old.winner # ids[Radiant]
  <1>1. Who!FactWith(p, given) =
           [sides    |-> sides,
            winner   |-> Who!Filled(old.winner, ids[Radiant]),
            mapped   |-> old.mapped \/ Who!SeriesWith(p, given) # None,
            conflict |-> old.conflict \/ differs]
    BY DEF Who!FactWith
  <1>2. /\ p \in Who!Providers /\ Radiant \in Who!Real
        /\ \A r \in Who!Real : mapping'[p][r] \in Who!Team \cup {None}
    BY MappingGrows DEF Who!Providers, Who!Real
  <1>3. \A r \in Who!Real : /\ ids[r] = IF r \in given THEN mapping'[p][r] ELSE None
                            /\ ids[r] \in Who!Team \cup {None}
    BY <1>2
  <1>4. none \in Who!Fact
    BY DEF Who!Fact
  <1>5. old \in Who!Fact
    BY <1>4 DEF Who!TypeOK
  <1>6. /\ \A r \in Who!Real : old.sides[r] \in Who!Team \cup {None}
        /\ old.winner \in Who!Team \cup {None} /\ old.mapped \in BOOLEAN /\ old.conflict \in BOOLEAN
    BY <1>5 DEF Who!Fact
  <1>7. /\ facts[p] # None => old = facts[p]
        /\ facts[p] = None => /\ \A r \in Who!Real : old.sides[r] = None
                              /\ old.winner = None /\ old.mapped = FALSE /\ old.conflict = FALSE
    OBVIOUS
  <1> HIDE DEF ids, none, old
  <1>8. /\ sides \in [Who!Real -> Who!Team \cup {None}]
        /\ \A r \in Who!Real : sides[r] = IF old.sides[r] # None THEN old.sides[r] ELSE ids[r]
    BY <1>3, <1>6 DEF Who!Filled
  <1>9. Who!Filled(old.winner, ids[Radiant]) \in Who!Team \cup {None}
        /\ Who!Filled(old.winner, ids[Radiant]) = IF old.winner # None THEN old.winner ELSE ids[Radiant]
    BY <1>2, <1>3, <1>6 DEF Who!Filled
  <1> HIDE DEF sides
  <1>10. /\ Who!FactWith(p, given) \in Who!Fact
         /\ Who!FactWith(p, given).sides = sides
         /\ Who!FactWith(p, given).winner = Who!Filled(old.winner, ids[Radiant])
         /\ Who!FactWith(p, given).mapped = (old.mapped \/ Who!SeriesWith(p, given) # None)
         /\ Who!FactWith(p, given).conflict = (old.conflict \/ differs)
    BY <1>1, <1>6, <1>8, <1>9 DEF Who!Fact
  <1>11. \A r \in Who!Real :
                 Who!FactWith(p, given).sides[r] =
                     IF facts[p] # None /\ facts[p].sides[r] # None THEN facts[p].sides[r]
                     ELSE IF r \in given THEN mapping'[p][r] ELSE None
    BY <1>3, <1>7, <1>8, <1>10
  <1>12. Who!FactWith(p, given).winner =
                  IF facts[p] # None /\ facts[p].winner # None THEN facts[p].winner
                  ELSE IF Radiant \in given THEN mapping'[p][Radiant] ELSE None
    BY <1>2, <1>3, <1>7, <1>9, <1>10
  <1>13. Who!FactWith(p, given).mapped =
                  ((facts[p] # None /\ facts[p].mapped) \/ Who!SeriesWith(p, given) # None)
    BY <1>6, <1>7, <1>10
  <1>14. differs = (/\ facts[p] # None /\ facts[p].winner # None /\ Radiant \in given
                    /\ mapping'[p][Radiant] # None /\ facts[p].winner # mapping'[p][Radiant])
    BY <1>2, <1>3, <1>7
  <1>15. Who!FactWith(p, given).conflict =
                  (\/ facts[p] # None /\ facts[p].conflict
                   \/ /\ facts[p] # None /\ facts[p].winner # None /\ Radiant \in given
                      /\ mapping'[p][Radiant] # None /\ facts[p].winner # mapping'[p][Radiant])
    BY <1>6, <1>7, <1>10, <1>14
  <1> QED
    BY <1>10, <1>11, <1>12, <1>13, <1>15

(* _flag_cross_provider_conflict: records of the map that disagree are      *)
(* marked, and nothing else of them changes.                                *)
LEMMA FlagsOnly ==
    ASSUME NEW f \in [Who!Sources -> Who!Fact \cup {None}], NEW p \in Who!Sources, f[p] # None
    PROVE  /\ Who!Flagged(f, p) \in [Who!Sources -> Who!Fact \cup {None}]
           /\ \A q \in Who!Sources :
                 /\ f[q] = None => Who!Flagged(f, p)[q] = None
                 /\ f[q] # None =>
                       /\ Who!Flagged(f, p)[q] # None
                       /\ Who!Flagged(f, p)[q].sides = f[q].sides /\ Who!Flagged(f, p)[q].winner = f[q].winner
                       /\ Who!Flagged(f, p)[q].mapped = f[q].mapped
                       /\ Who!Flagged(f, p)[q].conflict =>
                             \/ f[q].conflict
                             \/ \E o \in Who!Sources : /\ f[o] # None /\ f[p].winner # None
                                                       /\ f[o].winner # None /\ f[o].winner # f[p].winner
  <1> DEFINE against == {q \in Who!Others(p) \cap Who!Known(f) :
                            None \notin {f[p].winner, f[q].winner} /\ f[p].winner # f[q].winner}
             hit(q) == against # {} /\ q \in against \cup {p}
  <1>1. Who!Flagged(f, p) = [q \in Who!Sources |-> IF hit(q) THEN [f[q] EXCEPT !.conflict = TRUE] ELSE f[q]]
    BY DEF Who!Flagged
  <1>2. None \notin Who!Fact
    BY TA DEF Who!TeamsAssumption
  <1>3. \A q \in Who!Sources : hit(q) => f[q] # None
    BY DEF Who!Known
  <1>4. against # {} => \E o \in Who!Sources : /\ f[o] # None /\ f[p].winner # None
                                          /\ f[o].winner # None /\ f[o].winner # f[p].winner
    BY DEF Who!Known, Who!Others
  <1>5. \A q \in Who!Sources : hit(q) => against # {}
    OBVIOUS
  <1> HIDE DEF hit, against
  <1>6. ASSUME NEW q \in Who!Sources, hit(q)
        PROVE  /\ Who!Flagged(f, p)[q] \in Who!Fact /\ Who!Flagged(f, p)[q].sides = f[q].sides
               /\ Who!Flagged(f, p)[q].winner = f[q].winner /\ Who!Flagged(f, p)[q].mapped = f[q].mapped
    <2>1. f[q] \in Who!Fact /\ Who!Flagged(f, p)[q] = [f[q] EXCEPT !.conflict = TRUE]
      BY <1>1, <1>3, <1>6
    <2> QED
      BY <2>1, FactFlagged
  <1>7. ASSUME NEW q \in Who!Sources, ~hit(q)
        PROVE  Who!Flagged(f, p)[q] = f[q]
    BY <1>1, <1>7
  <1>8. \A q \in Who!Sources : Who!Flagged(f, p)[q] \in Who!Fact \cup {None}
    BY <1>6, <1>7
  <1>9. Who!Flagged(f, p) \in [Who!Sources -> Who!Fact \cup {None}]
    <2>1. Who!Flagged(f, p) = [q \in Who!Sources |-> Who!Flagged(f, p)[q]]
      BY <1>1
    <2> QED
      BY <1>8, <2>1
  <1> QED
    BY <1>2, <1>3, <1>4, <1>5, <1>6, <1>7, <1>9

(* The record that persist_bundle leaves: what was there stays, what was    *)
(* missing is filled, and it is in conflict only with the other one.        *)
LEMMA StoringFacts ==
    ASSUME Who!TypeOK, NEW p \in Who!Sources, NEW given \in SUBSET Who!Real,
           mapping' = Who!MappingWith(p, given), facts' = Who!FactsWith(p, given)
    PROVE  /\ facts' \in [Who!Sources -> Who!Fact \cup {None}]
           /\ facts'[p] # None
           /\ \A r \in Who!Real :
                 facts'[p].sides[r] =
                     IF facts[p] # None /\ facts[p].sides[r] # None THEN facts[p].sides[r]
                     ELSE IF r \in given THEN mapping'[p][r] ELSE None
           /\ facts'[p].winner =
                  IF facts[p] # None /\ facts[p].winner # None THEN facts[p].winner
                  ELSE IF Radiant \in given THEN mapping'[p][Radiant] ELSE None
           /\ facts'[p].mapped = ((facts[p] # None /\ facts[p].mapped) \/ Who!SeriesWith(p, given) # None)
           /\ \A q \in Who!Sources \ {p} :
                 /\ facts[q] = None => facts'[q] = None
                 /\ facts[q] # None =>
                       /\ facts'[q] # None /\ facts'[q].sides = facts[q].sides
                       /\ facts'[q].winner = facts[q].winner /\ facts'[q].mapped = facts[q].mapped
           /\ \A q \in Who!Sources : facts'[q] # None /\ facts'[q].conflict =>
                 \/ facts[q] # None /\ facts[q].conflict
                 \/ /\ facts[p] # None /\ facts[p].winner # None
                    /\ mapping'[p][Radiant] # None /\ facts[p].winner # mapping'[p][Radiant]
                 \/ \E o \in Who!Sources \ {p} : /\ facts'[o] # None /\ facts'[p].winner # None
                                                 /\ facts'[o].winner # None /\ facts'[o].winner # facts'[p].winner
  <1> DEFINE f == [facts EXCEPT ![p] = Who!FactWith(p, given)]
  <1>1. facts' = Who!Flagged(f, p)
    BY DEF Who!FactsWith
  <1>2. /\ f \in [Who!Sources -> Who!Fact \cup {None}] /\ f[p] = Who!FactWith(p, given) /\ f[p] # None
        /\ \A q \in Who!Sources \ {p} : f[q] = facts[q]
    <2>1. Who!FactWith(p, given) \in Who!Fact
      BY FactGrows
    <2>2. None \notin Who!Fact
      BY TA DEF Who!TeamsAssumption
    <2>3. facts \in [Who!Sources -> Who!Fact \cup {None}]
      BY DEF Who!TypeOK
    <2> HIDE DEF Who!FactWith
    <2> QED
      BY <2>1, <2>2, <2>3
  <1> HIDE DEF f
  <1>3. /\ facts' \in [Who!Sources -> Who!Fact \cup {None}]
        /\ \A q \in Who!Sources :
                 /\ f[q] = None => facts'[q] = None
                 /\ f[q] # None =>
                       /\ facts'[q] # None
                       /\ facts'[q].sides = f[q].sides /\ facts'[q].winner = f[q].winner
                       /\ facts'[q].mapped = f[q].mapped
                       /\ facts'[q].conflict =>
                             \/ f[q].conflict
                             \/ \E o \in Who!Sources : /\ f[o] # None /\ f[p].winner # None
                                                       /\ f[o].winner # None /\ f[o].winner # f[p].winner
    BY <1>1, <1>2, FlagsOnly
  <1>4. /\ facts'[p] # None /\ facts'[p].sides = Who!FactWith(p, given).sides
        /\ facts'[p].winner = Who!FactWith(p, given).winner /\ facts'[p].mapped = Who!FactWith(p, given).mapped
    BY <1>2, <1>3
  <1>5. \A r \in Who!Real :
                 facts'[p].sides[r] =
                     IF facts[p] # None /\ facts[p].sides[r] # None THEN facts[p].sides[r]
                     ELSE IF r \in given THEN mapping'[p][r] ELSE None
    <2>1. \A r \in Who!Real :
                 Who!FactWith(p, given).sides[r] =
                     IF facts[p] # None /\ facts[p].sides[r] # None THEN facts[p].sides[r]
                     ELSE IF r \in given THEN mapping'[p][r] ELSE None
      BY FactGrows
    <2> QED
      BY <1>4, <2>1
  <1>6. /\ facts'[p].winner =
                  IF facts[p] # None /\ facts[p].winner # None THEN facts[p].winner
                  ELSE IF Radiant \in given THEN mapping'[p][Radiant] ELSE None
        /\ facts'[p].mapped = ((facts[p] # None /\ facts[p].mapped) \/ Who!SeriesWith(p, given) # None)
    BY <1>4, FactGrows
  <1>7. \A q \in Who!Sources \ {p} :
                 /\ facts[q] = None => facts'[q] = None
                 /\ facts[q] # None =>
                       /\ facts'[q] # None /\ facts'[q].sides = facts[q].sides
                       /\ facts'[q].winner = facts[q].winner /\ facts'[q].mapped = facts[q].mapped
    BY <1>2, <1>3
  <1>8. ASSUME NEW q \in Who!Sources, facts'[q] # None, facts'[q].conflict
        PROVE    \/ facts[q] # None /\ facts[q].conflict
                 \/ /\ facts[p] # None /\ facts[p].winner # None
                    /\ mapping'[p][Radiant] # None /\ facts[p].winner # mapping'[p][Radiant]
                 \/ \E o \in Who!Sources \ {p} : /\ facts'[o] # None /\ facts'[p].winner # None
                                                 /\ facts'[o].winner # None /\ facts'[o].winner # facts'[p].winner
    <2>1. f[q] # None
      BY <1>3, <1>8
    <2>2. CASE f[q].conflict /\ q # p
      BY <1>2, <2>1, <2>2
    <2>3. CASE f[q].conflict /\ q = p
      <3>1. Who!FactWith(p, given).conflict
        BY <1>2, <2>3
      <3>2. Who!FactWith(p, given).conflict =
                  (\/ facts[p] # None /\ facts[p].conflict
                   \/ /\ facts[p] # None /\ facts[p].winner # None /\ Radiant \in given
                      /\ mapping'[p][Radiant] # None /\ facts[p].winner # mapping'[p][Radiant])
        BY FactGrows
      <3> QED
        BY <2>3, <3>1, <3>2
    <2>4. CASE \E o \in Who!Sources : /\ f[o] # None /\ f[p].winner # None
                                      /\ f[o].winner # None /\ f[o].winner # f[p].winner
      BY <1>2, <1>3, <2>4
    <2> QED
      BY <1>3, <1>8, <2>1, <2>2, <2>3, <2>4
  <1> QED
    BY <1>3, <1>4, <1>5, <1>6, <1>7, <1>8

(* What a bundle stores keeps what is said of teams, mappings, the series   *)
(* and the facts, and disturbs no evidence.                                 *)
EvidenceStill ==
    \A q \in Who!Sources : evidence[q] # None =>
        /\ facts'[q] # None /\ facts'[q].winner # None /\ mapping'[q][Radiant] # None
        /\ evidence[q].winner = mapping'[q][Radiant]

(* A stored bundle keeps what is said of teams, mappings, the series and    *)
(* the records, and touches no evidence.                                    *)
LEMMA StoreKeeps ==
    ASSUME TeamsInv, NEW p \in Who!Sources, NEW given \in SUBSET Who!Real, Stores(p, given)
    PROVE  /\ teams' \subseteq Who!Team /\ mapping' \in [Who!Providers -> [Who!Real -> Who!Team \cup {None}]]
           /\ pair' \in (SUBSET Who!Team) \cup {None} /\ facts' \in [Who!Sources -> Who!Fact \cup {None}]
           /\ MappingsName' /\ SeriesIsOfTwo' /\ FactsFollow' /\ EvidenceStill
  <1>1. /\ teams' = Who!TeamsWith(p, given) /\ mapping' = Who!MappingWith(p, given)
        /\ pair' = Who!SeriesWith(p, given) /\ facts' = Who!FactsWith(p, given)
    BY DEF Stores
  <1>t. Who!TypeOK
    BY DEF TeamsInv
  <1>2. /\ mapping' \in [Who!Providers -> [Who!Real -> Who!Team \cup {None}]]
        /\ \A q \in Who!Providers, r \in Who!Real :
                 mapping'[q][r] = IF q = p /\ r \in given /\ mapping[p][r] = None
                                  THEN Who!Placeholder(p, r) ELSE mapping[q][r]
    BY <1>1, <1>t, MappingGrows
  <1>3. teams' = teams \cup {Who!Placeholder(p, r) : r \in {s \in given : mapping[p][s] = None}}
    BY <1>1 DEF Who!TeamsWith
  <1>4. teams' \subseteq Who!Team
    BY <1>t, <1>3, TeamsDiffer DEF Who!TypeOK
  <1>5. /\ p \in Who!Providers /\ Who!Sources \subseteq Who!Providers /\ Radiant \in Who!Real
        /\ \A r \in Who!Real : Who!Placeholder(p, r) # None
    BY TeamsDiffer DEF Who!Providers, Who!Real
  <1>6. \A q \in Who!Providers, r \in Who!Real : mapping[q][r] # None => mapping'[q][r] = mapping[q][r]
    BY <1>2
  <1>7. MappingsName'
    <2> SUFFICES ASSUME NEW q \in Who!Providers, NEW r \in Who!Real, mapping'[q][r] # None
                 PROVE  /\ mapping'[q][r] \in teams'
                        /\ \/ mapping'[q][r] = Who!Named(r)
                           \/ q \in Who!Sources /\ mapping'[q][r] = Who!Placeholder(q, r)
      BY DEF MappingsName
    <2>1. CASE q = p /\ r \in given /\ mapping[p][r] = None
      BY <1>2, <1>3, <2>1
    <2>2. CASE ~(q = p /\ r \in given /\ mapping[p][r] = None)
      <3>1. mapping'[q][r] = mapping[q][r]
        BY <1>2, <2>2
      <3> QED
        BY <1>3, <3>1 DEF TeamsInv, MappingsName
    <2> QED
      BY <2>1, <2>2
  <1>8. SeriesIsOfTwo' /\ pair' \in (SUBSET Who!Team) \cup {None}
    <2>1. CASE pair = None /\ given = Who!Real
      <3>1. pair' = {mapping'[p][r] : r \in Who!Real}
        BY <1>1, <2>1 DEF Who!SeriesWith
      <3>2. \A r \in Who!Real : /\ mapping'[p][r] # None /\ mapping'[p][r] \in teams'
                                /\ \/ mapping'[p][r] = Who!Named(r)
                                   \/ mapping'[p][r] = Who!Placeholder(p, r)
        <4>1. \A r \in Who!Real : mapping'[p][r] # None
          BY <1>2, <1>5, <2>1
        <4> QED
          BY <1>5, <1>7, <4>1 DEF MappingsName
      <3>3. \A r \in Who!Real : mapping'[p][r][2] = r
        BY <1>5, <3>2, TeamsDiffer
      <3>4. pair' \subseteq teams' /\ \A r \in Who!Real : \E t \in pair' : t[2] = r
        BY <3>1, <3>2, <3>3
      <3>5. \A t, u \in pair' : t[2] = u[2] => t = u
        BY <3>1, <3>3
      <3>6. ASSUME NEW q \in Who!Sources, NEW s \in Who!Real, Who!Placeholder(q, s) \in pair'
            PROVE  mapping'[q][s] = Who!Placeholder(q, s)
        <4>1. PICK r \in Who!Real : Who!Placeholder(q, s) = mapping'[p][r]
          BY <3>1, <3>6
        <4>2. Who!Placeholder(q, s) = Who!Placeholder(p, r)
          BY <1>5, <3>2, <4>1, TeamsDiffer
        <4>3. q = p /\ s = r
          BY <1>5, <4>2, TeamsDiffer
        <4> QED
          BY <4>1, <4>3
      <3> QED
        BY <1>4, <3>4, <3>5, <3>6 DEF SeriesIsOfTwo
    <2>2. CASE ~(pair = None /\ given = Who!Real)
      <3>1. pair' = pair
        BY <1>1, <2>2 DEF Who!SeriesWith
      <3>2. pair \in (SUBSET Who!Team) \cup {None}
        BY <1>t DEF Who!TypeOK
      <3>3. ASSUME pair # None, NEW q \in Who!Sources, NEW s \in Who!Real, Who!Placeholder(q, s) \in pair
            PROVE  mapping'[q][s] = Who!Placeholder(q, s)
        <4>1. mapping[q][s] = Who!Placeholder(q, s)
          BY <3>3 DEF TeamsInv, SeriesIsOfTwo
        <4>2. q \in Who!Providers /\ Who!Placeholder(q, s) # None
          BY <1>5, TeamsDiffer
        <4> QED
          BY <1>6, <4>1, <4>2
      <3>4. teams \subseteq teams'
        BY <1>3
      <3>5. pair # None => /\ pair \subseteq teams
                           /\ \A r \in Who!Real : \E t \in pair : t[2] = r
                           /\ \A t, u \in pair : t[2] = u[2] => t = u
        BY DEF TeamsInv, SeriesIsOfTwo
      <3>6. SeriesIsOfTwo'
        <4> SUFFICES ASSUME pair' # None
                     PROVE  /\ pair' \subseteq teams'
                            /\ \A r \in Who!Real : \E t \in pair' : t[2] = r
                            /\ \A t, u \in pair' : t[2] = u[2] => t = u
                            /\ \A q \in Who!Sources, r \in Who!Real :
                                  Who!Placeholder(q, r) \in pair' => mapping'[q][r] = Who!Placeholder(q, r)
          BY DEF SeriesIsOfTwo
        <4> QED
          BY <3>1, <3>3, <3>4, <3>5
      <3> QED
        BY <3>1, <3>2, <3>6
    <2> QED
      BY <2>1, <2>2
  <1>9. /\ facts' \in [Who!Sources -> Who!Fact \cup {None}]
        /\ facts'[p] # None
        /\ \A r \in Who!Real :
                 facts'[p].sides[r] =
                     IF facts[p] # None /\ facts[p].sides[r] # None THEN facts[p].sides[r]
                     ELSE IF r \in given THEN mapping'[p][r] ELSE None
        /\ facts'[p].winner =
                  IF facts[p] # None /\ facts[p].winner # None THEN facts[p].winner
                  ELSE IF Radiant \in given THEN mapping'[p][Radiant] ELSE None
        /\ \A q \in Who!Sources \ {p} :
                 /\ facts[q] = None => facts'[q] = None
                 /\ facts[q] # None =>
                       /\ facts'[q] # None /\ facts'[q].sides = facts[q].sides
                       /\ facts'[q].winner = facts[q].winner
    BY <1>1, <1>t, StoringFacts
  <1>10. \A q \in Who!Sources : facts[q] # None =>
             /\ \A r \in Who!Real : facts[q].sides[r] \in {None, mapping[q][r]}
             /\ facts[q].winner \in {None, mapping[q][Radiant]}
    BY DEF TeamsInv, FactsFollow
  <1>11. FactsFollow'
    <2> SUFFICES ASSUME NEW q \in Who!Sources, facts'[q] # None
                 PROVE  /\ \A r \in Who!Real : facts'[q].sides[r] \in {None, mapping'[q][r]}
                        /\ facts'[q].winner \in {None, mapping'[q][Radiant]}
      BY DEF FactsFollow
    <2>1. CASE q = p
      BY <1>5, <1>6, <1>9, <1>10, <2>1
    <2>2. CASE q # p
      BY <1>5, <1>6, <1>9, <1>10, <2>2
    <2> QED
      BY <2>1, <2>2
  <1>12. EvidenceStill
    <2> SUFFICES ASSUME NEW q \in Who!Sources, evidence[q] # None
                 PROVE  /\ facts'[q] # None /\ facts'[q].winner # None /\ mapping'[q][Radiant] # None
                        /\ evidence[q].winner = mapping'[q][Radiant]
      BY DEF EvidenceStill
    <2>1. /\ facts[q] # None /\ facts[q].winner # None /\ mapping[q][Radiant] # None
          /\ evidence[q].winner = mapping[q][Radiant]
      BY DEF TeamsInv, EvidenceFollows
    <2> QED
      BY <1>5, <1>6, <1>9, <2>1
  <1> QED
    BY <1>2, <1>4, <1>7, <1>8, <1>9, <1>11, <1>12

(* SettlementService.settle: the evidence follows the record, and the       *)
(* result the evidence.                                                     *)
LEMMA SettleKeeps ==
    ASSUME evidence \in [Who!Sources -> Who!Verdict \cup {None}], EvidenceStill, NEW p \in Who!Sources,
           facts'[p] \in Who!Fact, facts'[p] # None, facts'[p].winner # None, FactsFollow',
           Who!Settle(p, facts')
    PROVE  /\ evidence' \in [Who!Sources -> Who!Verdict \cup {None}] /\ result' \in Who!Verdict
           /\ EvidenceFollows' /\ ResultFollows'
           /\ Who!Known(evidence') = Who!Known(evidence) \cup {p}
           /\ \A q \in Who!Known(evidence') :
                 /\ evidence'[q].conflict = result'.conflict
                 /\ result'.winner = IF result'.conflict THEN None ELSE evidence'[q].winner
           /\ result'.conflict =>
                 \/ facts'[p].conflict
                 \/ \E q \in Who!Known(evidence) : evidence[q].conflict
                 \/ \E q \in Who!Known(evidence) : evidence[q].winner # facts'[p].winner
  <1> DEFINE row == [winner |-> facts'[p].winner, conflict |-> facts'[p].conflict]
             filed == [evidence EXCEPT ![p] = row]
             winners == {filed[q].winner : q \in Who!Known(filed)}
             conflict == Cardinality(winners) > 1 \/ \E q \in Who!Known(filed) : filed[q].conflict
  <1>1. /\ evidence' = [q \in Who!Sources |-> IF filed[q] = None THEN None
                                          ELSE [filed[q] EXCEPT !.conflict = conflict]]
        /\ result' = [winner |-> IF conflict THEN None ELSE facts'[p].winner, conflict |-> conflict]
    BY SameSizes DEF Who!Settle
  <1>2. row \in Who!Verdict /\ row.winner = facts'[p].winner /\ row.conflict = facts'[p].conflict
        /\ row # None
    BY TA DEF Who!Fact, Who!Verdict, Who!TeamsAssumption
  <1> HIDE DEF row
  <1>3. /\ filed \in [Who!Sources -> Who!Verdict \cup {None}] /\ filed[p] = row
        /\ \A q \in Who!Sources \ {p} : filed[q] = evidence[q]
    BY <1>2
  <1> HIDE DEF filed
  <1>4. None \notin Who!Verdict
    BY TA DEF Who!TeamsAssumption
  <1>5. Who!Known(filed) = Who!Known(evidence) \cup {p}
    BY <1>2, <1>3 DEF Who!Known
  <1>6. conflict \in BOOLEAN
    OBVIOUS
  <1>7. ~conflict => \A q \in Who!Known(filed) : filed[q].winner = row.winner
    <2> SUFFICES ASSUME ~conflict, NEW q \in Who!Known(filed) PROVE filed[q].winner = row.winner
      OBVIOUS
    <2>1. ~(Cardinality(winners) > 1)
      OBVIOUS
    <2>2. row.winner \in winners /\ filed[q].winner \in winners
      BY <1>3, <1>5
    <2> DEFINE a == filed["stratz"].winner  b == filed["opendota"].winner
               x == filed[q].winner  y == row.winner
    <2>3. winners \subseteq {a, b}
      BY DEF Who!Known, Who!Sources
    <2>4. x \in winners /\ y \in winners
      BY <2>2
    <2> HIDE DEF winners, a, b, x, y
    <2>5. x = y
      BY <2>1, <2>3, <2>4, AtMostOne
    <2> QED
      BY <2>5 DEF x, y
  <1>8. conflict => \/ facts'[p].conflict
                    \/ \E q \in Who!Known(evidence) : evidence[q].conflict
                    \/ \E q \in Who!Known(evidence) : evidence[q].winner # facts'[p].winner
    <2> SUFFICES ASSUME conflict, ~facts'[p].conflict, 
                        \A q \in Who!Known(evidence) : ~evidence[q].conflict /\ evidence[q].winner = facts'[p].winner
                 PROVE  FALSE
      OBVIOUS
    <2>1. \A q \in Who!Known(filed) : ~filed[q].conflict /\ filed[q].winner = row.winner
      BY <1>2, <1>3, <1>5 DEF Who!Known
    <2>2. winners = {row.winner}
      BY <1>5, <2>1
    <2>3. Cardinality(winners) = 1
      BY <2>2, FS_Singleton
    <2> HIDE DEF winners
    <2> QED
      BY <2>1, <2>3
  <1> HIDE DEF conflict
  <1>9. \A q \in Who!Sources : 
           IF filed[q] = None THEN evidence'[q] = None
           ELSE /\ evidence'[q] \in Who!Verdict /\ evidence'[q].winner = filed[q].winner
                /\ evidence'[q].conflict = conflict
    <2> TAKE q \in Who!Sources
    <2>1. CASE filed[q] # None
      <3>1. filed[q] \in Who!Verdict /\ evidence'[q] = [filed[q] EXCEPT !.conflict = conflict]
        BY <1>1, <1>3, <2>1
      <3> QED
        BY <1>6, <2>1, <3>1 DEF Who!Verdict
    <2> QED
      BY <1>1, <2>1
  <1>10. evidence' \in [Who!Sources -> Who!Verdict \cup {None}]
    <2>1. evidence' = [q \in Who!Sources |-> evidence'[q]]
      BY <1>1
    <2> QED
      BY <1>9, <2>1
  <1>11. result' \in Who!Verdict /\ result'.conflict = conflict
         /\ result'.winner = IF conflict THEN None ELSE row.winner
    <2>1. facts'[p].winner \in Who!Team \cup {None}
      BY DEF Who!Fact
    <2> QED
      BY <1>1, <1>2, <1>6, <2>1 DEF Who!Verdict
  <1>12. Who!Known(evidence') = Who!Known(filed)
    BY <1>4, <1>9 DEF Who!Known
  <1>13. \A q \in Who!Known(evidence') :
                 /\ evidence'[q].conflict = result'.conflict
                 /\ result'.winner = IF result'.conflict THEN None ELSE evidence'[q].winner
    BY <1>7, <1>9, <1>11, <1>12 DEF Who!Known
  <1>14. EvidenceFollows'
    <2> SUFFICES ASSUME NEW q \in Who!Sources, evidence'[q] # None
                 PROVE  /\ facts'[q] # None /\ facts'[q].winner # None /\ mapping'[q][Radiant] # None
                        /\ evidence'[q].winner = mapping'[q][Radiant]
      BY DEF EvidenceFollows
    <2>1. CASE q = p
      <3>1. facts'[p].winner = mapping'[p][Radiant]
        BY DEF FactsFollow
      <3>2. evidence'[p].winner = facts'[p].winner
        BY <1>2, <1>3, <1>9
      <3> QED
        BY <2>1, <3>1, <3>2
    <2>2. CASE q # p
      <3>1. evidence[q] # None /\ evidence'[q].winner = evidence[q].winner
        BY <1>3, <1>9, <2>2
      <3> QED
        BY <3>1 DEF EvidenceStill
    <2> QED
      BY <2>1, <2>2
  <1>15. ResultFollows'
    <2>1. p \in Who!Known(evidence')
      BY <1>5, <1>12
    <2> QED
      BY <1>13, <2>1 DEF ResultFollows
  <1> QED
    BY <1>5, <1>8, <1>10, <1>11, <1>12, <1>13, <1>14, <1>15

-----------------------------------------------------------------------------
(* The steps that tell teams apart call Identify with pairs it can handle.  *)
LEMMA SyncKeepsTeams ==
    ASSUME TeamsInv, NEW p \in Who!Sources, NEW given \in SUBSET Who!Real, Who!Sync(p, given)
    PROVE  TeamsInv'
  <1>1. Stores(p, given) /\ UNCHANGED <<evidence, result>>
    BY DEF Who!Sync, Stores
  <1>2. /\ teams' \subseteq Who!Team /\ mapping' \in [Who!Providers -> [Who!Real -> Who!Team \cup {None}]]
        /\ pair' \in (SUBSET Who!Team) \cup {None} /\ facts' \in [Who!Sources -> Who!Fact \cup {None}]
        /\ MappingsName' /\ SeriesIsOfTwo' /\ FactsFollow' /\ EvidenceStill
    BY <1>1, StoreKeeps
  <1>3. Who!TypeOK'
    BY <1>1, <1>2 DEF TeamsInv, Who!TypeOK
  <1>4. EvidenceFollows' /\ ResultFollows'
    BY <1>1, <1>2 DEF TeamsInv, EvidenceStill, EvidenceFollows, ResultFollows, Who!Known
  <1> QED
    BY <1>2, <1>3, <1>4 DEF TeamsInv

(* A finished map is stored and settled by what was stored.                 *)
LEMMA ReportStores ==
    ASSUME TeamsInv, NEW p \in Who!Sources, Who!Report(p)
    PROVE  /\ Stores(p, Who!Real) /\ Who!Settle(p, facts')
           /\ facts'[p] \in Who!Fact /\ facts'[p] # None /\ facts'[p].winner # None
  <1>1. Stores(p, Who!Real) /\ Who!Settle(p, facts') /\ Who!TypeOK /\ mapping' = Who!MappingWith(p, Who!Real)
        /\ facts' = Who!FactsWith(p, Who!Real)
    BY DEF Who!Report, Stores, TeamsInv
  <1>2. mapping'[p][Radiant] # None
    <2>1. p \in Who!Providers /\ Radiant \in Who!Real /\ Who!Placeholder(p, Radiant) # None
      BY TeamsDiffer DEF Who!Providers, Who!Real
    <2>2. \A q \in Who!Providers, r \in Who!Real :
                 mapping'[q][r] = IF q = p /\ r \in Who!Real /\ mapping[p][r] = None
                                  THEN Who!Placeholder(p, r) ELSE mapping[q][r]
      BY <1>1, MappingGrows
    <2> QED
      BY <2>1, <2>2
  <1>3. /\ facts' \in [Who!Sources -> Who!Fact \cup {None}]
        /\ facts'[p] # None
        /\ facts'[p].winner =
                  IF facts[p] # None /\ facts[p].winner # None THEN facts[p].winner
                  ELSE IF Radiant \in Who!Real THEN mapping'[p][Radiant] ELSE None
    BY <1>1, StoringFacts
  <1> QED
    BY <1>1, <1>2, <1>3 DEF Who!Real

(* POSTMATCH_SYNC: the record is stored and the result settled in one       *)
(* transaction.                                                             *)
LEMMA ReportKeeps ==
    ASSUME TeamsInv, NEW p \in Who!Sources, Who!Report(p)
    PROVE  TeamsInv'
  <1>1. /\ Stores(p, Who!Real) /\ Who!Settle(p, facts')
        /\ facts'[p] \in Who!Fact /\ facts'[p] # None /\ facts'[p].winner # None
    BY ReportStores
  <1>2. /\ teams' \subseteq Who!Team /\ mapping' \in [Who!Providers -> [Who!Real -> Who!Team \cup {None}]]
        /\ pair' \in (SUBSET Who!Team) \cup {None} /\ facts' \in [Who!Sources -> Who!Fact \cup {None}]
        /\ MappingsName' /\ SeriesIsOfTwo' /\ FactsFollow' /\ EvidenceStill
    BY <1>1, StoreKeeps
  <1>3. evidence \in [Who!Sources -> Who!Verdict \cup {None}]
    BY DEF TeamsInv, Who!TypeOK
  <1>4. /\ evidence' \in [Who!Sources -> Who!Verdict \cup {None}] /\ result' \in Who!Verdict
        /\ EvidenceFollows' /\ ResultFollows'
    BY <1>1, <1>2, <1>3, SettleKeeps
  <1> QED
    BY <1>2, <1>4 DEF TeamsInv, Who!TypeOK

(* A map that history already knew is settled by its record.                *)
LEMMA StoredSettles ==
    ASSUME TeamsInv, NEW p \in Who!Sources, Who!SettleStored(p)
    PROVE  /\ Who!Settle(p, facts') /\ EvidenceStill /\ FactsFollow'
           /\ facts'[p] \in Who!Fact /\ facts'[p] # None /\ facts'[p].winner # None
           /\ UNCHANGED <<teams, mapping, pair, facts>>
  <1>1. /\ facts[p] # None /\ facts[p].winner # None /\ Who!Settle(p, facts)
        /\ UNCHANGED <<teams, mapping, pair, facts>>
    BY DEF Who!SettleStored
  <1>2. Who!Settle(p, facts')
    BY <1>1
  <1>3. EvidenceStill
    BY <1>1 DEF TeamsInv, EvidenceFollows, EvidenceStill
  <1>4. FactsFollow'
    BY <1>1 DEF TeamsInv, FactsFollow
  <1>5. facts'[p] \in Who!Fact
    BY <1>1 DEF TeamsInv, Who!TypeOK
  <1> QED
    BY <1>1, <1>2, <1>3, <1>4, <1>5

(* The settlement by a stored record keeps the invariant.                   *)
LEMMA SettleStoredKeeps ==
    ASSUME TeamsInv, NEW p \in Who!Sources, Who!SettleStored(p)
    PROVE  TeamsInv'
  <1>1. /\ Who!Settle(p, facts') /\ EvidenceStill /\ FactsFollow'
        /\ facts'[p] \in Who!Fact /\ facts'[p] # None /\ facts'[p].winner # None
        /\ UNCHANGED <<teams, mapping, pair, facts>>
    BY StoredSettles
  <1>2. evidence \in [Who!Sources -> Who!Verdict \cup {None}]
    BY DEF TeamsInv, Who!TypeOK
  <1>3. /\ evidence' \in [Who!Sources -> Who!Verdict \cup {None}] /\ result' \in Who!Verdict
        /\ EvidenceFollows' /\ ResultFollows'
    BY <1>1, <1>2, SettleKeeps
  <1>4. MappingsName' /\ SeriesIsOfTwo'
    BY <1>1 DEF TeamsInv, MappingsName, SeriesIsOfTwo
  <1>5. Who!TypeOK'
    BY <1>1, <1>3 DEF TeamsInv, Who!TypeOK
  <1> QED
    BY <1>1, <1>3, <1>4, <1>5 DEF TeamsInv

(* Every step that tells teams apart is an Identify of such pairs.          *)
Tells ==
    \/ \E listed \in SUBSET Who!Real : Who!Catalog(listed)
    \/ Who!StratzIdentities
    \/ \E p \in Who!Sources : Who!ObserveNames(p)
    \/ Who!Repair

(* Each such step identifies pairs whose named team is known and whose      *)
(* mapping is empty or a placeholder.                                       *)
LEMMA TellsIdentifiable ==
    ASSUME TeamsInv, Tells
    PROVE  \E pairs : Identifiable(pairs) /\ Who!Identify(pairs)
  <1>s. "stratz" \in Who!Sources /\ "opendota" \in Who!Sources /\ Who!Sources \subseteq Who!Providers
    BY DEF Who!Sources, Who!Providers
  <1>1. ASSUME NEW listed \in SUBSET Who!Real, Who!Catalog(listed)
        PROVE  \E pairs : Identifiable(pairs) /\ Who!Identify(pairs)
    <2> DEFINE found == {r \in listed : Who!Named(r) \in teams /\ Who!Unmapped("opendota", r)}
               pairs == {<<"opendota", r>> : r \in found}
    <2>1. Who!Identify(pairs)
      BY <1>1 DEF Who!Catalog
    <2>2. Identifiable(pairs)
      BY <1>s DEF Identifiable, Who!Unmapped, Who!Placeholder
    <2> HIDE DEF pairs
    <2> QED
      BY <2>1, <2>2
  <1>2. ASSUME Who!StratzIdentities
        PROVE  \E pairs : Identifiable(pairs) /\ Who!Identify(pairs)
    <2> DEFINE found == {r \in Who!Real : mapping["opendota"][r] = Who!Named(r) /\ mapping["stratz"][r] = None}
               pairs == {<<"stratz", r>> : r \in found}
    <2>1. Who!Identify(pairs)
      BY <1>2 DEF Who!StratzIdentities
    <2>2. \A r \in found : Who!Named(r) \in teams
      BY <1>s, TeamsDiffer DEF TeamsInv, MappingsName
    <2>3. Identifiable(pairs)
      BY <1>s, <2>2 DEF Identifiable
    <2> HIDE DEF pairs
    <2> QED
      BY <2>1, <2>3
  <1>3. ASSUME NEW p \in Who!Sources, Who!ObserveNames(p)
        PROVE  \E pairs : Identifiable(pairs) /\ Who!Identify(pairs)
    <2> DEFINE found == {r \in Who!Real : Who!Unmapped(p, r) /\ Who!Named(r) \in pair}
               pairs == {<<p, r>> : r \in found}
    <2>1. pair # None /\ Who!Identify(pairs)
      BY <1>3 DEF Who!ObserveNames
    <2>2. pair \subseteq teams
      BY <2>1 DEF TeamsInv, SeriesIsOfTwo
    <2>3. Identifiable(pairs)
      BY <1>s, <2>2 DEF Identifiable, Who!Unmapped, Who!Placeholder
    <2> HIDE DEF pairs
    <2> QED
      BY <2>1, <2>3
  <1>4. ASSUME Who!Repair
        PROVE  \E pairs : Identifiable(pairs) /\ Who!Identify(pairs)
    <2> DEFINE pairs == {q \in Who!Known(facts) \X Who!Real : q[2] \in Who!Repairable(q[1])}
    <2>1. pair # None /\ Who!Identify(pairs)
      BY <1>4 DEF Who!Repair
    <2>2. pair \subseteq teams
      BY <2>1 DEF TeamsInv, SeriesIsOfTwo
    <2>3. ASSUME NEW p \in Who!Known(facts), NEW r \in Who!Repairable(p)
          PROVE  Who!Named(r) \in teams /\ mapping[p][r] = Who!Placeholder(p, r)
      <3> DEFINE sides == {facts[p].sides[s] : s \in Who!Real} \ {None}
      <3>1. /\ r \in Who!Real /\ sides \ pair = {Who!Placeholder(p, r)} /\ pair \ sides = {Who!Named(r)}
        BY <2>3 DEF Who!Repairable
      <3>2. PICK s \in Who!Real : facts[p].sides[s] = Who!Placeholder(p, r)
        BY <3>1
      <3>3. p \in Who!Sources /\ facts[p] # None /\ Who!Placeholder(p, r) # None
        BY <3>1, TeamsDiffer DEF Who!Known
      <3>4. mapping[p][s] = Who!Placeholder(p, r)
        BY <3>2, <3>3 DEF TeamsInv, FactsFollow
      <3>5. mapping[p][s] = Who!Named(s) \/ mapping[p][s] = Who!Placeholder(p, s)
        BY <1>s, <3>3, <3>4 DEF TeamsInv, MappingsName
      <3>6. r = s
        BY <1>s, <3>1, <3>3, <3>4, <3>5, TeamsDiffer
      <3>7. Who!Named(r) \in pair
        BY <3>1
      <3> QED
        BY <2>2, <3>4, <3>6, <3>7
    <2>4. Identifiable(pairs)
      BY <2>3 DEF Identifiable, Who!Known, Who!Placeholder, Who!Repairable
    <2> HIDE DEF pairs
    <2> QED
      BY <2>1, <2>4
  <1> QED
    BY <1>1, <1>2, <1>3, <1>4 DEF Tells

(* Every step of Teams keeps the invariant.                                 *)
LEMMA TeamsStep == TeamsInv /\ [Who!Next]_(Who!vars) => TeamsInv'
  <1> SUFFICES ASSUME TeamsInv, [Who!Next]_(Who!vars) PROVE TeamsInv'
    OBVIOUS
  <1>1. CASE UNCHANGED Who!vars
    <2>1. UNCHANGED <<teams, mapping, pair, facts, evidence, result>>
      BY <1>1 DEF Who!vars
    <2>2. Who!TypeOK' /\ MappingsName' /\ SeriesIsOfTwo'
      BY <2>1 DEF TeamsInv, Who!TypeOK, MappingsName, SeriesIsOfTwo
    <2>3. FactsFollow' /\ EvidenceFollows' /\ ResultFollows'
      BY <2>1 DEF TeamsInv, FactsFollow, EvidenceFollows, ResultFollows, Who!Known
    <2> QED
      BY <2>2, <2>3 DEF TeamsInv
  <1>2. CASE Tells
    BY <1>2, TellsIdentifiable, IdentifyKeeps
  <1>3. CASE \E r \in Who!Real : Who!Discover(r)
    BY <1>3, DiscoverKeeps
  <1>4. CASE Who!Bootstrap
    BY <1>4, BootstrapKeeps
  <1>5. CASE \E p \in Who!Sources : \E given \in SUBSET Who!Real : Who!Sync(p, given)
    BY <1>5, SyncKeepsTeams
  <1>6. CASE \E p \in Who!Sources : Who!Report(p) \/ Who!SettleStored(p)
    BY <1>6, ReportKeeps, SettleStoredKeeps
  <1> QED
    BY <1>1, <1>2, <1>3, <1>4, <1>5, <1>6 DEF Who!Next, Tells

(* A merge leaves nothing behind.                                           *)
LEMMA StoredWhole == TeamsInv => Who!MergedWhole
  <1> SUFFICES ASSUME TeamsInv, NEW s \in Who!Stored, s[2] # None
               PROVE  s[2] \in teams /\ s[2][2] = s[1]
    BY DEF Who!MergedWhole
  <1>s. Who!Sources \subseteq Who!Providers /\ Radiant \in Who!Real
    BY DEF Who!Sources, Who!Providers, Who!Real
  <1>1. \A p \in Who!Providers, r \in Who!Real : mapping[p][r] # None =>
            mapping[p][r] \in teams /\ mapping[p][r][2] = r
    BY TeamsDiffer DEF TeamsInv, MappingsName
  <1>2. CASE \E p \in Who!Providers, r \in Who!Real : s = <<r, mapping[p][r]>>
    BY <1>1, <1>2
  <1>3. CASE \E p \in Who!Known(facts), r \in Who!Real : s = <<r, facts[p].sides[r]>>
    <2>1. PICK p \in Who!Known(facts), r \in Who!Real : s = <<r, facts[p].sides[r]>>
      BY <1>3
    <2>2. p \in Who!Sources /\ facts[p].sides[r] \in {None, mapping[p][r]}
      BY DEF Who!Known, TeamsInv, FactsFollow
    <2> QED
      BY <1>1, <1>s, <2>1, <2>2
  <1>4. CASE \E p \in Who!Known(facts) : s = <<Radiant, facts[p].winner>>
    <2>1. PICK p \in Who!Known(facts) : s = <<Radiant, facts[p].winner>>
      BY <1>4
    <2>2. p \in Who!Sources /\ facts[p].winner \in {None, mapping[p][Radiant]}
      BY DEF Who!Known, TeamsInv, FactsFollow
    <2> QED
      BY <1>1, <1>s, <2>1, <2>2
  <1>5. \A p \in Who!Known(evidence) : p \in Who!Sources /\ evidence[p].winner = mapping[p][Radiant]
    BY DEF Who!Known, TeamsInv, EvidenceFollows
  <1>6. CASE \E p \in Who!Known(evidence) : s = <<Radiant, evidence[p].winner>>
    BY <1>1, <1>s, <1>5, <1>6
  <1>7. CASE result # None /\ s = <<Radiant, result.winner>>
    <2>1. PICK q \in Who!Known(evidence) : result.winner = evidence[q].winner
      BY <1>7 DEF TeamsInv, ResultFollows
    <2> QED
      BY <1>1, <1>s, <1>5, <1>7, <2>1
  <1>8. CASE pair # None /\ \E t \in pair : s = <<t[2], t>>
    BY <1>8 DEF TeamsInv, SeriesIsOfTwo
  <1>9. \/ \E p \in Who!Providers : s \in {<<r, mapping[p][r]>> : r \in Who!Real}
        \/ \E p \in Who!Known(facts) : s \in {<<r, facts[p].sides[r]>> : r \in Who!Real}
        \/ \E p \in Who!Known(facts) : s = <<Radiant, facts[p].winner>>
        \/ \E p \in Who!Known(evidence) : s = <<Radiant, evidence[p].winner>>
        \/ result # None /\ s = <<Radiant, result.winner>>
        \/ pair # None /\ s \in {<<t[2], t>> : t \in pair}
    BY DEF Who!Stored
  <1> QED
    BY <1>2, <1>3, <1>4, <1>6, <1>7, <1>8, <1>9

-----------------------------------------------------------------------------
(* While the providers name both teams.  A fact is complete, and numbers    *)
(* without a name are of providers that have stored a fact.                 *)
FactsAreFull ==
    \A p \in Who!Sources :
        /\ facts[p] # None =>
              /\ \A r \in Who!Real : facts[p].sides[r] # None
              /\ facts[p].winner # None /\ facts[p].mapped /\ pair # None
        /\ facts[p] = None => \A r \in Who!Real : mapping[p][r] # Who!Placeholder(p, r)

(* The result is that of the evidence.                                      *)
ResultIsOfEvidence ==
    /\ result = None => \A q \in Who!Sources : evidence[q] = None
    /\ result # None =>
          /\ \E q \in Who!Sources : evidence[q] # None
          /\ \A q \in Who!Sources : evidence[q] # None =>
                /\ evidence[q].conflict = result.conflict
                /\ result.winner = IF result.conflict THEN None ELSE evidence[q].winner

(* A conflict is there only as long as some number has no name.             *)
Disputed ==
    \/ \E q \in Who!Sources : facts[q] # None /\ facts[q].conflict
    \/ result # None /\ result.conflict
Numbered == \E q \in Who!Sources, r \in Who!Real : mapping[q][r] = Who!Placeholder(q, r)
ConflictIsOfNumbers ==
    Disputed => (\A q \in Who!Sources : facts[q] # None) /\ Numbered

NamedInv == TeamsInv /\ FactsAreFull /\ ResultIsOfEvidence /\ ConflictIsOfNumbers

(* Init: there are no records and no result.                                *)
LEMMA NamedBegins == Who!Init => NamedInv
  <1> SUFFICES ASSUME Who!Init PROVE NamedInv
    OBVIOUS
  <1>1. /\ \A p \in Who!Sources : facts[p] = None /\ evidence[p] = None
        /\ \A p \in Who!Sources, r \in Who!Real : mapping[p][r] = None /\ Who!Placeholder(p, r) # None
        /\ result = None
    BY TeamsDiffer DEF Who!Init, Who!Providers
  <1>2. FactsAreFull
    BY <1>1 DEF FactsAreFull
  <1>3. ResultIsOfEvidence /\ ConflictIsOfNumbers
    BY <1>1 DEF ResultIsOfEvidence, ConflictIsOfNumbers, Disputed
  <1> QED
    BY <1>2, <1>3, TeamsBegin DEF NamedInv

(* The providers agree as soon as no number without a name is left.         *)
LEMMA ConflictsAreReal == NamedInv => Who!ConflictIsReal
  <1> SUFFICES ASSUME NamedInv, Who!AllNamed, pair # None
               PROVE  /\ \A p \in Who!Known(facts) : ~facts[p].conflict
                      /\ result # None => ~result.conflict /\ result.winner = Who!Named(Radiant)
    BY DEF Who!ConflictIsReal
  <1>1. \A p \in Who!Providers, r \in Who!Real : mapping[p][r] = None \/ mapping[p][r] \in Who!NamedPair
    <2> SUFFICES ASSUME NEW p \in Who!Providers, NEW r \in Who!Real
                 PROVE  mapping[p][r] = None \/ mapping[p][r] \in Who!NamedPair
      OBVIOUS
    <2> DEFINE filed(q) == {<<x, mapping[q][x]>> : x \in Who!Real}
    <2>2. <<r, mapping[p][r]>> \in filed(p) /\ filed(p) \in {filed(q) : q \in Who!Providers}
      OBVIOUS
    <2>3. UNION {filed(q) : q \in Who!Providers} \subseteq Who!Stored
      BY DEF Who!Stored
    <2>1. <<r, mapping[p][r]>> \in Who!Stored
      BY <2>2, <2>3
    <2> QED
      BY <2>1 DEF Who!AllNamed
  <1>2. ~Numbered
    <2> SUFFICES ASSUME NEW q \in Who!Sources, NEW r \in Who!Real, mapping[q][r] = Who!Placeholder(q, r)
                 PROVE  FALSE
      BY DEF Numbered
    <2>1. q \in Who!Providers
      BY DEF Who!Providers
    <2>2. PICK s \in Who!Real : Who!Placeholder(q, r) = Who!Named(s)
      BY <1>1, <2>1, TeamsDiffer DEF Who!NamedPair
    <2> QED
      BY <2>1, <2>2, TeamsDiffer
  <1>3. ~Disputed
    BY <1>2 DEF NamedInv, ConflictIsOfNumbers
  <1>4. ASSUME result # None PROVE result.winner = Who!Named(Radiant)
    <2>1. PICK q \in Who!Sources : evidence[q] # None /\ result.winner = evidence[q].winner
      BY <1>3, <1>4 DEF NamedInv, ResultIsOfEvidence, Disputed
    <2>2. evidence[q].winner = mapping[q][Radiant] /\ mapping[q][Radiant] # None
      BY <2>1 DEF NamedInv, TeamsInv, EvidenceFollows
    <2>3. q \in Who!Providers /\ Radiant \in Who!Real
      BY DEF Who!Providers, Who!Real
    <2>4. mapping[q][Radiant] # Who!Placeholder(q, Radiant)
      BY <1>2, <2>3 DEF Numbered
    <2> QED
      BY <2>1, <2>2, <2>3, <2>4 DEF NamedInv, TeamsInv, MappingsName
  <1> QED
    BY <1>3, <1>4 DEF Disputed, Who!Known

(* Steps that touch neither facts, evidence nor the result, and no number.  *)
LEMMA AsideKeepsNamed ==
    ASSUME NamedInv, UNCHANGED <<facts, evidence, result>>, pair # None => pair' # None,
           \A p \in Who!Sources : mapping'[p] = mapping[p], TeamsInv'
    PROVE  NamedInv'
  <1>1. FactsAreFull'
    BY DEF NamedInv, FactsAreFull
  <1>2. ResultIsOfEvidence'
    BY DEF NamedInv, ResultIsOfEvidence
  <1>3. ConflictIsOfNumbers'
    BY DEF NamedInv, ConflictIsOfNumbers, Disputed, Numbered
  <1> QED
    BY <1>1, <1>2, <1>3 DEF NamedInv

(* What a bundle that names both teams stores                               *)
LEMMA StoreKeepsNamed ==
    ASSUME NamedInv, NEW p \in Who!Sources, NEW given \in SUBSET Who!Real, Stores(p, given), BothNamed
    PROVE  /\ FactsAreFull'
           /\ Numbered => Numbered'
           /\ (\E q \in Who!Sources : facts'[q] # None /\ facts'[q].conflict) =>
                 (\A q \in Who!Sources : facts'[q] # None) /\ Numbered'
           /\ \A q \in Who!Sources : facts[q] # None => facts'[q] # None
           /\ \A q, o \in Who!Sources : facts'[q] # None /\ facts'[o] # None /\ facts'[q].winner # facts'[o].winner =>
                 (\A x \in Who!Sources : facts'[x] # None) /\ Numbered'
  <1>i. TeamsInv /\ Who!TypeOK
    BY DEF NamedInv, TeamsInv
  <1>1. /\ mapping' = Who!MappingWith(p, given) /\ facts' = Who!FactsWith(p, given)
        /\ pair' = Who!SeriesWith(p, given)
    BY DEF Stores
  <1>2. /\ MappingsName' /\ FactsFollow' /\ facts' \in [Who!Sources -> Who!Fact \cup {None}]
    BY <1>i, StoreKeeps
  <1>3. \A q \in Who!Providers, r \in Who!Real :
                 mapping'[q][r] = IF q = p /\ r \in given /\ mapping[p][r] = None
                                  THEN Who!Placeholder(p, r) ELSE mapping[q][r]
    BY <1>1, <1>i, MappingGrows
  <1>4. /\ facts'[p] # None
        /\ \A r \in Who!Real :
                 facts'[p].sides[r] =
                     IF facts[p] # None /\ facts[p].sides[r] # None THEN facts[p].sides[r]
                     ELSE IF r \in given THEN mapping'[p][r] ELSE None
        /\ facts'[p].winner =
                  IF facts[p] # None /\ facts[p].winner # None THEN facts[p].winner
                  ELSE IF Radiant \in given THEN mapping'[p][Radiant] ELSE None
        /\ facts'[p].mapped = ((facts[p] # None /\ facts[p].mapped) \/ Who!SeriesWith(p, given) # None)
        /\ \A q \in Who!Sources \ {p} :
                 /\ facts[q] = None => facts'[q] = None
                 /\ facts[q] # None =>
                       /\ facts'[q] # None /\ facts'[q].sides = facts[q].sides
                       /\ facts'[q].winner = facts[q].winner /\ facts'[q].mapped = facts[q].mapped
        /\ \A q \in Who!Sources : facts'[q] # None /\ facts'[q].conflict =>
                 \/ facts[q] # None /\ facts[q].conflict
                 \/ /\ facts[p] # None /\ facts[p].winner # None
                    /\ mapping'[p][Radiant] # None /\ facts[p].winner # mapping'[p][Radiant]
                 \/ \E o \in Who!Sources \ {p} : /\ facts'[o] # None /\ facts'[p].winner # None
                                                 /\ facts'[o].winner # None /\ facts'[o].winner # facts'[p].winner
    BY <1>1, <1>i, StoringFacts
  <1>5. /\ Who!Sources \subseteq Who!Providers /\ p \in Who!Providers /\ Radiant \in Who!Real
        /\ \A q \in Who!Sources, r \in Who!Real : Who!Placeholder(q, r) # None
    BY TeamsDiffer DEF Who!Sources, Who!Providers, Who!Real
  <1>6. \A q \in Who!Sources :
           /\ facts[q] # None =>
              /\ \A r \in Who!Real : facts[q].sides[r] # None
              /\ facts[q].winner # None /\ facts[q].mapped /\ pair # None
           /\ facts[q] = None => \A r \in Who!Real : mapping[q][r] # Who!Placeholder(q, r)
    BY DEF NamedInv, FactsAreFull
  <1>7. facts[p] = None => given = Who!Real
    <2> SUFFICES ASSUME facts[p] = None PROVE \A r \in Who!Real : r \in given
      OBVIOUS
    <2>1. \A r \in Who!Real : facts'[p].sides[r] # None
      BY <1>4 DEF BothNamed
    <2> QED
      BY <1>4, <2>1
  <1>8. \A q \in Who!Sources, r \in Who!Real : mapping[q][r] # None => mapping'[q][r] = mapping[q][r]
    BY <1>3, <1>5
  <1>9. \A r \in Who!Real : r \in given => mapping'[p][r] # None
    BY <1>3, <1>5
  <1>10. pair # None => pair' # None
    BY <1>1 DEF Who!SeriesWith
  <1>11. facts[p] = None => pair' # None
    <2> SUFFICES ASSUME facts[p] = None, pair = None PROVE pair' # None
      BY <1>10
    <2>1. pair' = {Who!MappingWith(p, given)[p][r] : r \in Who!Real}
      BY <1>1, <1>7 DEF Who!SeriesWith
    <2>2. pair' = {mapping'[p][r] : r \in Who!Real}
      BY <1>1, <2>1
    <2>3. \A r \in Who!Real : mapping'[p][r] \in Who!Team
      BY <1>5, <1>7, <1>9, <1>2, TeamsDiffer DEF MappingsName
    <2>4. pair' \in SUBSET Who!Team
      BY <2>2, <2>3
    <2> QED
      BY <2>4, TA DEF Who!TeamsAssumption
  <1>12. FactsAreFull'
    <2> SUFFICES ASSUME NEW q \in Who!Sources
                 PROVE  /\ facts'[q] # None =>
                           /\ \A r \in Who!Real : facts'[q].sides[r] # None
                           /\ facts'[q].winner # None /\ facts'[q].mapped /\ pair' # None
                        /\ facts'[q] = None => \A r \in Who!Real : mapping'[q][r] # Who!Placeholder(q, r)
      BY DEF FactsAreFull
    <2>1. CASE q = p /\ facts[p] = None
      <3>1. \A r \in Who!Real : facts'[p].sides[r] # None
        BY <1>4, <1>7, <1>9, <2>1
      <3>2. facts'[p].winner # None
        BY <1>4, <1>5, <1>7, <1>9, <2>1
      <3>3. facts'[p].mapped = TRUE /\ pair' # None
        BY <1>1, <1>4, <1>11, <2>1
      <3> QED
        BY <1>4, <2>1, <3>1, <3>2, <3>3
    <2>2. CASE q = p /\ facts[p] # None
      <3>1. \A r \in Who!Real : facts'[p].sides[r] # None
        BY <1>4, <1>6, <2>2
      <3>2. facts'[p].winner # None /\ facts'[p].mapped /\ pair' # None
        BY <1>4, <1>6, <1>10, <2>2
      <3> QED
        BY <1>4, <2>2, <3>1, <3>2
    <2>3. CASE q # p
      <3>1. \A r \in Who!Real : mapping'[q][r] = mapping[q][r]
        BY <1>3, <1>5, <2>3
      <3>2. CASE facts[q] = None
        BY <1>4, <1>6, <2>3, <3>1, <3>2
      <3>3. CASE facts[q] # None
        BY <1>4, <1>6, <1>10, <2>3, <3>3
      <3> QED
        BY <3>2, <3>3
    <2> QED
      BY <2>1, <2>2, <2>3
  <1>13. Numbered => Numbered'
    BY <1>5, <1>8 DEF Numbered
  <1>14. \A q \in Who!Sources : facts[q] # None => facts'[q] # None
    BY <1>4
  <1>15. ASSUME NEW q \in Who!Sources, NEW o \in Who!Sources, facts'[q] # None, facts'[o] # None,
                facts'[q].winner # facts'[o].winner
         PROVE  (\A x \in Who!Sources : facts'[x] # None) /\ Numbered'
    <2>1. /\ facts'[q].winner = mapping'[q][Radiant] /\ facts'[o].winner = mapping'[o][Radiant]
          /\ facts'[q].winner # None /\ facts'[o].winner # None
      BY <1>2, <1>12, <1>15 DEF FactsFollow, FactsAreFull
    <2>2. \/ mapping'[q][Radiant] = Who!Placeholder(q, Radiant)
          \/ mapping'[o][Radiant] = Who!Placeholder(o, Radiant)
      BY <1>2, <1>5, <1>15, <2>1 DEF MappingsName
    <2>3. Numbered'
      BY <1>5, <2>2 DEF Numbered
    <2>4. q # o
      BY <1>15
    <2>5. \A x \in Who!Sources : x = q \/ x = o
      BY <2>4 DEF Who!Sources
    <2> QED
      BY <1>15, <2>3, <2>5
  <1>16. ASSUME NEW q \in Who!Sources, facts'[q] # None, facts'[q].conflict
         PROVE  (\A x \in Who!Sources : facts'[x] # None) /\ Numbered'
    <2>1. CASE facts[q] # None /\ facts[q].conflict
      <3>1. (\A x \in Who!Sources : facts[x] # None) /\ Numbered
        BY <2>1 DEF NamedInv, ConflictIsOfNumbers, Disputed
      <3> QED
        BY <1>13, <1>14, <3>1
    <2>2. CASE /\ facts[p] # None /\ facts[p].winner # None
               /\ mapping'[p][Radiant] # None /\ facts[p].winner # mapping'[p][Radiant]
      <3>1. facts'[p].winner = facts[p].winner
        BY <1>4, <2>2
      <3>2. facts'[p].winner \in {None, mapping'[p][Radiant]}
        BY <1>2, <1>4 DEF FactsFollow
      <3> QED
        BY <2>2, <3>1, <3>2
    <2>3. CASE \E o \in Who!Sources \ {p} : /\ facts'[o] # None /\ facts'[p].winner # None
                                            /\ facts'[o].winner # None /\ facts'[o].winner # facts'[p].winner
      BY <1>4, <1>15, <2>3
    <2> QED
      BY <1>4, <1>16, <2>1, <2>2, <2>3
  <1> QED
    BY <1>12, <1>13, <1>14, <1>15, <1>16

(* A bundle that is stored without a result.                                *)
LEMMA SyncKeepsNamed ==
    ASSUME NamedInv, NEW p \in Who!Sources, NEW given \in SUBSET Who!Real, Who!Sync(p, given), BothNamed, TeamsInv'
    PROVE  NamedInv'
  <1>1. Stores(p, given) /\ UNCHANGED <<evidence, result>>
    BY DEF Who!Sync, Stores
  <1>2. /\ FactsAreFull'
        /\ Numbered => Numbered'
        /\ (\E q \in Who!Sources : facts'[q] # None /\ facts'[q].conflict) =>
                 (\A q \in Who!Sources : facts'[q] # None) /\ Numbered'
        /\ \A q \in Who!Sources : facts[q] # None => facts'[q] # None
    BY <1>1, StoreKeepsNamed
  <1>3. ResultIsOfEvidence'
    BY <1>1 DEF NamedInv, ResultIsOfEvidence
  <1>4. ConflictIsOfNumbers'
    BY <1>1, <1>2 DEF NamedInv, ConflictIsOfNumbers, Disputed
  <1> QED
    BY <1>2, <1>3, <1>4 DEF NamedInv

(* What Settle makes of evidence and result, of complete facts              *)
LEMMA SettleKeepsNamed ==
    ASSUME NamedInv, EvidenceStill, NEW p \in Who!Sources, TeamsInv', Who!Settle(p, facts'),
           facts'[p] # None, facts'[p].winner # None, FactsAreFull',
           Numbered => Numbered',
           (\E q \in Who!Sources : facts'[q] # None /\ facts'[q].conflict) =>
                 (\A q \in Who!Sources : facts'[q] # None) /\ Numbered',
           \A q \in Who!Sources : facts[q] # None => facts'[q] # None,
           \A q, o \in Who!Sources : facts'[q] # None /\ facts'[o] # None /\ facts'[q].winner # facts'[o].winner =>
                 (\A x \in Who!Sources : facts'[x] # None) /\ Numbered'
    PROVE  NamedInv'
  <1>1. evidence \in [Who!Sources -> Who!Verdict \cup {None}] /\ FactsFollow'
        /\ facts'[p] \in Who!Fact
    BY DEF NamedInv, TeamsInv, Who!TypeOK
  <1>2. /\ result' \in Who!Verdict
        /\ Who!Known(evidence') = Who!Known(evidence) \cup {p}
        /\ \A q \in Who!Known(evidence') :
                 /\ evidence'[q].conflict = result'.conflict
                 /\ result'.winner = IF result'.conflict THEN None ELSE evidence'[q].winner
        /\ result'.conflict =>
                 \/ facts'[p].conflict
                 \/ \E q \in Who!Known(evidence) : evidence[q].conflict
                 \/ \E q \in Who!Known(evidence) : evidence[q].winner # facts'[p].winner
    BY <1>1, SettleKeeps
  <1>3. result' # None
    BY <1>2, TA DEF Who!TeamsAssumption
  <1>4. ResultIsOfEvidence'
    BY <1>2, <1>3 DEF ResultIsOfEvidence, Who!Known
  <1>5. ASSUME NEW q \in Who!Known(evidence)
        PROVE  /\ q \in Who!Sources /\ facts'[q] # None /\ evidence[q].winner = facts'[q].winner
    BY <1>1, <1>5 DEF EvidenceStill, FactsFollow, Who!Known
  <1>6. ASSUME Disputed, ~(\E q \in Who!Sources : facts'[q] # None /\ facts'[q].conflict)
        PROVE  (\A q \in Who!Sources : facts'[q] # None) /\ Numbered'
    BY <1>6 DEF NamedInv, ConflictIsOfNumbers
  <1>7. ASSUME result'.conflict PROVE (\A q \in Who!Sources : facts'[q] # None) /\ Numbered'
    <2>1. CASE facts'[p].conflict
      BY <2>1
    <2>2. CASE \E q \in Who!Known(evidence) : evidence[q].conflict
      <3>1. Disputed
        BY <2>2 DEF NamedInv, ResultIsOfEvidence, Disputed, Who!Known
      <3> QED
        BY <1>6, <3>1
    <2>3. CASE \E q \in Who!Known(evidence) : evidence[q].winner # facts'[p].winner
      BY <1>5, <2>3
    <2> QED
      BY <1>2, <1>7, <2>1, <2>2, <2>3
  <1>8. ConflictIsOfNumbers'
    BY <1>7 DEF ConflictIsOfNumbers, Disputed
  <1> QED
    BY <1>4, <1>8 DEF NamedInv

(* A finished map that is stored and settled.                               *)
LEMMA ReportKeepsNamed ==
    ASSUME NamedInv, NEW p \in Who!Sources, Who!Report(p), BothNamed, TeamsInv'
    PROVE  NamedInv'
  <1>1. /\ TeamsInv /\ Stores(p, Who!Real) /\ Who!Settle(p, facts')
        /\ facts'[p] \in Who!Fact /\ facts'[p] # None /\ facts'[p].winner # None
    BY ReportStores DEF NamedInv
  <1>2. EvidenceStill
    BY <1>1, StoreKeeps
  <1>3. /\ FactsAreFull'
        /\ Numbered => Numbered'
        /\ (\E q \in Who!Sources : facts'[q] # None /\ facts'[q].conflict) =>
                 (\A q \in Who!Sources : facts'[q] # None) /\ Numbered'
        /\ \A q \in Who!Sources : facts[q] # None => facts'[q] # None
        /\ \A q, o \in Who!Sources : facts'[q] # None /\ facts'[o] # None /\ facts'[q].winner # facts'[o].winner =>
                 (\A x \in Who!Sources : facts'[x] # None) /\ Numbered'
    BY <1>1, StoreKeepsNamed
  <1> QED
    BY <1>1, <1>2, <1>3, SettleKeepsNamed

(* A map that is settled by its stored record.                              *)
LEMMA SettleStoredKeepsNamed ==
    ASSUME NamedInv, NEW p \in Who!Sources, Who!SettleStored(p), TeamsInv'
    PROVE  NamedInv'
  <1>1. /\ Who!Settle(p, facts') /\ EvidenceStill
        /\ facts'[p] # None /\ facts'[p].winner # None
        /\ UNCHANGED <<teams, mapping, pair, facts>>
    BY StoredSettles DEF NamedInv
  <1>2. FactsAreFull' /\ (Numbered => Numbered')
    BY <1>1 DEF NamedInv, FactsAreFull, Numbered
  <1>3. (\E q \in Who!Sources : facts'[q] # None /\ facts'[q].conflict) =>
                 (\A q \in Who!Sources : facts'[q] # None) /\ Numbered'
    BY <1>1, <1>2 DEF NamedInv, ConflictIsOfNumbers, Disputed
  <1>4. \A q \in Who!Sources : facts[q] # None => facts'[q] # None
    BY <1>1
  <1>5. ASSUME NEW q \in Who!Sources, NEW o \in Who!Sources, facts'[q] # None, facts'[o] # None,
               facts'[q].winner # facts'[o].winner
        PROVE  (\A x \in Who!Sources : facts'[x] # None) /\ Numbered'
    <2>1. /\ facts'[q].winner = mapping'[q][Radiant] /\ facts'[o].winner = mapping'[o][Radiant]
          /\ facts'[q].winner # None /\ facts'[o].winner # None
      BY <1>2, <1>5 DEF TeamsInv, FactsFollow, FactsAreFull
    <2>2. q \in Who!Providers /\ o \in Who!Providers /\ Radiant \in Who!Real
      BY DEF Who!Providers, Who!Real
    <2>3. \/ mapping'[q][Radiant] = Who!Placeholder(q, Radiant)
          \/ mapping'[o][Radiant] = Who!Placeholder(o, Radiant)
      BY <1>5, <2>1, <2>2 DEF TeamsInv, MappingsName
    <2>4. Numbered'
      BY <2>2, <2>3 DEF Numbered
    <2>5. \A x \in Who!Sources : x = q \/ x = o
      BY <1>5 DEF Who!Sources
    <2> QED
      BY <1>5, <2>4, <2>5
  <1> QED
    BY <1>1, <1>2, <1>3, <1>4, <1>5, SettleKeepsNamed

(* When the last number gets its name, the facts agree and the conflicts    *)
(* are lifted.                                                              *)
LEMMA AgreeAtLast ==
    ASSUME NamedInv, NEW pairs, Identifiable(pairs), Who!Identify(pairs), TeamsInv',
           \A q \in Who!Sources : facts[q] # None, Numbered, ~Numbered'
    PROVE  /\ RestoredBy(pairs)
           /\ result # None => AgreedBy(pairs)
  <1> DEFINE merged == MergedBy(pairs)
             facts1 == MovedFacts(pairs)
             evidence1 == MovedEvidence(pairs)
             series1 == MovedSeries(pairs)
  <1>i. TeamsInv /\ pair' = MovedSeries(pairs)
    BY DEF NamedInv, Who!Identify, MovedSeries, MergedBy
  <1>s. Who!Sources \subseteq Who!Providers /\ Radiant \in Who!Real /\ Dire \in Who!Real /\ "stratz" \in Who!Sources
    BY DEF Who!Sources, Who!Providers, Who!Real
  <1>1. \A p \in Who!Sources :
            /\ \A r \in Who!Real : facts1[p].sides[r] = Who!MovedTeam(facts[p].sides[r], merged)
            /\ facts1[p].winner = Who!MovedTeam(facts[p].winner, merged)
            /\ facts1[p].mapped = facts[p].mapped /\ facts1[p] \in Who!Fact
    BY <1>i, FactsMove
  <1>2. \A p \in Who!Providers, r \in Who!Real : mapping[p][r] # None =>
            Who!MovedTeam(mapping[p][r], merged) = mapping'[p][r] /\ mapping'[p][r] # None
    BY <1>i, TeamsMove
  <1> HIDE DEF merged, facts1, evidence1, series1
  <1>3. \A p \in Who!Sources : /\ \A r \in Who!Real : /\ facts[p].sides[r] = mapping[p][r]
                                                 /\ mapping[p][r] # None
                               /\ facts[p].winner = mapping[p][Radiant] /\ facts[p].mapped
    BY DEF NamedInv, FactsAreFull, TeamsInv, FactsFollow
  <1>4. \A p \in Who!Sources, r \in Who!Real : mapping'[p][r] = Who!Named(r) /\ Who!Named(r) # None
    <2> SUFFICES ASSUME NEW p \in Who!Sources, NEW r \in Who!Real PROVE mapping'[p][r] = Who!Named(r) /\ Who!Named(r) # None
      OBVIOUS
    <2>1. mapping'[p][r] # None
      BY <1>2, <1>3, <1>s
    <2>2. mapping'[p][r] # Who!Placeholder(p, r)
      BY DEF Numbered
    <2> QED
      BY <1>s, <2>1, <2>2, TeamsDiffer DEF TeamsInv, MappingsName
  <1>5. \A p \in Who!Sources : /\ \A r \in Who!Real : facts1[p].sides[r] = Who!Named(r)
                               /\ facts1[p].winner = Who!Named(Radiant) /\ facts1[p].mapped
    BY <1>1, <1>2, <1>3, <1>4, <1>s
  <1>6. facts1 # facts
    <2>1. PICK p \in Who!Sources, r \in Who!Real : mapping[p][r] = Who!Placeholder(p, r)
      BY DEF Numbered
    <2>2. facts[p].sides[r] = Who!Placeholder(p, r) /\ facts1[p].sides[r] = Who!Named(r)
      BY <1>3, <1>5, <2>1
    <2>3. Who!Placeholder(p, r) # Who!Named(r)
      BY <1>s, TeamsDiffer
    <2> QED
      BY <2>2, <2>3
  <1>7. pair # None /\ pair' # None
    <2>1. pair # None
      BY <1>s DEF NamedInv, FactsAreFull
    <2> QED
      BY <1>i, <2>1, SeriesMoves
  <1>8. series1 = {Who!Named(r) : r \in Who!Real}
    <2>1. /\ pair' \subseteq Who!Team /\ \A r \in Who!Real : \E t \in pair' : t[2] = r
          /\ \A p \in Who!Sources, r \in Who!Real : Who!Placeholder(p, r) \notin pair'
      <3>1. ASSUME NEW p \in Who!Sources, NEW r \in Who!Real, Who!Placeholder(p, r) \in pair' PROVE FALSE
        <4>1. mapping'[p][r] = Who!Placeholder(p, r)
          BY <1>7, <3>1 DEF TeamsInv, SeriesIsOfTwo
        <4> QED
          BY <4>1 DEF Numbered
      <3> QED
        BY <1>7, <3>1 DEF TeamsInv, Who!TypeOK, SeriesIsOfTwo
    <2>2. \A t \in pair' : \E r \in Who!Real : t = Who!Named(r)
      BY <2>1 DEF Who!Team, Who!NamedPair, Who!Placeholder
    <2>3. \A r \in Who!Real : Who!Named(r) \in pair'
      BY <2>1, <2>2, TeamsDiffer
    <2> QED
      BY <1>i, <2>2, <2>3 DEF series1
  <1>9. \A p \in Who!Sources : {facts1[p].sides[r] : r \in Who!Real} = series1 /\ facts1[p].winner \in series1
    <2> TAKE p \in Who!Sources
    <2>1. {facts1[p].sides[r] : r \in Who!Real} = {Who!Named(r) : r \in Who!Real}
      BY <1>5
    <2> QED
      BY <1>5, <1>8, <1>s, <2>1
  <1>10. Who!Converged(facts1, series1)
    <2>1. Who!Known(facts1) = Who!Sources
      BY <1>1, TA DEF Who!Known, Who!TeamsAssumption
    <2>2. \A p \in Who!Sources :
             facts1[p].mapped /\ None \notin {facts1[p].winner, facts1[p].sides[Radiant], facts1[p].sides[Dire]}
      BY <1>4, <1>5, <1>s
    <2>3. \A p \in Who!Sources : facts1[p].winner = facts1["stratz"].winner
      BY <1>5, <1>s
    <2> QED
      BY <1>9, <2>1, <2>2, <2>3 DEF Who!Converged
  <1>11. RestoredBy(pairs)
    BY <1>6, <1>7, <1>10 DEF RestoredBy, facts1, series1
  <1>12. ASSUME result # None PROVE AgreedBy(pairs)
    <2>1. \A q \in Who!Sources : IF evidence[q] = None THEN evidence1[q] = None
                             ELSE /\ evidence1[q] \in Who!Verdict
                                  /\ evidence1[q].winner = Who!MovedTeam(evidence[q].winner, merged)
      BY <1>i, EvidenceMoves DEF evidence1, merged
    <2>2. None \notin Who!Verdict
      BY TA DEF Who!TeamsAssumption
    <2>3. \E q \in Who!Sources : evidence[q] # None
      BY <1>12 DEF NamedInv, ResultIsOfEvidence
    <2>4. Who!Known(evidence1) # {}
      BY <2>1, <2>2, <2>3 DEF Who!Known
    <2>5. ASSUME NEW q \in Who!Known(evidence1) PROVE evidence1[q].winner = facts1["stratz"].winner
      <3>1. q \in Who!Sources /\ evidence[q] # None
        BY <2>1 DEF Who!Known
      <3>2. evidence[q].winner = mapping[q][Radiant]
        BY <1>i, <3>1 DEF TeamsInv, EvidenceFollows
      <3>3. evidence1[q].winner = Who!Named(Radiant)
        BY <1>2, <1>3, <1>4, <1>s, <2>1, <3>1, <3>2
      <3> QED
        BY <1>5, <1>s, <3>3
    <2> QED
      BY <1>11, <2>4, <2>5 DEF AgreedBy, evidence1, facts1
  <1> QED
    BY <1>11, <1>12

(* Teams that are told apart: a conflict goes when nothing but placeholders *)
(* made it.                                                                 *)
LEMMA IdentifyKeepsNamed ==
    ASSUME NamedInv, NEW pairs, Identifiable(pairs), Who!Identify(pairs), TeamsInv'
    PROVE  NamedInv'
  <1> DEFINE merged == MergedBy(pairs)
             restored == RestoredBy(pairs)
             agreed == AgreedBy(pairs)
             winner == MovedFacts(pairs)["stratz"].winner
  <1>i. TeamsInv
    BY DEF NamedInv
  <1>s. Who!Sources \subseteq Who!Providers /\ Radiant \in Who!Real /\ Dire \in Who!Real /\ "stratz" \in Who!Sources
    BY DEF Who!Sources, Who!Providers, Who!Real
  <1>3. \A t \in Who!Team \cup {None} : /\ t # None => Who!MovedTeam(t, merged) # None
                                        /\ t = None => Who!MovedTeam(t, merged) = None
    BY <1>i, TeamsMove
  <1>4. \A p \in Who!Providers, r \in Who!Real : /\ mapping'[p][r] \in Who!Team \cup {None}
                                                 /\ <<p, r>> \in pairs => mapping'[p][r] = Who!Named(r)
                                                 /\ <<p, r>> \notin pairs => mapping'[p][r] = mapping[p][r]
    BY <1>i, TeamsMove
  <1>10. \A p \in Who!Sources :
           IF facts[p] = None THEN facts'[p] = None
           ELSE /\ facts'[p] \in Who!Fact
                /\ \A r \in Who!Real : facts'[p].sides[r] = Who!MovedTeam(facts[p].sides[r], merged)
                /\ facts'[p].winner = Who!MovedTeam(facts[p].winner, merged)
                /\ facts'[p].mapped = facts[p].mapped
                /\ facts'[p].conflict = (facts[p].conflict /\ ~restored)
    BY <1>i, FactsMove
  <1>12. \A p \in Who!Sources : facts'[p] # None <=> facts[p] # None
    BY <1>i, FactsMove
  <1>11. \A p \in Who!Sources :
           IF evidence[p] = None THEN evidence'[p] = None
           ELSE /\ evidence'[p] \in Who!Verdict /\ evidence'[p].winner = Who!MovedTeam(evidence[p].winner, merged)
                /\ evidence'[p].conflict = (evidence[p].conflict /\ ~agreed)
    BY <1>i, EvidenceMoves
  <1>13. \A p \in Who!Sources : evidence'[p] # None <=> evidence[p] # None
    BY <1>i, EvidenceMoves
  <1>15. pair = None <=> pair' = None
    BY <1>i, SeriesMoves
  <1>16. result # None => /\ result' \in Who!Verdict
                          /\ ~agreed => /\ result'.winner = Who!MovedTeam(result.winner, merged)
                                        /\ result'.conflict = result.conflict
                          /\ agreed => result'.winner = winner /\ result'.conflict = FALSE
    BY <1>i, ResultMoves
  <1>17. result = None => result' = None
    BY <1>i, ResultMoves
  <1>a. ASSUME agreed, NEW q \in Who!Sources, evidence[q] # None
        PROVE  evidence'[q].winner = winner
    <2>1. /\ MovedEvidence(pairs)[q] \in Who!Verdict
          /\ MovedEvidence(pairs)[q].winner = Who!MovedTeam(evidence[q].winner, merged)
      BY <1>i, <1>a, EvidenceMoves
    <2>2. q \in Who!Known(MovedEvidence(pairs))
      BY <2>1, TA DEF Who!Known, Who!TeamsAssumption
    <2> QED
      BY <1>11, <1>a, <2>1, <2>2 DEF AgreedBy
  <1>b. agreed => restored
    BY DEF AgreedBy
  <1> HIDE DEF merged, restored, agreed, winner
  <1>18. FactsAreFull'
    <2> SUFFICES ASSUME NEW p \in Who!Sources
                 PROVE  /\ facts'[p] # None =>
                           /\ \A r \in Who!Real : facts'[p].sides[r] # None
                           /\ facts'[p].winner # None /\ facts'[p].mapped /\ pair' # None
                        /\ facts'[p] = None => \A r \in Who!Real : mapping'[p][r] # Who!Placeholder(p, r)
      BY DEF FactsAreFull
    <2>1. CASE facts[p] # None
      <3>1. /\ \A r \in Who!Real : facts[p].sides[r] # None
            /\ facts[p].winner # None /\ facts[p].mapped /\ pair # None
        BY <2>1 DEF NamedInv, FactsAreFull
      <3>2. (\A r \in Who!Real : facts[p].sides[r] \in Who!Team) /\ facts[p].winner \in Who!Team
        BY <2>1, <3>1 DEF NamedInv, TeamsInv, Who!TypeOK, Who!Fact
      <3> QED
        BY <1>3, <1>10, <1>12, <1>15, <2>1, <3>1, <3>2
    <2>2. CASE facts[p] = None
      <3>1. \A r \in Who!Real : mapping[p][r] # Who!Placeholder(p, r)
        BY <2>2 DEF NamedInv, FactsAreFull
      <3>2. \A r \in Who!Real : Who!Named(r) # Who!Placeholder(p, r)
        BY <1>s, TeamsDiffer
      <3> QED
        BY <1>4, <1>12, <1>s, <2>2, <3>1, <3>2
    <2> QED
      BY <2>1, <2>2
  <1>19. ResultIsOfEvidence'
    <2>1. CASE result = None
      BY <1>13, <1>17, <2>1 DEF NamedInv, ResultIsOfEvidence
    <2>2. CASE result # None
      <3>1. /\ result' # None /\ result' \in Who!Verdict
        BY <1>16, <2>2, TA DEF Who!TeamsAssumption
      <3>2. \E q \in Who!Sources : evidence'[q] # None
        BY <1>13, <2>2 DEF NamedInv, ResultIsOfEvidence
      <3>3. ASSUME NEW q \in Who!Sources, evidence'[q] # None
            PROVE  /\ evidence'[q].conflict = result'.conflict
                   /\ result'.winner = IF result'.conflict THEN None ELSE evidence'[q].winner
        <4>1. /\ evidence[q] # None /\ evidence[q].conflict = result.conflict
              /\ result.winner = IF result.conflict THEN None ELSE evidence[q].winner
          BY <1>13, <2>2, <3>3 DEF NamedInv, ResultIsOfEvidence
        <4>2. CASE agreed
          <5>1. evidence'[q].conflict = FALSE
            BY <1>11, <4>1, <4>2
          <5> QED
            BY <1>16, <1>a, <2>2, <4>1, <4>2, <5>1
        <4>3. CASE ~agreed
          <5>1. evidence[q] \in Who!Verdict
            BY <1>i, <4>1 DEF TeamsInv, Who!TypeOK
          <5>2. evidence'[q].conflict = evidence[q].conflict
            BY <1>11, <4>1, <4>3, <5>1 DEF Who!Verdict
          <5>3. /\ evidence'[q].winner = Who!MovedTeam(evidence[q].winner, merged)
                /\ result'.winner = Who!MovedTeam(result.winner, merged)
                /\ result'.conflict = result.conflict
            BY <1>11, <1>16, <2>2, <4>1, <4>3
          <5>4. Who!MovedTeam(None, merged) = None
            BY <1>3
          <5> QED
            BY <4>1, <5>2, <5>3, <5>4
        <4> QED
          BY <4>2, <4>3
      <3> QED
        BY <3>1, <3>2, <3>3 DEF ResultIsOfEvidence
    <2> QED
      BY <2>1, <2>2
  <1>20. ConflictIsOfNumbers'
    <2> SUFFICES ASSUME Disputed'
                 PROVE  (\A q \in Who!Sources : facts'[q] # None) /\ Numbered'
      BY DEF ConflictIsOfNumbers
    <2>1. Disputed
      <3>1. CASE \E q \in Who!Sources : facts'[q] # None /\ facts'[q].conflict
        BY <1>10, <1>12, <3>1 DEF Disputed
      <3>2. CASE result' # None /\ result'.conflict
        BY <1>16, <1>17, <3>2 DEF Disputed
      <3> QED
        BY <3>1, <3>2 DEF Disputed
    <2>2. (\A q \in Who!Sources : facts[q] # None) /\ Numbered
      BY <2>1 DEF NamedInv, ConflictIsOfNumbers
    <2>3. \A q \in Who!Sources : facts'[q] # None
      BY <1>12, <2>2
    <2>4. ASSUME ~Numbered' PROVE FALSE
      <3>1. restored /\ (result # None => agreed)
        BY <2>2, <2>4, AgreeAtLast DEF restored, agreed
      <3>2. \A q \in Who!Sources : ~facts'[q].conflict
        BY <1>10, <2>2, <3>1
      <3>3. result' # None => ~result'.conflict
        BY <1>16, <1>17, <3>1
      <3> QED
        BY <3>2, <3>3 DEF Disputed
    <2> QED
      BY <2>3, <2>4
  <1> QED
    BY <1>18, <1>19, <1>20 DEF NamedInv

(* Every step of Teams by answers that name both teams keeps what is said   *)
(* of conflicts.                                                            *)
LEMMA NamedStep ==
    ASSUME NamedInv, (Who!Next /\ BothNamed) \/ UNCHANGED Who!vars
    PROVE  NamedInv'
  <1>i. TeamsInv
    BY DEF NamedInv
  <1>t. TeamsInv'
    BY <1>i, TeamsStep
  <1>1. CASE UNCHANGED Who!vars
    BY <1>1, <1>t, AsideKeepsNamed DEF Who!vars
  <1>2. CASE Tells
    BY <1>2, <1>i, <1>t, TellsIdentifiable, IdentifyKeepsNamed
  <1>3. CASE \E r \in Who!Real : Who!Discover(r)
    <2>1. UNCHANGED <<mapping, pair, facts, evidence, result>>
      BY <1>3 DEF Who!Discover
    <2> QED
      BY <1>t, <2>1, AsideKeepsNamed
  <1>4. CASE Who!Bootstrap
    <2>1. UNCHANGED <<facts, evidence, result>> /\ pair' = Who!NamedPair
          /\ mapping' = [mapping EXCEPT !["dltv"] = [r \in Who!Real |-> Who!Named(r)]]
      BY <1>4 DEF Who!Bootstrap
    <2>2. \A p \in Who!Sources : mapping'[p] = mapping[p]
      BY <1>i, <2>1 DEF TeamsInv, Who!TypeOK, Who!Sources, Who!Providers
    <2>3. pair' # None
      BY <2>1, TA DEF Who!TeamsAssumption, Who!Team
    <2> QED
      BY <1>t, <2>1, <2>2, <2>3, AsideKeepsNamed
  <1>5. CASE BothNamed /\ \E p \in Who!Sources : \E given \in SUBSET Who!Real : Who!Sync(p, given)
    BY <1>5, <1>t, SyncKeepsNamed
  <1>6. CASE BothNamed /\ \E p \in Who!Sources : Who!Report(p) \/ Who!SettleStored(p)
    BY <1>6, <1>t, ReportKeepsNamed, SettleStoredKeepsNamed
  <1> QED
    BY <1>1, <1>2, <1>3, <1>4, <1>5, <1>6 DEF Who!Next, Tells

-----------------------------------------------------------------------------
(* Series.  What is assumed of the schedule of the meetings.                *)
LEMMA SA == Meet!SeriesAssumption
  BY ObservedAssumption DEF ObservedAssumption

(* Whatever attaches to a series attaches to one that is scheduled at a     *)
(* time of its own meeting.                                                 *)
Meets(ser, i, m) == i \in DOMAIN ser /\ ser[i].at \in Meet!Times(m)

Attached(ser, crd) ==
    /\ \A m \in Matches : crd[m] # 0 => Meets(ser, crd[m], m)
    /\ \A m \in Matches : market[m].series # 0 => Meets(ser, market[m].series, m)
    /\ \A k \in DOMAIN maps : Meets(ser, maps[k].series, maps[k].valve[1])

NumbersFit == \A k \in DOMAIN maps : maps[k].number \in {Unknown, maps[k].valve[2]}

PricesFit ==
    \A r \in odds :
        /\ r.map # 0 => /\ r.map \in DOMAIN maps
                        /\ maps[r.map].series = r.series /\ maps[r.map].valve = <<r.match, r.number>>
        /\ r.series # 0 => r.series = market[r.match].series

SeriesInv == Meet!TypeOK /\ Attached(series, card) /\ NumbersFit /\ PricesFit

(* A time of a meeting is a number, and one near it is of the same meeting. *)
LEMMA TimesTell ==
    /\ \A m \in Matches : Meet!Times(m) \subseteq Nat
    /\ \A m, x \in Matches : \A s \in Meet!Times(m), t \in Meet!Times(x) : Meet!Apart(s, t) <= Window => m = x
    /\ \A m, x \in Matches : \A s \in Meet!Times(m) : s \in Meet!Times(x) => m = x
  <1>1. \A m \in Matches : Meet!Times(m) \subseteq Nat
    BY SA DEF Meet!SeriesAssumption, Meet!Times, Meet!Shown
  <1>2. ASSUME NEW m \in Matches, NEW x \in Matches, NEW s \in Meet!Times(m), NEW t \in Meet!Times(x),
               Meet!Apart(s, t) <= Window
        PROVE  m = x
    <2>1. s \in Nat /\ t \in Nat /\ Window \in Nat
      BY <1>1, SA DEF Meet!SeriesAssumption
    <2>2. m # x => Meet!Apart(s, t) > Window
      BY SA DEF Meet!SeriesAssumption, Meet!FarApart
    <2>3. Meet!Apart(s, t) \in Nat
      BY <2>1 DEF Meet!Apart
    <2> QED
      BY <1>2, <2>1, <2>2, <2>3
  <1>3. ASSUME NEW m \in Matches, NEW x \in Matches, NEW s \in Meet!Times(m), s \in Meet!Times(x)
        PROVE  m = x
    <2>1. s \in Nat /\ Window \in Nat
      BY <1>1, SA DEF Meet!SeriesAssumption
    <2>2. Meet!Apart(s, s) <= Window
      BY <2>1 DEF Meet!Apart
    <2> QED
      BY <1>2, <1>3, <2>2
  <1> QED
    BY <1>1, <1>2, <1>3

(* Whatever the schedule, the market and the games show of a meeting is a   *)
(* time of it.                                                              *)
LEMMA ShownAreTimes ==
    /\ \A m \in Matches : \A c \in Cards[m] \cup Listed[m] :
          c.at \in Meet!Times(m) /\ c.at \in Nat /\ c.bo \in Meet!BestOf
    /\ \A g \in Games : g[1] \in Matches /\ StartOf[g] \in Meet!Times(g[1]) /\ StartOf[g] \in Nat
    /\ \A g \in Games : g[2] \in Nat \ {0} /\ g = <<g[1], g[2]>>
  <1>1. \A m \in Matches : \A c \in Cards[m] \cup Listed[m] :
          c.at \in Meet!Times(m) /\ c.at \in Nat /\ c.bo \in Meet!BestOf
    BY SA DEF Meet!SeriesAssumption, Meet!Times, Meet!Shown
  <1>2. \A g \in Games : g[1] \in Matches /\ StartOf[g] \in Nat /\ g[2] \in Nat \ {0} /\ g = <<g[1], g[2]>>
    BY SA DEF Meet!SeriesAssumption
  <1>3. \A g \in Games : StartOf[g] \in Meet!Times(g[1])
    BY DEF Meet!Times
  <1> QED
    BY <1>1, <1>2, <1>3

-----------------------------------------------------------------------------
(* A series that is scheduled anew, at a time of its meeting                *)
LEMMA Rescheduled ==
    ASSUME NEW ser \in Seq(Meet!Row), NEW crd \in [Matches -> Nat], Attached(ser, crd), Meet!TypeOK,
           NEW i \in DOMAIN ser, NEW m \in Matches, NEW row \in Meet!Row, row.at \in Meet!Times(m),
           \A x \in Matches : ser[i].at \in Meet!Times(x) => x = m
    PROVE  /\ [ser EXCEPT ![i] = row] \in Seq(Meet!Row)
           /\ [crd EXCEPT ![m] = i] \in [Matches -> Nat]
           /\ Attached([ser EXCEPT ![i] = row], [crd EXCEPT ![m] = i])
  <1> DEFINE ser1 == [ser EXCEPT ![i] = row]
             crd1 == [crd EXCEPT ![m] = i]
  <1>1. ser1 \in Seq(Meet!Row) /\ DOMAIN ser1 = DOMAIN ser /\ i \in Nat
    OBVIOUS
  <1>2. \A j \in DOMAIN ser : ser1[j] = IF j = i THEN row ELSE ser[j]
    OBVIOUS
  <1>3. crd1 \in [Matches -> Nat] /\ \A x \in Matches : crd1[x] = IF x = m THEN i ELSE crd[x]
    BY <1>1
  <1> HIDE DEF ser1, crd1
  <1>4. ASSUME NEW j, NEW x \in Matches, Meets(ser, j, x) PROVE Meets(ser1, j, x)
    BY <1>1, <1>2, <1>4 DEF Meets
  <1>5. Meets(ser1, i, m)
    BY <1>1, <1>2 DEF Meets
  <1>6. \A x \in Matches : crd1[x] # 0 => Meets(ser1, crd1[x], x)
    BY <1>3, <1>4, <1>5 DEF Attached
  <1>7. \A x \in Matches : market[x].series # 0 => Meets(ser1, market[x].series, x)
    BY <1>4 DEF Attached
  <1>8. \A k \in DOMAIN maps : maps[k].valve[1] \in Matches
    <2> SUFFICES ASSUME NEW k \in DOMAIN maps PROVE maps[k].valve[1] \in Matches
      OBVIOUS
    <2> DEFINE Entry == [series : Nat \ {0}, number : Meet!BestOf, valve : Games]
    <2>3. maps \in Seq(Entry)
      BY DEF Meet!TypeOK
    <2> HIDE DEF Entry
    <2>4. maps[k] \in Entry
      BY <2>3
    <2>1. maps[k] \in [series : Nat \ {0}, number : Meet!BestOf, valve : Games]
      BY <2>4 DEF Entry
    <2>2. maps[k].valve \in Games
      BY <2>1
    <2> QED
      BY <2>2, ShownAreTimes
  <1>9. \A k \in DOMAIN maps : Meets(ser1, maps[k].series, maps[k].valve[1])
    BY <1>4, <1>8 DEF Attached
  <1>10. Attached(ser1, crd1)
    BY <1>6, <1>7, <1>9 DEF Attached
  <1> QED
    BY <1>1, <1>3, <1>10 DEF ser1, crd1

(* A series that is new                                                     *)
LEMMA RowAppended ==
    ASSUME NEW ser \in Seq(Meet!Row), NEW crd \in [Matches -> Nat], Attached(ser, crd), Meet!TypeOK,
           NEW row \in Meet!Row
    PROVE  /\ Append(ser, row) \in Seq(Meet!Row) /\ Attached(Append(ser, row), crd)
           /\ \A m \in Matches : row.at \in Meet!Times(m) =>
                 /\ Meets(Append(ser, row), Len(ser) + 1, m)
                 /\ [crd EXCEPT ![m] = Len(ser) + 1] \in [Matches -> Nat]
                 /\ Attached(Append(ser, row), [crd EXCEPT ![m] = Len(ser) + 1])
  <1> DEFINE ser1 == Append(ser, row)
             n == Len(ser) + 1
  <1>1. ser1 \in Seq(Meet!Row) /\ DOMAIN ser \subseteq DOMAIN ser1 /\ n \in DOMAIN ser1 /\ n \in Nat /\ n # 0
    OBVIOUS
  <1>2. ser1[n] = row /\ \A j \in DOMAIN ser : ser1[j] = ser[j]
    OBVIOUS
  <1> HIDE DEF ser1, n
  <1>3. ASSUME NEW j, NEW x, Meets(ser, j, x) PROVE Meets(ser1, j, x)
    BY <1>1, <1>2, <1>3 DEF Meets
  <1>4. \A x \in Matches : market[x].series # 0 => Meets(ser1, market[x].series, x)
    BY <1>3 DEF Attached
  <1>5. \A k \in DOMAIN maps : Meets(ser1, maps[k].series, maps[k].valve[1])
    BY <1>3 DEF Attached
  <1>6. Attached(ser1, crd)
    BY <1>3, <1>4, <1>5 DEF Attached
  <1>7. ASSUME NEW m \in Matches, row.at \in Meet!Times(m)
        PROVE  /\ Meets(ser1, n, m) /\ [crd EXCEPT ![m] = n] \in [Matches -> Nat]
               /\ Attached(ser1, [crd EXCEPT ![m] = n])
    <2> DEFINE crd1 == [crd EXCEPT ![m] = n]
    <2>1. crd1 \in [Matches -> Nat] /\ \A x \in Matches : crd1[x] = IF x = m THEN n ELSE crd[x]
      BY <1>1
    <2> HIDE DEF crd1
    <2>2. Meets(ser1, n, m)
      BY <1>1, <1>2, <1>7 DEF Meets
    <2>3. \A x \in Matches : crd1[x] # 0 => Meets(ser1, crd1[x], x)
      BY <1>3, <2>1, <2>2 DEF Attached
    <2>4. Attached(ser1, crd1)
      BY <1>4, <1>5, <2>3 DEF Attached
    <2> QED
      BY <2>1, <2>2, <2>4 DEF crd1
  <1> QED
    BY <1>1, <1>6, <1>7 DEF ser1, n

-----------------------------------------------------------------------------
(* What the projection of a page carries from card to card                  *)
State == [event : Meet!Event, series : Seq(Meet!Row), card : [Matches -> Nat], failed : BOOLEAN]
Good(st) == st \in State /\ Attached(st.series, st.card)

(* A card that is projected                                                 *)
LEMMA ProjectedKeeps ==
    ASSUME Meet!TypeOK, NEW st, Good(st), NEW m \in Matches, NEW c \in Cards[m] \cup {Unknown}
    PROVE  Good(Meet!Projected(st, m, c))
  <1> DEFINE near == Meet!Candidates(st, c)
             own(i) == st.series[i].event
             after(i) == Meet!Resolved(st.event, own(i))
             Of(i) == [st EXCEPT !.card[m] = i, !.series[i] = Meet!Scheduled(@, c, after(i)), !.event = after(i),
                                 !.failed = own(i) \notin {Unknown, after(i)}]
             new == Meet!Resolved(st.event, Unknown)
             fresh == [st EXCEPT !.series = Append(@, [at |-> c.at, bo |-> c.bo, event |-> new]),
                                 !.card[m] = Len(st.series) + 1, !.event = new]
  <1>0. Meet!Projected(st, m, c) =
            IF c = Unknown \/ st.failed THEN st
            ELSE IF st.card[m] # 0 THEN Of(st.card[m])
            ELSE IF Cardinality(near) > 1 THEN [st EXCEPT !.failed = TRUE]
            ELSE IF near # {} THEN Of(CHOOSE i \in near : TRUE)
            ELSE fresh
    BY SameSizes DEF Meet!Projected
  <1>1. st \in State /\ Attached(st.series, st.card) /\ st.series \in Seq(Meet!Row) /\ st.card \in [Matches -> Nat]
        /\ st.event \in Meet!Event
    BY DEF Good, State
  <1>2. CASE c = Unknown \/ st.failed
    BY <1>0, <1>2
  <1>c. ASSUME c # Unknown
        PROVE  c \in Cards[m] /\ c.at \in Meet!Times(m) /\ c.at \in Nat /\ c.bo \in Meet!BestOf
    BY <1>c, ShownAreTimes
  <1>3. ASSUME c # Unknown, NEW i \in DOMAIN st.series,
               \A x \in Matches : st.series[i].at \in Meet!Times(x) => x = m
        PROVE  Good(Of(i))
    <2> DEFINE row == Meet!Scheduled(st.series[i], c, after(i))
               sr == [st.series EXCEPT ![i] = row]
               f == own(i) \notin {Unknown, after(i)}
    <2>1. st.series[i] \in Meet!Row /\ i \in Nat
      BY <1>1, <1>3
    <2>2. after(i) \in Meet!Event
      BY <1>1, <2>1 DEF Meet!Resolved, Meet!Row, Meet!Event
    <2>3. row \in Meet!Row /\ row.at = c.at
      BY <1>3, <1>c, <2>1, <2>2 DEF Meet!Scheduled, Meet!Row
    <2>4. Of(i) = [st EXCEPT !.card[m] = i, !.series = sr, !.event = after(i), !.failed = f]
      BY <1>1 DEF State
    <2> DEFINE e == after(i)
               g == Of(i)
    <2>5. g = [st EXCEPT !.card[m] = i, !.series = sr, !.event = e, !.failed = f]
      BY <2>4
    <2>6. f \in BOOLEAN /\ e \in Meet!Event
      BY <2>2
    <2> HIDE DEF row, f, e, g
    <2>7. sr \in Seq(Meet!Row) /\ Attached(sr, [st.card EXCEPT ![m] = i])
      BY <1>1, <1>3, <1>c, <2>3, Rescheduled
    <2> HIDE DEF sr
    <2>8. g \in State /\ g.series = sr /\ g.card = [st.card EXCEPT ![m] = i]
      <3> DEFINE crd == [st.card EXCEPT ![m] = i]
      <3>1. g = [st EXCEPT !.card = crd, !.series = sr, !.event = e, !.failed = f]
        BY <2>5
      <3>2. crd \in [Matches -> Nat] /\ st \in State
        BY <1>1, <2>1
      <3> HIDE DEF crd
      <3>3. g \in State /\ g.series = sr /\ g.card = crd
        BY <2>6, <2>7, <3>1, <3>2 DEF State
      <3> QED
        BY <3>3 DEF crd
    <2>9. Good(g)
      BY <2>7, <2>8 DEF Good
    <2> QED
      BY <2>9 DEF g
  <1>4. CASE ~(c = Unknown \/ st.failed) /\ st.card[m] # 0
    <2> DEFINE i == st.card[m]
    <2>1. Meets(st.series, i, m)
      BY <1>1, <1>4 DEF Attached
    <2>2. \A x \in Matches : st.series[i].at \in Meet!Times(x) => x = m
      BY <2>1, TimesTell DEF Meets
    <2> HIDE DEF i
    <2>3. Good(Of(i))
      BY <1>3, <1>4, <2>1, <2>2 DEF Meets
    <2> QED
      BY <1>0, <1>4, <2>3 DEF i
  <1>5. CASE ~(c = Unknown \/ st.failed) /\ st.card[m] = 0 /\ Cardinality(near) > 1
    <2>1. Meet!Projected(st, m, c) = [st EXCEPT !.failed = TRUE]
      BY <1>0, <1>5
    <2> QED
      BY <1>1, <2>1 DEF Good, State
  <1>6. CASE ~(c = Unknown \/ st.failed) /\ st.card[m] = 0 /\ ~(Cardinality(near) > 1) /\ near # {}
    <2> DEFINE i == CHOOSE j \in near : TRUE
    <2>1. i \in DOMAIN st.series /\ Meet!Apart(st.series[i].at, c.at) <= Window
      BY <1>6 DEF Meet!Candidates, Meet!Near
    <2> HIDE DEF i
    <2>2. \A x \in Matches : st.series[i].at \in Meet!Times(x) => x = m
      BY <1>6, <1>c, <2>1, TimesTell
    <2>3. Good(Of(i))
      BY <1>3, <1>6, <2>1, <2>2
    <2> QED
      BY <1>0, <1>6, <2>3 DEF i
  <1>7. CASE ~(c = Unknown \/ st.failed) /\ st.card[m] = 0 /\ ~(Cardinality(near) > 1) /\ near = {}
    <2> DEFINE row == [at |-> c.at, bo |-> c.bo, event |-> new]
               sr == Append(st.series, row)
               n == Len(st.series) + 1
               f == st.failed
               g == fresh
    <2>1. new \in Meet!Event
      BY <1>1 DEF Meet!Resolved, Meet!Event
    <2>2. row \in Meet!Row /\ row.at \in Meet!Times(m)
      BY <1>7, <1>c, <2>1 DEF Meet!Row
    <2>3. g = [st EXCEPT !.card[m] = n, !.series = sr, !.event = new, !.failed = f]
      BY <1>1 DEF State
    <2>4. f \in BOOLEAN /\ n \in Nat
      BY <1>1 DEF State
    <2> HIDE DEF row, g
    <2>5. sr \in Seq(Meet!Row) /\ Attached(sr, [st.card EXCEPT ![m] = n])
      BY <1>1, <2>2, RowAppended
    <2> HIDE DEF sr, n, f, new
    <2>6. g \in State /\ g.series = sr /\ g.card = [st.card EXCEPT ![m] = n]
      <3> DEFINE crd == [st.card EXCEPT ![m] = n]
      <3>1. g = [st EXCEPT !.card = crd, !.series = sr, !.event = new, !.failed = f]
        BY <2>3
      <3>2. crd \in [Matches -> Nat] /\ st \in State
        BY <1>1, <2>4
      <3> HIDE DEF crd
      <3>3. g \in State /\ g.series = sr /\ g.card = crd
        BY <2>1, <2>4, <2>5, <3>1, <3>2 DEF State
      <3> QED
        BY <3>3 DEF crd
    <2>7. Good(g)
      BY <2>5, <2>6 DEF Good
    <2> QED
      BY <1>0, <1>7, <2>7 DEF g
  <1> QED
    BY <1>2, <1>4, <1>5, <1>6, <1>7

-----------------------------------------------------------------------------
(* The cards of a page are projected one after another.  What the fold      *)
(* computes is found by the smallest set of cards for which it would not be *)
(* so.                                                                      *)
Some(T) == CHOOSE x \in T : TRUE

Folded(page, start, S, g) ==
    g = [T \in SUBSET S |-> IF T = {} THEN start
                           ELSE Meet!Projected(g[T \ {Some(T)}], Some(T), page[Some(T)])]

(* Projecting a page match by match has one outcome for each set of         *)
(* matches.                                                                 *)
LEMMA FoldsAgree ==
    ASSUME NEW page, NEW start, NEW S, NEW S1, NEW S2, NEW g1, NEW g2, IsFiniteSet(S),
           S1 \subseteq S, S2 \subseteq S, Folded(page, start, S1, g1), Folded(page, start, S2, g2),
           NEW T, T \subseteq S1, T \subseteq S2
    PROVE  g1[T] = g2[T]
<1> DEFINE Wrong == {U \in SUBSET S : U \subseteq S1 /\ U \subseteq S2 /\ g1[U] # g2[U]}
<1>1. Wrong = {}
  <2> SUFFICES ASSUME Wrong # {} PROVE FALSE
    OBVIOUS
  <2>1. IsWellFoundedOn(StrictSubsetOrdering(S), SUBSET S)
    BY FS_FiniteSubsetsOfFinite, FS_StrictSubsetOrderingWellFounded
  <2> HIDE DEF Wrong
  <2>2. Wrong \subseteq SUBSET S
    BY DEF Wrong
  <2>3. PICK U \in Wrong : \A V \in Wrong : <<V, U>> \notin StrictSubsetOrdering(S)
    BY <2>1, <2>2, WFMin
  <2>4. U \subseteq S /\ U \subseteq S1 /\ U \subseteq S2 /\ g1[U] # g2[U]
    BY <2>3 DEF Wrong
  <2>5. U # {}
    BY <2>4 DEF Folded
  <2> DEFINE x == Some(U)
             V == U \ {x}
  <2>6. x \in U
    BY <2>5 DEF Some
  <2>7. /\ g1[U] = Meet!Projected(g1[V], x, page[x]) /\ g2[U] = Meet!Projected(g2[V], x, page[x])
    BY <2>4, <2>5 DEF Folded
  <2> HIDE DEF x
  <2>8. <<V, U>> \in StrictSubsetOrdering(S)
    BY <2>4, <2>6 DEF StrictSubsetOrdering
  <2>9. V \in Wrong
    BY <2>4, <2>7 DEF Wrong
  <2> QED
    BY <2>3, <2>8, <2>9
<1> QED
  BY <1>1

(* There is such an outcome for every finite set of matches.                *)
LEMMA FoldsExist ==
    ASSUME NEW page, NEW start, NEW S, IsFiniteSet(S)
    PROVE  \E g : Folded(page, start, S, g)
<1> DEFINE Without == {T \in SUBSET S : ~ \E g : Folded(page, start, T, g)}
<1>1. Without = {}
  <2> SUFFICES ASSUME Without # {} PROVE FALSE
    OBVIOUS
  <2>1. IsWellFoundedOn(StrictSubsetOrdering(S), SUBSET S)
    BY FS_FiniteSubsetsOfFinite, FS_StrictSubsetOrderingWellFounded
  <2> HIDE DEF Without
  <2>2. Without \subseteq SUBSET S
    BY DEF Without
  <2>3. PICK T \in Without : \A V \in Without : <<V, T>> \notin StrictSubsetOrdering(S)
    BY <2>1, <2>2, WFMin
  <2>4. T \subseteq S
    BY <2>2, <2>3
  <2> DEFINE h(V) == CHOOSE g : Folded(page, start, V, g)
             below == [V \in SUBSET T |-> IF V = T THEN start ELSE h(V)[V]]
             fold == [V \in SUBSET T |-> IF V = {} THEN start
                                         ELSE Meet!Projected(below[V \ {Some(V)}], Some(V), page[Some(V)])]
  <2>5. ASSUME NEW V \in SUBSET T, V # T PROVE Folded(page, start, V, h(V))
    <3>1. V \notin Without
      BY <2>3, <2>4, <2>5 DEF StrictSubsetOrdering
    <3>2. \E g : Folded(page, start, V, g)
      BY <2>4, <3>1 DEF Without
    <3> HIDE DEF Folded
    <3> QED
      BY <3>2
  <2> HIDE DEF h
  <2>s. \A V \in SUBSET T : V # {} => Some(V) \in V
    BY DEF Some
  <2>6. ASSUME NEW V \in SUBSET T, V # T PROVE fold[V] = h(V)[V]
    <3>1. CASE V = {}
      BY <2>5, <2>6, <3>1 DEF Folded
    <3>2. CASE V # {}
      <4> DEFINE W == V \ {Some(V)}
      <4>2. W \in SUBSET T /\ W # T /\ W \subseteq V
        BY <2>s, <3>2
      <4>3. h(V)[V] = Meet!Projected(h(V)[W], Some(V), page[Some(V)])
        BY <2>5, <2>6, <3>2 DEF Folded
      <4>4. Folded(page, start, V, h(V)) /\ Folded(page, start, W, h(W))
        BY <2>5, <2>6, <4>2
      <4>5. h(V)[W] = h(W)[W]
        <5>1. IsFiniteSet(S) /\ V \subseteq S /\ W \subseteq S /\ W \subseteq W
          BY <2>4, <4>2
        <5> HIDE DEF W, Folded
        <5> QED
          BY <4>2, <4>4, <5>1, FoldsAgree
      <4>6. fold[V] = Meet!Projected(below[W], Some(V), page[Some(V)]) /\ below[W] = h(W)[W]
        BY <3>2, <4>2
      <4> QED
        BY <4>3, <4>5, <4>6
    <3> QED
      BY <3>1, <3>2
  <2>7. Folded(page, start, T, fold)
    <3>1. ASSUME NEW V \in SUBSET T, V # {} PROVE below[V \ {Some(V)}] = fold[V \ {Some(V)}]
      <4>1. V \ {Some(V)} \in SUBSET T /\ V \ {Some(V)} # T
        BY <2>s, <3>1
      <4> QED
        BY <2>6, <4>1
    <3>2. ASSUME NEW V \in SUBSET T
          PROVE  fold[V] = IF V = {} THEN start
                           ELSE Meet!Projected(fold[V \ {Some(V)}], Some(V), page[Some(V)])
      <4>1. CASE V = {}
        BY <4>1
      <4>2. CASE V # {}
        <5>1. fold[V] = Meet!Projected(below[V \ {Some(V)}], Some(V), page[Some(V)])
          BY <4>2
        <5>2. below[V \ {Some(V)}] = fold[V \ {Some(V)}]
          BY <3>1, <4>2
        <5> HIDE DEF fold, below
        <5> QED
          BY <4>2, <5>1, <5>2
      <4> QED
        BY <4>1, <4>2
    <3>3. fold = [V \in SUBSET T |-> fold[V]]
      OBVIOUS
    <3> HIDE DEF fold
    <3> QED
      BY <3>2, <3>3 DEF Folded
  <2> HIDE DEF fold
  <2> QED
    BY <2>3, <2>7 DEF Without
<1> QED
  BY <1>1

(* Every card of the page keeps what is good.                               *)
LEMMA FoldsAreGood ==
    ASSUME Meet!TypeOK, NEW page, \A m \in Matches : page[m] \in Cards[m] \cup {Unknown},
           NEW start, Good(start), NEW g, Folded(page, start, Matches, g)
    PROVE  Good(g[Matches])
<1> DEFINE Bad == {T \in SUBSET Matches : ~Good(g[T])}
<1>1. Bad = {}
  <2> SUFFICES ASSUME Bad # {} PROVE FALSE
    OBVIOUS
  <2>1. IsWellFoundedOn(StrictSubsetOrdering(Matches), SUBSET Matches)
    BY SA, SameSizes, FS_FiniteSubsetsOfFinite, FS_StrictSubsetOrderingWellFounded
       DEF Meet!SeriesAssumption
  <2> HIDE DEF Bad
  <2>2. Bad \subseteq SUBSET Matches
    BY DEF Bad
  <2>3. PICK T \in Bad : \A V \in Bad : <<V, T>> \notin StrictSubsetOrdering(Matches)
    BY <2>1, <2>2, WFMin
  <2>4. T \subseteq Matches /\ ~Good(g[T])
    BY <2>3 DEF Bad
  <2>5. T # {}
    BY <2>4 DEF Folded
  <2> DEFINE x == Some(T)
             V == T \ {x}
  <2>6. x \in T /\ x \in Matches
    BY <2>4, <2>5 DEF Some
  <2>7. g[T] = Meet!Projected(g[V], x, page[x])
    BY <2>4, <2>5 DEF Folded
  <2> HIDE DEF x
  <2>8. <<V, T>> \in StrictSubsetOrdering(Matches)
    BY <2>4, <2>6 DEF StrictSubsetOrdering
  <2>9. Good(g[V])
    BY <2>3, <2>4, <2>8 DEF Bad
  <2> QED
    BY <2>4, <2>6, <2>7, <2>9, ProjectedKeeps
<1> QED
  BY <1>1

(* LiquipediaCanonicalProjector.project_series: the page as a whole leaves  *)
(* a good schedule.                                                         *)
LEMMA ProjectMakes ==
    ASSUME Meet!TypeOK, Attached(series, card), NEW page, Meet!Project(page),
           \A m \in Matches : page[m] \in Cards[m] \cup {Unknown}
    PROVE  \E end : Good(end) /\ event' = end.event /\ series' = end.series /\ card' = end.card
  <1> DEFINE start == [event |-> event, series |-> series, card |-> card, failed |-> FALSE]
             end == Meet!FoldSet(LAMBDA m, st : Meet!Projected(st, m, page[m]), start, Matches)
             iter == CHOOSE h : Folded(page, start, Matches, h)
  <1>1. event' = end.event /\ series' = end.series /\ card' = end.card
    BY DEF Meet!Project
  <1>2. Good(start)
    BY DEF Meet!TypeOK, Good, State
  <1>3. end = iter[Matches]
    BY Zenon DEF Meet!FoldSet, Meet!MapThenFoldSet, Folded, Some
  <1>4. Folded(page, start, Matches, iter)
    <2>1. IsFiniteSet(Matches)
      BY SA, SameSizes DEF Meet!SeriesAssumption
    <2>2. \E h : Folded(page, start, Matches, h)
      BY <2>1, FoldsExist
    <2> HIDE DEF Folded
    <2> QED
      BY <2>2
  <1> HIDE DEF start, iter, end
  <1>5. Good(end)
    BY <1>2, <1>3, <1>4, FoldsAreGood
  <1> QED
    BY <1>1, <1>5

-----------------------------------------------------------------------------
(* Init: nothing is attached, or one series of an earlier version to the    *)
(* market.                                                                  *)
LEMMA SeriesBegins == Meet!Init => SeriesInv
  <1> SUFFICES ASSUME Meet!Init PROVE SeriesInv
    OBVIOUS
  <1>1. /\ event = Unknown /\ card = [m \in Matches |-> 0] /\ maps = <<>> /\ odds = {}
    BY DEF Meet!Init
  <1>2. NumbersFit /\ PricesFit
    BY <1>1 DEF NumbersFit, PricesFit
  <1>3. /\ event \in Meet!Event /\ card \in [Matches -> Nat]
        /\ maps \in Seq([series : Nat \ {0}, number : Meet!BestOf, valve : Games])
        /\ odds \subseteq [match : Matches, number : Nat, series : Nat, map : Nat]
    BY <1>1 DEF Meet!Event
  <1>4. CASE series = <<>> /\ market = [m \in Matches |-> [series |-> 0, guessed |-> FALSE]]
    <2>1. Meet!TypeOK
      <3>1. series \in Seq(Meet!Row)
        BY <1>4
      <3>2. market \in [Matches -> [series : Nat, guessed : BOOLEAN]]
        BY <1>4
      <3> QED
        BY <1>3, <3>1, <3>2 DEF Meet!TypeOK
    <2>2. Attached(series, card)
      BY <1>1, <1>4 DEF Attached
    <2> QED
      BY <1>2, <2>1, <2>2 DEF SeriesInv
  <1>5. CASE \E m \in Matches : \E l \in Listed[m] :
             /\ series = <<[at |-> l.at, bo |-> Unknown, event |-> "other"]>>
             /\ market = [x \in Matches |-> [series |-> IF x = m THEN 1 ELSE 0, guessed |-> x = m]]
    <2>0. PICK m \in Matches : \E l \in Listed[m] :
             /\ series = <<[at |-> l.at, bo |-> Unknown, event |-> "other"]>>
             /\ market = [x \in Matches |-> [series |-> IF x = m THEN 1 ELSE 0, guessed |-> x = m]]
      BY <1>5
    <2>1. PICK l \in Listed[m] :
             /\ series = <<[at |-> l.at, bo |-> Unknown, event |-> "other"]>>
             /\ market = [x \in Matches |-> [series |-> IF x = m THEN 1 ELSE 0, guessed |-> x = m]]
      BY <2>0
    <2>2. l.at \in Nat /\ l.at \in Meet!Times(m)
      BY ShownAreTimes
    <2> DEFINE row == [at |-> l.at, bo |-> Unknown, event |-> "other"]
    <2>3. row \in Meet!Row /\ row.at = l.at
      BY <2>2 DEF Meet!Row, Meet!BestOf, Meet!Event
    <2>4. series = <<row>>
      BY <2>1
    <2> HIDE DEF row
    <2>5. series \in Seq(Meet!Row) /\ DOMAIN series = {1} /\ series[1] = row
      BY <2>3, <2>4
    <2>6. \A x \in Matches : market[x] = [series |-> IF x = m THEN 1 ELSE 0, guessed |-> x = m]
      BY <2>1
    <2>7. market \in [Matches -> [series : Nat, guessed : BOOLEAN]]
      BY <2>1
    <2>8. Attached(series, card)
      <3>1. Meets(series, 1, m)
        BY <2>2, <2>3, <2>5 DEF Meets
      <3>2. \A x \in Matches : market[x].series # 0 => x = m /\ market[x].series = 1
        <4> TAKE x \in Matches
        <4>1. market[x] = [series |-> IF x = m THEN 1 ELSE 0, guessed |-> x = m]
          BY <2>6
        <4>2. market[x].series = IF x = m THEN 1 ELSE 0
          BY <4>1
        <4> QED
          BY <4>2
      <3>3. (\A x \in Matches : card[x] = 0) /\ DOMAIN maps = {}
        BY <1>1
      <3> QED
        BY <3>1, <3>2, <3>3 DEF Attached
    <2> QED
      BY <1>2, <1>3, <2>5, <2>7, <2>8 DEF SeriesInv, Meet!TypeOK
  <1> QED
    BY <1>4, <1>5 DEF Meet!Init

(* project_tournaments: the directory maps the page to an event.            *)
LEMMA DirectoryKeeps ==
    ASSUME SeriesInv, Meet!Directory
    PROVE  SeriesInv'
  <1>1. event' = Meet!Resolved(event, Unknown) /\ UNCHANGED <<series, card, market, maps, odds>>
    BY DEF Meet!Directory
  <1>2. event' \in Meet!Event
    BY <1>1 DEF SeriesInv, Meet!TypeOK, Meet!Resolved, Meet!Event
  <1>3. Meet!TypeOK'
    BY <1>1, <1>2 DEF SeriesInv, Meet!TypeOK
  <1>4. Attached(series, card)' /\ NumbersFit' /\ PricesFit'
    BY <1>1 DEF SeriesInv, Attached, Meets, NumbersFit, PricesFit
  <1> QED
    BY <1>3, <1>4 DEF SeriesInv

(* The projection of a page keeps the invariant.                            *)
LEMMA ProjectKeeps ==
    ASSUME SeriesInv, NEW page, \A m \in Matches : page[m] \in Cards[m] \cup {Unknown}, Meet!Project(page)
    PROVE  SeriesInv'
  <1>1. PICK end : Good(end) /\ event' = end.event /\ series' = end.series /\ card' = end.card
    BY ProjectMakes DEF SeriesInv
  <1>2. UNCHANGED <<market, maps, odds>>
    BY DEF Meet!Project
  <1>3. event' \in Meet!Event /\ series' \in Seq(Meet!Row) /\ card' \in [Matches -> Nat]
    BY <1>1 DEF Good, State
  <1>4. Meet!TypeOK'
    BY <1>2, <1>3 DEF SeriesInv, Meet!TypeOK
  <1>5. Attached(series', card')
    BY <1>1 DEF Good
  <1>6. Attached(series, card)'
    BY <1>2, <1>5 DEF Attached, Meets
  <1>7. NumbersFit' /\ PricesFit'
    BY <1>2 DEF SeriesInv, NumbersFit, PricesFit
  <1> QED
    BY <1>4, <1>6, <1>7 DEF SeriesInv

(* What is announced near a time of a meeting is of that meeting.           *)
LEMMA AnnouncedMeets ==
    ASSUME SeriesInv, NEW m \in Matches, NEW t \in Meet!Times(m), NEW i \in Meet!Announced(t)
    PROVE  Meets(series, i, m) /\ i \in Nat \ {0}
  <1>1. i \in DOMAIN series /\ Meet!Apart(series[i].at, t) <= Window /\ i \in Meet!Backed
    BY DEF Meet!Announced, Meet!Near
  <1>2. PICK x \in Matches : i = card[x] /\ i # 0
    BY <1>1 DEF Meet!Backed
  <1>3. series[i].at \in Meet!Times(x)
    BY <1>2 DEF SeriesInv, Attached, Meets
  <1>4. x = m
    BY <1>1, <1>3, TimesTell
  <1>5. i \in Nat
    BY <1>2 DEF SeriesInv, Meet!TypeOK
  <1> QED
    BY <1>1, <1>2, <1>3, <1>4, <1>5 DEF Meets

(* A set of one element has one.                                            *)
LEMMA OneOfMany ==
    ASSUME NEW S, Cardinality(S) = 1
    PROVE  S # {}
  BY FS_EmptySet

(* A row of the canonical maps.                                             *)
LEMMA MapEntry ==
    ASSUME Meet!TypeOK, NEW k \in DOMAIN maps
    PROVE  /\ maps[k].series \in Nat \ {0} /\ maps[k].valve \in Games
           /\ maps[k].valve[1] \in Matches /\ maps[k].number \in Meet!BestOf
           /\ maps[k] \in [series : Nat \ {0}, number : Meet!BestOf, valve : Games]
  <1> DEFINE Entry == [series : Nat \ {0}, number : Meet!BestOf, valve : Games]
  <1>1. maps \in Seq(Entry)
    BY DEF Meet!TypeOK
  <1> HIDE DEF Entry
  <1>2. maps[k] \in Entry
    BY <1>1
  <1>3. maps[k].valve \in Games
    BY <1>2 DEF Entry
  <1> QED
    BY <1>2, <1>3, ShownAreTimes DEF Entry

(* RayBetExistingSeriesLinker.link: a match of the market attaches to the   *)
(* only announced series that is near and fits, and its prices that belong  *)
(* to no map follow.                                                        *)
LEMMA LinkKeepsSeries ==
    ASSUME SeriesInv, NEW m \in Matches, NEW l \in Listed[m], Meet!Link(m, l)
    PROVE  SeriesInv'
  <1> DEFINE near == {x \in Meet!Announced(l.at) : Meet!Fits(series[x], l.bo)}
             i == CHOOSE x \in near : TRUE
             bo == IF series[i].bo = Unknown THEN l.bo ELSE series[i].bo
             row == [series[i] EXCEPT !.bo = bo]
  <1>1. /\ Meet!MayLink(m) /\ Cardinality(near) = 1
        /\ market' = [market EXCEPT ![m] = [series |-> i, guessed |-> FALSE]]
        /\ series' = [series EXCEPT ![i].bo = IF @ = Unknown THEN l.bo ELSE @]
        /\ odds' = Meet!Relinked(m, i)
        /\ UNCHANGED <<event, card, maps>>
    BY SameSizes DEF Meet!Link, Meet!Linkable
  <1>2. i \in near
    BY <1>1, OneOfMany
  <1>3. i \in Meet!Announced(l.at) /\ l.at \in Meet!Times(m) /\ l.bo \in Meet!BestOf
    BY <1>2, ShownAreTimes
  <1> HIDE DEF i
  <1>4. Meets(series, i, m) /\ i \in Nat \ {0} /\ i \in DOMAIN series
    BY <1>3, AnnouncedMeets DEF Meets
  <1>t. Meet!TypeOK /\ series \in Seq(Meet!Row)
    BY DEF SeriesInv, Meet!TypeOK
  <1>5. row \in Meet!Row /\ row.at = series[i].at
    <2>1. series[i] \in Meet!Row
      BY <1>4, <1>t
    <2> QED
      BY <1>3, <2>1 DEF Meet!Row
  <1>6. series' = [series EXCEPT ![i] = row]
    BY <1>1, <1>4, <1>t
  <1> HIDE DEF row
  <1>7. series' \in Seq(Meet!Row) /\ DOMAIN series' = DOMAIN series
        /\ \A j \in DOMAIN series : series'[j].at = series[j].at
    BY <1>4, <1>5, <1>6, <1>t
  <1>8. /\ market' \in [Matches -> [series : Nat, guessed : BOOLEAN]]
        /\ market'[m].series = i /\ \A x \in Matches \ {m} : market'[x] = market[x]
    BY <1>1, <1>4, <1>t DEF Meet!TypeOK
  <1>9. \A j, x : Meets(series, j, x) => Meets(series', j, x)
    BY <1>7 DEF Meets
  <1>10. Attached(series, card)'
    <2>1. \A x \in Matches : card'[x] # 0 => Meets(series', card'[x], x)
      BY <1>1, <1>9 DEF SeriesInv, Attached
    <2>2. \A x \in Matches : market'[x].series # 0 => Meets(series', market'[x].series, x)
      BY <1>4, <1>8, <1>9 DEF SeriesInv, Attached
    <2>3. \A k \in DOMAIN maps' : Meets(series', maps'[k].series, maps'[k].valve[1])
      BY <1>1, <1>9 DEF SeriesInv, Attached
    <2> QED
      BY <2>1, <2>2, <2>3 DEF Attached, Meets
  <1> DEFINE Moved(r) == IF r.match = m /\ r.series = market[m].series /\ r.series # 0 /\ r.map = 0
                         THEN [r EXCEPT !.series = i] ELSE r
             Quote == [match : Matches, number : Nat, series : Nat, map : Nat]
  <1>11. odds' = {Moved(r) : r \in odds} /\ odds \subseteq Quote
    BY <1>1, <1>t DEF Meet!Relinked, Meet!TypeOK
  <1>12. ASSUME NEW r \in odds
         PROVE  /\ Moved(r) \in Quote /\ Moved(r).match = r.match /\ Moved(r).number = r.number
                /\ Moved(r).map = r.map
                /\ r.match # m \/ r.series = 0 \/ r.map # 0 => Moved(r).series = r.series
                /\ r.match = m /\ r.series # 0 /\ r.map = 0 => Moved(r).series = i
    <2>1. r \in Quote
      BY <1>11
    <2>2. r.series # 0 => r.series = market[r.match].series
      BY DEF SeriesInv, PricesFit
    <2> QED
      BY <1>4, <2>1, <2>2
  <1>13. Meet!TypeOK'
    <2>1. odds' \subseteq Quote
      BY <1>11, <1>12
    <2> QED
      BY <1>1, <1>7, <1>8, <1>t, <2>1 DEF Meet!TypeOK
  <1>14. ASSUME NEW r \in odds
         PROVE  /\ Moved(r).map # 0 =>
                      /\ Moved(r).map \in DOMAIN maps
                      /\ maps[Moved(r).map].series = Moved(r).series
                      /\ maps[Moved(r).map].valve = <<Moved(r).match, Moved(r).number>>
                /\ Moved(r).series # 0 => Moved(r).series = market'[Moved(r).match].series
    <2>1. /\ r.map # 0 => /\ r.map \in DOMAIN maps
                          /\ maps[r.map].series = r.series /\ maps[r.map].valve = <<r.match, r.number>>
          /\ r.series # 0 => r.series = market[r.match].series
      BY DEF SeriesInv, PricesFit
    <2>2. r.match \in Matches
      BY <1>11
    <2> HIDE DEF Moved
    <2>3. CASE r.match # m
      BY <1>8, <1>12, <2>1, <2>2, <2>3
    <2>4. CASE r.match = m /\ r.series = 0
      BY <1>12, <2>1, <2>4
    <2>5. CASE r.match = m /\ r.series # 0 /\ r.map = 0
      BY <1>8, <1>12, <2>5
    <2>6. CASE r.match = m /\ r.series # 0 /\ r.map # 0
      <3>1. Meet!HasMaps(market[m].series)
        BY <2>1, <2>6 DEF Meet!HasMaps
      <3>2. market[m].series # 0
        BY <2>1, <2>6
      <3> QED
        BY <1>1, <3>1, <3>2 DEF Meet!MayLink
    <2> QED
      BY <2>3, <2>4, <2>5, <2>6
  <1> HIDE DEF Moved
  <1>15. PricesFit'
    BY <1>1, <1>11, <1>14 DEF PricesFit
  <1>16. NumbersFit'
    BY <1>1 DEF SeriesInv, NumbersFit
  <1> QED
    BY <1>10, <1>13, <1>15, <1>16 DEF SeriesInv

(* A slot that a game could take over is a slot of that game's number in    *)
(* its own meeting: it is of the game itself.                               *)
LEMMA SlotIsOfGame ==
    ASSUME SeriesInv, NEW g \in Games, NEW i, Meets(series, i, g[1]), NEW n \in {g[2], Unknown},
           NEW k \in Meet!SlotsOf(i, n)
    PROVE  maps[k].valve = g
  <1>1. k \in DOMAIN maps /\ n # Unknown /\ maps[k].series = i /\ maps[k].number = n
    BY DEF Meet!SlotsOf
  <1>2. maps[k].valve \in Games /\ maps[k].valve[1] \in Matches /\ g[1] \in Matches
    BY <1>1, MapEntry, ShownAreTimes DEF SeriesInv
  <1>3. Meets(series, i, maps[k].valve[1])
    BY <1>1 DEF SeriesInv, Attached
  <1>4. maps[k].valve[1] = g[1]
    BY <1>2, <1>3, TimesTell DEF Meets
  <1>5. maps[k].valve[2] = g[2]
    BY <1>1 DEF SeriesInv, NumbersFit
  <1>6. maps[k].valve = <<maps[k].valve[1], maps[k].valve[2]>> /\ g = <<g[1], g[2]>>
    BY <1>2, ShownAreTimes
  <1> QED
    BY <1>4, <1>5, <1>6

(* One more canonical map leaves the others, and the prices, as they are.   *)
LEMMA MapAdded ==
    ASSUME SeriesInv, NEW row \in [series : Nat \ {0}, number : Meet!BestOf, valve : Games],
           maps' = Append(maps, row), UNCHANGED <<market, odds>>
    PROVE  /\ maps' \in Seq([series : Nat \ {0}, number : Meet!BestOf, valve : Games])
           /\ \A k \in DOMAIN maps' : (k \in DOMAIN maps /\ maps'[k] = maps[k]) \/ maps'[k] = row
           /\ row.number \in {Unknown, row.valve[2]} => NumbersFit'
           /\ PricesFit'
  <1> DEFINE Entry == [series : Nat \ {0}, number : Meet!BestOf, valve : Games]
  <1>1. maps \in Seq(Entry) /\ row \in Entry
    BY DEF SeriesInv, Meet!TypeOK
  <1> HIDE DEF Entry
  <1>2. /\ maps' \in Seq(Entry)
        /\ \A k \in DOMAIN maps' : (k \in DOMAIN maps /\ maps'[k] = maps[k]) \/ maps'[k] = row
        /\ \A k \in DOMAIN maps : k \in DOMAIN maps' /\ maps'[k] = maps[k]
    BY <1>1
  <1>3. row.number \in {Unknown, row.valve[2]} => NumbersFit'
    BY <1>2 DEF SeriesInv, NumbersFit
  <1>4. PricesFit'
    BY <1>2 DEF SeriesInv, PricesFit
  <1> QED
    BY <1>2, <1>3, <1>4 DEF Entry

(* resolve_dltv_bootstrap: a live map attaches to the only announced series *)
(* that is near, and takes over the slot of its number.                     *)
LEMMA BootstrapKeepsSeries ==
    ASSUME SeriesInv, NEW g \in Games, NEW n \in {g[2], Unknown}, Meet!Bootstrap(g, n)
    PROVE  SeriesInv'
  <1> DEFINE near == Meet!Announced(StartOf[g])
             i == CHOOSE x \in near : TRUE
             row == [series |-> i, number |-> n, valve |-> g]
  <1>1. /\ Meet!MapsOf(g) = {} /\ Cardinality(near) = 1
        /\ maps' = IF Meet!SlotsOf(i, n) = {} THEN Append(maps, row)
                   ELSE [maps EXCEPT ![CHOOSE k \in Meet!SlotsOf(i, n) : TRUE].valve = g]
        /\ UNCHANGED <<event, series, card, market, odds>>
    BY SameSizes DEF Meet!Bootstrap
  <1>2. i \in near
    BY <1>1, OneOfMany
  <1> HIDE DEF i
  <1>3. Meets(series, i, g[1]) /\ i \in Nat \ {0} /\ g[1] \in Matches
    BY <1>2, ShownAreTimes, AnnouncedMeets
  <1>4. Meet!SlotsOf(i, n) = {}
    <2> SUFFICES ASSUME NEW k \in Meet!SlotsOf(i, n) PROVE FALSE
      OBVIOUS
    <2>1. maps[k].valve = g
      BY <1>3, SlotIsOfGame
    <2> QED
      BY <1>1, <2>1 DEF Meet!MapsOf, Meet!SlotsOf
  <1>5. row \in [series : Nat \ {0}, number : Meet!BestOf, valve : Games]
        /\ row.number \in {Unknown, row.valve[2]} /\ row.valve = g /\ row.series = i
    BY <1>3, ShownAreTimes DEF Meet!BestOf
  <1> HIDE DEF row
  <1>6. maps' = Append(maps, row) /\ UNCHANGED <<market, odds>>
    BY <1>1, <1>4
  <1>7. /\ maps' \in Seq([series : Nat \ {0}, number : Meet!BestOf, valve : Games])
        /\ \A k \in DOMAIN maps' : (k \in DOMAIN maps /\ maps'[k] = maps[k]) \/ maps'[k] = row
        /\ NumbersFit' /\ PricesFit'
    BY <1>5, <1>6, MapAdded
  <1>8. Meet!TypeOK'
    BY <1>1, <1>7 DEF SeriesInv, Meet!TypeOK
  <1>9. Attached(series, card)'
    BY <1>1, <1>3, <1>5, <1>7 DEF SeriesInv, Attached, Meets
  <1> QED
    BY <1>7, <1>8, <1>9 DEF SeriesInv

(* History makes a series of its own for a game that nobody announced.      *)
LEMMA StoreKeepsSeries ==
    ASSUME SeriesInv, NEW g \in Games, NEW own \in {Unknown, "other"}, Meet!Store(g, own)
    PROVE  SeriesInv'
  <1> DEFINE new == [at |-> StartOf[g], bo |-> Unknown, event |-> own]
             row == [series |-> Len(series) + 1, number |-> Unknown, valve |-> g]
  <1>1. /\ series' = Append(series, new) /\ maps' = Append(maps, row)
        /\ UNCHANGED <<event, card, market, odds>>
    BY DEF Meet!Store
  <1>2. new \in Meet!Row /\ new.at = StartOf[g] /\ StartOf[g] \in Meet!Times(g[1]) /\ g[1] \in Matches
    BY ShownAreTimes DEF Meet!Row, Meet!BestOf, Meet!Event
  <1>t. Meet!TypeOK /\ series \in Seq(Meet!Row) /\ card \in [Matches -> Nat] /\ Attached(series, card)
    BY DEF SeriesInv, Meet!TypeOK
  <1>3. row \in [series : Nat \ {0}, number : Meet!BestOf, valve : Games]
        /\ row.number \in {Unknown, row.valve[2]} /\ row.valve = g /\ row.series = Len(series) + 1
    <2>1. Len(series) \in Nat
      BY <1>t
    <2> QED
      BY <2>1 DEF Meet!BestOf
  <1> HIDE DEF new, row
  <1>4. /\ series' \in Seq(Meet!Row) /\ Attached(series', card) /\ Meets(series', Len(series) + 1, g[1])
    BY <1>1, <1>2, <1>t, RowAppended
  <1>5. /\ maps' \in Seq([series : Nat \ {0}, number : Meet!BestOf, valve : Games])
        /\ \A k \in DOMAIN maps' : (k \in DOMAIN maps /\ maps'[k] = maps[k]) \/ maps'[k] = row
        /\ NumbersFit' /\ PricesFit'
    BY <1>1, <1>3, MapAdded
  <1>6. Meet!TypeOK'
    BY <1>1, <1>4, <1>5, <1>t DEF Meet!TypeOK
  <1>7. \A k \in DOMAIN maps' : Meets(series', maps'[k].series, maps'[k].valve[1])
    BY <1>3, <1>4, <1>5 DEF Attached
  <1>8. Attached(series, card)'
    BY <1>1, <1>4, <1>7 DEF Attached, Meets
  <1> QED
    BY <1>5, <1>6, <1>8 DEF SeriesInv

(* A collected price belongs to the map of its number, if there is one.     *)
LEMMA CollectKeeps ==
    ASSUME SeriesInv, NEW g \in Games, Meet!Collect(g)
    PROVE  SeriesInv'
  <1> DEFINE i == market[g[1]].series
             slots == IF i = 0 THEN {} ELSE Meet!SlotsOf(i, g[2])
             map == IF slots = {} THEN 0 ELSE CHOOSE k \in slots : TRUE
             row == [match |-> g[1], number |-> g[2], series |-> i, map |-> map]
             Quote == [match : Matches, number : Nat, series : Nat, map : Nat]
  <1>1. odds' = odds \cup {row} /\ UNCHANGED <<event, series, card, market, maps>>
    BY DEF Meet!Collect
  <1>2. g[1] \in Matches /\ g[2] \in Nat /\ g = <<g[1], g[2]>> /\ Meet!TypeOK
    BY ShownAreTimes DEF SeriesInv
  <1>3. i \in Nat
    BY <1>2 DEF Meet!TypeOK
  <1>4. ASSUME map # 0
        PROVE  map \in DOMAIN maps /\ maps[map].series = i /\ maps[map].valve = g
    <2>1. map \in Meet!SlotsOf(i, g[2]) /\ i # 0
      BY <1>4
    <2> HIDE DEF map
    <2>2. Meets(series, i, g[1])
      BY <1>2, <2>1 DEF SeriesInv, Attached
    <2>3. maps[map].valve = g
      BY <2>1, <2>2, SlotIsOfGame
    <2> QED
      BY <2>1, <2>3 DEF Meet!SlotsOf
  <1>5. map \in Nat
    <2>1. DOMAIN maps \subseteq Nat
      BY <1>2 DEF Meet!TypeOK
    <2> HIDE DEF map
    <2> QED
      BY <1>4, <2>1
  <1> HIDE DEF map, i
  <1>6. row \in Quote /\ row.match = g[1] /\ row.number = g[2] /\ row.series = i /\ row.map = map
    BY <1>2, <1>3, <1>5
  <1> HIDE DEF row
  <1>7. odds' \subseteq Quote
    BY <1>1, <1>2, <1>6 DEF Meet!TypeOK
  <1>8. Meet!TypeOK'
    BY <1>1, <1>2, <1>7 DEF Meet!TypeOK
  <1>9. PricesFit'
    <2>1. market[row.match].series = i
      BY <1>6 DEF i
    <2>2. ASSUME NEW r \in odds'
          PROVE  /\ r.map # 0 => /\ r.map \in DOMAIN maps
                                 /\ maps[r.map].series = r.series /\ maps[r.map].valve = <<r.match, r.number>>
                 /\ r.series # 0 => r.series = market[r.match].series
      <3>1. CASE r \in odds
        BY <3>1 DEF SeriesInv, PricesFit
      <3>2. CASE r = row
        BY <1>2, <1>4, <1>6, <2>1, <3>2
      <3> QED
        BY <1>1, <3>1, <3>2
    <2> QED
      BY <1>1, <2>2 DEF PricesFit
  <1>10. Attached(series, card)' /\ NumbersFit'
    BY <1>1 DEF SeriesInv, Attached, Meets, NumbersFit
  <1> QED
    BY <1>8, <1>9, <1>10 DEF SeriesInv

(* Every step of Series keeps the invariant.                                *)
LEMMA SeriesStep == SeriesInv /\ [Meet!Next]_(Meet!vars) => SeriesInv'
  <1> SUFFICES ASSUME SeriesInv, [Meet!Next]_(Meet!vars) PROVE SeriesInv'
    OBVIOUS
  <1>1. CASE UNCHANGED Meet!vars
    <2>1. UNCHANGED <<event, series, card, market, maps, odds>>
      BY <1>1 DEF Meet!vars
    <2> QED
      BY <2>1 DEF SeriesInv, Meet!TypeOK, Attached, Meets, NumbersFit, PricesFit
  <1>2. CASE Meet!Directory
    BY <1>2, DirectoryKeeps
  <1>3. CASE \E page \in [Matches -> UNION {Cards[m] : m \in Matches} \cup {Unknown}] :
                /\ \A m \in Matches : page[m] \in Cards[m] \cup {Unknown}
                /\ Meet!Project(page)
    BY <1>3, ProjectKeeps
  <1>4. CASE \E m \in Matches : \E l \in Listed[m] : Meet!Link(m, l)
    BY <1>4, LinkKeepsSeries
  <1>5. CASE \E g \in Games : \E n \in {g[2], Unknown} : Meet!Bootstrap(g, n)
    BY <1>5, BootstrapKeepsSeries
  <1>6. CASE \E g \in Games : \E own \in {Unknown, "other"} : Meet!Store(g, own)
    BY <1>6, StoreKeepsSeries
  <1>7. CASE \E g \in Games : Meet!Collect(g)
    BY <1>7, CollectKeeps
  <1> QED
    BY <1>1, <1>2, <1>3, <1>4, <1>5, <1>6, <1>7 DEF Meet!Next

(* What the invariant says of a series that is announced, and of prices     *)
LEMMA SeriesTold == SeriesInv => Meet!OneMeetingPerSeries /\ Meet!PricesAreFound
  <1> SUFFICES ASSUME SeriesInv PROVE Meet!OneMeetingPerSeries /\ Meet!PricesAreFound
    OBVIOUS
  <1>1. \A m, x \in Matches : \A i : Meets(series, i, m) /\ Meets(series, i, x) => m = x
    BY TimesTell DEF Meets
  <1>2. /\ \A m \in Matches : card[m] # 0 => Meets(series, card[m], m)
        /\ \A m \in Matches : market[m].series # 0 => Meets(series, market[m].series, m)
        /\ \A k \in DOMAIN maps : Meets(series, maps[k].series, maps[k].valve[1])
    BY DEF SeriesInv, Attached
  <1>3. \A i \in Meet!Backed : i # 0 /\ \E x \in Matches : i = card[x] /\ Meets(series, i, x)
    BY <1>2 DEF Meet!Backed
  <1>4. \A m, x \in Matches : card[m] # 0 /\ card[m] = card[x] => m = x
    BY <1>1, <1>2
  <1>5. \A m \in Matches : market[m].series \in Meet!Backed => market[m].series = card[m]
    BY <1>1, <1>2, <1>3
  <1>6. ASSUME NEW k \in DOMAIN maps, maps[k].series \in Meet!Backed
        PROVE  maps[k].series = card[maps[k].valve[1]]
    <2>1. maps[k].valve[1] \in Matches
      BY MapEntry DEF SeriesInv
    <2> QED
      BY <1>1, <1>2, <1>3, <1>6, <2>1
  <1>7. Meet!PricesAreFound
    BY DEF SeriesInv, PricesFit, Meet!PricesAreFound
  <1> QED
    BY <1>4, <1>5, <1>6, <1>7 DEF Meet!OneMeetingPerSeries
-----------------------------------------------------------------------------
(* All that names a team, a player or a series: each part keeps its own     *)
(* invariant.                                                               *)
PartInv ==
    /\ part = "teams" => NamedInv
    /\ part = "series" => SeriesInv
    /\ part = "rosters" => RosterInv

(* Identity: the teams that the providers of history name and the result    *)
(* they settle (Teams), the series that schedule, market and games find     *)
(* (Series) and the memberships that the team pages show (Rosters).         *)
THEOREM IdentityAlwaysTold == SumSpec => []IdentityIsTold
<1>1. SumInit => PartInv
  BY NamedBegins, SeriesBegins, RosterBegins DEF SumInit, PartInv
<1>2. PartInv /\ [SumNext]_<<part, vars, marketVars, teamVars, seriesVars, rosterVars>> => PartInv'
  <2> SUFFICES ASSUME PartInv, [SumNext]_<<part, vars, marketVars, teamVars, seriesVars, rosterVars>>
               PROVE  PartInv'
    OBVIOUS
  <2>s. part' = part
    BY DEF SumNext
  <2>1. ASSUME part = "teams" PROVE NamedInv'
    <3>1. (Who!Next /\ BothNamed) \/ UNCHANGED Who!vars
      BY <2>1 DEF SumNext, teamVars, Who!vars
    <3> QED
      BY <2>1, <3>1, NamedStep DEF PartInv
  <2>2. ASSUME part = "series" PROVE SeriesInv'
    <3>1. [Meet!Next]_(Meet!vars)
      BY <2>2 DEF SumNext, seriesVars, Meet!vars
    <3> QED
      BY <2>2, <3>1, SeriesStep DEF PartInv
  <2>3. ASSUME part = "rosters" PROVE RosterInv'
    <3>1. [RosterNext]_rosterVars
      BY <2>3 DEF SumNext
    <3> QED
      BY <2>3, <3>1, RosterStep DEF PartInv
  <2> QED
    BY <2>s, <2>1, <2>2, <2>3 DEF PartInv
<1>3. PartInv => IdentityIsTold
  BY ConflictsAreReal, StoredWhole, SeriesTold 
     DEF PartInv, IdentityIsTold, NamedInv, TeamsInv, SeriesInv, RosterInv, RosterTypes, RosterIsTold
<1> QED
  BY <1>1, <1>2, <1>3, PTL DEF SumSpec
=============================================================================
