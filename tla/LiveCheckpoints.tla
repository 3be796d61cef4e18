-------------------------- MODULE LiveCheckpoints --------------------------
(***************************************************************************)
(* How a live map's decision checkpoints come due.                         *)
(*                                                                         *)
(* DltvSocketCollector writes observations and domain events; the          *)
(* bootstrap handler learns the real start of the map and writes an        *)
(* observation of its own; a checkpoint is measured on real time since the *)
(* picks ended when that start is known, else on the broadcast clock the   *)
(* messages carry; ReconciliationService sweeps what the collector missed. *)
(* What the recorded events lead to is Snapshots.tla.                      *)
(*                                                                         *)
(* Time is real time since the picks ended, in ticks of one reconciliation *)
(* interval.                                                               *)
(***************************************************************************)
EXTENDS Integers

CONSTANTS
    Minutes,       \* checkpoint_minutes, in ticks
    Horizon,       \* the time at which the model stops its clock
    Lead,          \* how far the broadcast clock may run ahead (it may count the picks)
    MaxAge,        \* live_state_max_age_seconds
    Grace,         \* checkpoint_sweep_grace_seconds
    MaxFaults      \* bound on restarts, lost commits and failed passes

ASSUME CheckpointAssumption ==
    /\ Horizon \in Nat /\ Minutes \subseteq 1 .. Horizon
    /\ Lead \in Nat /\ MaxFaults \in Nat

(* A state is live for at least one reconciliation interval, and checkpoints *)
(* lie no closer than the grace: 120 s and 60 s, 5 min and 300 s by default. *)
ASSUME ScheduleAssumption ==
    /\ MaxAge \in Nat \ {0} /\ Grace \in Nat
    /\ \A m, n \in Minutes : m < n => m + Grace <= n

VARIABLES
    now,           \* the clock
    obs,           \* the newest DltvLiveObservationRecord of the map
    bootstrap,     \* the newest DLTV_BOOTSTRAP: "none", "blank" or "anchor"
    booted,        \* the discoveries whose bootstrap job ran
    lastReal,      \* the collector's _last_real_elapsed, -1 when it has none
    anchored,      \* the collector's _live_anchors holds the map
    recorded,      \* the rows of domain_events
    heard,         \* checkpoints whose window the stream proved alive
    swept,         \* the reconciliation ran in this tick
    faults

vars == << now, obs, bootstrap, booted, lastReal, anchored, recorded, heard, swept,
           faults >>

collector == << lastReal, anchored >>
provider  == << bootstrap, booted >>

Time   == 0 .. Horizon
NoTime == -1                                \* game_time_seconds is None
GameTime == { NoTime } \cup Time
Absent == -2                                \* the patch has no game_time
Patch  == { Absent } \cup GameTime
NoObs  == [ game |-> NoTime, at |-> -1 ]

Started  == [ type |-> "MAP_STARTED", key |-> 0 ]
Due(m)   == [ type |-> "DECISION_CHECKPOINT_DUE", key |-> m ]
Found    == [ type |-> "DLTV_MATCH_DISCOVERED", key |-> 0 ]
Regained == [ type |-> "DLTV_MATCH_DISCOVERED", key |-> 1 ]     \* after a reconnect

Discoveries == { Found, Regained }
Checkpoints == { Due(m) : m \in Minutes }
Events      == { Started } \cup Discoveries \cup Checkpoints

-----------------------------------------------------------------------------
(* EventRepository.record inserts a (event_type, dedupe_key) once; a second *)
(* insert leaves the first row as it is.                                    *)
Record(events) == recorded' = recorded \cup events

(* A map is known once its bootstrap resolved it to a canonical map. *)
MapKnown == bootstrap # "none"

(* picks_ended_anchor: the newest bootstrap carries is_picks_ended_time. *)
AnchorKnown == bootstrap = "anchor"

Latest(ms) == { m \in ms : \A n \in ms : n <= m }

(* record_crossed_checkpoints: the checkpoints between two readings of a    *)
(* clock; a first reading fires only the last one it is past.              *)
Crossed(before, current) ==
    LET crossed == { m \in Minutes : before < m /\ m <= current }
    IN  IF before = NoTime THEN Latest(crossed) ELSE crossed

-----------------------------------------------------------------------------
Init ==
    /\ now = 0
    /\ obs = NoObs
    /\ bootstrap = "none" /\ booted = {}
    /\ lastReal = NoTime /\ anchored = FALSE
    /\ recorded = {} /\ heard = {}
    /\ swept = FALSE
    /\ faults = 0

(* The clock moves on once the periodic reconciliation had its turn. *)
Tick ==
    /\ now < Horizon /\ swept
    /\ now' = now + 1
    /\ swept' = FALSE
    /\ UNCHANGED << obs, provider, collector, recorded, heard, faults >>

Fault ==
    /\ faults < MaxFaults
    /\ faults' = faults + 1

-----------------------------------------------------------------------------
(* DltvSocketCollector.collect on a match message: the game time the patch *)
(* carries, whether the connection is a new one.  Another field may change *)
(* with any patch, and the patch that changes nothing is Repeat.           *)

(* reduce_fast_state: a patch without a game time, or with an earlier one,  *)
(* keeps the last; an explicit null clears it.                              *)
Merged(game) ==
    IF game > obs.game THEN game ELSE IF game = NoTime THEN NoTime ELSE obs.game

(* The clock a checkpoint is measured on: real time when the anchor is      *)
(* known (cached, or in the newest bootstrap), else the broadcast clock.    *)
OnRealTime == anchored \/ AnchorKnown

SlipBroadcastFirst(game) ==
    IF OnRealTime /\ lastReal # NoTime THEN Crossed(lastReal, now)
                                       ELSE Crossed(obs.game, Merged(game))
CrossedBy(game) ==
    IF OnRealTime THEN Crossed(lastReal, now)
                  ELSE Crossed(obs.game, Merged(game))

SlipStartFromZero(game) == IF obs.game = 0 /\ Merged(game) > 0 THEN { Started } ELSE {}
StartsWith(game) == IF obs.game <= 0 /\ Merged(game) > 0 THEN { Started } ELSE {}

Reconnects(again) == IF again THEN { Regained } ELSE {}

(* A committed observation inside a checkpoint's window, early enough for a *)
(* sweep to follow, with the anchor readable: from here on the checkpoint    *)
(* may be lost only with the anchor or with a failed pass.                   *)
Heard == IF AnchorKnown THEN { m \in Minutes : m <= now /\ now + 1 < m + Grace } ELSE {}

(* The dictionaries of the collector change while the transaction is open:  *)
(* a commit that fails keeps them.                                          *)
Remember ==
    /\ anchored' = OnRealTime
    /\ lastReal' = IF OnRealTime THEN now ELSE lastReal

Broadcast(game) == game <= now + Lead

UnknownMap ==
    /\ ~MapKnown
    /\ Record({ Found })
    /\ UNCHANGED << now, obs, provider, collector, heard, swept, faults >>

Message(game, again) ==
    /\ MapKnown /\ Broadcast(game)
    /\ obs' = [ game |-> Merged(game), at |-> now ]
    /\ Record(StartsWith(game) \cup Reconnects(again)
                 \cup { Due(m) : m \in CrossedBy(game) })
    /\ Remember
    /\ heard' = heard \cup Heard
    /\ UNCHANGED << now, provider, swept, faults >>

(* A message that changes nothing moves only freshness metadata; it still   *)
(* may be the first of a new connection.                                    *)
Repeat ==
    /\ MapKnown
    /\ Record({ Regained })
    /\ UNCHANGED << now, obs, provider, collector, heard, swept, faults >>

LostMessage ==
    /\ MapKnown
    /\ Remember
    /\ Fault
    /\ UNCHANGED << now, obs, provider, recorded, heard, swept >>

Restart ==
    /\ Fault
    /\ lastReal' = NoTime /\ anchored' = FALSE
    /\ UNCHANGED << now, obs, provider, recorded, heard, swept >>

-----------------------------------------------------------------------------
(* _append_bootstrap_fast_state: the payload's state, built from nothing,   *)
(* becomes an observation unless the latest has the same hash; it may take  *)
(* the clock back or leave it unknown.                                      *)
Appended(game, fresh) == IF fresh THEN [ game |-> game, at |-> now ] ELSE obs

(* A BOOTSTRAP_DLTV_MATCH job archives the payload, which may carry the     *)
(* picks-ended time, and appends its state.                                 *)
Bootstrap(e, kind, game, fresh) ==
    /\ e \in recorded \ booted
    /\ Broadcast(game)
    /\ fresh \/ game \in { NoTime, obs.game }
    /\ booted' = booted \cup { e }
    /\ bootstrap' = kind
    /\ obs' = Appended(game, fresh)
    /\ Record(IF game > 0 THEN { Started } ELSE {})
    /\ heard' = IF kind = "anchor" THEN heard ELSE { m \in heard : Due(m) \in recorded }
    /\ UNCHANGED << now, collector, swept, faults >>

-----------------------------------------------------------------------------
(* ReconciliationService.run: the missing MAP_STARTED and the swept          *)
(* checkpoints, in one transaction.                                          *)

Live == obs # NoObs /\ now <= obs.at + MaxAge

Overdue == { m \in Minutes : /\ Due(m) \notin recorded
                             /\ m <= now /\ now <= m + Grace }

(* _reconcile_live_checkpoints: with nothing recorded yet, only the last.    *)
SlipNothingToCompare ==
    IF ~(Live /\ AnchorKnown) \/ Checkpoints \cap recorded = {} THEN {} ELSE Overdue
Sweep ==
    IF ~(Live /\ AnchorKnown) THEN {}
    ELSE IF Checkpoints \cap recorded = {} THEN Latest(Overdue) ELSE Overdue

MissingStart == IF obs.game > 0 THEN { Started } ELSE {}

Reconcile ==
    /\ Record(MissingStart \cup { Due(m) : m \in Sweep })
    /\ swept' = TRUE
    /\ UNCHANGED << now, obs, provider, collector, heard, faults >>

(* The pass raises somewhere and rolls back as a whole. *)
ReconcileFails ==
    /\ ~swept
    /\ Fault
    /\ swept' = TRUE
    /\ heard' = { m \in heard : Due(m) \in recorded }
    /\ UNCHANGED << now, obs, provider, collector, recorded >>

-----------------------------------------------------------------------------
Next ==
    \/ Tick \/ UnknownMap \/ Repeat \/ LostMessage \/ Restart
    \/ Reconcile \/ ReconcileFails
    \/ \E game \in Patch, again \in BOOLEAN : Message(game, again)
    \/ \E e \in Discoveries, kind \in { "blank", "anchor" }, game \in GameTime,
          fresh \in BOOLEAN : Bootstrap(e, kind, game, fresh)

Spec == Init /\ [][Next]_vars

-----------------------------------------------------------------------------
TypeOK ==
    /\ now \in Time
    /\ obs \in [ game : GameTime, at : { -1 } \cup Time ]
    /\ bootstrap \in { "none", "blank", "anchor" } /\ booted \subseteq Discoveries
    /\ lastReal \in GameTime /\ anchored \in BOOLEAN
    /\ recorded \subseteq Events /\ heard \subseteq Minutes
    /\ swept \in BOOLEAN /\ faults \in 0 .. MaxFaults

(* A checkpoint whose window the stream was heard in is not lost: what the   *)
(* collector forgets (a lost commit keeps its memory, a restart clears it)   *)
(* the sweep records before the grace has run out.                           *)
NoCheckpointSkipped ==
    \A m \in heard : now < m + Grace \/ Due(m) \in recorded

(* Whoever writes the first observation with a positive clock, collector or  *)
(* bootstrap, has MAP_STARTED in the log with it.                            *)
StartIsRecorded == obs.game > 0 => Started \in recorded

(* Once the collector measures the map on real time, neither it nor the      *)
(* sweep records a checkpoint before its real minute, however far ahead the  *)
(* broadcast clock runs.                                                     *)
NeverEarlyOnRealTime ==
    [][ OnRealTime =>
          \A m \in Minutes : Due(m) \in recorded' \ recorded => m <= now ]_vars
=============================================================================
