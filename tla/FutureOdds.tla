----------------------------- MODULE FutureOdds -----------------------------
(***************************************************************************)
(* The odds that followed one decision: the pair of prices at a horizon    *)
(* after it, or the closing pair at the end of its map.  Either is         *)
(* captured by jobs, once, and again while it is MISSING; the two share    *)
(* nothing but the feed, so a behaviour follows one of them.  Time is      *)
(* counted in the buckets of five minutes that the keys of repeated jobs   *)
(* name; the decision is made at 0.  An event and the job it becomes are   *)
(* one step here (module Snapshots has the two).                           *)
(***************************************************************************)
EXTENDS Naturals, FiniteSets

CONSTANTS Legs,          \* the two odds ids of the market
          DueAt,         \* bucket of the horizon
          RetryWindow,   \* buckets a capture may come late
          MaxAge,        \* buckets after which a price is stale at the closing
          Horizon,       \* bound: last bucket
          MaxMoves,      \* bound: number of price messages
          MaxOddsFaults  \* bound: failed, repeated and late jobs

VARIABLES now,
          type,          \* the capture type this behaviour follows
          odds,          \* odds_observations of the two legs
          row,           \* its row of decision_future_odds
          jobs,          \* CAPTURE_FUTURE_ODDS jobs
          mapEnded,      \* occurred_at of the first MAP_ENDED
          firstUsable,   \* map_results.basic_first_usable_at
          swept,         \* the sweep has run in this bucket
          oddsFaults

oddsVars == <<now, type, odds, row, jobs, mapEnded, firstUsable, swept, oddsFaults>>

(* What the constants have to be; the module that gives them values assumes it. *)
FutureOddsAssumption ==
  /\ {DueAt, RetryWindow, MaxAge, Horizon, MaxMoves, MaxOddsFaults} \subseteq Nat
  /\ DueAt \in 1..Horizon /\ Cardinality(Legs) = 2

Types == {"horizon", "closing"}
Times == 0..Horizon
Never == Horizon + 1                    \* a time that is not set

Price == [leg : Legs, at : Times, open : BOOLEAN]

(* The key of a job: 0 for the first one, the bucket for a repeated one.    *)
Job == [bucket : Times, at : Times, state : {"queued", "done", "dead"}]

Row == [status : {"none", "MISSING", "CAPTURED"}, pair : SUBSET Price, at : Times \cup {Never}]

NoRow == [status |-> "none", pair |-> {}, at |-> Never]

(* build_snapshot schedules the horizon in the transaction of the snapshot. *)
OddsInit == /\ now = 0
            /\ odds = {}
            /\ type \in Types
            /\ row = NoRow
            /\ jobs = IF type = "horizon" THEN {[bucket |-> 0, at |-> DueAt, state |-> "queued"]} ELSE {}
            /\ mapEnded = Never /\ firstUsable = Never
            /\ swept = FALSE
            /\ oddsFaults = 0

Enqueued(all, new) == IF \E j \in all : j.bucket = new.bucket
                      THEN all ELSE all \cup {new}

(* With reopen_terminal: a dead job runs again, with the payload it had.    *)
Requeued(all, new) ==
  {IF j.bucket = new.bucket /\ j.state = "dead" THEN [j EXCEPT !.state = "queued"] ELSE j
     : j \in Enqueued(all, new)}

-----------------------------------------------------------------------------
(* The market: one message moves one or both legs, a leg is not moved twice *)
(* in a bucket.  What is received after the end of the map is no concern of *)
(* its closing pair.                                                        *)
Move(legs, open) ==
  /\ legs # {} /\ Cardinality(odds) + Cardinality(legs) =< MaxMoves
  /\ \A p \in odds : p.leg \in legs => p.at < now
  /\ mapEnded = Never /\ firstUsable = Never
  /\ odds' = odds \cup [leg : legs, at : {now}, open : {open}]
  /\ UNCHANGED <<now, type, row, jobs, mapEnded, firstUsable, swept, oddsFaults>>

(* The first price of every leg at or after a time, and the last before.    *)
FirstAfter(time) == {p \in odds : p.at >= time /\ \A q \in odds : q.leg = p.leg /\ q.at >= time => p.at =< q.at}

LastUpTo(time) == {p \in odds : p.at =< time /\ \A q \in odds : q.leg = p.leg /\ q.at =< time => q.at =< p.at}

(* evaluate_market_pair: both legs, together, fresh and not suspended.      *)
Eligible(pair, time) == /\ \A l \in Legs : \E p \in pair : p.leg = l
                        /\ \A p, q \in pair : p.at = q.at
                        /\ \A p \in pair : p.open /\ p.at + MaxAge >= time

HorizonPair == FirstAfter(DueAt)

\* Slip: the newest prices from the due time on.
SlipNewest(time) == IF type = "horizon" THEN {p \in LastUpTo(now) : p.at >= DueAt} ELSE LastUpTo(time)

(* A horizon is measured at the time of its own prices. *)
Evidence(time) == IF type = "horizon" THEN HorizonPair ELSE LastUpTo(time)

Quality(pair, time) == Eligible(pair, IF type = "horizon" THEN 0 ELSE time)

-----------------------------------------------------------------------------
(* capture and capture_closing: what is CAPTURED is left alone, what is     *)
(* MISSING is looked for again.                                             *)
\* Slip: the capture that comes first is the last word.
SlipTombstone(j) ==
  LET pair == Evidence(j.at)
      found == Quality(pair, j.at)
  IN  IF row.status # "none" THEN row
      ELSE [status |-> IF found THEN "CAPTURED" ELSE "MISSING", pair |-> IF found THEN pair ELSE {}, at |-> j.at]

Captured(j) ==
  LET pair == Evidence(j.at)
      found == Quality(pair, j.at)
  IN  IF row.status = "CAPTURED" THEN row
      ELSE [status |-> IF found THEN "CAPTURED" ELSE "MISSING", pair |-> IF found THEN pair ELSE {}, at |-> j.at]

Due(j) == j.state = "queued" /\ j.at =< now

Becomes(j, state) == jobs' = (jobs \ {j}) \cup {[j EXCEPT !.state = state]}

Capture(j) ==
  /\ Due(j) /\ row' = Captured(j) /\ Becomes(j, "done")
  /\ UNCHANGED <<now, type, odds, mapEnded, firstUsable, swept, oddsFaults>>

(* The handler has committed and its process dies: the job runs again.      *)
CaptureUnmarked(j) ==
  /\ Due(j) /\ oddsFaults < MaxOddsFaults /\ oddsFaults' = oddsFaults + 1
  /\ row' = Captured(j)
  /\ UNCHANGED <<now, type, odds, jobs, mapEnded, firstUsable, swept>>

(* Its attempts are used up. *)
CaptureDies(j) ==
  /\ Due(j) /\ oddsFaults < MaxOddsFaults /\ oddsFaults' = oddsFaults + 1
  /\ Becomes(j, "dead")
  /\ UNCHANGED <<now, type, odds, row, mapEnded, firstUsable, swept>>

-----------------------------------------------------------------------------
(* The end of the map.  Its time may lie in the past: a frame that had to   *)
(* wait for the identity of the map keeps the time it was received at.      *)
MapEnds(time) ==
  /\ type = "closing" /\ mapEnded = Never /\ time \in {now, now - 1} \cap Times
  /\ mapEnded' = time
  /\ jobs' = Enqueued(jobs, [bucket |-> 0, at |-> time, state |-> "queued"])
  /\ UNCHANGED <<now, type, odds, row, firstUsable, swept, oddsFaults>>

ResultArrives ==
  /\ type = "closing" /\ firstUsable = Never /\ firstUsable' = now
  /\ UNCHANGED <<now, type, odds, row, jobs, mapEnded, swept, oddsFaults>>

(* _reconcile_future_odds.                                                  *)
Trigger == IF type = "horizon" THEN DueAt
           ELSE IF mapEnded # Never THEN mapEnded ELSE firstUsable

(* A row that is MISSING is looked for under a key of this bucket.          *)
Bucket == IF row.status = "MISSING" /\ now >= Trigger THEN now ELSE 0

Wanted == /\ Trigger # Never /\ row.status # "CAPTURED"
          /\ (type = "closing" => now >= Trigger) /\ now =< Trigger + RetryWindow

ReconcileOdds ==
  /\ jobs' = IF Wanted THEN Requeued(jobs, [bucket |-> Bucket, at |-> Trigger, state |-> "queued"]) ELSE jobs
  /\ swept' = TRUE
  /\ UNCHANGED <<now, type, odds, row, mapEnded, firstUsable, oddsFaults>>

(* The sweep comes every minute and the worker polls every second: a bucket *)
(* does not end before a sweep, nor while a job is due, unless something is *)
(* late.                                                                    *)
Tick ==
  /\ now < Horizon /\ now' = now + 1 /\ swept' = FALSE
  /\ IF swept /\ ~\E j \in jobs : Due(j)
     THEN UNCHANGED oddsFaults
     ELSE oddsFaults < MaxOddsFaults /\ oddsFaults' = oddsFaults + 1
  /\ UNCHANGED <<type, odds, row, jobs, mapEnded, firstUsable>>

OddsNext == \/ \E legs \in SUBSET Legs, open \in BOOLEAN : Move(legs, open)
            \/ \E j \in jobs : Capture(j) \/ CaptureUnmarked(j) \/ CaptureDies(j)
            \/ \E time \in Times : MapEnds(time)
            \/ ResultArrives \/ ReconcileOdds \/ Tick

OddsSpec == OddsInit /\ [][OddsNext]_oddsVars

-----------------------------------------------------------------------------
(* Types, one job per dedupe key, and no price from after the end of the    *)
(* map in its closing pair (FutureOddsService.capture_closing).             *)
OddsTypeOK == /\ now \in Times /\ odds \subseteq Price /\ type \in Types /\ row \in Row /\ jobs \subseteq Job
              /\ mapEnded \in Times \cup {Never} /\ firstUsable \in Times \cup {Never}
              /\ swept \in BOOLEAN /\ oddsFaults \in 0..MaxOddsFaults
              /\ \A j, k \in jobs : j.bucket = k.bucket => j = k
              /\ type = "closing" => \A p \in row.pair : p.at =< row.at

(* What is captured for a horizon does not depend on when the job ran, was  *)
(* repeated or was asked for again: it is the first price of each leg from  *)
(* the due time on (FutureOddsService.capture).                             *)
HorizonIsTimeless == type = "horizon" /\ row.status = "CAPTURED" => row.pair = HorizonPair

(* MISSING is not the last word: an eligible pair of first prices that      *)
(* arrives while the sweep still has a bucket to itself, and one for every  *)
(* fault, is captured (_reconcile_future_odds).                             *)
HorizonIsAnswered ==
  LET pair == HorizonPair
      time == IF pair = {} THEN Never ELSE (CHOOSE p \in pair : TRUE).at
  IN  type = "horizon" /\ now > DueAt + RetryWindow /\ Eligible(pair, 0) /\ time + 1 + oddsFaults =< DueAt + RetryWindow
        => row.status = "CAPTURED"

(* A map that has ended, or at least has a result, gets its closing row,    *)
(* with or without MAP_ENDED, unless faults use up the retry window.            *)
ClosingIsAnswered ==
  type = "closing" /\ Trigger # Never /\ now > Trigger + 1 + oddsFaults /\ oddsFaults < RetryWindow => row.status # "none"

(* The two answers that the sweep owes a decision.                          *)
CapturesAreAnswered == HorizonIsAnswered /\ ClosingIsAnswered
=============================================================================
