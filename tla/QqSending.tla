------------------------------ MODULE QqSending ------------------------------
(***************************************************************************)
(* One batch of AI decisions on its way to the QQ groups and configured    *)
(* targets: the SEND_QQ_DECISION job, the handlers that run it             *)
(* (UserScopedQQBotService), their calls to the bridge, and the bridge's   *)
(* outbox, which answers a repeated call without sending.                  *)
(*                                                                         *)
(* A call outlives the handler that made it: the client gives up after its *)
(* timeout, the bridge goes on.  The deliveries of the Notification Center *)
(* that go out with the batch are those of Notifications; here one of them *)
(* may fail.                                                               *)
(***************************************************************************)
EXTENDS QqInbox

CONSTANTS
    Senders,         \* the handlers that may run at a time
    Calls,           \* the calls that the bridge may have open at a time
    Configured,      \* QQ_BOT_DECISION_TARGETS
    QqAttempts       \* of a SEND_QQ_DECISION job

QqAssumption ==
    /\ InboxAssumption
    /\ Configured \subseteq Groups
    /\ QqAttempts \in Nat \ {0}
    /\ Unset \notin Senders \cup Calls \cup Groups

VARIABLES
    qqJob,           \* the job and who runs it
    sender,          \* the handlers
    call,            \* the calls in the bridge
    outbox,          \* of the bridge, on disk: what it answered for a target
    tooOld,          \* the snapshot is too old, or its map has a result
    switchedOff,     \* decision_notifications_enabled() is false
    reached,         \* messages that reached each target
    risked,          \* targets with calls that overlapped or lost their record
    excused,         \* a run ended without sending, as it should
    owed             \* the targets of the run that succeeded

outgoingVars == <<qqJob, sender, call, outbox, tooOld, switchedOff, reached, risked, excused, owed>>
qqVars == <<inboxVars, outgoingVars>>

RestingSender == [pc |-> "idle", due |-> {}, todo |-> {}, call |-> Unset, failed |-> FALSE]
FreeCall == [pc |-> "free", target |-> Unset]

OutgoingTypeOK ==
    /\ qqJob \in [status: {"ABSENT", "READY", "RUNNING", "SUCCEEDED", "FAILED"},
                  left: 0..QqAttempts, owner: Senders \cup {Unset}]
    /\ sender \in [Senders -> [pc: {"idle", "begin", "check", "loop"}, due: SUBSET Groups,
                   todo: SUBSET Groups, call: Calls \cup {Unset}, failed: BOOLEAN]]
    /\ call \in [Calls -> [pc: {"free", "unsent", "sent"}, target: Groups \cup {Unset}]]
    /\ outbox \in [Groups -> {"nothing", "id", "no id"}]
    /\ tooOld \in BOOLEAN /\ switchedOff \in BOOLEAN /\ excused \in BOOLEAN
    /\ reached \in [Groups -> Nat]
    /\ risked \in SUBSET Groups /\ owed \in SUBSET Groups

OutgoingInit ==
    /\ qqJob = [status |-> "ABSENT", left |-> 0, owner |-> Unset]
    /\ sender = [h \in Senders |-> RestingSender]
    /\ call = [k \in Calls |-> FreeCall]
    /\ outbox = [g \in Groups |-> "nothing"]
    /\ tooOld = FALSE /\ switchedOff = FALSE /\ excused = FALSE
    /\ reached = [g \in Groups |-> 0]
    /\ risked = {} /\ owed = {}

-----------------------------------------------------------------------------
(* _direct_decision_targets                                                 *)
DirectTargets == Configured \cup {g \in Groups : contact[g].wants}

(* prepare_decision_notification: the job is enqueued once.  Whether users  *)
(* have deliveries, which are a reason for a job of their own, is open.     *)
PrepareQq ==
    /\ qqJob.status = "ABSENT" /\ ~switchedOff /\ ~tooOld
    /\ qqJob' = [status |-> "READY", left |-> QqAttempts, owner |-> Unset]
    /\ UNCHANGED <<inboxVars, sender, call, outbox, tooOld, switchedOff, reached, risked, excused, owed>>

GrowsOld ==
    /\ ~tooOld
    /\ tooOld' = TRUE
    /\ UNCHANGED <<inboxVars, qqJob, sender, call, outbox, switchedOff, reached, risked, excused, owed>>

(* set_decision_notifications, by an operator or a chat.                    *)
Switch ==
    /\ QqMishap
    /\ switchedOff' = ~switchedOff
    /\ UNCHANGED <<inboxState, qqJob, sender, call, outbox, tooOld, reached, risked, excused, owed>>

-----------------------------------------------------------------------------
(* The handler.  How it ends matters to the job only if it still owns it.   *)
HoldsJob(h) == qqJob.status = "RUNNING" /\ qqJob.owner = h

JobAfter(h, ok) ==
    IF ~HoldsJob(h) THEN qqJob
    ELSE [qqJob EXCEPT !.owner = Unset,
              !.status = IF ok THEN "SUCCEEDED" ELSE IF qqJob.left = 0 THEN "FAILED" ELSE "READY"]

ClaimQq(h) ==
    /\ qqJob.status = "READY" /\ sender[h].pc = "idle"
    /\ qqJob' = [status |-> "RUNNING", owner |-> h, left |-> IF qqJob.left = 0 THEN 0 ELSE qqJob.left - 1]
    /\ sender' = [sender EXCEPT ![h].pc = "begin"]
    /\ UNCHANGED <<inboxVars, call, outbox, tooOld, switchedOff, reached, risked, excused, owed>>

(* A handler that finds nothing to send, or is too late, succeeds.          *)
EndsExcused(h) ==
    /\ sender' = [sender EXCEPT ![h] = RestingSender]
    /\ qqJob' = JobAfter(h, TRUE)
    /\ excused' = (excused \/ HoldsJob(h))
    /\ UNCHANGED owed

LookForTargets(h) ==
    /\ sender[h].pc = "begin"
    /\ IF switchedOff THEN EndsExcused(h)
       ELSE /\ sender' = [sender EXCEPT ![h].pc = "check", ![h].due = DirectTargets, ![h].todo = DirectTargets]
            /\ UNCHANGED <<qqJob, excused, owed>>
    /\ UNCHANGED <<inboxVars, call, outbox, tooOld, switchedOff, reached, risked>>

(* The age and the result of the map, after an await; then the deliveries,  *)
(* of which one may have failed.                                            *)
CheckAge(h) ==
    /\ sender[h].pc = "check"
    /\ IF tooOld THEN EndsExcused(h)
       ELSE /\ \E failed \in BOOLEAN :
                   sender' = [sender EXCEPT ![h].pc = "loop", ![h].failed = failed]
            /\ UNCHANGED <<qqJob, excused, owed>>
    /\ UNCHANGED <<inboxVars, call, outbox, tooOld, switchedOff, reached, risked>>

EndSending(h) ==
    /\ sender[h].pc = "loop" /\ sender[h].todo = {}
    /\ sender' = [sender EXCEPT ![h] = RestingSender]
    /\ qqJob' = JobAfter(h, ~sender[h].failed)
    /\ owed' = IF HoldsJob(h) THEN sender[h].due ELSE owed
    /\ UNCHANGED <<inboxVars, call, outbox, tooOld, switchedOff, reached, risked, excused>>

(* The lease runs out, whoever runs: the attempt is not charged again.      *)
LeaseRunsOut ==
    /\ QqMishap
    /\ qqJob.status = "RUNNING"
    /\ qqJob' = [qqJob EXCEPT !.status = "READY", !.owner = Unset]
    /\ UNCHANGED <<inboxState, sender, call, outbox, tooOld, switchedOff, reached, risked, excused, owed>>

(* The process of a handler dies; its call goes on in the bridge.           *)
SenderDies(h) ==
    /\ QqMishap
    /\ sender[h].pc # "idle"
    /\ sender' = [sender EXCEPT ![h] = RestingSender]
    /\ UNCHANGED <<inboxState, qqJob, call, outbox, tooOld, switchedOff, reached, risked, excused, owed>>

-----------------------------------------------------------------------------
(* A call of send_text.  The bridge answers from its outbox if it can; an   *)
(* answer that has no message id is an error to the client, each time.      *)
Done(row, g, ok) == [row EXCEPT !.todo = row.todo \ {g}, !.call = Unset, !.failed = row.failed \/ ~ok]

AnsweredFromOutbox(h, g) ==
    /\ sender[h].pc = "loop" /\ sender[h].call = Unset /\ g \in sender[h].todo
    /\ outbox[g] # "nothing"
    /\ sender' = [sender EXCEPT ![h] = Done(sender[h], g, outbox[g] = "id")]
    /\ UNCHANGED <<inboxVars, qqJob, call, outbox, tooOld, switchedOff, reached, risked, excused, owed>>

OpenFor(g) == {k \in Calls : call[k].pc # "free" /\ call[k].target = g}

PostText(h, g, k) ==
    /\ sender[h].pc = "loop" /\ sender[h].call = Unset /\ g \in sender[h].todo
    /\ outbox[g] = "nothing"
    /\ call[k].pc = "free"
    /\ call' = [call EXCEPT ![k] = [pc |-> "unsent", target |-> g]]
    /\ sender' = [sender EXCEPT ![h].call = k]
    /\ risked' = IF OpenFor(g) = {} THEN risked ELSE risked \cup {g}
    /\ UNCHANGED <<inboxVars, qqJob, outbox, tooOld, switchedOff, reached, excused, owed>>

(* What the handlers that wait for calls get from them.                     *)
AnswersTo(calls, ok) ==
    sender' = [h \in Senders |->
                  IF sender[h].call \in calls THEN Done(sender[h], call[sender[h].call].target, ok)
                  ELSE sender[h]]

TextReaches(k) ==
    /\ call[k].pc = "unsent"
    /\ call' = [call EXCEPT ![k].pc = "sent"]
    /\ reached' = [reached EXCEPT ![call[k].target] = @ + 1]
    /\ UNCHANGED <<inboxVars, qqJob, sender, outbox, tooOld, switchedOff, risked, excused, owed>>

(* QQ refuses it, or the bot is not connected.                              *)
TextRefused(k) ==
    /\ QqMishap
    /\ call[k].pc = "unsent"
    /\ call' = [call EXCEPT ![k] = FreeCall]
    /\ AnswersTo({k}, FALSE)
    /\ UNCHANGED <<inboxState, qqJob, outbox, tooOld, switchedOff, reached, risked, excused, owed>>

TextRecorded(k, result) ==
    /\ call[k].pc = "sent"
    /\ call' = [call EXCEPT ![k] = FreeCall]
    /\ outbox' = [outbox EXCEPT ![call[k].target] = result]
    /\ AnswersTo({k}, result = "id")
    /\ UNCHANGED <<inboxVars, qqJob, tooOld, switchedOff, reached, risked, excused, owed>>

(* The client gives up waiting: a failure, though the bridge goes on.       *)
CallTimesOut(h) ==
    /\ QqMishap
    /\ sender[h].call # Unset
    /\ sender' = [sender EXCEPT ![h] = Done(sender[h], call[sender[h].call].target, FALSE)]
    /\ UNCHANGED <<inboxState, qqJob, call, outbox, tooOld, switchedOff, reached, risked, excused, owed>>

(* The bridge restarts under its calls; its outbox is on disk.              *)
BridgeDies ==
    /\ BridgeRestarts
    /\ call' = [k \in Calls |-> FreeCall]
    /\ AnswersTo(Calls, FALSE)
    /\ risked' = risked \cup {g \in Groups : \E k \in OpenFor(g) : call[k].pc = "sent"}
    /\ UNCHANGED <<qqJob, outbox, tooOld, switchedOff, reached, excused, owed>>

-----------------------------------------------------------------------------
QqInit == InboxInit /\ OutgoingInit

SendingMove ==
    \/ PrepareQq \/ GrowsOld \/ Switch \/ LeaseRunsOut
    \/ \E h \in Senders :
          \/ ClaimQq(h) \/ LookForTargets(h) \/ CheckAge(h) \/ EndSending(h) \/ SenderDies(h)
          \/ CallTimesOut(h)
          \/ \E g \in Groups : AnsweredFromOutbox(h, g) \/ \E k \in Calls : PostText(h, g, k)
    \/ \E k \in Calls : TextReaches(k) \/ TextRefused(k) \/ \E result \in {"id", "no id"} : TextRecorded(k, result)

QqNext ==
    \/ InboxStep /\ UNCHANGED outgoingVars
    \/ SendingMove
    \/ BridgeDies

QqSpec == QqInit /\ [][QqNext]_qqVars

-----------------------------------------------------------------------------
(* However often the job is repeated, a target gets the batch once, unless  *)
(* two calls for it were open together or the bridge died with a message    *)
(* that was out and not recorded (idempotentSend, send_decision_notification). *)
OnceUnlessRisked == \A g \in Groups : g \notin risked => reached[g] <= 1

(* A job that succeeded reached every configured target and every group     *)
(* that its last run read as subscribed, unless that run was too late or    *)
(* switched off (the failures that send_decision_notification collects).    *)
SuccessReachesAll ==
    qqJob.status = "SUCCEEDED" =>
        excused \/ \A g \in Configured \cup owed : reached[g] >= 1

(* Both ways, with the types (one property of the run).                     *)
QqIsSound ==
    /\ InboxTypeOK /\ OutgoingTypeOK
    /\ NothingSkipped /\ LastWordCounts
    /\ OnceUnlessRisked /\ SuccessReachesAll
=============================================================================
