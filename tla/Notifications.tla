---------------------------- MODULE Notifications ----------------------------
(***************************************************************************)
(* One batch of AI decisions on its way to the bound WeChat accounts: the  *)
(* deliveries of NotificationCenterService, the SEND_WECHAT_DECISION job,  *)
(* and the handlers that run it (UserScopedWeChatClawBotService).          *)
(*                                                                         *)
(* A message leaves between two transactions: start_delivery before it,    *)
(* mark_sent or mark_failed after it.  The job queue keeps what            *)
(* JobContract promises; a worker that lost its lease may still run.       *)
(***************************************************************************)
EXTENDS Bindings, Integers

CONSTANTS
    Handlers,        \* the handlers that may run at a time
    SendAttempts      \* of a SEND_WECHAT_DECISION job

NotificationsAssumption ==
    /\ BindingsAssumption
    /\ SendAttempts \in Nat \ {0}
    /\ NoOne \notin Handlers
    /\ IsFiniteSet(Handlers)

VARIABLES
    delivery,        \* notification_deliveries of the batch, by destination
    batch,           \* the deliveries that the job was enqueued with
    sendJob,         \* the SEND_WECHAT_DECISION job and who runs it
    handler,         \* the handlers
    stale,           \* the snapshot is too old, or its map has a result
    muted,           \* decision_notifications_enabled() was false
    sent,            \* messages that reached each destination
    lost,            \* attempts whose outcome was never recorded, or doubled
    late,            \* destinations marked by a handler that had lost the job
    grace            \* see RevokedIsNotSent

deliveryVars == <<delivery, batch, sendJob, handler, stale, muted, sent, lost, late, grace>>
sendingVars == <<bindingVars, mishaps, deliveryVars>>

Open == {"PENDING", "FAILED", "SENDING"}
Ended == {"SENT", "EXPIRED", "CANCELLED"}

Idle == [pc |-> "idle", todo |-> {}, accounts |-> {}, at |-> NoOne, failed |-> FALSE]

SendingTypeOK ==
    /\ BindingsTypeOK
    /\ delivery \in [Accounts -> {"NONE"} \cup Open \cup Ended]
    /\ batch \subseteq Accounts
    /\ sendJob \in [status: {"ABSENT", "READY", "RUNNING", "SUCCEEDED", "FAILED"},
                left: 0..SendAttempts, owner: Handlers \cup {NoOne}]
    /\ handler \in [Handlers ->
           [pc: {"idle", "begin", "check", "expire", "loop", "send", "sent", "refused", "unbacked"},
            todo: SUBSET Accounts, accounts: SUBSET Accounts,
            at: Accounts \cup {NoOne}, failed: BOOLEAN]]
    /\ stale \in BOOLEAN /\ muted \in BOOLEAN
    /\ sent \in [Accounts -> Nat] /\ lost \in [Accounts -> Nat]
    /\ late \subseteq Accounts
    /\ grace \in [Accounts -> Int]

SendingInit ==
    /\ BindingsInit
    /\ delivery = [a \in Accounts |-> "NONE"]
    /\ batch = {}
    /\ sendJob = [status |-> "ABSENT", left |-> 0, owner |-> NoOne]
    /\ handler = [h \in Handlers |-> Idle]
    /\ stale = FALSE /\ muted = FALSE
    /\ sent = [a \in Accounts |-> 0]
    /\ lost = [a \in Accounts |-> 0]
    /\ late = {}
    /\ grace = [a \in Accounts |-> 0]

-----------------------------------------------------------------------------
(* A handler has a message to `a` in hand from the check to the answer.     *)
MessagesInHand(a) == {h \in Handlers : handler[h].pc = "send" /\ handler[h].at = a}

(* A step of the bindings.  A destination that loses its permission keeps   *)
(* the messages that are in hand at that moment, and no other.              *)
BindingsMove ==
    /\ \E u \in Users : BindingsStep(u)
    /\ grace' = [a \in Accounts |->
                    IF Permitted(a) /\ ~PermittedBy(binding', access', a)
                    THEN Cardinality(MessagesInHand(a)) ELSE grace[a]]
    /\ UNCHANGED <<delivery, batch, sendJob, handler, stale, muted, sent, lost, late>>

(* ensure_deliveries: a destination has one delivery of a batch.            *)
NewDeliveries == {a \in Accounts : Permitted(a) /\ delivery[a] = "NONE"}

(* prepare_decision_notification, in the transaction of the last decision:  *)
(* a delivery for every permitted destination, and the job.  A decision job *)
(* that repeats it finds the deliveries and the job, and adds the           *)
(* destinations that are new.                                               *)
Prepare ==
    /\ ~stale /\ ~muted
    /\ {a \in Accounts : Permitted(a)} # {}
    /\ delivery' = [a \in Accounts |-> IF a \in NewDeliveries THEN "PENDING" ELSE delivery[a]]
    /\ IF sendJob.status = "ABSENT"
       THEN /\ sendJob' = [status |-> "READY", left |-> SendAttempts, owner |-> NoOne]
            /\ batch' = NewDeliveries
            /\ NoMishap
       ELSE /\ Mishap
            /\ UNCHANGED <<sendJob, batch>>
    /\ UNCHANGED <<bindingVars, handler, stale, muted, sent, lost, late, grace>>

BecomesStale ==
    /\ ~stale
    /\ stale' = TRUE
    /\ UNCHANGED <<bindingVars, delivery, batch, sendJob, handler, muted, sent, lost, late, grace>>
    /\ NoMishap

Mute ==
    /\ Mishap
    /\ ~muted
    /\ muted' = TRUE
    /\ UNCHANGED <<bindingVars, delivery, batch, sendJob, handler, stale, sent, lost, late, grace>>

-----------------------------------------------------------------------------
(* The handler.  How it ends matters to the job only if it still owns it.   *)
Owns(h) == sendJob.status = "RUNNING" /\ sendJob.owner = h

GivenBack == [sendJob EXCEPT !.status = IF sendJob.left = 0 THEN "FAILED" ELSE "READY",
                             !.owner = NoOne]

(* An expired lease gives the job back whatever its attempts.               *)
Reclaimed == [sendJob EXCEPT !.status = "READY", !.owner = NoOne]

Ends(h, ok) ==
    /\ handler' = [handler EXCEPT ![h] = Idle]
    /\ sendJob' = IF ~Owns(h) THEN sendJob
                  ELSE IF ok THEN [sendJob EXCEPT !.status = "SUCCEEDED", !.owner = NoOne]
                  ELSE GivenBack

SameBatch == UNCHANGED <<bindingVars, batch, stale, muted, late>>

ClaimBatch(h) ==
    /\ sendJob.status = "READY"
    /\ handler[h].pc = "idle"
    /\ sendJob' = [status |-> "RUNNING", owner |-> h,
                left |-> IF sendJob.left = 0 THEN 0 ELSE sendJob.left - 1]
    /\ handler' = [handler EXCEPT ![h].pc = "begin"]
    /\ SameBatch /\ NoMishap
    /\ UNCHANGED <<delivery, sent, lost, grace>>

(* batch_delivery_ids: what is not sent, expired or cancelled.              *)
BatchDeliveries == {a \in Accounts : delivery[a] \in Open}

ListBatch(h) ==
    /\ handler[h].pc = "begin"
    /\ IF muted \/ BatchDeliveries = {}
       THEN Ends(h, TRUE)
       ELSE /\ handler' = [handler EXCEPT ![h].pc = "check", ![h].todo = BatchDeliveries]
            /\ UNCHANGED sendJob
    /\ SameBatch /\ NoMishap
    /\ UNCHANGED <<delivery, sent, lost, grace>>

(* The age of the snapshot and the result of its map are looked at once,    *)
(* and so are the stored accounts.                                          *)
Check(h) ==
    /\ handler[h].pc = "check"
    /\ handler' = [handler EXCEPT
           ![h].pc = IF stale THEN "expire" ELSE "loop",
           ![h].accounts = {a \in Accounts : store[a] # NoOne}]
    /\ SameBatch /\ NoMishap
    /\ UNCHANGED <<delivery, sendJob, sent, lost, grace>>

Mark(a, status) == delivery' = [delivery EXCEPT ![a] = status]

Expire(h, a) ==
    /\ handler[h].pc = "expire"
    /\ a \in handler[h].todo
    /\ Mark(a, "EXPIRED")
    /\ handler' = [handler EXCEPT ![h].todo = @ \ {a}]
    /\ SameBatch /\ NoMishap
    /\ UNCHANGED <<sendJob, sent, lost, grace>>

(* start_delivery: one transaction that checks everything again.  A start   *)
(* while another handler has the same message in hand is counted as lost.   *)
HasEnded(a) == delivery[a] \in Ended
SlipAsPrepared(a) == TRUE
StillPermitted(a) == Permitted(a)

StartDelivery(h, a) ==
    /\ handler[h].pc = "loop"
    /\ a \in handler[h].todo
    /\ \/ /\ HasEnded(a)
          /\ handler' = [handler EXCEPT ![h].todo = @ \ {a}]
          /\ UNCHANGED <<delivery, lost>>
       \/ /\ ~HasEnded(a) /\ ~StillPermitted(a)
          /\ Mark(a, "CANCELLED")
          /\ handler' = [handler EXCEPT ![h].todo = @ \ {a}]
          /\ UNCHANGED lost
       \/ /\ ~HasEnded(a) /\ StillPermitted(a)
          /\ Mark(a, "SENDING")
          /\ handler' = [handler EXCEPT
                 ![h].pc = IF a \in handler[h].accounts THEN "send" ELSE "unbacked",
                 ![h].at = a, ![h].todo = @ \ {a}]
          /\ lost' = [lost EXCEPT ![a] =
                 IF \E g \in Handlers : handler[g].at = a THEN @ + 1 ELSE @]
    /\ SameBatch /\ NoMishap
    /\ UNCHANGED <<sendJob, sent, grace>>

(* A message that reaches its destination.                                  *)
Reaches(a) ==
    /\ sent' = [sent EXCEPT ![a] = @ + 1]
    /\ grace' = IF Permitted(a) THEN grace ELSE [grace EXCEPT ![a] = @ - 1]

(* send_text: the message arrives; it is refused; it arrives and the answer *)
(* does not.                                                                *)
Send(h) ==
    LET a == handler[h].at IN
    /\ handler[h].pc = "send"
    /\ \/ /\ Reaches(a) /\ NoMishap
          /\ handler' = [handler EXCEPT ![h].pc = "sent"]
          /\ UNCHANGED lost
       \/ /\ handler' = [handler EXCEPT ![h].pc = "refused"]
          /\ NoMishap
          /\ UNCHANGED <<sent, lost, grace>>
       \/ /\ Reaches(a) /\ Mishap
          /\ handler' = [handler EXCEPT ![h].pc = "refused"]
          /\ lost' = [lost EXCEPT ![a] = @ + 1]
    /\ SameBatch
    /\ UNCHANGED <<delivery, sendJob>>

(* mark_sent, mark_failed, mark_expired: they look at nothing.              *)
Outcome(pc) ==
    CASE pc = "sent" -> "SENT" [] pc = "refused" -> "FAILED" [] pc = "unbacked" -> "EXPIRED"

MarkOutcome(h) ==
    /\ handler[h].pc \in {"sent", "refused", "unbacked"}
    /\ Mark(handler[h].at, Outcome(handler[h].pc))
    /\ handler' = [handler EXCEPT ![h].pc = "loop", ![h].at = NoOne,
                                  ![h].failed = @ \/ handler[h].pc = "refused"]
    /\ late' = IF Owns(h) THEN late ELSE late \cup {handler[h].at}
    /\ NoMishap
    /\ UNCHANGED <<bindingVars, batch, stale, muted, sendJob, sent, lost, grace>>

(* All targets had their turn; a failed one fails the job.                  *)
Finish(h) ==
    /\ handler[h].pc \in {"loop", "expire"}
    /\ handler[h].todo = {}
    /\ Ends(h, ~handler[h].failed)
    /\ SameBatch /\ NoMishap
    /\ UNCHANGED <<delivery, sent, lost, grace>>

(* Handlers stop where they are.  A message in the middle of send_text may  *)
(* arrive or not (those in `arrived` do); what was sent is not recorded.    *)
Stop(hs) ==
    \E arrived \in SUBSET {h \in hs : handler[h].pc = "send"} :
        LET new(a) == Cardinality({h \in arrived : handler[h].at = a})
            done(a) == Cardinality({h \in hs : handler[h].pc = "sent" /\ handler[h].at = a})
        IN  /\ sent' = [a \in Accounts |-> sent[a] + new(a)]
            /\ lost' = [a \in Accounts |-> lost[a] + new(a) + done(a)]
            /\ grace' = [a \in Accounts |-> IF Permitted(a) THEN grace[a] ELSE grace[a] - new(a)]

(* A transaction of the handler fails, between the deliveries or at the end *)
(* of one: it raises, and the job with it.                                  *)
SendingRaises(h) ==
    /\ handler[h].pc \notin {"idle", "send"}
    /\ Mishap
    /\ Stop({h})
    /\ Ends(h, FALSE)
    /\ SameBatch
    /\ UNCHANGED delivery

(* The lease runs out under a running handler, or the runner shuts down and *)
(* fails the job; the handler is cancelled later.                           *)
LeaseLost ==
    /\ sendJob.status = "RUNNING"
    /\ Mishap
    /\ sendJob' \in {Reclaimed, GivenBack}
    /\ SameBatch
    /\ UNCHANGED <<delivery, handler, sent, lost, grace>>

HandlerCancelled(h) ==
    /\ handler[h].pc # "idle"
    /\ ~Owns(h)
    /\ Stop({h})
    /\ handler' = [handler EXCEPT ![h] = Idle]
    /\ SameBatch /\ NoMishap
    /\ UNCHANGED <<delivery, sendJob>>

(* The process dies with its handlers, its logins and its requests.         *)
Crash ==
    /\ Mishap
    /\ BindingsLost
    /\ Stop(Handlers)
    /\ handler' = [h \in Handlers |-> Idle]
    /\ sendJob' = IF sendJob.status = "RUNNING" THEN Reclaimed ELSE sendJob
    /\ UNCHANGED <<delivery, batch, stale, muted, late>>

HandlerStep(h) ==
    \/ ClaimBatch(h) \/ ListBatch(h) \/ Check(h) \/ Send(h) \/ MarkOutcome(h)
    \/ Finish(h) \/ SendingRaises(h) \/ HandlerCancelled(h)
    \/ \E a \in Accounts : Expire(h, a) \/ StartDelivery(h, a)

SendingNext ==
    \/ BindingsMove
    \/ Prepare \/ BecomesStale \/ Mute \/ LeaseLost \/ Crash
    \/ \E h \in Handlers : HandlerStep(h)

SendingSpec == SendingInit /\ [][SendingNext]_sendingVars

-----------------------------------------------------------------------------
(* A retry for one target does not send to another that already has the     *)
(* message: a destination gets the batch once, and once more for every      *)
(* attempt whose outcome was lost before it was recorded.                   *)
SentOncePerLoss == \A a \in Accounts : sent[a] <= 1 + lost[a]

(* Binding, preference and entitlement are checked immediately before the   *)
(* send: after a revocation only the messages go out that a handler had in  *)
(* hand when it was made, however often the job is retried.                 *)
RevokedIsNotSent == \A a \in Accounts : grace[a] >= 0

(* A job that has succeeded has answered for every delivery it was enqueued *)
(* with: sent, expired or cancelled.  It takes a handler that lost its      *)
(* lease and marks late, or an operator who mutes the channel, to leave one *)
(* open.                                                                    *)
SuccessAnswersForAll ==
    sendJob.status = "SUCCEEDED" /\ ~muted =>
        \A a \in batch : delivery[a] \in Ended \/ a \in late

(* All of it, with the types.                                               *)
SendingIsSound ==
    /\ SendingTypeOK
    /\ FailedLoginStrandsNobody
    /\ SentOncePerLoss /\ RevokedIsNotSent /\ SuccessAnswersForAll
=============================================================================
