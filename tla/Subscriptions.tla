---------------------------- MODULE Subscriptions ----------------------------
(***************************************************************************)
(* The Pro plan bought through Paddle (PaddleBillingGateway) and what the  *)
(* webhooks make of it (BillingEntitlementService).                        *)
(*                                                                         *)
(* A purchase is a transaction that the server opened at Paddle and wrote  *)
(* down; a recurring one becomes a subscription with a reference of its    *)
(* own, a fixed term keeps the reference of its transaction.  Webhooks     *)
(* arrive in any order, again and concurrently.  Each is handled in steps: *)
(* read what is known of its purchase, apply it under the locks of its     *)
(* event and of its subscription, and close the checkout.  A webhook that  *)
(* is ignored, refused or repeated changes nothing and is no step here.    *)
(***************************************************************************)
EXTENDS Integers, Sequences, FiniteSets

CONSTANTS
    Transactions,    \* checkouts that can be opened
    Recurring,       \* those of the recurring offer
    SubscriptionOf,  \* the subscription each of these becomes
    Days,            \* length of a billing period, or of the fixed term
    Horizon,         \* bound: the last moment
    MaxEvents        \* bound: webhooks that Paddle sends

Reference(t) == IF t \in Recurring THEN SubscriptionOf[t] ELSE t
References == {Reference(t) : t \in Transactions}
Purchase(r) == CHOOSE t \in Transactions : Reference(t) = r

SubscriptionsAssumption ==
    /\ Recurring \subseteq Transactions
    /\ \A t, u \in Transactions : Reference(t) = Reference(u) => t = u
    /\ Days \in Nat \ {0} /\ Horizon \in Nat /\ MaxEvents \in Nat

VARIABLES
    clock,
    purchase,        \* billing_checkouts, and what Paddle alone knows of them
    webhooks,        \* the events Paddle sent, by event reference
    verdict,         \* billing_events
    handling,        \* what the handler of a webhook has read
    subscription,    \* billing_subscriptions
    entitled         \* user_entitlements, by billing source

billingVars == <<clock, purchase, webhooks, verdict, handling, subscription, entitled>>

Kinds == {"completed", "created", "active", "inactive", "refund"}
Absent == [state |-> "ABSENT", blocked |-> FALSE, last |-> 0, until |-> 0]
NoGrant == [status |-> "ABSENT", since |-> 0, until |-> 0]
Idle == [pc |-> "idle", blocked |-> FALSE, closes |-> FALSE, until |-> 0]
Times == 0..(Horizon + Days)

BillingTypeOK ==
    /\ clock \in 0..Horizon
    /\ purchase \in [Transactions -> {"NONE", "OPENED", "PENDING", "COMPLETED"}]
    /\ webhooks \in Seq([kind: Kinds, ref: References, occurred: 0..Horizon])
    /\ verdict \in [1..MaxEvents -> {"none", "applied", "stale"}]
    /\ handling \in [1..MaxEvents ->
           [pc: {"idle", "read", "applied"}, blocked: BOOLEAN, closes: BOOLEAN,
            until: Times]]
    /\ subscription \in [References ->
           [state: {"ABSENT", "ACTIVE", "INACTIVE"}, blocked: BOOLEAN, last: 0..Horizon,
            until: Times]]
    /\ entitled \in [References ->
           [status: {"ABSENT", "ACTIVE", "REVOKED"}, since: 0..Horizon, until: Times]]

BillingInit ==
    /\ clock = 0
    /\ purchase = [t \in Transactions |-> "NONE"]
    /\ webhooks = <<>>
    /\ verdict = [i \in 1..MaxEvents |-> "none"]
    /\ handling = [i \in 1..MaxEvents |-> Idle]
    /\ subscription = [r \in References |-> Absent]
    /\ entitled = [r \in References |-> NoGrant]

-----------------------------------------------------------------------------
(* Checkouts of one account: one more is refused while it has a purchase    *)
(* that is active and paid up.                                              *)
ActivePurchase ==
    \E r \in References : subscription[r].state = "ACTIVE" /\ subscription[r].until > clock

(* create_checkout asks Paddle, and writes down what Paddle opened; between *)
(* the two the request may end.                                             *)
OpenCheckout(t) ==
    /\ purchase[t] = "NONE" /\ ~ActivePurchase
    /\ purchase' = [purchase EXCEPT ![t] = "OPENED"]
    /\ UNCHANGED <<clock, webhooks, verdict, handling, subscription, entitled>>

RecordCheckout(t) ==
    /\ purchase[t] = "OPENED"
    /\ purchase' = [purchase EXCEPT ![t] = "PENDING"]
    /\ UNCHANGED <<clock, webhooks, verdict, handling, subscription, entitled>>

-----------------------------------------------------------------------------
(* Paddle.                                                                  *)
Sent(kinds, r) == \E i \in DOMAIN webhooks : webhooks[i].kind \in kinds /\ webhooks[i].ref = r

MaySend(kind, r) ==
    LET t == Purchase(r) IN
    CASE kind = "completed" -> purchase[t] # "NONE" /\ ~Sent({"completed"}, r)
      [] kind = "created"   -> t \in Recurring /\ purchase[t] # "NONE" /\ ~Sent({"created"}, r)
      [] kind = "refund"    -> Sent({"completed"}, r)
      [] OTHER              -> Sent({"created"}, r)

Paddle(kind, r) ==
    /\ Len(webhooks) < MaxEvents
    /\ MaySend(kind, r)
    /\ webhooks' = Append(webhooks, [kind |-> kind, ref |-> r, occurred |-> clock])
    /\ UNCHANGED <<clock, purchase, verdict, handling, subscription, entitled>>

Tick ==
    /\ clock < Horizon
    /\ clock' = clock + 1
    /\ UNCHANGED <<purchase, webhooks, verdict, handling, subscription, entitled>>

-----------------------------------------------------------------------------
(* Webhooks.  What the handler of a kind needs to find: the checkout that   *)
(* the server wrote down, or the subscription.                              *)
Known(e) ==
    \/ e.kind = "completed" /\ purchase[Purchase(e.ref)] \in {"PENDING", "COMPLETED"}
    \/ e.kind = "created" /\ (\/ purchase[Purchase(e.ref)] \in {"PENDING", "COMPLETED"}
                              \/ subscription[e.ref].state # "ABSENT")
    \/ e.kind \in {"active", "inactive", "refund"} /\ subscription[e.ref].state # "ABSENT"

Read(i) ==
    LET e == webhooks[i]
        s == subscription[e.ref]
    IN
    /\ handling[i].pc = "idle"
    /\ Known(e)
    /\ handling' = [handling EXCEPT ![i] =
           [pc |-> "read", blocked |-> s.blocked, until |-> s.until,
            closes |-> e.kind = "completed" \/ (e.kind = "created" /\ s = Absent)]]
    /\ UNCHANGED <<clock, purchase, webhooks, verdict, subscription, entitled>>

(* What the handler asks apply_subscription_event for.                      *)
SlipForgetsBlock(e, read) ==
    IF e.kind = "refund"
    THEN [state |-> "INACTIVE", blocked |-> TRUE, last |-> e.occurred, until |-> read.until]
    ELSE IF e.kind \in {"created", "active", "inactive"}
    THEN [state |-> IF e.kind = "inactive" THEN "INACTIVE" ELSE "ACTIVE",
          blocked |-> FALSE, last |-> e.occurred, until |-> e.occurred + Days]
    ELSE [state |-> "ACTIVE", blocked |-> FALSE, last |-> e.occurred,
          until |-> e.occurred + Days]
Requested(e, read) ==
    IF e.kind = "refund"
    THEN [state |-> "INACTIVE", blocked |-> TRUE, last |-> e.occurred, until |-> read.until]
    ELSE IF e.kind \in {"created", "active", "inactive"}
    THEN [state |-> IF e.kind = "inactive" \/ read.blocked THEN "INACTIVE" ELSE "ACTIVE",
          blocked |-> read.blocked, last |-> e.occurred, until |-> e.occurred + Days]
    ELSE [state |-> "ACTIVE", blocked |-> FALSE, last |-> e.occurred,
          until |-> e.occurred + Days]

SlipNeverStale(e) == FALSE
Stale(e) == /\ subscription[e.ref].state # "ABSENT"
            /\ e.occurred < subscription[e.ref].last

(* The rows of user_entitlements: the two entitlements of the plan move     *)
(* together.                                                                *)
Granted(grant, wanted) ==
    IF wanted.state = "ACTIVE"
    THEN [status |-> "ACTIVE", since |-> wanted.last, until |-> wanted.until]
    ELSE IF grant = NoGrant THEN grant ELSE [grant EXCEPT !.status = "REVOKED"]

Apply(i) ==
    LET e == webhooks[i]
        wanted == Requested(e, handling[i])
    IN
    /\ handling[i].pc = "read"
    /\ IF verdict[i] # "none"
       THEN UNCHANGED <<verdict, subscription, entitled>>
       ELSE IF Stale(e)
       THEN /\ verdict' = [verdict EXCEPT ![i] = "stale"]
            /\ UNCHANGED <<subscription, entitled>>
       ELSE /\ verdict' = [verdict EXCEPT ![i] = "applied"]
            /\ subscription' = [subscription EXCEPT ![e.ref] = wanted]
            /\ entitled' = [entitled EXCEPT ![e.ref] = Granted(@, wanted)]
    /\ handling' = [handling EXCEPT ![i] =
           IF @.closes THEN [Idle EXCEPT !.pc = "applied"] ELSE Idle]
    /\ UNCHANGED <<clock, purchase, webhooks>>

CompleteCheckout(i) ==
    /\ handling[i].pc = "applied"
    /\ purchase' = [purchase EXCEPT ![Purchase(webhooks[i].ref)] = "COMPLETED"]
    /\ handling' = [handling EXCEPT ![i] = Idle]
    /\ UNCHANGED <<clock, webhooks, verdict, subscription, entitled>>

(* The process dies or the database fails; Paddle will send it again.       *)
HandlerDies(i) ==
    /\ handling[i].pc # "idle"
    /\ handling' = [handling EXCEPT ![i] = Idle]
    /\ UNCHANGED <<clock, purchase, webhooks, verdict, subscription, entitled>>

-----------------------------------------------------------------------------
BillingNext ==
    \/ \E t \in Transactions : OpenCheckout(t) \/ RecordCheckout(t)
    \/ \E kind \in Kinds, r \in References : Paddle(kind, r)
    \/ \E i \in DOMAIN webhooks : Read(i) \/ Apply(i) \/ CompleteCheckout(i) \/ HandlerDies(i)
    \/ Tick

BillingSpec == BillingInit /\ [][BillingNext]_billingVars

-----------------------------------------------------------------------------
Verdicts(r) == {i \in DOMAIN webhooks : webhooks[i].ref = r /\ verdict[i] # "none"}

(* In whatever order the webhooks of a subscription arrive, the newest of   *)
(* them that arrived decides: it is active only by a payment or a sign of   *)
(* life that is no older than any refund or cancellation seen, and the      *)
(* entitlements say what the subscription says, until the same day.         *)
LatestWebhookDecides ==
    \A r \in References :
        /\ \A i \in Verdicts(r) : webhooks[i].occurred <= subscription[r].last
        /\ subscription[r].state # "ABSENT" =>
              \E i \in Verdicts(r) :
                  /\ verdict[i] = "applied" /\ webhooks[i].occurred = subscription[r].last
                  /\ subscription[r].state = "ACTIVE" => webhooks[i].kind \notin {"inactive", "refund"}
                  /\ entitled[r].status = "ACTIVE" => entitled[r].since = webhooks[i].occurred
        /\ (entitled[r].status = "ACTIVE") <=> (subscription[r].state = "ACTIVE")
        /\ entitled[r].status = "ACTIVE" => entitled[r].until = subscription[r].until

(* A refunded subscription comes back only through the payment itself, or   *)
(* through a webhook that had looked before the refund was applied.         *)
RefundKeepsBlocked ==
    [][\A r \in References :
           subscription[r].blocked /\ ~subscription'[r].blocked =>
               \E i \in DOMAIN webhooks :
                   /\ webhooks[i].ref = r /\ webhooks[i].occurred >= subscription[r].last
                   /\ handling[i].pc = "read"
                   /\ webhooks[i].kind = "completed" \/ ~handling[i].blocked]_billingVars
=============================================================================
