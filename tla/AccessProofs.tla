---------------------------- MODULE AccessProofs ----------------------------
(***************************************************************************)
(* Proofs about Subscriptions.tla, Accounts.tla, RuntimeConfig.tla and     *)
(* Drafts.tla, for any number of purchases, webhooks, inboxes, accounts,   *)
(* codes, slots, administrators, bootstraps, repairs and failures.         *)
(*                                                                         *)
(* Subscriptions: in whatever order webhooks are handled, the newest one   *)
(* that arrived decides, and a refund is not undone by what had happened   *)
(* before it.  Accounts: a code opens at most one session, and none once a *)
(* newer one was asked for; a proof stays with the account it led to.      *)
(* RuntimeConfig: what is scheduled can be prepared, and a version of the  *)
(* configuration names one, while no two transactions write one revision.  *)
(* Drafts: a decision sees what was known at its time, the right players   *)
(* on each side, and verified positions once there were any.               *)
(***************************************************************************)
EXTENDS Accounts, Subscriptions, RuntimeConfig, FiniteSetTheorems, Drafts, TLAPS

-----------------------------------------------------------------------------
(* SUBSCRIPTIONS.  Every webhook that was judged was sent; what was judged  *)
(* has a subscription, and a subscription that is not there is not blocked. *)
VerdictsAreReal ==
    /\ \A i \in 1..MaxEvents : verdict[i] # "none" =>
           i \in DOMAIN webhooks /\ subscription[webhooks[i].ref].state # "ABSENT"
    /\ \A r \in References : subscription[r].state = "ABSENT" => subscription[r] = Absent
    /\ Len(webhooks) <= MaxEvents

(* The newest webhook of a subscription that arrived decides.               *)
NewestDecides(r) ==
    /\ \A i \in Verdicts(r) : webhooks[i].occurred <= subscription[r].last
    /\ subscription[r].state # "ABSENT" =>
          \E i \in Verdicts(r) :
              /\ verdict[i] = "applied" /\ webhooks[i].occurred = subscription[r].last
              /\ subscription[r].state = "ACTIVE" => webhooks[i].kind \notin {"inactive", "refund"}
              /\ entitled[r].status = "ACTIVE" => entitled[r].since = webhooks[i].occurred
    /\ (entitled[r].status = "ACTIVE") <=> (subscription[r].state = "ACTIVE")
    /\ entitled[r].status = "ACTIVE" => entitled[r].until = subscription[r].until

BillingInv == BillingTypeOK /\ VerdictsAreReal /\ LatestWebhookDecides

Webhook == [kind: Kinds, ref: References, occurred: 0..Horizon]

(* The property, subscription by subscription.                              *)
LEMMA OneByOne == LatestWebhookDecides <=> \A r \in References : NewestDecides(r)
BY DEF LatestWebhookDecides, NewestDecides

(* What is sent is a webhook of a purchase, and has a handler.              *)
LEMMA WebhookType ==
    ASSUME SubscriptionsAssumption, BillingTypeOK, VerdictsAreReal, NEW i \in DOMAIN webhooks
    PROVE  /\ i \in 1..MaxEvents /\ webhooks[i] \in Webhook
           /\ handling[i].blocked \in BOOLEAN /\ handling[i].until \in Times
           /\ handling[i].closes \in BOOLEAN
<1>1. webhooks \in Seq(Webhook) /\ DOMAIN webhooks = 1..Len(webhooks)
  BY DEF BillingTypeOK, Webhook
<1>2. i \in 1..Len(webhooks) /\ webhooks[i] \in Webhook
  BY <1>1
<1>3. i \in 1..MaxEvents
  BY <1>1, <1>2 DEF VerdictsAreReal, SubscriptionsAssumption
<1> QED
  BY <1>2, <1>3 DEF BillingTypeOK

(* What a webhook asks for is a row of the table, as old as the webhook     *)
(* (apply_subscription_event), and active only for a sign of life.          *)
LEMMA RequestedType ==
    ASSUME SubscriptionsAssumption, NEW e \in Webhook, NEW read, read.blocked \in BOOLEAN,
           read.until \in Times
    PROVE  /\ Requested(e, read) \in
                 [state: {"ACTIVE", "INACTIVE"}, blocked: BOOLEAN, last: 0..Horizon, until: Times]
           /\ Requested(e, read).last = e.occurred
           /\ Requested(e, read).state = "ACTIVE" => e.kind \notin {"inactive", "refund"}
<1>1. e.kind \in Kinds /\ e.occurred \in 0..Horizon /\ e.occurred + Days \in Times
  BY DEF Webhook, Times, SubscriptionsAssumption
<1>2. CASE e.kind = "refund"
  BY <1>1, <1>2 DEF Requested
<1>3. CASE e.kind \in {"created", "active", "inactive"}
  BY <1>1, <1>3 DEF Requested
<1>4. CASE e.kind = "completed"
  BY <1>1, <1>4 DEF Requested
<1> QED
  BY <1>1, <1>2, <1>3, <1>4 DEF Kinds

(* The entitlements follow the subscription (_apply_grants).                *)
Grant == [status: {"ABSENT", "ACTIVE", "REVOKED"}, since: 0..Horizon, until: Times]

(* The entitlement that follows a webhook has the state, the start and the  *)
(* end that the webhook asks for.                                           *)
LEMMA GrantedType ==
    ASSUME NEW grant \in Grant,
           NEW wanted \in [state: {"ACTIVE", "INACTIVE"}, blocked: BOOLEAN, last: 0..Horizon, until: Times]
    PROVE  /\ Granted(grant, wanted) \in Grant
           /\ Granted(grant, wanted).status = "ACTIVE" <=> wanted.state = "ACTIVE"
           /\ Granted(grant, wanted).status = "ACTIVE" =>
                 /\ Granted(grant, wanted).since = wanted.last
                 /\ Granted(grant, wanted).until = wanted.until
<1>1. CASE wanted.state = "ACTIVE"
  BY <1>1 DEF Granted, Grant
<1>2. CASE wanted.state # "ACTIVE"
  BY <1>2 DEF Granted, Grant, NoGrant
<1> QED
  BY <1>1, <1>2

(* Before the first webhook.                                                *)
LEMMA BillingStarts ==
    ASSUME SubscriptionsAssumption, BillingInit
    PROVE  BillingInv
<1>1. 0 \in 0..Horizon /\ 0 \in Times
  BY DEF SubscriptionsAssumption, Times
<1>2. webhooks = <<>> /\ DOMAIN webhooks = {}
  BY DEF BillingInit
<1>3. BillingTypeOK
  BY <1>1, <1>2 DEF BillingInit, BillingTypeOK, Idle, Absent, NoGrant
<1>4. \A r \in References : /\ subscription[r] = Absent /\ subscription[r].state = "ABSENT"
                            /\ entitled[r].status = "ABSENT"
  BY DEF BillingInit, Absent, NoGrant
<1>5. VerdictsAreReal
  BY <1>2, <1>4 DEF VerdictsAreReal, BillingInit, SubscriptionsAssumption
<1>6. LatestWebhookDecides
  BY <1>2, <1>4 DEF LatestWebhookDecides, Verdicts
<1> QED
  BY <1>3, <1>5, <1>6 DEF BillingInv

(* Steps that judge no webhook: checkouts, the clock, reading, closing.     *)
LEMMA BillingRests ==
    ASSUME BillingInv, BillingTypeOK', UNCHANGED <<webhooks, verdict, subscription, entitled>>
    PROVE  BillingInv'
BY DEF BillingInv, VerdictsAreReal, LatestWebhookDecides, Verdicts

(* A checkout is opened and written down (create_checkout).                 *)
LEMMA CheckoutKeeps ==
    ASSUME BillingInv, NEW t \in Transactions, OpenCheckout(t) \/ RecordCheckout(t)
    PROVE  BillingInv'
<1>1. UNCHANGED <<clock, webhooks, verdict, handling, subscription, entitled>>
  BY DEF OpenCheckout, RecordCheckout
<1>2. purchase' \in [Transactions -> {"NONE", "OPENED", "PENDING", "COMPLETED"}]
  <2>1. purchase \in [Transactions -> {"NONE", "OPENED", "PENDING", "COMPLETED"}]
    BY DEF BillingInv, BillingTypeOK
  <2>2. CASE OpenCheckout(t)
    BY <2>1, <2>2 DEF OpenCheckout
  <2>3. CASE RecordCheckout(t)
    BY <2>1, <2>3 DEF RecordCheckout
  <2> QED
    BY <2>2, <2>3
<1>3. BillingTypeOK'
  BY <1>1, <1>2 DEF BillingInv, BillingTypeOK
<1> QED
  BY <1>1, <1>3, BillingRests

(* Time passes.                                                             *)
LEMMA BillingTickKeeps ==
    ASSUME SubscriptionsAssumption, BillingInv, Tick
    PROVE  BillingInv'
<1>1. clock' \in 0..Horizon
  BY DEF Tick, BillingInv, BillingTypeOK, SubscriptionsAssumption
<1>2. BillingTypeOK'
  BY <1>1 DEF Tick, BillingInv, BillingTypeOK
<1> QED
  BY <1>2, BillingRests DEF Tick

(* Paddle sends one more; nobody has judged it yet.                         *)
LEMMA PaddleKeeps ==
    ASSUME SubscriptionsAssumption, BillingInv, NEW kind \in Kinds, NEW r \in References,
           Paddle(kind, r)
    PROVE  BillingInv'
<1> DEFINE e == [kind |-> kind, ref |-> r, occurred |-> clock]
           n == Len(webhooks) + 1
<1>1. webhooks \in Seq(Webhook) /\ e \in Webhook /\ Len(webhooks) \in Nat
  BY DEF BillingInv, BillingTypeOK, Webhook
<1>2. webhooks' = Append(webhooks, e) /\ Len(webhooks) < MaxEvents
      /\ UNCHANGED <<clock, purchase, verdict, handling, subscription, entitled>>
  BY DEF Paddle
<1> HIDE DEF e
<1>3. /\ webhooks' \in Seq(Webhook) /\ Len(webhooks') = n
      /\ DOMAIN webhooks = 1..Len(webhooks) /\ DOMAIN webhooks' = 1..n
      /\ \A i \in DOMAIN webhooks : webhooks'[i] = webhooks[i]
  BY <1>1, <1>2
<1>4. MaxEvents \in Nat /\ n \in 1..MaxEvents /\ n \notin DOMAIN webhooks
  BY <1>1, <1>2, <1>3 DEF SubscriptionsAssumption
<1>5. verdict[n] = "none"
  BY <1>4 DEF BillingInv, VerdictsAreReal
<1>6. \A i \in DOMAIN webhooks' : i = n \/ i \in DOMAIN webhooks
  BY <1>1, <1>3
<1> HIDE DEF n
<1>7. BillingTypeOK'
  BY <1>2, <1>3 DEF BillingInv, BillingTypeOK, Webhook
<1>8. \A i \in DOMAIN webhooks : i \in DOMAIN webhooks'
  BY <1>1, <1>3 DEF n
<1>9. Len(webhooks') <= MaxEvents
  BY <1>3, <1>4
<1>10. VerdictsAreReal'
  BY <1>2, <1>3, <1>8, <1>9 DEF BillingInv, VerdictsAreReal
<1>11. \A q \in References : Verdicts(q)' = Verdicts(q)
  BY <1>2, <1>3, <1>5, <1>6, <1>8 DEF Verdicts
<1>12. \A q \in References : \A i \in Verdicts(q) : webhooks'[i] = webhooks[i]
  BY <1>3 DEF Verdicts
<1>13. ASSUME NEW q \in References PROVE NewestDecides(q)'
  <2>1. NewestDecides(q)
    BY OneByOne DEF BillingInv
  <2>2. Verdicts(q)' = Verdicts(q) /\ \A i \in Verdicts(q) : webhooks'[i] = webhooks[i]
    BY <1>11, <1>12
  <2> QED
    BY <1>2, <2>1, <2>2 DEF NewestDecides
<1> QED
  BY <1>7, <1>10, <1>13, OneByOne DEF BillingInv, LatestWebhookDecides, NewestDecides

(* A handler reads what is known of the purchase.                           *)
LEMMA ReadKeeps ==
    ASSUME SubscriptionsAssumption, BillingInv, NEW i \in DOMAIN webhooks, Read(i)
    PROVE  BillingInv'
<1> DEFINE e == webhooks[i]
           s == subscription[e.ref]
           closes == e.kind = "completed" \/ (e.kind = "created" /\ s = Absent)
           new == [pc |-> "read", blocked |-> s.blocked, until |-> s.until, closes |-> closes]
<1>1. i \in 1..MaxEvents /\ e \in Webhook
  BY WebhookType DEF BillingInv
<1>2. s.blocked \in BOOLEAN /\ s.until \in Times
  BY <1>1 DEF BillingInv, BillingTypeOK, Webhook
<1>3. closes \in BOOLEAN
  OBVIOUS
<1>4. handling' = [handling EXCEPT ![i] = new]
      /\ UNCHANGED <<clock, purchase, webhooks, verdict, subscription, entitled>>
  BY DEF Read
<1> HIDE DEF s, closes
<1>5. new \in [pc: {"idle", "read", "applied"}, blocked: BOOLEAN, closes: BOOLEAN, until: Times]
  BY <1>2, <1>3
<1> HIDE DEF new
<1>6. BillingTypeOK'
  BY <1>4, <1>5 DEF BillingInv, BillingTypeOK
<1> QED
  BY <1>4, <1>6, BillingRests

(* A checkout is closed, or the handler dies: it is idle again.             *)
LEMMA HandlerEndsKeeps ==
    ASSUME SubscriptionsAssumption, BillingInv, NEW i \in DOMAIN webhooks, CompleteCheckout(i) \/ HandlerDies(i)
    PROVE  BillingInv'
<1>1. Idle \in [pc: {"idle", "read", "applied"}, blocked: BOOLEAN, closes: BOOLEAN, until: Times]
  BY DEF Idle, Times, SubscriptionsAssumption
<1>2. handling' = [handling EXCEPT ![i] = Idle]
      /\ UNCHANGED <<clock, webhooks, verdict, subscription, entitled>>
  BY DEF CompleteCheckout, HandlerDies
<1>3. purchase' \in [Transactions -> {"NONE", "OPENED", "PENDING", "COMPLETED"}]
  BY DEF CompleteCheckout, HandlerDies, BillingInv, BillingTypeOK
<1>4. BillingTypeOK'
  BY <1>1, <1>2, <1>3 DEF BillingInv, BillingTypeOK
<1> QED
  BY <1>2, <1>4, BillingRests

(* A webhook is applied, or found older than the newest one, under the      *)
(* locks of its event and subscription (apply_subscription_event).          *)
LEMMA ApplyKeeps ==
    ASSUME SubscriptionsAssumption, BillingInv, NEW i \in DOMAIN webhooks, Apply(i)
    PROVE  BillingInv'
<1> DEFINE e == webhooks[i]
           wanted == Requested(e, handling[i])
           r == e.ref
<1>1. /\ i \in 1..MaxEvents /\ e \in Webhook /\ r \in References
      /\ handling[i].blocked \in BOOLEAN /\ handling[i].until \in Times
      /\ handling[i].closes \in BOOLEAN /\ e.occurred \in 0..Horizon
  BY WebhookType DEF BillingInv, Webhook
<1>2. /\ wanted \in [state: {"ACTIVE", "INACTIVE"}, blocked: BOOLEAN, last: 0..Horizon, until: Times]
      /\ wanted.last = e.occurred /\ wanted.state # "ABSENT"
      /\ wanted.state = "ACTIVE" => e.kind \notin {"inactive", "refund"}
  BY <1>1, RequestedType
<1>3. /\ UNCHANGED <<clock, purchase, webhooks>>
      /\ \/ UNCHANGED <<verdict, subscription, entitled>>
         \/ /\ verdict[i] = "none" /\ Stale(e) /\ verdict' = [verdict EXCEPT ![i] = "stale"]
            /\ UNCHANGED <<subscription, entitled>>
         \/ /\ verdict[i] = "none" /\ ~Stale(e) /\ verdict' = [verdict EXCEPT ![i] = "applied"]
            /\ subscription' = [subscription EXCEPT ![r] = wanted]
            /\ entitled' = [entitled EXCEPT ![r] = Granted(@, wanted)]
  BY DEF Apply
<1>4. handling' \in [1..MaxEvents -> [pc: {"idle", "read", "applied"}, blocked: BOOLEAN,
                                     closes: BOOLEAN, until: Times]]
  <2>1. Idle \in [pc: {"idle", "read", "applied"}, blocked: BOOLEAN, closes: BOOLEAN, until: Times]
    BY DEF Idle, Times, SubscriptionsAssumption
  <2>2. [Idle EXCEPT !.pc = "applied"] \in
          [pc: {"idle", "read", "applied"}, blocked: BOOLEAN, closes: BOOLEAN, until: Times]
    BY <2>1 DEF Idle
  <2>3. PICK new \in [pc: {"idle", "read", "applied"}, blocked: BOOLEAN, closes: BOOLEAN, until: Times] :
            handling' = [handling EXCEPT ![i] = new]
    <3>1. CASE handling[i].closes
      BY <1>1, <2>2, <3>1 DEF Apply
    <3>2. CASE ~handling[i].closes
      BY <1>1, <2>1, <3>2 DEF Apply
    <3> QED
      BY <3>1, <3>2
  <2> QED
    BY <2>3 DEF BillingInv, BillingTypeOK
<1>5. /\ verdict \in [1..MaxEvents -> {"none", "applied", "stale"}]
      /\ subscription \in [References -> [state: {"ABSENT", "ACTIVE", "INACTIVE"}, blocked: BOOLEAN,
                                          last: 0..Horizon, until: Times]]
      /\ entitled \in [References -> Grant]
  BY DEF BillingInv, BillingTypeOK, Grant
<1>6. /\ Granted(entitled[r], wanted) \in Grant
      /\ Granted(entitled[r], wanted).status = "ACTIVE" <=> wanted.state = "ACTIVE"
      /\ Granted(entitled[r], wanted).status = "ACTIVE" =>
            /\ Granted(entitled[r], wanted).since = wanted.last
            /\ Granted(entitled[r], wanted).until = wanted.until
  BY <1>1, <1>2, <1>5, GrantedType
<1> HIDE DEF wanted
<1>7. CASE UNCHANGED <<verdict, subscription, entitled>>
  <2>1. BillingTypeOK'
    BY <1>3, <1>4, <1>7 DEF BillingInv, BillingTypeOK
  <2> QED
    BY <1>3, <1>7, <2>1, BillingRests
<1>8. CASE /\ verdict[i] = "none" /\ Stale(e) /\ verdict' = [verdict EXCEPT ![i] = "stale"]
           /\ UNCHANGED <<subscription, entitled>>
  <2>1. verdict' \in [1..MaxEvents -> {"none", "applied", "stale"}]
    BY <1>5, <1>8
  <2>2. BillingTypeOK'
    BY <1>3, <1>4, <1>8, <2>1 DEF BillingInv, BillingTypeOK
  <2>3. /\ \A k \in 1..MaxEvents : k # i => verdict'[k] = verdict[k]
        /\ verdict'[i] = "stale"
    BY <1>1, <1>5, <1>8
  <2>4. subscription[r].state # "ABSENT" /\ e.occurred < subscription[r].last
    BY <1>8 DEF Stale
  <2>5. VerdictsAreReal'
    BY <1>1, <1>3, <1>8, <2>3, <2>4 DEF BillingInv, VerdictsAreReal
  <2>6. ASSUME NEW q \in References PROVE NewestDecides(q)'
    <3>1. NewestDecides(q)
      BY OneByOne DEF BillingInv
    <3>2. /\ Verdicts(q)' = Verdicts(q) \cup (IF q = r THEN {i} ELSE {})
          /\ i \notin Verdicts(q) /\ \A k \in Verdicts(q) : verdict'[k] = verdict[k]
      <4>1. \A k \in DOMAIN webhooks : k \in 1..MaxEvents
        BY WebhookType DEF BillingInv
      <4> QED
        BY <1>3, <1>8, <2>3, <4>1 DEF Verdicts
    <3>3. \A k \in Verdicts(q)' : webhooks[k].occurred <= subscription[q].last
      BY <1>1, <1>5, <2>4, <3>1, <3>2 DEF NewestDecides
    <3> QED
      BY <1>3, <1>8, <3>1, <3>2, <3>3 DEF NewestDecides
  <2> QED
    BY <2>2, <2>5, <2>6 DEF BillingInv, LatestWebhookDecides, NewestDecides
<1>9. CASE /\ verdict[i] = "none" /\ ~Stale(e) /\ verdict' = [verdict EXCEPT ![i] = "applied"]
           /\ subscription' = [subscription EXCEPT ![r] = wanted]
           /\ entitled' = [entitled EXCEPT ![r] = Granted(@, wanted)]
  <2>1. /\ verdict' \in [1..MaxEvents -> {"none", "applied", "stale"}]
        /\ subscription' \in [References -> [state: {"ABSENT", "ACTIVE", "INACTIVE"}, blocked: BOOLEAN,
                                             last: 0..Horizon, until: Times]]
        /\ entitled' \in [References -> Grant]
    BY <1>1, <1>2, <1>5, <1>6, <1>9
  <2>2. BillingTypeOK'
    BY <1>3, <1>4, <2>1 DEF BillingInv, BillingTypeOK, Grant
  <2>3. /\ \A k \in 1..MaxEvents : k # i => verdict'[k] = verdict[k]
        /\ verdict'[i] = "applied"
    BY <1>1, <1>5, <1>9
  <2>4. /\ subscription'[r] = wanted /\ entitled'[r] = Granted(entitled[r], wanted)
        /\ \A q \in References : q # r => subscription'[q] = subscription[q] /\ entitled'[q] = entitled[q]
    BY <1>1, <1>5, <1>9
  <2>5. \A k \in DOMAIN webhooks : k \in 1..MaxEvents
    BY WebhookType DEF BillingInv
  <2>6. VerdictsAreReal'
    <3>1. ASSUME NEW k \in 1..MaxEvents, verdict'[k] # "none"
          PROVE  k \in DOMAIN webhooks /\ subscription'[webhooks[k].ref].state # "ABSENT"
      <4>1. CASE k = i
        BY <1>2, <2>4, <4>1
      <4>2. CASE k # i
        <5>1. k \in DOMAIN webhooks /\ subscription[webhooks[k].ref].state # "ABSENT"
          BY <2>3, <3>1, <4>2 DEF BillingInv, VerdictsAreReal
        <5>2. webhooks[k].ref \in References
          BY <5>1, WebhookType DEF BillingInv, Webhook
        <5> QED
          BY <1>2, <2>4, <5>1, <5>2
      <4> QED
        BY <4>1, <4>2
    <3>2. \A q \in References : subscription'[q].state = "ABSENT" => subscription'[q] = Absent
      BY <1>2, <2>4 DEF BillingInv, VerdictsAreReal
    <3> QED
      BY <1>3, <3>1, <3>2 DEF BillingInv, VerdictsAreReal
  <2>7. ASSUME NEW q \in References PROVE NewestDecides(q)'
    <3>1. NewestDecides(q)
      BY OneByOne DEF BillingInv
    <3>2. /\ Verdicts(q)' = Verdicts(q) \cup (IF q = r THEN {i} ELSE {})
          /\ i \notin Verdicts(q) /\ \A k \in Verdicts(q) : verdict'[k] = verdict[k]
      BY <1>3, <1>9, <2>3, <2>5 DEF Verdicts
    <3>3. CASE q # r
      BY <1>3, <2>4, <3>1, <3>2, <3>3 DEF NewestDecides
    <3>4. CASE q = r
      <4>1. subscription[r].state # "ABSENT" => subscription[r].last <= e.occurred
        BY <1>1, <1>5, <1>9 DEF Stale
      <4>2. subscription[r].state = "ABSENT" => Verdicts(r) = {}
        BY <2>5 DEF BillingInv, VerdictsAreReal, Verdicts
      <4>3. \A k \in Verdicts(r) : webhooks[k].occurred \in 0..Horizon
        BY WebhookType DEF BillingInv, Webhook, Verdicts
      <4>4. \A k \in Verdicts(q)' : webhooks[k].occurred <= e.occurred
        BY <1>1, <1>5, <3>1, <3>2, <3>4, <4>1, <4>2, <4>3 DEF NewestDecides
      <4>5. i \in Verdicts(q)'
        BY <3>2, <3>4
      <4> QED
        BY <1>2, <1>3, <1>6, <2>3, <2>4, <3>4, <4>4, <4>5 DEF NewestDecides
    <3> QED
      BY <3>3, <3>4
  <2> QED
    BY <2>2, <2>6, <2>7 DEF BillingInv, LatestWebhookDecides, NewestDecides
<1> QED
  BY <1>3, <1>7, <1>8, <1>9

(* Every step keeps the invariant.                                          *)
LEMMA BillingStep ==
    ASSUME SubscriptionsAssumption, BillingInv, [BillingNext]_billingVars
    PROVE  BillingInv'
<1>1. ASSUME NEW t \in Transactions, OpenCheckout(t) \/ RecordCheckout(t) PROVE BillingInv'
  BY <1>1, CheckoutKeeps
<1>2. ASSUME NEW kind \in Kinds, NEW r \in References, Paddle(kind, r) PROVE BillingInv'
  BY <1>2, PaddleKeeps
<1>3. ASSUME NEW i \in DOMAIN webhooks, Read(i) PROVE BillingInv'
  BY <1>3, ReadKeeps
<1>4. ASSUME NEW i \in DOMAIN webhooks, Apply(i) PROVE BillingInv'
  BY <1>4, ApplyKeeps
<1>5. ASSUME NEW i \in DOMAIN webhooks, CompleteCheckout(i) \/ HandlerDies(i) PROVE BillingInv'
  BY <1>5, HandlerEndsKeeps
<1>6. CASE Tick
  BY <1>6, BillingTickKeeps
<1>7. CASE UNCHANGED billingVars
  BY <1>7, BillingRests DEF billingVars, BillingInv, BillingTypeOK
<1> QED
  BY <1>1, <1>2, <1>3, <1>4, <1>5, <1>6, <1>7 DEF BillingNext

(* What apply_subscription_event takes a block away for.                    *)
LEMMA UnblockedBy ==
    ASSUME SubscriptionsAssumption, BillingInv, [BillingNext]_billingVars,
           NEW r \in References, subscription[r].blocked, ~subscription'[r].blocked
    PROVE  \E i \in DOMAIN webhooks :
               /\ webhooks[i].ref = r /\ webhooks[i].occurred >= subscription[r].last
               /\ handling[i].pc = "read"
               /\ webhooks[i].kind = "completed" \/ ~handling[i].blocked
<1>1. subscription' # subscription
  OBVIOUS
<1>2. PICK i \in DOMAIN webhooks : Apply(i)
  BY <1>1 DEF BillingNext, billingVars, OpenCheckout, RecordCheckout, Paddle, Read,
              CompleteCheckout, HandlerDies, Tick
<1> DEFINE e == webhooks[i]
           wanted == Requested(e, handling[i])
<1>3. /\ handling[i].pc = "read" /\ ~Stale(e)
      /\ subscription' = [subscription EXCEPT ![e.ref] = wanted]
  BY <1>1, <1>2 DEF Apply
<1>4. e \in Webhook /\ handling[i].blocked \in BOOLEAN
  BY WebhookType DEF BillingInv
<1>5. e.ref \in References /\ e.kind \in Kinds /\ e.occurred \in 0..Horizon
  BY <1>4 DEF Webhook
<1>6. /\ subscription \in [References -> [state: {"ABSENT", "ACTIVE", "INACTIVE"}, blocked: BOOLEAN,
                                          last: 0..Horizon, until: Times]]
  BY DEF BillingInv, BillingTypeOK
<1>7. e.ref = r /\ ~wanted.blocked
  BY <1>3, <1>5, <1>6
<1>8. subscription[r].state # "ABSENT"
  BY DEF BillingInv, VerdictsAreReal, Absent
<1>9. e.occurred >= subscription[r].last
  BY <1>3, <1>5, <1>6, <1>7, <1>8 DEF Stale
<1>10. e.kind = "completed" \/ ~handling[i].blocked
  BY <1>5, <1>7 DEF Requested, Kinds
<1> QED
  BY <1>3, <1>7, <1>9, <1>10

(* The invariant that carries the theorems about subscriptions.             *)
LEMMA BillingInvariance ==
    ASSUME SubscriptionsAssumption
    PROVE  BillingSpec => []BillingInv
<1>1. BillingInit => BillingInv
  BY BillingStarts
<1>2. BillingInv /\ [BillingNext]_billingVars => BillingInv'
  BY BillingStep
<1> QED
  BY <1>1, <1>2, PTL DEF BillingSpec

(* Types of the tables of app/billing and of what its handlers have read.   *)
THEOREM BillingTypes ==
    ASSUME SubscriptionsAssumption
    PROVE  BillingSpec => []BillingTypeOK
<1>1. BillingInv => BillingTypeOK
  BY DEF BillingInv
<1> QED
  BY <1>1, BillingInvariance, PTL

(* In whatever order Paddle's webhooks arrive, are repeated or handled      *)
(* concurrently, the newest one that arrived decides the subscription and   *)
(* the entitlements (BillingEntitlementService.apply_subscription_event).   *)
THEOREM NewestWebhookDecides ==
    ASSUME SubscriptionsAssumption
    PROVE  BillingSpec => []LatestWebhookDecides
<1>1. BillingInv => LatestWebhookDecides
  BY DEF BillingInv
<1> QED
  BY <1>1, BillingInvariance, PTL

(* A refund is undone only by the payment itself or by a webhook whose      *)
(* handler had read the subscription before the refund was applied.         *)
THEOREM RefundsStay ==
    ASSUME SubscriptionsAssumption
    PROVE  BillingSpec => RefundKeepsBlocked
<1>1. BillingInv /\ [BillingNext]_billingVars =>
        [\A r \in References :
           subscription[r].blocked /\ ~subscription'[r].blocked =>
               \E i \in DOMAIN webhooks :
                   /\ webhooks[i].ref = r /\ webhooks[i].occurred >= subscription[r].last
                   /\ handling[i].pc = "read"
                   /\ webhooks[i].kind = "completed" \/ ~handling[i].blocked]_billingVars
  BY UnblockedBy
<1> QED
  BY <1>1, BillingInvariance, PTL DEF BillingSpec, RefundKeepsBlocked

-----------------------------------------------------------------------------
(* ACCOUNTS.  The codes of an inbox: all but the newest are closed, and so  *)
(* is one that has opened a session; whoever waits for a mail has a code.   *)
CodesClose ==
    \A e \in Inboxes : \A i \in DOMAIN codes[e] :
        /\ codes[e][i].logins <= 1
        /\ codes[e][i].logins = 1 => ~codes[e][i].open
        /\ i < Len(codes[e]) => ~codes[e][i].open
        /\ codes[e][i].status = "PRUNED" => ~codes[e][i].open

CodesInv ==
    /\ codes \in [Inboxes -> Seq(Code)]
    /\ cooling \subseteq Inboxes
    /\ mailing \in [Inboxes -> {"no", "sending", "sent", "refused"}]
    /\ CodesClose
    /\ \A e \in Inboxes : mailing[e] # "no" => Len(codes[e]) > 0

(* The accounts: one that nobody has used has no address, an address has    *)
(* one account, an identity an account in use, and what opened a session    *)
(* still belongs to its account.                                            *)
PeopleInv ==
    /\ person \in [People -> [exists: BOOLEAN, enabled: BOOLEAN, email: Inboxes \cup {Nil}]]
    /\ identity \in [Subjects -> People \cup {Nil}]
    /\ sessions \subseteq [user: People, proof: Inboxes \cup Subjects, valid: BOOLEAN]
    /\ \A u \in People : ~person[u].exists => person[u].email = Nil
    /\ \A u, v \in People : person[u].email = person[v].email /\ person[u].email # Nil => u = v
    /\ \A s \in Subjects : identity[s] # Nil => person[identity[s]].exists
    /\ \A x \in sessions : IF x.proof \in Inboxes THEN person[x.user].email = x.proof
                                                  ELSE identity[x.proof] = x.user

JoiningInv == joining \in [Subjects -> {Nil} \cup [proven: Inboxes \cup {Nil}]]

LoginInv == CodesInv /\ PeopleInv /\ JoiningInv

(* The types and the two properties follow.                                 *)
LEMMA LoginInvSuffices ==
    ASSUME AccountsAssumption, LoginInv
    PROVE  CodesAreSound
<1>1. LoginTypeOK
  BY DEF LoginInv, LoginTypeOK, CodesInv, PeopleInv, JoiningInv
<1>2. OnlyTheNewestCodeOpens
  <2> SUFFICES ASSUME NEW e \in Inboxes, NEW i \in DOMAIN codes[e]
               PROVE  /\ codes[e][i].logins <= 1 /\ (codes[e][i].logins = 1 => ~codes[e][i].open)
                      /\ i < Len(codes[e]) => ~codes[e][i].open
    BY DEF OnlyTheNewestCodeOpens
  <2> QED
    BY DEF LoginInv, CodesInv, CodesClose
<1>3. \A e \in Inboxes, u \in People : u \in HoldersOf(e) => HoldersOf(e) = {u}
  BY DEF LoginInv, PeopleInv, HoldersOf, AccountsAssumption
<1>4. ASSUME NEW e \in Inboxes PROVE Cardinality(HoldersOf(e)) <= 1
  <2>1. CASE HoldersOf(e) = {}
    BY <2>1, FS_EmptySet
  <2>2. CASE HoldersOf(e) # {}
    <3>1. PICK u \in People : u \in HoldersOf(e)
      BY <2>2 DEF HoldersOf
    <3>2. Cardinality({u}) = 1
      BY FS_Singleton
    <3> QED
      BY <1>3, <3>1, <3>2
  <2> QED
    BY <2>1, <2>2
<1>5. ASSUME NEW x \in sessions
      PROVE  IF x.proof \in Inboxes THEN HoldersOf(x.proof) = {x.user} ELSE identity[x.proof] = x.user
  <2>1. x.user \in People
    BY DEF LoginInv, PeopleInv
  <2>2. CASE x.proof \in Inboxes
    <3>1. x.user \in HoldersOf(x.proof)
      BY <2>1, <2>2 DEF LoginInv, PeopleInv, HoldersOf
    <3> QED
      BY <1>3, <2>1, <2>2, <3>1
  <2>3. CASE x.proof \notin Inboxes
    BY <2>3 DEF LoginInv, PeopleInv
  <2> QED
    BY <2>2, <2>3
<1> QED
  BY <1>1, <1>2, <1>4, <1>5 DEF CodesAreSound, ProofsKeepTheirAccount

-----------------------------------------------------------------------------
(* One code of one inbox is rewritten.                                      *)
Rewrites(e, i, new) ==
    codes' = [f \in Inboxes |->
                IF f = e THEN [k \in 1..Len(codes[e]) |-> IF k = i THEN new ELSE codes[e][k]]
                ELSE codes[f]]

Fits(new) ==
    /\ new \in Code /\ new.logins <= 1
    /\ new.logins = 1 => ~new.open
    /\ new.status = "PRUNED" => ~new.open

(* No inbox is locked that was not, and no other one has to wait.           *)
NoNewLock ==
    /\ UNCHANGED cooling
    /\ mailing' \in [Inboxes -> {"no", "sending", "sent", "refused"}]
    /\ \A f \in Inboxes : mailing'[f] # "no" => mailing[f] # "no"

(* The newest code of the inbox is the one that is rewritten.               *)
LEMMA RewriteKeeps ==
    ASSUME CodesInv, NEW e \in Inboxes, NEW i, i = Len(codes[e]), i # 0, NEW new,
           Rewrites(e, i, new), Fits(new), NoNewLock
    PROVE  CodesInv'
<1>0. /\ UNCHANGED cooling /\ mailing' \in [Inboxes -> {"no", "sending", "sent", "refused"}]
      /\ \A f \in Inboxes : mailing'[f] # "no" => mailing[f] # "no"
  BY DEF NoNewLock
<1>1. codes \in [Inboxes -> Seq(Code)]
  BY DEF CodesInv
<1>2. \A f \in Inboxes : Len(codes[f]) \in Nat /\ DOMAIN codes[f] = 1..Len(codes[f])
                         /\ \A k \in 1..Len(codes[f]) : codes[f][k] \in Code
  BY <1>1
<1>i. i \in 1..Len(codes[e])
  BY <1>2
<1>3. \A f \in Inboxes : f # e => codes'[f] = codes[f]
  BY DEF Rewrites
<1>4. codes'[e] = [k \in 1..Len(codes[e]) |-> IF k = i THEN new ELSE codes[e][k]]
  BY DEF Rewrites
<1>5. codes'[e] \in Seq(Code) /\ Len(codes'[e]) = Len(codes[e]) /\ DOMAIN codes'[e] = 1..Len(codes[e])
  BY <1>2, <1>4 DEF Fits
<1>6. codes' \in [Inboxes -> Seq(Code)]
  BY <1>1, <1>3, <1>5 DEF Rewrites
<1>7. ASSUME NEW f \in Inboxes, NEW k \in DOMAIN codes'[f]
      PROVE  /\ codes'[f][k].logins <= 1
             /\ codes'[f][k].logins = 1 => ~codes'[f][k].open
             /\ k < Len(codes'[f]) => ~codes'[f][k].open
             /\ codes'[f][k].status = "PRUNED" => ~codes'[f][k].open
  <2>1. CASE f = e /\ k = i
    <3>1. codes'[f][k] = new
      BY <1>4, <2>1
    <3> QED
      BY <1>5, <2>1, <3>1 DEF Fits
  <2>2. CASE ~(f = e /\ k = i)
    <3>1. codes'[f][k] = codes[f][k] /\ k \in DOMAIN codes[f] /\ Len(codes'[f]) = Len(codes[f])
      BY <1>2, <1>3, <1>4, <1>5, <1>7, <2>2
    <3> QED
      BY <3>1 DEF CodesInv, CodesClose
  <2> QED
    BY <2>1, <2>2
<1>8. \A f \in Inboxes : mailing'[f] # "no" => Len(codes'[f]) > 0
  BY <1>0, <1>3, <1>5 DEF CodesInv
<1> QED
  BY <1>0, <1>6, <1>7, <1>8 DEF CodesInv, CodesClose

(* Nothing that a code is about changes.                                    *)
LEMMA CodesRest ==
    ASSUME CodesInv, UNCHANGED codes, cooling' \subseteq Inboxes,
           mailing' \in [Inboxes -> {"no", "sending", "sent", "refused"}],
           \A f \in Inboxes : mailing'[f] # "no" => mailing[f] # "no"
    PROVE  CodesInv'
BY DEF CodesInv, CodesClose

(* A code that is open is the newest one.                                   *)
LEMMA OpenIsNewest ==
    ASSUME CodesInv, NEW e \in Inboxes, Usable(e) # {}
    PROVE  /\ Max(Usable(e)) = Len(codes[e])
           /\ Len(codes[e]) \in 1..Len(codes[e])
           /\ codes[e][Len(codes[e])] \in Code
           /\ codes[e][Len(codes[e])].open /\ codes[e][Len(codes[e])].status = "SENT"
<1>1. codes[e] \in Seq(Code) /\ Len(codes[e]) \in Nat /\ DOMAIN codes[e] = 1..Len(codes[e])
  BY DEF CodesInv
<1>2. \A i \in Usable(e) : i = Len(codes[e]) /\ i \in 1..Len(codes[e])
  BY <1>1 DEF Usable, CodesInv, CodesClose
<1>3. Usable(e) = {Len(codes[e])}
  BY <1>2
<1>4. Max(Usable(e)) = Len(codes[e])
  BY <1>1, <1>3 DEF Max
<1> QED
  BY <1>1, <1>2, <1>3, <1>4 DEF Usable

(* request_login_code: the code before is consumed and a new one stored.    *)
LEMMA RequestKeeps ==
    ASSUME AccountsAssumption, CodesInv, NEW e \in Inboxes, RequestCode(e)
    PROVE  CodesInv'
<1> DEFINE n == Len(codes[e])
<1>1. codes \in [Inboxes -> Seq(Code)] /\ n \in Nat /\ DOMAIN codes[e] = 1..n
      /\ \A i \in 1..n : codes[e][i] \in Code
  BY DEF CodesInv
<1>2. codes' = [codes EXCEPT ![e] = Append(Superseded(e), NewCode)]
      /\ cooling' = cooling \cup {e} /\ mailing' = [mailing EXCEPT ![e] = "sending"]
  BY DEF RequestCode
<1>3. NewCode \in Code /\ NewCode.logins = 0 /\ NewCode.status = "PENDING"
  BY DEF NewCode, Code, AccountsAssumption
<1>4. Superseded(e) \in Seq(Code) /\ Len(Superseded(e)) = n
  <2>1. \A i \in 1..n : [codes[e][i] EXCEPT !.open = FALSE] \in Code
    BY <1>1 DEF Code
  <2>2. Superseded(e) \in [1..n -> Code]
    BY <1>1, <2>1 DEF Superseded
  <2> QED
    BY <1>1, <2>2
<1>5. ASSUME NEW i \in 1..n
      PROVE  /\ ~Superseded(e)[i].open /\ Superseded(e)[i].logins <= 1
  <2>1. Superseded(e)[i] = IF i = Newest(e) THEN [codes[e][i] EXCEPT !.open = FALSE] ELSE codes[e][i]
    BY <1>1 DEF Superseded
  <2>2. codes[e][i].logins <= 1
    BY <1>1 DEF CodesInv, CodesClose
  <2>3. CASE i = Newest(e)
    BY <1>1, <2>1, <2>2, <2>3 DEF Code
  <2>4. CASE i # Newest(e)
    <3>1. i # n \/ codes[e][i].status = "PRUNED"
      <4> SUFFICES ASSUME i = n, codes[e][i].status # "PRUNED" PROVE FALSE
        OBVIOUS
      <4>1. PICK kept : kept = {k \in DOMAIN codes[e] : codes[e][k].status # "PRUNED"}
        OBVIOUS
      <4>2. n \in kept /\ \A k \in kept : n >= k /\ k \in Nat
        BY <1>1, <4>1
      <4>3. Max(kept) = n
        BY <1>1, <4>2 DEF Max
      <4>4. Newest(e) = n
        BY <4>1, <4>2, <4>3 DEF Newest
      <4> QED
        BY <2>4, <4>4
    <3> QED
      BY <1>1, <2>1, <2>2, <2>4, <3>1 DEF CodesInv, CodesClose
  <2> QED
    BY <2>3, <2>4
<1> DEFINE new == Append(Superseded(e), NewCode)
<1>6. /\ new \in Seq(Code) /\ Len(new) = n + 1 /\ DOMAIN new = 1..(n + 1) /\ new[n + 1] = NewCode
      /\ \A i \in 1..n : new[i] = Superseded(e)[i]
  BY <1>1, <1>3, <1>4
<1>7. codes'[e] = new /\ \A f \in Inboxes : f # e => codes'[f] = codes[f]
  BY <1>1, <1>2
<1> HIDE DEF new
<1>8. codes' \in [Inboxes -> Seq(Code)]
  BY <1>1, <1>2, <1>6 DEF new
<1>9. ASSUME NEW f \in Inboxes, NEW k \in DOMAIN codes'[f]
      PROVE  /\ codes'[f][k].logins <= 1
             /\ codes'[f][k].logins = 1 => ~codes'[f][k].open
             /\ k < Len(codes'[f]) => ~codes'[f][k].open
             /\ codes'[f][k].status = "PRUNED" => ~codes'[f][k].open
  <2>1. CASE f # e
    BY <1>7, <1>9, <2>1 DEF CodesInv, CodesClose
  <2>2. CASE f = e /\ k = n + 1
    BY <1>1, <1>3, <1>6, <1>7, <2>2
  <2>3. CASE f = e /\ k # n + 1
    <3>1. codes'[f] = new /\ k \in 1..(n + 1)
      BY <1>6, <1>7, <1>9, <2>3
    <3>2. k \in 1..n
      BY <1>1, <2>3, <3>1
    <3>3. codes'[f][k] = Superseded(e)[k]
      BY <1>6, <3>1, <3>2
    <3> QED
      BY <1>5, <3>2, <3>3
  <2> QED
    BY <2>1, <2>2, <2>3
<1>10. \A f \in Inboxes : mailing'[f] # "no" => Len(codes'[f]) > 0
  BY <1>1, <1>2, <1>6, <1>7 DEF CodesInv
<1>11. mailing' \in [Inboxes -> {"no", "sending", "sent", "refused"}] /\ cooling' \subseteq Inboxes
  BY <1>2 DEF CodesInv
<1> QED
  BY <1>8, <1>9, <1>10, <1>11 DEF CodesInv, CodesClose

(* The sender and its record touch the newest code.                         *)
LEMMA MailKeeps ==
    ASSUME AccountsAssumption, CodesInv, NEW e \in Inboxes, Mail(e) \/ RecordMail(e)
    PROVE  CodesInv'
<1> DEFINE n == Len(codes[e])
<1>1. codes \in [Inboxes -> Seq(Code)] /\ n \in Nat /\ DOMAIN codes[e] = 1..n
      /\ codes[e] = [k \in 1..n |-> codes[e][k]]
  BY DEF CodesInv
<1>2. n \in 1..n
  BY <1>1 DEF Mail, RecordMail, CodesInv
<1>3. codes[e][n] \in Code
  BY <1>1, <1>2
<1>4. /\ codes[e][n].logins <= 1 /\ (codes[e][n].logins = 1 => ~codes[e][n].open)
      /\ codes[e][n].status = "PRUNED" => ~codes[e][n].open
  BY <1>1, <1>2 DEF CodesInv, CodesClose
<1>5. NoNewLock
  BY DEF Mail, RecordMail, CodesInv, NoNewLock
<1>6. CASE Mail(e)
  <2>1. PICK arrives \in BOOLEAN : codes' = [codes EXCEPT ![e][n].mailed = arrives]
    BY <1>6 DEF Mail
  <2>2. PICK new : new = [codes[e][n] EXCEPT !.mailed = arrives]
    OBVIOUS
  <2>3. /\ new \in Code /\ new.logins = codes[e][n].logins
        /\ (new.open => codes[e][n].open) /\ new.status = codes[e][n].status
    BY <1>3, <2>2 DEF Code
  <2>4. Rewrites(e, n, new)
    BY <1>1, <1>2, <2>1, <2>2 DEF Rewrites
  <2>5. /\ new.logins = 1 => ~new.open
        /\ new.status = "PRUNED" => ~new.open
    BY <1>4, <2>3
  <2>6. Fits(new)
    BY <1>4, <2>3, <2>5 DEF Fits
  <2> QED
    BY <1>2, <1>5, <2>4, <2>6, RewriteKeeps
<1>7. CASE RecordMail(e)
  <2>1. PICK new : new = IF mailing[e] = "sent" THEN [codes[e][n] EXCEPT !.status = "SENT"]
                         ELSE [codes[e][n] EXCEPT !.status = "FAILED", !.open = FALSE]
    OBVIOUS
  <2>2. new \in Code /\ new.logins = codes[e][n].logins /\ (new.open => codes[e][n].open)
        /\ new.status # "PRUNED"
    BY <1>3, <2>1 DEF Code
  <2>3. Rewrites(e, n, new)
    BY <1>1, <1>2, <1>7, <2>1 DEF Rewrites, RecordMail
  <2>5. new.logins = 1 => ~new.open
    BY <1>4, <2>2
  <2>4. Fits(new)
    BY <1>4, <2>2, <2>5 DEF Fits
  <2> QED
    BY <1>2, <1>5, <2>3, <2>4, RewriteKeeps
<1> QED
  BY <1>6, <1>7

(* verify_login_code touches the code it looks at, which is the newest.     *)
LEMMA VerifyKeeps ==
    ASSUME AccountsAssumption, CodesInv, NEW e \in Inboxes, NEW typed,
           CodeIsSpent(e) \/ CodeIsWrong(e, typed) \/ CodeOpens(e, typed)
    PROVE  CodesInv'
<1> DEFINE n == Len(codes[e])
<1>0. Usable(e) # {} /\ UNCHANGED <<cooling, mailing>>
  BY DEF CodeIsSpent, CodeIsWrong, CodeOpens
<1>1. codes \in [Inboxes -> Seq(Code)] /\ n \in Nat /\ DOMAIN codes[e] = 1..n
      /\ codes[e] = [k \in 1..n |-> codes[e][k]]
  BY DEF CodesInv
<1>2. /\ Max(Usable(e)) = n /\ n \in 1..n /\ codes[e][n] \in Code
      /\ codes[e][n].open /\ codes[e][n].status = "SENT"
  BY <1>0, OpenIsNewest
<1>3. codes[e][n].logins = 0
  BY <1>1, <1>2 DEF CodesInv, CodesClose, Code
<1>5. NoNewLock
  BY <1>0 DEF CodesInv, NoNewLock
<1>7. ASSUME NEW new \in Code, Rewrites(e, n, new), new.logins <= 1,
             new.logins = 1 => ~new.open, new.status = "SENT"
      PROVE  CodesInv'
  <2>1. Fits(new) /\ n # 0
    BY <1>2, <1>7 DEF Fits
  <2> QED
    BY <1>5, <1>7, <2>1, RewriteKeeps
<1>8. CASE CodeIsSpent(e)
  <2>1. codes' = [codes EXCEPT ![e][n].open = FALSE]
    BY <1>2, <1>8 DEF CodeIsSpent
  <2>2. PICK new : new = [codes[e][n] EXCEPT !.open = FALSE]
    OBVIOUS
  <2>3. new \in Code /\ new.logins = 0 /\ new.status = "SENT"
    BY <1>2, <1>3, <2>2 DEF Code
  <2>4. Rewrites(e, n, new)
    BY <1>1, <1>2, <2>1, <2>2 DEF Rewrites
  <2> QED
    BY <1>7, <2>3, <2>4
<1>9. CASE CodeIsWrong(e, typed)
  <2>1. /\ codes' = [codes EXCEPT ![e][n].tries = @ + 1,
                                  ![e][n].open = codes[e][n].tries + 1 < MaxTries]
        /\ codes[e][n].tries < MaxTries
    BY <1>2, <1>9 DEF CodeIsWrong
  <2>2. PICK new : new = [codes[e][n] EXCEPT !.tries = @ + 1, !.open = codes[e][n].tries + 1 < MaxTries]
    OBVIOUS
  <2>3. codes[e][n].tries + 1 \in 0..MaxTries
    BY <1>2, <2>1 DEF Code, AccountsAssumption
  <2>6. \A t \in 0..MaxTries, o \in BOOLEAN :
            [codes[e][n] EXCEPT !.tries = t, !.open = o] \in Code
    BY <1>2 DEF Code
  <2>4. new \in Code /\ new.logins = 0 /\ new.status = "SENT"
    <3>1. PICK t, o : t = codes[e][n].tries + 1 /\ o = (codes[e][n].tries + 1 < MaxTries)
      OBVIOUS
    <3>2. new = [codes[e][n] EXCEPT !.tries = t, !.open = o] /\ t \in 0..MaxTries /\ o \in BOOLEAN
      BY <2>2, <2>3, <3>1
    <3> QED
      BY <1>2, <1>3, <2>6, <3>2 DEF Code
  <2>5. Rewrites(e, n, new)
    BY <1>1, <1>2, <2>1, <2>2 DEF Rewrites
  <2> QED
    BY <1>7, <2>4, <2>5
<1>10. CASE CodeOpens(e, typed)
  <2>1. codes[e][n].tries < MaxTries
    BY <1>2, <1>10 DEF CodeOpens
  <2>2. codes[e][n].tries + 1 \in 0..MaxTries
    BY <1>2, <2>1 DEF Code, AccountsAssumption
  <2>3. CASE codes' = [codes EXCEPT ![e][n].tries = @ + 1, ![e][n].open = FALSE]
    <3>1. PICK new : new = [codes[e][n] EXCEPT !.tries = @ + 1, !.open = FALSE]
      OBVIOUS
    <3>2. new \in Code /\ new.logins = 0 /\ new.status = "SENT"
      BY <1>2, <1>3, <2>2, <3>1 DEF Code
    <3>3. Rewrites(e, n, new)
      BY <1>1, <1>2, <2>3, <3>1 DEF Rewrites
    <3> QED
      BY <1>7, <3>2, <3>3
  <2>4. CASE codes' = [codes EXCEPT ![e][n].tries = @ + 1, ![e][n].open = FALSE,
                                    ![e][n].logins = @ + 1]
    <3>1. PICK new : new = [codes[e][n] EXCEPT !.tries = @ + 1, !.open = FALSE, !.logins = @ + 1]
      OBVIOUS
    <3>2. new \in Code /\ new.logins = 1 /\ ~new.open /\ new.status = "SENT"
      <4>1. PICK t : t = codes[e][n].tries + 1
        OBVIOUS
      <4>2. new = [codes[e][n] EXCEPT !.tries = t, !.open = FALSE, !.logins = 1]
        BY <1>2, <1>3, <3>1, <4>1 DEF Code
      <4> QED
        BY <1>2, <2>2, <4>1, <4>2 DEF Code
    <3>3. Rewrites(e, n, new)
      BY <1>1, <1>2, <2>4, <3>1 DEF Rewrites
    <3> QED
      BY <1>7, <3>2, <3>3
  <2> QED
    BY <1>2, <1>10, <2>3, <2>4 DEF CodeOpens
<1> QED
  BY <1>8, <1>9, <1>10

(* A code that expires stays as open as it was; one that is pruned closes.  *)
LEMMA AgingKeeps ==
    ASSUME CodesInv, NEW e \in Inboxes, CodeExpires(e) \/ Prune(e)
    PROVE  CodesInv'
<1> DEFINE n == Len(codes[e])
<1>1. codes \in [Inboxes -> Seq(Code)] /\ n \in Nat /\ DOMAIN codes[e] = 1..n
      /\ \A k \in 1..n : codes[e][k] \in Code
  BY DEF CodesInv
<1>2. PICK old : old = [k \in 1..n |-> codes[e][k]]
  OBVIOUS
<1>3. \E aged : codes' = [codes EXCEPT ![e] = [k \in 1..n |-> aged[k]]]
                /\ \A k \in 1..n : aged[k] = [old[k] EXCEPT !.fresh = FALSE]
                                   \/ aged[k] = [old[k] EXCEPT !.status = "PRUNED", !.open = FALSE]
  <2>1. CASE CodeExpires(e)
    <3>1. PICK aged : aged = [k \in 1..n |-> [old[k] EXCEPT !.fresh = FALSE]]
      OBVIOUS
    <3>2. codes' = [codes EXCEPT ![e] = [k \in 1..n |-> aged[k]]]
      BY <1>1, <1>2, <2>1, <3>1 DEF CodeExpires
    <3>3. \A k \in 1..n : aged[k] = [old[k] EXCEPT !.fresh = FALSE]
      BY <3>1
    <3> QED
      BY <3>2, <3>3, Zenon
  <2>2. CASE Prune(e)
    <3>1. PICK aged : aged = [k \in 1..n |-> [old[k] EXCEPT !.status = "PRUNED", !.open = FALSE]]
      OBVIOUS
    <3>2. codes' = [codes EXCEPT ![e] = [k \in 1..n |-> aged[k]]]
      BY <1>1, <1>2, <2>2, <3>1 DEF Prune
    <3>3. \A k \in 1..n : aged[k] = [old[k] EXCEPT !.status = "PRUNED", !.open = FALSE]
      BY <3>1
    <3> QED
      BY <3>2, <3>3, Zenon
  <2> QED
    BY <2>1, <2>2
<1>4. PICK aged : /\ codes' = [codes EXCEPT ![e] = [k \in 1..n |-> aged[k]]]
                  /\ \A k \in 1..n : aged[k] = [old[k] EXCEPT !.fresh = FALSE]
                                     \/ aged[k] = [old[k] EXCEPT !.status = "PRUNED", !.open = FALSE]
  BY <1>3
<1>5. ASSUME NEW k \in 1..n
      PROVE  /\ aged[k] \in Code /\ aged[k].logins = old[k].logins
             /\ aged[k].open => old[k].open
             /\ aged[k].status = "PRUNED" => aged[k].status = old[k].status \/ ~aged[k].open
  <2>1. PICK c \in Code : c = old[k]
    BY <1>1, <1>2
  <2>2. CASE aged[k] = [c EXCEPT !.fresh = FALSE]
    BY <2>1, <2>2 DEF Code
  <2>3. CASE aged[k] = [c EXCEPT !.status = "PRUNED", !.open = FALSE]
    BY <2>1, <2>3 DEF Code
  <2> QED
    BY <1>4, <2>1, <2>2, <2>3
<1> DEFINE new == [k \in 1..n |-> aged[k]]
<1>6. new \in Seq(Code) /\ Len(new) = n /\ DOMAIN new = 1..n /\ \A k \in 1..n : new[k] = aged[k]
  BY <1>1, <1>5
<1> HIDE DEF new
<1>7. codes' \in [Inboxes -> Seq(Code)] /\ (\A f \in Inboxes : f # e => codes'[f] = codes[f])
      /\ codes'[e] = new
  BY <1>1, <1>4, <1>6 DEF new
<1>8. ASSUME NEW f \in Inboxes, NEW k \in DOMAIN codes'[f]
      PROVE  /\ codes'[f][k].logins <= 1
             /\ codes'[f][k].logins = 1 => ~codes'[f][k].open
             /\ k < Len(codes'[f]) => ~codes'[f][k].open
             /\ codes'[f][k].status = "PRUNED" => ~codes'[f][k].open
  <2>1. CASE f # e
    BY <1>7, <1>8, <2>1 DEF CodesInv, CodesClose
  <2>2. CASE f = e
    <3>1. k \in 1..n /\ codes'[f][k] = aged[k] /\ Len(codes'[f]) = n
      BY <1>6, <1>7, <1>8, <2>2
    <3>2. old[k] = codes[e][k]
      BY <1>2, <3>1
    <3>3. /\ old[k].logins <= 1 /\ (old[k].logins = 1 => ~old[k].open)
          /\ k < n => ~old[k].open
          /\ old[k].status = "PRUNED" => ~old[k].open
      BY <1>1, <3>1, <3>2 DEF CodesInv, CodesClose
    <3>4. PICK c, o : c = aged[k] /\ o = old[k]
      OBVIOUS
    <3>5. /\ c.logins <= 1 /\ (c.logins = 1 => ~c.open)
          /\ k < n => ~c.open
          /\ c.status = "PRUNED" => ~c.open
      BY <1>5, <3>1, <3>3, <3>4
    <3>6. codes'[f][k] = c
      BY <3>1, <3>4
    <3> QED
      BY <3>1, <3>5, <3>6
  <2> QED
    BY <2>1, <2>2
<1>9. UNCHANGED <<cooling, mailing>>
  BY DEF CodeExpires, Prune
<1>10. \A f \in Inboxes : mailing'[f] # "no" => Len(codes'[f]) > 0
  BY <1>6, <1>7, <1>9 DEF CodesInv
<1> QED
  BY <1>7, <1>8, <1>9, <1>10 DEF CodesInv, CodesClose

-----------------------------------------------------------------------------
(* An account is let in by `proof`: u gets the address a, or keeps it, and  *)
(* whatever becomes known of a subject is that it leads to u.               *)
Admits(u, a, proof) ==
    /\ \E p \in [exists: {TRUE}, enabled: BOOLEAN, email: {a}] :
           person' = [v \in People |-> IF v = u THEN p ELSE person[v]]
    /\ person[u].email \in {Nil, a}
    /\ a = Nil \/ HoldersOf(a) \subseteq {u}
    /\ identity' \in [Subjects -> People \cup {Nil}]
    /\ \A s \in Subjects : identity'[s] = identity[s] \/ (identity[s] = Nil /\ identity'[s] = u)
    /\ Opened(u, proof)
    /\ IF proof \in Inboxes THEN proof = a ELSE proof \in Subjects /\ identity'[proof] = u

(* Letting an account in keeps one account per address and every older      *)
(* proof with its account.                                                  *)
LEMMA AdmitKeeps ==
    ASSUME AccountsAssumption, PeopleInv, NEW u \in People, NEW a \in Inboxes \cup {Nil}, NEW proof,
           Admits(u, a, proof)
    PROVE  PeopleInv'
<1>1. PICK p \in [exists: {TRUE}, enabled: BOOLEAN, email: {a}] :
          person' = [v \in People |-> IF v = u THEN p ELSE person[v]]
  BY DEF Admits
<1>2. p.exists /\ p.email = a /\ p \in [exists: BOOLEAN, enabled: BOOLEAN, email: Inboxes \cup {Nil}]
  OBVIOUS
<1>3. person'[u] = p /\ \A v \in People : v # u => person'[v] = person[v]
  BY <1>1
<1>4. person' \in [People -> [exists: BOOLEAN, enabled: BOOLEAN, email: Inboxes \cup {Nil}]]
  BY <1>1, <1>2 DEF PeopleInv
<1>5. identity' \in [Subjects -> People \cup {Nil}]
  BY DEF Admits
<1>6. PICK x : x = [user |-> u, proof |-> proof, valid |-> TRUE]
  OBVIOUS
<1>7. sessions' = sessions \cup {x}
  BY <1>6 DEF Admits, Opened
<1>8. sessions' \subseteq [user: People, proof: Inboxes \cup Subjects, valid: BOOLEAN]
  <2>1. proof \in Inboxes \cup Subjects
    BY DEF Admits
  <2>2. x \in [user: People, proof: Inboxes \cup Subjects, valid: BOOLEAN]
    BY <1>6, <2>1
  <2> QED
    BY <1>7, <2>2 DEF PeopleInv
<1>9. ASSUME NEW v \in People, ~person'[v].exists PROVE person'[v].email = Nil
  BY <1>2, <1>3, <1>9 DEF PeopleInv
<1>10. ASSUME NEW v \in People, NEW w \in People, person'[v].email = person'[w].email, person'[v].email # Nil
       PROVE  v = w
  <2>1. CASE v # u /\ w # u
    BY <1>3, <1>10, <2>1 DEF PeopleInv
  <2>2. CASE v = u /\ w # u
    <3>1. person[w].email = a /\ a # Nil
      BY <1>2, <1>3, <1>10, <2>2
    <3>2. w \in HoldersOf(a)
      BY <3>1 DEF HoldersOf
    <3> QED
      BY <3>1, <3>2, <2>2 DEF Admits
  <2>3. CASE v # u /\ w = u
    <3>1. person[v].email = a /\ a # Nil
      BY <1>2, <1>3, <1>10, <2>3
    <3>2. v \in HoldersOf(a)
      BY <3>1 DEF HoldersOf
    <3> QED
      BY <3>1, <3>2, <2>3 DEF Admits
  <2> QED
    BY <2>1, <2>2, <2>3
<1>11. ASSUME NEW s \in Subjects, identity'[s] # Nil PROVE person'[identity'[s]].exists
  <2>1. CASE identity'[s] = u
    BY <1>2, <1>3, <2>1
  <2>2. CASE identity'[s] # u
    <3>1. identity'[s] = identity[s] /\ identity[s] \in People
      BY <1>5, <1>11, <2>2 DEF Admits
    <3>2. person[identity[s]].exists
      BY <1>11, <3>1 DEF PeopleInv
    <3> QED
      BY <1>3, <2>2, <3>1, <3>2
  <2> QED
    BY <2>1, <2>2
<1>12. ASSUME NEW y \in sessions'
       PROVE  IF y.proof \in Inboxes THEN person'[y.user].email = y.proof ELSE identity'[y.proof] = y.user
  <2>1. CASE y = x
    BY <1>2, <1>3, <1>6, <2>1 DEF Admits
  <2>2. CASE y # x
    <3>1. /\ y \in sessions /\ y.user \in People /\ y.proof \in Inboxes \cup Subjects
          /\ IF y.proof \in Inboxes THEN person[y.user].email = y.proof ELSE identity[y.proof] = y.user
      BY <1>7, <1>12, <2>2 DEF PeopleInv
    <3>2. CASE y.proof \in Inboxes
      <4>1. person[y.user].email = y.proof /\ y.proof # Nil
        BY <3>1, <3>2 DEF AccountsAssumption
      <4>2. CASE y.user = u
        BY <1>2, <1>3, <3>2, <4>1, <4>2 DEF Admits
      <4>3. CASE y.user # u
        BY <1>3, <3>1, <3>2, <4>1, <4>3
      <4> QED
        BY <4>2, <4>3
    <3>3. CASE y.proof \notin Inboxes
      <4>1. identity[y.proof] = y.user /\ y.proof \in Subjects /\ y.user # Nil
        BY <3>1, <3>3 DEF AccountsAssumption
      <4> QED
        BY <3>3, <4>1 DEF Admits
    <3> QED
      BY <3>2, <3>3
  <2> QED
    BY <2>1, <2>2
<1> QED
  BY <1>4, <1>5, <1>8, <1>9, <1>10, <1>11, <1>12 DEF PeopleInv

(* verify_login_code admits the account of the inbox, or a new one.         *)
LEMMA OpensAdmits ==
    ASSUME AccountsAssumption, PeopleInv, NEW e \in Inboxes, NEW typed, CodeOpens(e, typed)
    PROVE  PeopleInv'
<1>1. UNCHANGED identity
  BY DEF CodeOpens
<1>2. CASE UNCHANGED <<person, sessions>>
  BY <1>1, <1>2 DEF PeopleInv
<1>3. CASE ~UNCHANGED <<person, sessions>>
  <2>1. PICK u \in IF HoldersOf(e) # {} THEN HoldersOf(e) ELSE Unused :
            /\ person' = [person EXCEPT ![u].exists = TRUE, ![u].email = e]
            /\ Opened(u, e)
    BY <1>3 DEF CodeOpens
  <2>2. u \in People /\ person[u].email \in {Nil, e}
    BY <2>1 DEF HoldersOf, Unused, PeopleInv
  <2>3. HoldersOf(e) \subseteq {u}
    BY <2>1 DEF HoldersOf, PeopleInv, AccountsAssumption
  <2>4. person[u] \in [exists: BOOLEAN, enabled: BOOLEAN, email: Inboxes \cup {Nil}]
    BY <2>2 DEF PeopleInv
  <2>5. PICK p : p = [person[u] EXCEPT !.exists = TRUE, !.email = e]
    OBVIOUS
  <2>6. p \in [exists: {TRUE}, enabled: BOOLEAN, email: {e}]
    BY <2>4, <2>5
  <2>7. person' = [v \in People |-> IF v = u THEN p ELSE person[v]]
    BY <2>1, <2>2, <2>5 DEF PeopleInv
  <2>8. Admits(u, e, e)
    BY <1>1, <2>1, <2>2, <2>3, <2>6, <2>7 DEF Admits, PeopleInv
  <2> QED
    BY <2>2, <2>8, AdmitKeeps
<1> QED
  BY <1>2, <1>3

(* login_external_identity admits the account it found.                     *)
LEMMA ReturnAdmits ==
    ASSUME AccountsAssumption, PeopleInv, NEW s \in Subjects, NEW proven \in Inboxes \cup {Nil},
           Return(s, proven)
    PROVE  PeopleInv'
<1>1. PICK u \in Found(s, proven) :
          /\ HoldersOf(AddressOf(u, proven)) \subseteq {u} \/ AddressOf(u, proven) = Nil
          /\ person' = [person EXCEPT ![u].email = AddressOf(u, proven)]
          /\ identity' = [identity EXCEPT ![s] = u]
          /\ Opened(u, s)
  BY DEF Return
<1>2. /\ u \in People /\ person[u].exists
      /\ identity[s] \in {Nil, u}
  <2>1. CASE identity[s] # Nil
    <3>1. u = identity[s]
      BY <1>1, <2>1 DEF Found
    <3> QED
      BY <2>1, <3>1 DEF PeopleInv
  <2>2. CASE identity[s] = Nil
    <3>1. proven # Nil /\ u \in HoldersOf(proven)
      BY <1>1, <2>2 DEF Found
    <3> QED
      BY <2>2, <3>1 DEF HoldersOf, PeopleInv
  <2> QED
    BY <2>1, <2>2
<1>3. PICK a : a = AddressOf(u, proven)
  OBVIOUS
<1>4. a \in Inboxes \cup {Nil} /\ person[u].email \in {Nil, a}
  BY <1>2, <1>3 DEF AddressOf, PeopleInv
<1>5. person[u] \in [exists: {TRUE}, enabled: BOOLEAN, email: Inboxes \cup {Nil}]
  BY <1>2 DEF PeopleInv
<1>6. PICK p : p = [person[u] EXCEPT !.email = a]
  OBVIOUS
<1>7. p \in [exists: {TRUE}, enabled: BOOLEAN, email: {a}]
  BY <1>5, <1>6
<1>8. person' = [v \in People |-> IF v = u THEN p ELSE person[v]]
  BY <1>1, <1>2, <1>3, <1>6 DEF PeopleInv
<1>9. /\ identity' \in [Subjects -> People \cup {Nil}] /\ identity'[s] = u
      /\ \A t \in Subjects : t # s => identity'[t] = identity[t]
  BY <1>1, <1>2 DEF PeopleInv
<1>10. s \notin Inboxes
  BY DEF AccountsAssumption
<1>11. Admits(u, a, s)
  BY <1>1, <1>2, <1>3, <1>4, <1>7, <1>8, <1>9, <1>10 DEF Admits
<1> QED
  BY <1>2, <1>4, <1>11, AdmitKeeps

(* ... or the one it creates, when no other login created one first.        *)
LEMMA JoinAdmits ==
    ASSUME AccountsAssumption, PeopleInv, JoiningInv, NEW s \in Subjects, Join(s)
    PROVE  PeopleInv' /\ JoiningInv'
<1>1. joining' = [joining EXCEPT ![s] = Nil] /\ joining[s] # Nil
  BY DEF Join
<1>2. JoiningInv'
  BY <1>1 DEF JoiningInv
<1>3. CASE UNCHANGED <<person, identity, sessions>>
  BY <1>2, <1>3 DEF PeopleInv
<1>4. CASE ~UNCHANGED <<person, identity, sessions>>
  <2>1. PICK e : e = joining[s].proven
    OBVIOUS
  <2>2. e \in Inboxes \cup {Nil}
    BY <1>1, <2>1 DEF JoiningInv
  <2>3. identity[s] = Nil /\ (e = Nil \/ HoldersOf(e) = {})
    BY <1>4, <2>1 DEF Join
  <2>4. PICK u \in Unused :
            /\ person' = [person EXCEPT ![u].exists = TRUE, ![u].email = e]
            /\ identity' = [identity EXCEPT ![s] = u]
            /\ Opened(u, s)
    BY <1>4, <2>1, <2>3 DEF Join
  <2>5. u \in People /\ person[u].email = Nil
    BY <2>4 DEF Unused, PeopleInv
  <2>6. person[u] \in [exists: BOOLEAN, enabled: BOOLEAN, email: Inboxes \cup {Nil}]
    BY <2>5 DEF PeopleInv
  <2>7. PICK p : p = [person[u] EXCEPT !.exists = TRUE, !.email = e]
    OBVIOUS
  <2>8. p \in [exists: {TRUE}, enabled: BOOLEAN, email: {e}]
    BY <2>6, <2>7
  <2>9. person' = [v \in People |-> IF v = u THEN p ELSE person[v]]
    BY <2>4, <2>5, <2>7 DEF PeopleInv
  <2>10. /\ identity' \in [Subjects -> People \cup {Nil}] /\ identity'[s] = u
         /\ \A t \in Subjects : t # s => identity'[t] = identity[t]
    BY <2>4, <2>5 DEF PeopleInv
  <2>11. s \notin Inboxes
    BY DEF AccountsAssumption
  <2>12. Admits(u, e, s)
    BY <2>3, <2>4, <2>5, <2>8, <2>9, <2>10, <2>11 DEF Admits
  <2> QED
    BY <1>2, <2>2, <2>5, <2>12, AdmitKeeps
<1> QED
  BY <1>3, <1>4

(* A session that ends, and an account that is disabled, stay whose they    *)
(* are.                                                                     *)
LEMMA EndsAndDisablesKeep ==
    ASSUME PeopleInv, (\E x \in sessions : SessionEnds(x)) \/ (\E u \in People : Disable(u))
    PROVE  PeopleInv'
<1>1. CASE \E x \in sessions : SessionEnds(x)
  <2>1. PICK x \in sessions : SessionEnds(x)
    BY <1>1
  <2>2. PICK y : y = [x EXCEPT !.valid = FALSE]
    OBVIOUS
  <2>3. sessions' = (sessions \ {x}) \cup {y} /\ UNCHANGED <<person, identity>>
    BY <2>1, <2>2 DEF SessionEnds
  <2>4. x \in [user: People, proof: Inboxes \cup Subjects, valid: BOOLEAN]
    BY DEF PeopleInv
  <2>5. y \in [user: People, proof: Inboxes \cup Subjects, valid: BOOLEAN]
        /\ y.user = x.user /\ y.proof = x.proof
    BY <2>2, <2>4
  <2>6. ASSUME NEW z \in sessions'
        PROVE  IF z.proof \in Inboxes THEN person[z.user].email = z.proof ELSE identity[z.proof] = z.user
    <3>1. CASE z = y
      BY <2>5, <3>1 DEF PeopleInv
    <3>2. CASE z # y
      BY <2>3, <2>6, <3>2 DEF PeopleInv
    <3> QED
      BY <3>1, <3>2
  <2>7. sessions' \subseteq [user: People, proof: Inboxes \cup Subjects, valid: BOOLEAN]
    BY <2>3, <2>5 DEF PeopleInv
  <2> QED
    BY <2>3, <2>6, <2>7 DEF PeopleInv
<1>2. CASE \E u \in People : Disable(u)
  <2>1. PICK u \in People : Disable(u)
    BY <1>2
  <2>2. person' = [person EXCEPT ![u].enabled = FALSE] /\ UNCHANGED <<identity, sessions>>
    BY <2>1 DEF Disable
  <2>3. person[u] \in [exists: BOOLEAN, enabled: BOOLEAN, email: Inboxes \cup {Nil}]
    BY DEF PeopleInv
  <2>4. person' \in [People -> [exists: BOOLEAN, enabled: BOOLEAN, email: Inboxes \cup {Nil}]]
    BY <2>2, <2>3 DEF PeopleInv
  <2>5. \A v \in People : person'[v].email = person[v].email /\ person'[v].exists = person[v].exists
    BY <2>2, <2>3 DEF PeopleInv
  <2>6. ASSUME NEW v \in People PROVE (~person'[v].exists => person'[v].email = Nil)
    BY <2>5 DEF PeopleInv
  <2>7. \A s \in Subjects : identity[s] # Nil => identity[s] \in People /\ person'[identity[s]].exists
    BY <2>5 DEF PeopleInv
  <2>8. \A x \in sessions : x.user \in People
    BY DEF PeopleInv
  <2> QED
    BY <2>2, <2>4, <2>5, <2>6, <2>7, <2>8 DEF PeopleInv
<1> QED
  BY <1>1, <1>2

-----------------------------------------------------------------------------
(* Nobody has an account before the first login.                            *)
LEMMA LoginInvInit ==
    ASSUME AccountsAssumption, LoginInit
    PROVE  LoginInv
<1>1. \A e \in Inboxes : codes[e] = <<>> /\ mailing[e] = "no"
  BY DEF LoginInit
<1>2. CodesInv
  BY <1>1 DEF LoginInit, CodesInv, CodesClose
<1>3. PeopleInv
  BY DEF LoginInit, PeopleInv
<1>4. JoiningInv
  BY DEF LoginInit, JoiningInv
<1> QED
  BY <1>2, <1>3, <1>4 DEF LoginInv

(* Each step of a request, a mail, a login or a timer keeps the invariant.  *)
LEMMA LoginInvStep ==
    ASSUME AccountsAssumption, LoginInv, [LoginNext]_accountVars
    PROVE  LoginInv'
<1>0. CodesInv /\ PeopleInv /\ JoiningInv
  BY DEF LoginInv
<1>1. CASE UNCHANGED accountVars
  BY <1>0, <1>1 DEF accountVars, LoginInv, CodesInv, CodesClose, PeopleInv, JoiningInv
<1>2. ASSUME NEW e \in Inboxes, RequestCode(e) PROVE LoginInv'
  <2>1. UNCHANGED <<person, identity, joining, sessions>>
    BY <1>2 DEF RequestCode
  <2> QED
    BY <1>0, <1>2, <2>1, RequestKeeps DEF LoginInv, PeopleInv, JoiningInv
<1>3. ASSUME NEW e \in Inboxes, Mail(e) \/ RecordMail(e) PROVE LoginInv'
  <2>1. UNCHANGED <<person, identity, joining, sessions>>
    BY <1>3 DEF Mail, RecordMail
  <2> QED
    BY <1>0, <1>3, <2>1, MailKeeps DEF LoginInv, PeopleInv, JoiningInv
<1>4. ASSUME NEW e \in Inboxes, CooldownEnds(e) PROVE LoginInv'
  <2>1. UNCHANGED <<person, identity, codes, mailing, joining, sessions>> /\ cooling' \subseteq Inboxes
    BY <1>0, <1>4 DEF CooldownEnds, CodesInv
  <2>2. CodesInv'
    BY <1>0, <2>1 DEF CodesInv, CodesClose
  <2> QED
    BY <1>0, <2>1, <2>2 DEF LoginInv, PeopleInv, JoiningInv
<1>5. ASSUME NEW e \in Inboxes, CodeExpires(e) \/ Prune(e) PROVE LoginInv'
  <2>1. UNCHANGED <<person, identity, joining, sessions>>
    BY <1>5 DEF CodeExpires, Prune
  <2> QED
    BY <1>0, <1>5, <2>1, AgingKeeps DEF LoginInv, PeopleInv, JoiningInv
<1>6. ASSUME NEW e \in Inboxes, NEW typed, CodeIsSpent(e) \/ CodeIsWrong(e, typed) PROVE LoginInv'
  <2>1. UNCHANGED <<person, identity, joining, sessions>>
    BY <1>6 DEF CodeIsSpent, CodeIsWrong
  <2>2. CodesInv'
    BY <1>0, <1>6, VerifyKeeps
  <2> QED
    BY <1>0, <2>1, <2>2 DEF LoginInv, PeopleInv, JoiningInv
<1>7. ASSUME NEW e \in Inboxes, NEW typed, CodeOpens(e, typed) PROVE LoginInv'
  <2>1. UNCHANGED joining
    BY <1>7 DEF CodeOpens
  <2>2. CodesInv' /\ PeopleInv'
    BY <1>0, <1>7, VerifyKeeps, OpensAdmits
  <2> QED
    BY <1>0, <2>1, <2>2 DEF LoginInv, JoiningInv
<1>8. ASSUME NEW s \in Subjects, Join(s) PROVE LoginInv'
  <2>1. UNCHANGED <<codes, cooling, mailing>>
    BY <1>8 DEF Join
  <2>2. CodesInv'
    BY <1>0, <2>1 DEF CodesInv, CodesClose
  <2> QED
    BY <1>0, <1>8, <2>2, JoinAdmits DEF LoginInv
<1>9. ASSUME NEW s \in Subjects, NEW proven \in Proofs(s), Return(s, proven) \/ FindNobody(s, proven)
      PROVE  LoginInv'
  <2>1. UNCHANGED <<codes, cooling, mailing>> /\ proven \in Inboxes \cup {Nil}
    BY <1>9 DEF Return, FindNobody, Proofs, GoogleProves, SteamProves
  <2>2. CodesInv'
    BY <1>0, <2>1 DEF CodesInv, CodesClose
  <2>3. CASE Return(s, proven)
    <3>1. UNCHANGED joining
      BY <2>3 DEF Return
    <3> QED
      BY <1>0, <2>1, <2>2, <2>3, <3>1, ReturnAdmits DEF LoginInv, JoiningInv
  <2>4. CASE FindNobody(s, proven)
    <3>1. UNCHANGED <<person, identity, sessions>> /\ joining' = [joining EXCEPT ![s] = [proven |-> proven]]
      BY <2>4 DEF FindNobody
    <3>2. JoiningInv'
      BY <1>0, <2>1, <3>1 DEF JoiningInv
    <3> QED
      BY <1>0, <2>2, <3>1, <3>2 DEF LoginInv, PeopleInv
  <2> QED
    BY <1>9, <2>3, <2>4
<1>10. ASSUME (\E x \in sessions : SessionEnds(x)) \/ (\E u \in People : Disable(u)) PROVE LoginInv'
  <2>1. UNCHANGED <<codes, cooling, mailing, joining>>
    BY <1>10 DEF SessionEnds, Disable
  <2>2. CodesInv'
    BY <1>0, <2>1 DEF CodesInv, CodesClose
  <2> QED
    BY <1>0, <1>10, <2>1, <2>2, EndsAndDisablesKeep DEF LoginInv, JoiningInv
<1>11. CASE ProcessDies
  <2>1. /\ UNCHANGED <<person, identity, codes, cooling, sessions>>
        /\ mailing' = [e \in Inboxes |-> "no"] /\ joining' = [s \in Subjects |-> Nil]
    BY <1>11 DEF ProcessDies
  <2>2. CodesInv'
    BY <1>0, <2>1 DEF CodesInv, CodesClose
  <2>3. JoiningInv'
    BY <2>1 DEF JoiningInv
  <2> QED
    BY <1>0, <2>1, <2>2, <2>3 DEF LoginInv, PeopleInv
<1> QED
  BY <1>1, <1>2, <1>3, <1>4, <1>5, <1>6, <1>7, <1>8, <1>9, <1>10, <1>11 DEF LoginNext

(* A code opens one session at most and none once a newer one was asked     *)
(* for, an inbox has one account, and what was proved for a session stays   *)
(* with the account it led to: for every number of people, inboxes and      *)
(* attempts.                                                                *)
THEOREM CodesAlwaysSound ==
    ASSUME AccountsAssumption
    PROVE  LoginSpec => []CodesAreSound
<1>1. LoginInit => LoginInv
  BY LoginInvInit
<1>2. LoginInv /\ [LoginNext]_accountVars => LoginInv'
  BY LoginInvStep
<1>3. LoginInv => CodesAreSound
  BY LoginInvSuffices
<1> QED
  BY <1>1, <1>2, <1>3, PTL DEF LoginSpec

-----------------------------------------------------------------------------
(* RuntimeConfig.  An edit between its read and its write knows the current *)
(* revision, so that the write makes a new one; a call of the current       *)
(* revision ran with the settings of the row.                               *)
Applies(a) ==
    editing[a] # NoEdit =>
        /\ editing[a].slot \in Slots /\ editing[a].change \in Changes
        /\ editing[a].read # 0 => editing[a].read = slot[editing[a].slot].revision

CallIsOfItsSlot(c) ==
    /\ c.revision <= slot[c.slot].revision
    /\ c.revision = slot[c.slot].revision =>
          /\ c.model = slot[c.slot].model /\ c.tuning = slot[c.slot].tuning
          /\ c.approved = slot[c.slot].approved

ConfigInv ==
    /\ ConfigTypeOK
    /\ \A a \in Admins : Applies(a)
    /\ \A c \in calls : CallIsOfItsSlot(c)
    /\ VersionNamesSettings

(* A change makes a row of a row.                                           *)
LEMMA PatchedType ==
    ASSUME NEW row \in SlotRow, NEW change \in Changes
    PROVE  Patched(row, change) \in SlotRow
<1>1. DOMAIN row = {"enabled", "decides", "approved", "model", "tuning", "revision"}
  BY DEF SlotRow
<1>2. PICK new : new = Patched(row, change)
  OBVIOUS
<1>3. /\ new = [f \in {"enabled", "decides", "approved", "model", "tuning", "revision"} |-> new[f]]
      /\ new.enabled \in BOOLEAN /\ new.decides \in BOOLEAN /\ new.approved \in BOOLEAN
      /\ new.model \in Models /\ new.tuning \in Tunings /\ new.revision = row.revision
  <2>1. \A f \in DOMAIN row : new[f] = IF f \in DOMAIN change THEN change[f] ELSE row[f]
    BY <1>2 DEF Patched
  <2>2. new = [f \in {"enabled", "decides", "approved", "model", "tuning", "revision"} |-> new[f]]
    BY <1>1, <1>2 DEF Patched
  <2>3. CASE change \in [enabled: BOOLEAN, decides: BOOLEAN]
    BY <1>1, <2>1, <2>2, <2>3 DEF SlotRow
  <2>4. CASE change \in [model: Models]
    BY <1>1, <2>1, <2>2, <2>4 DEF SlotRow
  <2>5. CASE change \in [tuning: Tunings]
    BY <1>1, <2>1, <2>2, <2>5 DEF SlotRow
  <2>6. CASE change \in [approved: {TRUE}]
    BY <1>1, <2>1, <2>2, <2>6 DEF SlotRow
  <2> QED
    BY <2>3, <2>4, <2>5, <2>6 DEF Changes
<1> QED
  BY <1>2, <1>3 DEF SlotRow

(* An upsert makes the next revision of a row.                              *)
LEMMA UpsertedType ==
    ASSUME RuntimeConfigAssumption, ConfigTypeOK, NEW s \in Slots, NEW edit, edit.change \in Changes,
           edit.read \in 1..(MaxRevision - 1)
    PROVE  Upserted(s, edit) \in SlotRow /\ Upserted(s, edit).revision = edit.read + 1
<1>1. PICK new : new = Patched(slot[s], edit.change)
  OBVIOUS
<1>2. new \in SlotRow
  BY <1>1, PatchedType DEF ConfigTypeOK
<1>3. edit.read + 1 \in 1..MaxRevision
  BY DEF RuntimeConfigAssumption
<1>4. Upserted(s, edit) = [new EXCEPT !.revision = edit.read + 1]
  BY <1>1 DEF Upserted
<1> QED
  BY <1>2, <1>3, <1>4 DEF SlotRow

(* Requests, restarts and secrets leave the slots and the calls alone.      *)
LEMMA SlotsStay ==
    ASSUME ConfigInv, ConfigTypeOK', UNCHANGED <<slot, calls>>, \A a \in Admins : Applies(a)'
    PROVE  ConfigInv'
BY DEF ConfigInv, CallIsOfItsSlot, VersionNamesSettings

(* upsert_ai_provider writes a revision that no call has seen.              *)
LEMMA UpsertKeeps ==
    ASSUME RuntimeConfigAssumption, ConfigInv, OneUpsertAtATime, NEW a \in Admins, Upsert(a)
    PROVE  ConfigInv'
<1>1. PICK edit, s : edit = editing[a] /\ s = editing[a].slot
  OBVIOUS
<1>2. /\ edit # NoEdit /\ edit.read \in 1..(MaxRevision - 1)
      /\ s \in Slots /\ edit.change \in Changes /\ edit.read = slot[s].revision
  BY <1>1 DEF Upsert, ConfigInv, Applies
<1>3. /\ slot' \in {slot, [slot EXCEPT ![s] = Upserted(s, edit)]}
      /\ editing' = [editing EXCEPT ![a] = NoEdit]
      /\ UNCHANGED <<master, inEnvironment, secret, policy, scheduled, calls>>
  BY <1>1 DEF Upsert
<1>4. PICK new : new = Upserted(s, edit)
  OBVIOUS
<1>5. new \in SlotRow /\ new.revision = slot[s].revision + 1
  BY <1>2, <1>4, UpsertedType DEF ConfigInv
<1>6. NoEdit \in [slot: Slots \cup {Unset}, change: Changes \cup {Unset}, read: 0..MaxRevision]
  BY DEF NoEdit, RuntimeConfigAssumption
<1>7. ConfigTypeOK'
  <2>1. slot' \in [Slots -> SlotRow]
    BY <1>2, <1>3, <1>4, <1>5 DEF ConfigInv, ConfigTypeOK
  <2>2. editing' \in [Admins -> [slot: Slots \cup {Unset}, change: Changes \cup {Unset}, read: 0..MaxRevision]]
    BY <1>3, <1>6 DEF ConfigInv, ConfigTypeOK
  <2> QED
    BY <1>3, <2>1, <2>2 DEF ConfigInv, ConfigTypeOK
<1>8. ASSUME NEW b \in Admins PROVE Applies(b)'
  <2>1. CASE b = a
    BY <1>3, <2>1 DEF Applies, ConfigInv, ConfigTypeOK
  <2>2. CASE b # a
    <3>1. editing'[b] = editing[b] /\ Applies(b)
      BY <1>3, <2>2 DEF ConfigInv, ConfigTypeOK
    <3>2. editing[b].read = 0
      BY <1>1, <1>2, <2>2 DEF OneUpsertAtATime
    <3> QED
      BY <3>1, <3>2 DEF Applies
  <2> QED
    BY <2>1, <2>2
<1>9. ASSUME NEW c \in calls PROVE CallIsOfItsSlot(c)'
  <2>1. /\ CallIsOfItsSlot(c) /\ c.slot \in Slots /\ c.revision \in Nat
        /\ slot[c.slot].revision \in Nat
    BY DEF ConfigInv, ConfigTypeOK, SlotRow
  <2>2. slot'[c.slot] = slot[c.slot] \/ (c.slot = s /\ slot'[c.slot] = new)
    BY <1>3, <1>4, <2>1 DEF ConfigInv, ConfigTypeOK
  <2>3. CASE slot'[c.slot] = slot[c.slot]
    BY <2>1, <2>3 DEF CallIsOfItsSlot
  <2>4. CASE c.slot = s /\ slot'[c.slot] = new
    <3>1. c.revision < slot'[c.slot].revision
      BY <1>5, <2>1, <2>4 DEF CallIsOfItsSlot
    <3> QED
      BY <2>1, <3>1, <1>5, <2>4 DEF CallIsOfItsSlot
  <2> QED
    BY <2>2, <2>3, <2>4
<1> QED
  BY <1>3, <1>7, <1>8, <1>9 DEF ConfigInv, VersionNamesSettings

(* PREPARE freezes what the row says of its version.                        *)
LEMMA FreezeKeeps ==
    ASSUME RuntimeConfigAssumption, ConfigInv, NEW s \in Slots, FreezeCall(s)
    PROVE  ConfigInv'
<1>1. PICK new : new = Frozen(s)
  OBVIOUS
<1>2. /\ new = [slot |-> s, revision |-> slot[s].revision, policy |-> policy.lag,
                model |-> slot[s].model, tuning |-> slot[s].tuning, approved |-> slot[s].approved]
      /\ slot[s] \in SlotRow /\ policy.lag \in Lags
  BY <1>1 DEF Frozen, Version, ConfigInv, ConfigTypeOK
<1>3. /\ new \in [slot: Slots, revision: 1..MaxRevision, policy: Lags, model: Models, tuning: Tunings,
                  approved: BOOLEAN]
      /\ CallIsOfItsSlot(new)
  BY <1>2 DEF SlotRow, CallIsOfItsSlot
<1>4. calls' = calls \cup {new} /\ scheduled' = scheduled \ {slot[s].model}
      /\ UNCHANGED <<master, inEnvironment, secret, slot, policy, editing>>
  BY <1>1 DEF FreezeCall
<1>5. ConfigTypeOK'
  BY <1>3, <1>4 DEF ConfigInv, ConfigTypeOK
<1>6. \A c \in calls' : CallIsOfItsSlot(c)'
  BY <1>3, <1>4 DEF ConfigInv, CallIsOfItsSlot
<1>7. ASSUME NEW c \in calls, c.slot = s, c.revision = new.revision, c.policy = new.policy PROVE c = new
  <2>1. /\ c \in [slot: Slots, revision: 1..MaxRevision, policy: Lags, model: Models, tuning: Tunings,
                  approved: BOOLEAN]
        /\ CallIsOfItsSlot(c)
    BY DEF ConfigInv, ConfigTypeOK
  <2>2. c.model = new.model /\ c.tuning = new.tuning /\ c.approved = new.approved /\ c.slot = new.slot
    BY <1>2, <1>7, <2>1 DEF CallIsOfItsSlot
  <2> QED
    BY <1>3, <1>7, <2>1, <2>2
<1>8. VersionNamesSettings'
  BY <1>2, <1>4, <1>7 DEF ConfigInv, VersionNamesSettings
<1> QED
  BY <1>4, <1>5, <1>6, <1>8 DEF ConfigInv, Applies

(* The other steps.                                                         *)
LEMMA ConfigGoesOn ==
    ASSUME RuntimeConfigAssumption, ConfigInv, OneUpsertAtATime, [ConfigNext]_configVars
    PROVE  ConfigInv'
<1>0. NoEdit \in [slot: Slots \cup {Unset}, change: Changes \cup {Unset}, read: 0..MaxRevision]
  BY DEF NoEdit, RuntimeConfigAssumption
<1>1. ASSUME NEW key \in MasterKeys \cup {Unset}, NEW environment \in BOOLEAN, Restart(key, environment)
      PROVE  ConfigInv'
  <2>1. ConfigTypeOK'
    BY <1>0, <1>1 DEF Restart, Seeded, ConfigInv, ConfigTypeOK
  <2>2. \A a \in Admins : Applies(a)'
    BY <1>1 DEF Restart, Applies
  <2> QED
    BY <1>1, <2>1, <2>2, SlotsStay DEF Restart
<1>2. CASE ReplaceSecret
  <2>1. ConfigTypeOK'
    BY <1>2 DEF ReplaceSecret, ConfigInv, ConfigTypeOK
  <2> QED
    BY <1>2, <2>1, SlotsStay DEF ReplaceSecret, ConfigInv, Applies
<1>3. ASSUME NEW a \in Admins, SelectRow(a) PROVE ConfigInv'
  <2>1. editing[a] # NoEdit /\ editing[a].slot \in Slots /\ editing[a].change \in Changes
    BY <1>3 DEF SelectRow, ConfigInv, Applies
  <2>2. PICK edit : edit = [editing[a] EXCEPT !.read = slot[editing[a].slot].revision]
    OBVIOUS
  <2>3. /\ edit \in [slot: Slots \cup {Unset}, change: Changes \cup {Unset}, read: 0..MaxRevision]
        /\ edit.slot = editing[a].slot /\ edit.change = editing[a].change
        /\ edit.read = slot[editing[a].slot].revision
    BY <2>1, <2>2 DEF ConfigInv, ConfigTypeOK, SlotRow
  <2>4. editing' = [editing EXCEPT ![a] = edit] /\ UNCHANGED <<master, inEnvironment, secret, slot, policy, scheduled, calls>>
    BY <1>3, <2>2 DEF SelectRow
  <2>5. ConfigTypeOK'
    BY <2>3, <2>4 DEF ConfigInv, ConfigTypeOK
  <2>6. ASSUME NEW b \in Admins PROVE Applies(b)'
    BY <2>1, <2>3, <2>4 DEF ConfigInv, ConfigTypeOK, Applies
  <2> QED
    BY <2>4, <2>5, <2>6, SlotsStay
<1>4. ASSUME NEW a \in Admins, Upsert(a) PROVE ConfigInv'
  BY <1>4, UpsertKeeps
<1>5. ASSUME NEW a \in Admins, NEW s \in Slots, NEW change \in Changes, Validate(a, s, change) PROVE ConfigInv'
  <2>1. PICK edit : edit = [slot |-> s, change |-> change, read |-> 0]
    OBVIOUS
  <2>2. edit \in [slot: Slots \cup {Unset}, change: Changes \cup {Unset}, read: 0..MaxRevision]
    BY <2>1 DEF RuntimeConfigAssumption
  <2>3. editing' = [editing EXCEPT ![a] = edit] /\ UNCHANGED <<master, inEnvironment, secret, slot, policy, scheduled, calls>>
    BY <1>5, <2>1 DEF Validate
  <2>4. ConfigTypeOK'
    BY <2>2, <2>3 DEF ConfigInv, ConfigTypeOK
  <2>5. ASSUME NEW b \in Admins PROVE Applies(b)'
    BY <2>1, <2>3 DEF ConfigInv, ConfigTypeOK, Applies
  <2> QED
    BY <2>3, <2>4, <2>5, SlotsStay
<1>6. ASSUME NEW decisions \in BOOLEAN, NEW lag \in Lags, SetPolicy(decisions, lag) PROVE ConfigInv'
  <2>1. ConfigTypeOK'
    BY <1>6 DEF SetPolicy, ConfigInv, ConfigTypeOK
  <2> QED
    BY <1>6, <2>1, SlotsStay DEF SetPolicy, ConfigInv, Applies
<1>7. CASE Schedule \/ \E m \in Models : GiveUp(m)
  <2>1. scheduled' \subseteq Models
    BY <1>7 DEF Schedule, GiveUp, ConfigInv, ConfigTypeOK, SlotRow
  <2>2. ConfigTypeOK'
    BY <1>7, <2>1 DEF Schedule, GiveUp, ConfigInv, ConfigTypeOK
  <2> QED
    BY <1>7, <2>2, SlotsStay DEF Schedule, GiveUp, ConfigInv, Applies
<1>8. ASSUME NEW s \in Slots, FreezeCall(s) PROVE ConfigInv'
  BY <1>8, FreezeKeeps
<1>9. CASE UNCHANGED configVars
  BY <1>9 DEF configVars, ConfigInv, ConfigTypeOK, Applies, CallIsOfItsSlot, VersionNamesSettings
<1> QED
  BY <1>1, <1>2, <1>3, <1>4, <1>5, <1>6, <1>7, <1>8, <1>9 DEF ConfigNext

(* What the control plane calls active the job can prepare, and a version   *)
(* names one configuration, for every number of slots, models, keys and     *)
(* administrators, as long as two transactions do not write one revision    *)
(* (RuntimeConfigurationService.upsert_ai_provider reads without a lock).   *)
THEOREM SettingsAlwaysSound ==
    ASSUME RuntimeConfigAssumption
    PROVE  ConfigSpec /\ [][OneUpsertAtATime']_configVars => []SettingsAreSound
<1>1. ConfigInit => ConfigInv /\ OneUpsertAtATime
  <2> SUFFICES ASSUME ConfigInit PROVE ConfigInv /\ OneUpsertAtATime
    OBVIOUS
  <2>1. NoEdit \in [slot: Slots \cup {Unset}, change: Changes \cup {Unset}, read: 0..MaxRevision]
    BY DEF NoEdit, RuntimeConfigAssumption
  <2>2. slot \in [Slots -> SlotRow]
    BY DEF ConfigInit, Seeds, SlotRow, RuntimeConfigAssumption
  <2>3. ConfigTypeOK
    BY <2>1, <2>2 DEF ConfigInit, ConfigTypeOK, Seeded
  <2>4. \A a \in Admins : Applies(a) /\ editing[a].read = 0
    BY DEF ConfigInit, Applies, NoEdit
  <2> QED
    BY <2>3, <2>4 DEF ConfigInit, ConfigInv, VersionNamesSettings, OneUpsertAtATime
<1>2. ConfigInv /\ OneUpsertAtATime /\ [ConfigNext]_configVars /\ [OneUpsertAtATime']_configVars
      => ConfigInv' /\ OneUpsertAtATime'
  <2> SUFFICES ASSUME ConfigInv, OneUpsertAtATime, [ConfigNext]_configVars, [OneUpsertAtATime']_configVars
               PROVE  ConfigInv' /\ OneUpsertAtATime'
    OBVIOUS
  <2>1. OneUpsertAtATime'
    BY DEF OneUpsertAtATime, configVars
  <2> QED
    BY <2>1, ConfigGoesOn
<1>3. ConfigInv => SettingsAreSound
  BY DEF ConfigInv, SettingsAreSound, ActiveCanPrepare, Active, CanPrepare, Operational, Decryptable, Readable
<1> QED
  BY <1>1, <1>2, <1>3, PTL DEF ConfigSpec

-----------------------------------------------------------------------------
(* Drafts.  Rows are stamped in their order and, while a run is open, before *)
(* it; a verified draft that no legacy one follows is the last or followed   *)
(* by verified ones; all slots, full payloads and the newest one have the    *)
(* same team as radiant.                                                     *)
Content == [radiant: Team \cup {"none"},
            source: Verified \cup {"DRAFT_PARTIAL", "DRAFT_POSITION_UNRESOLVED", "DLTV_SLOT"}]
DraftRow == [at: Nat, content: Content, curve: Nat]
ArchiveRow == [at: Nat, payload: Payload]
RunRow == [kind: {"none", "bootstrap", "repair"}, payload: Payload, at: Nat, since: Nat]

DraftTypes ==
    /\ time \in Nat /\ dltv \in Payload
    /\ archive \in Seq(ArchiveRow) /\ drafts \in Seq(DraftRow)
    /\ run \in RunRow

Rising(log, n) == \A i, j \in 1..n : i < j => log[i].at < log[j].at
Upto(log, n, t) == \A i \in 1..n : log[i].at <= t
Below(log, n, t) == \A i \in 1..n : log[i].at < t

StampsRise ==
    /\ Rising(archive, Len(archive)) /\ Upto(archive, Len(archive), time)
    /\ Rising(drafts, Len(drafts)) /\ Upto(drafts, Len(drafts), time)
    /\ run # NoRun =>
          /\ run.since = run.at /\ run.at <= time
          /\ Below(archive, Len(archive), run.at) /\ Below(drafts, Len(drafts), run.at)

Unspoilt ==
    \E i \in 1..Len(drafts) :
        /\ drafts[i].content.source \in Verified
        /\ \A j \in 1..Len(drafts) : Legacy(drafts[j].content) => drafts[j].at < drafts[i].at

VerifiedLast == Unspoilt => drafts[Len(drafts)].content.source \in Verified

IsSide(payload) == payload.full => dltv.full /\ payload.radiant = dltv.radiant
NewestTells ==
    /\ dltv.full /\ archive # <<>> /\ archive[Len(archive)].payload.radiant = dltv.radiant
    /\ run # NoRun => run.payload.radiant = dltv.radiant

SidesAgree ==
    /\ \A i \in 1..Len(archive) : IsSide(archive[i].payload)
    /\ IsSide(run.payload)
    /\ \A i \in 1..Len(drafts) :
           drafts[i].content.radiant # "none" =>
               drafts[i].content.radiant = dltv.radiant /\ NewestTells
    /\ run.kind = "repair" => archive # <<>> /\ run.payload = archive[Len(archive)].payload

DraftInv == DraftTypes /\ StampsRise /\ VerifiedLast /\ SidesAgree

(* The newest of rows that are stamped in their order is the last one.      *)
LEMMA LastIsNewest ==
    ASSUME NEW log, NEW n \in Nat \ {0}, NEW t, DOMAIN log = 1..n,
           \A i \in 1..n : log[i].at \in Nat, Rising(log, n), Upto(log, n, t)
    PROVE  NewestOf(log, t) = {n}
<1>1. \A i \in 1..n : log[i].at <= log[n].at
  <2> SUFFICES ASSUME NEW i \in 1..n
               PROVE  log[i].at <= log[n].at
    OBVIOUS
  <2>1. CASE i = n
    BY <2>1
  <2>2. CASE i # n
    <3>1. i < n /\ n \in 1..n
      BY <2>2
    <3>2. log[i].at < log[n].at
      BY <3>1 DEF Rising
    <3> QED
      BY <3>1, <3>2
  <2> QED
    BY <2>1, <2>2
<1>2. \A i \in 1..n : i # n => ~(log[n].at <= log[i].at)
  <2> SUFFICES ASSUME NEW i \in 1..n, i # n
               PROVE  ~(log[n].at <= log[i].at)
    OBVIOUS
  <2>1. i < n /\ n \in 1..n
    OBVIOUS
  <2>2. log[i].at < log[n].at
    BY <2>1 DEF Rising
  <2> QED
    BY <2>1, <2>2
<1> QED
  BY <1>1, <1>2 DEF NewestOf, Upto

(* A later row does not change what was the newest at a time before it.     *)
LEMMA NewestIsKept ==
    ASSUME NEW log, NEW more, NEW t, DOMAIN log \subseteq DOMAIN more,
           \A i \in DOMAIN log : more[i].at = log[i].at,
           \A i \in DOMAIN more \ DOMAIN log : ~(more[i].at <= t)
    PROVE  NewestOf(more, t) = NewestOf(log, t)
BY DEF NewestOf

(* A row stamped later than all others comes last.                          *)
LEMMA RowsRise ==
    ASSUME NEW log, NEW n \in Nat, NEW more, NEW at \in Nat,
           \A i \in 1..n : log[i].at \in Nat /\ more[i] = log[i],
           more[n + 1].at = at, Rising(log, n), Below(log, n, at)
    PROVE  Rising(more, n + 1) /\ Upto(more, n + 1, at)
BY DEF Rising, Below, Upto

(* What becomes of a payload: slots only when it is full, with its own side *)
(* as radiant, and never in the order of the provider.                      *)
LEMMA ResolvedIs ==
    ASSUME NEW payload \in Payload, NEW answered \in Nat, run \in RunRow,
           NEW content, content = Resolved(payload, answered).content,
           NEW cutoff, cutoff = Resolved(payload, answered).cutoff
    PROVE  /\ content \in Content /\ cutoff \in {run.at, answered} /\ ~Legacy(content)
           /\ Complete(content) <=> content.source \in Verified
           /\ content.radiant # "none" => payload.full /\ content.radiant = payload.radiant
<1>1. Resolved(payload, answered) \in
          {[content |-> Partial, cutoff |-> run.at], [content |-> Blocked, cutoff |-> run.at],
           [content |-> From("STRATZ_CURRENT_MATCH", payload), cutoff |-> answered],
           [content |-> From("HISTORICAL_ROLE_ASSIGNMENT", payload), cutoff |-> run.at]}
      /\ (~payload.full => Resolved(payload, answered) = [content |-> Partial, cutoff |-> run.at])
  BY DEF Resolved
<1>2. cutoff \in {run.at, answered}
      /\ content \in {Partial, Blocked, From("STRATZ_CURRENT_MATCH", payload), From("HISTORICAL_ROLE_ASSIGNMENT", payload)}
      /\ (~payload.full => content = Partial)
  BY <1>1
<1>3. payload.radiant \in Team
  BY DEF Payload
<1> QED
  BY <1>2, <1>3 DEF Content, Legacy, Complete, Partial, Blocked, From, Verified

(* A new map has nothing; one an earlier release left has one or two rows.  *)
LEMMA DraftBegins ==
    ASSUME DraftInit
    PROVE  DraftInv
<1>1. dltv \in Payload /\ run = NoRun /\ NoRun \in RunRow /\ ~NoRun.payload.full /\ NoRun.kind = "none"
  BY DEF DraftInit, NoRun, RunRow, Payload, Team
<1>2. CASE time = 0 /\ archive = <<>> /\ drafts = <<>>
  <2>1. DraftTypes
    BY <1>1, <1>2 DEF DraftTypes
  <2> QED
    BY <1>1, <1>2, <2>1 DEF DraftInv, StampsRise, Rising, Upto, VerifiedLast, Unspoilt, SidesAgree, IsSide
<1>3. CASE ~(time = 0 /\ archive = <<>> /\ drafts = <<>>)
  <2> DEFINE old == From("DLTV_SLOT", dltv)
             new == From("STRATZ_CURRENT_MATCH", dltv)
  <2>1. dltv.full /\ archive = <<Archived(dltv)>> /\ time \in {1, 2}
        /\ (drafts = <<Old(1, old)>> \/ (time = 2 /\ drafts = <<Old(1, new), Old(2, old)>>))
    <3>1. (time = 1 /\ drafts = <<Old(1, old)>>) \/ (time = 2 /\ drafts = <<Old(1, new), Old(2, old)>>)
      BY <1>3, Zenon DEF DraftInit
    <3>2. dltv.full /\ archive = <<Archived(dltv)>>
      BY <1>3, Zenon DEF DraftInit
    <3> QED
      BY <3>1, <3>2
  <2>2. old \in Content /\ new \in Content /\ old.radiant = dltv.radiant /\ new.radiant = dltv.radiant
        /\ old.source \notin Verified /\ Legacy(old) /\ old.source = "DLTV_SLOT"
    BY <1>1 DEF Content, From, Payload, Verified, Legacy
  <2>3. Old(1, old) \in DraftRow /\ Old(1, new) \in DraftRow /\ Old(2, old) \in DraftRow
        /\ Archived(dltv) \in ArchiveRow
    BY <1>1, <2>2 DEF DraftRow, ArchiveRow, Old, Archived
  <2>4. /\ Old(1, old).at = 1 /\ Old(1, new).at = 1 /\ Old(2, old).at = 2 /\ Archived(dltv).at = 1
        /\ Old(1, old).content = old /\ Old(1, new).content = new /\ Old(2, old).content = old
        /\ Archived(dltv).payload = dltv
    BY DEF Old, Archived
  <2> HIDE DEF old, new
  <2>5. DraftTypes
    <3>1. archive \in Seq(ArchiveRow)
      BY <2>1, <2>3
    <3>2. drafts \in Seq(DraftRow)
      <4> DEFINE a == Old(1, old)  b == Old(1, new)  c == Old(2, old)
      <4>1. a \in DraftRow /\ b \in DraftRow /\ c \in DraftRow /\ (drafts = <<a>> \/ drafts = <<b, c>>)
        BY <2>1, <2>3
      <4> HIDE DEF a, b, c
      <4>2. <<a>> \in Seq(DraftRow) /\ <<b, c>> \in Seq(DraftRow)
        BY <4>1
      <4> QED
        BY <4>1, <4>2
    <3>3. time \in Nat
      BY <2>1
    <3> QED
      BY <1>1, <3>1, <3>2, <3>3 DEF DraftTypes
  <2>6. Len(archive) = 1 /\ archive[1] = Archived(dltv) /\ archive # <<>>
    BY <2>1
  <2>7. CASE drafts = <<Old(1, old)>>
    <3>1. Len(drafts) = 1 /\ drafts[1] = Old(1, old)
      BY <2>7
    <3>2. StampsRise
      BY <1>1, <2>1, <2>4, <2>6, <3>1 DEF StampsRise, Rising, Upto
    <3>3. VerifiedLast
      BY <2>2, <2>4, <3>1 DEF VerifiedLast, Unspoilt
    <3>4. SidesAgree
      BY <1>1, <2>1, <2>2, <2>4, <2>6, <3>1 DEF SidesAgree, IsSide, NewestTells
    <3> QED
      BY <2>5, <3>2, <3>3, <3>4 DEF DraftInv
  <2>8. CASE time = 2 /\ drafts = <<Old(1, new), Old(2, old)>>
    <3>1. Len(drafts) = 2 /\ drafts[1] = Old(1, new) /\ drafts[2] = Old(2, old)
      BY <2>8
    <3>2. StampsRise
      BY <1>1, <2>8, <2>4, <2>6, <3>1 DEF StampsRise, Rising, Upto
    <3>3. VerifiedLast
      <4>1. ~Unspoilt
        <5> SUFFICES ASSUME NEW i \in 1..2
                     PROVE  ~(drafts[2].at < drafts[i].at)
          BY <2>2, <2>4, <3>1 DEF Unspoilt
        <5> QED
          BY <2>4, <3>1
      <4> QED
        BY <4>1 DEF VerifiedLast
    <3>4. SidesAgree
      BY <1>1, <2>1, <2>2, <2>4, <2>6, <3>1 DEF SidesAgree, IsSide, NewestTells
    <3> QED
      BY <2>5, <3>2, <3>3, <3>4 DEF DraftInv
  <2> QED
    BY <2>1, <2>7, <2>8
<1> QED
  BY <1>2, <1>3

(* What the providers know changes; full picks stay and keep their sides.   *)
LEMMA MovesKeep ==
    ASSUME DraftInv, Moves
    PROVE  DraftInv'
<1>1. /\ dltv' \in Payload /\ (dltv.full => dltv'.full /\ dltv'.radiant = dltv.radiant)
      /\ time' = time /\ archive' = archive /\ drafts' = drafts /\ run' = run
  BY DEF Moves, DraftInv, DraftTypes
<1>2. DraftTypes' /\ StampsRise' /\ VerifiedLast'
  BY <1>1 DEF DraftInv, DraftTypes, StampsRise, Rising, Upto, Below, VerifiedLast, Unspoilt
<1>3. SidesAgree'
  BY <1>1 DEF DraftInv, SidesAgree, IsSide, NewestTells
<1> QED
  BY <1>2, <1>3 DEF DraftInv

(* A bootstrap or a repair begins, stamped later than all that is stored.   *)
LEMMA BeginKeeps ==
    ASSUME DraftInv, Fetch \/ Repair
    PROVE  DraftInv'
<1>1. PICK kind, payload :
          /\ kind \in {"bootstrap", "repair"} /\ Begin(kind, payload)
          /\ \/ payload = dltv /\ kind = "bootstrap"
             \/ archive # <<>> /\ payload = archive[Len(archive)].payload
  BY Zenon DEF Fetch, Repair
<1>2. /\ run = NoRun /\ time' = time + 1 /\ dltv' = dltv /\ archive' = archive /\ drafts' = drafts
      /\ run' = [kind |-> kind, payload |-> payload, at |-> time + 1, since |-> time + 1]
  BY <1>1 DEF Begin
<1>3. /\ time \in Nat /\ archive \in Seq(ArchiveRow) /\ drafts \in Seq(DraftRow) /\ dltv \in Payload
  BY DEF DraftInv, DraftTypes
<1>4. archive # <<>> => Len(archive) \in 1..Len(archive)
  BY <1>3
<1>5. \A i \in 1..Len(archive) : archive[i] \in ArchiveRow
  BY <1>3
<1>6. payload \in Payload
  BY <1>1, <1>3, <1>4, <1>5 DEF ArchiveRow
<1>7. DraftTypes'
  BY <1>1, <1>2, <1>3, <1>6 DEF DraftTypes, RunRow
<1>8. StampsRise'
  <2>1. \A i \in 1..Len(archive) : archive[i].at \in Nat
    BY <1>5 DEF ArchiveRow
  <2>2. \A i \in 1..Len(drafts) : drafts[i].at \in Nat
    <3>1. \A i \in 1..Len(drafts) : drafts[i] \in DraftRow
      BY <1>3
    <3> QED
      BY <3>1 DEF DraftRow
  <2>3. Upto(archive, Len(archive), time) /\ Upto(drafts, Len(drafts), time)
        /\ Rising(archive, Len(archive)) /\ Rising(drafts, Len(drafts))
    BY DEF DraftInv, StampsRise
  <2>4. Below(archive, Len(archive), time + 1) /\ Below(drafts, Len(drafts), time + 1)
        /\ Upto(archive, Len(archive), time + 1) /\ Upto(drafts, Len(drafts), time + 1)
    BY <1>3, <2>1, <2>2, <2>3 DEF Below, Upto
  <2>5. run'.since = time + 1 /\ run'.at = time + 1
    BY <1>2
  <2> QED
    BY <1>2, <1>3, <2>3, <2>4, <2>5 DEF StampsRise
<1>9. VerifiedLast'
  BY <1>2 DEF DraftInv, VerifiedLast, Unspoilt
<1>10. SidesAgree'
  <2>1. run'.payload = payload /\ run'.kind = kind
    BY <1>2
  <2>2. IsSide(payload)
    BY <1>1, <1>4 DEF DraftInv, SidesAgree, IsSide
  <2>3. \A i \in 1..Len(drafts) : drafts[i].content.radiant # "none" =>
            /\ drafts[i].content.radiant = dltv.radiant /\ dltv.full /\ archive # <<>>
            /\ archive[Len(archive)].payload.radiant = dltv.radiant /\ payload.radiant = dltv.radiant
    BY <1>1 DEF DraftInv, SidesAgree, NewestTells
  <2>4. \A i \in 1..Len(archive) : IsSide(archive[i].payload)
    BY DEF DraftInv, SidesAgree
  <2> QED
    BY <1>1, <1>2, <2>1, <2>2, <2>3, <2>4 DEF SidesAgree, IsSide, NewestTells
<1> QED
  BY <1>7, <1>8, <1>9, <1>10 DEF DraftInv

(* A payload is processed: its draft, if it adds one, is the last row.      *)
LEMMA ProcessKeeps ==
    ASSUME DraftInv, Process
    PROVE  DraftInv'
<1> DEFINE answered == time + 1
           content == Resolved(run.payload, answered).content
           cutoff == Resolved(run.payload, answered).cutoff
           stamp == IF cutoff > run.at THEN cutoff ELSE run.at
           m == Len(archive)
           n == Len(drafts)
<1>1. /\ time \in Nat /\ dltv \in Payload /\ archive \in Seq(ArchiveRow) /\ drafts \in Seq(DraftRow)
      /\ run \in RunRow /\ run.payload \in Payload /\ run.at \in Nat /\ m \in Nat /\ n \in Nat
  BY DEF DraftInv, DraftTypes, RunRow
<1>2. /\ run # NoRun /\ time' = answered /\ run' = NoRun /\ dltv' = dltv
      /\ archive' = IF run.kind = "repair" THEN archive
                    ELSE Append(archive, [at |-> run.at, payload |-> run.payload])
      /\ drafts' = IF Adds(content) THEN Append(drafts, Draft(stamp, content)) ELSE drafts
  BY DEF Process
<1>3. /\ content \in Content /\ cutoff \in {run.at, answered} /\ ~Legacy(content)
      /\ Complete(content) <=> content.source \in Verified
      /\ content.radiant # "none" => run.payload.full /\ content.radiant = run.payload.radiant
  BY <1>1, ResolvedIs
<1>4. /\ run.at <= time /\ Rising(archive, m) /\ Upto(archive, m, time) /\ Rising(drafts, n)
      /\ Upto(drafts, n, time) /\ Below(archive, m, run.at) /\ Below(drafts, n, run.at)
  BY <1>2 DEF DraftInv, StampsRise
<1>5. /\ \A i \in 1..m : archive[i] \in ArchiveRow /\ archive[i].at \in Nat
      /\ \A i \in 1..n : drafts[i] \in DraftRow /\ drafts[i].at \in Nat
  <2>1. \A i \in 1..m : archive[i] \in ArchiveRow
    BY <1>1
  <2>2. \A i \in 1..n : drafts[i] \in DraftRow
    BY <1>1
  <2> QED
    BY <2>1, <2>2 DEF ArchiveRow, DraftRow
<1>6. stamp \in Nat /\ run.at <= stamp /\ stamp <= answered /\ answered \in Nat /\ time <= answered
  BY <1>1, <1>3, <1>4
<1>7. /\ Draft(stamp, content) \in DraftRow /\ Draft(stamp, content).at = stamp
      /\ Draft(stamp, content).content = content
  BY <1>3, <1>6 DEF Draft, DraftRow
<1> DEFINE entry == [at |-> run.at, payload |-> run.payload]
           added == Draft(stamp, content)
<1>8. entry \in ArchiveRow /\ entry.at = run.at /\ entry.payload = run.payload
  BY <1>1 DEF ArchiveRow
<1>9. \/ run.kind = "repair" /\ archive' = archive
      \/ /\ run.kind # "repair" /\ archive' = Append(archive, entry) /\ Len(archive') = m + 1
         /\ archive'[m + 1] = entry /\ \A i \in 1..m : archive'[i] = archive[i]
  BY <1>1, <1>2
<1>10. \/ ~Adds(content) /\ drafts' = drafts
       \/ /\ Adds(content) /\ drafts' = Append(drafts, added) /\ Len(drafts') = n + 1
          /\ drafts'[n + 1] = added /\ \A i \in 1..n : drafts'[i] = drafts[i]
  BY <1>1, <1>2
<1> HIDE DEF entry, added, stamp, content, cutoff
<1>11. archive' \in Seq(ArchiveRow) /\ drafts' \in Seq(DraftRow)
  BY <1>1, <1>2, <1>7, <1>8, <1>9, <1>10 DEF added
<1>12. DraftTypes'
  BY <1>1, <1>2, <1>6, <1>11 DEF DraftTypes, NoRun, RunRow, Payload, Team
<1>13. Rising(archive', Len(archive')) /\ Upto(archive', Len(archive'), answered)
  <2>1. CASE archive' = archive
    BY <1>1, <1>4, <1>5, <1>6, <2>1 DEF Upto
  <2>2. CASE archive' # archive
    <3>1. /\ Len(archive') = m + 1 /\ archive'[m + 1].at = run.at
          /\ \A i \in 1..m : archive[i].at \in Nat /\ archive'[i] = archive[i]
      BY <1>5, <1>8, <1>9, <2>2
    <3>2. Rising(archive', m + 1) /\ Upto(archive', m + 1, run.at)
      BY <1>1, <1>4, <3>1, RowsRise
    <3>3. \A i \in 1..(m + 1) : archive'[i].at \in Nat
      BY <1>1, <3>1
    <3> QED
      BY <1>1, <1>4, <1>6, <3>1, <3>2, <3>3 DEF Upto
  <2> QED
    BY <2>1, <2>2
<1>14. Rising(drafts', Len(drafts')) /\ Upto(drafts', Len(drafts'), answered)
  <2>1. CASE drafts' = drafts
    BY <1>1, <1>4, <1>5, <1>6, <2>1 DEF Upto
  <2>2. CASE drafts' # drafts
    <3>1. /\ Len(drafts') = n + 1 /\ drafts'[n + 1].at = stamp
          /\ \A i \in 1..n : drafts[i].at \in Nat /\ drafts'[i] = drafts[i]
      BY <1>5, <1>7, <1>10, <2>2 DEF added
    <3>2. Below(drafts, n, stamp)
      BY <1>1, <1>4, <1>5, <1>6 DEF Below
    <3>3. Rising(drafts', n + 1) /\ Upto(drafts', n + 1, stamp)
      BY <1>1, <1>4, <1>6, <3>1, <3>2, RowsRise
    <3>4. \A i \in 1..(n + 1) : drafts'[i].at \in Nat
      BY <1>1, <1>6, <3>1
    <3> QED
      BY <1>1, <1>6, <3>1, <3>3, <3>4 DEF Upto
  <2> QED
    BY <2>1, <2>2
<1>15. StampsRise'
  BY <1>2, <1>13, <1>14 DEF StampsRise
<1>16. n > 0 => Latest = {n} /\ LatestContent = drafts[n].content
  <2>1. n > 0 => n \in Nat \ {0} /\ DOMAIN drafts = 1..n
    BY <1>1
  <2>2. n > 0 => Latest = {n}
    BY <1>4, <1>5, <2>1, LastIsNewest DEF Latest
  <2> QED
    BY <2>2 DEF LatestContent
<1>17. VerifiedLast'
  <2>1. CASE drafts' = drafts
    BY <2>1 DEF DraftInv, VerifiedLast, Unspoilt
  <2>2. CASE drafts' # drafts
    <3>1. /\ Adds(content) /\ Len(drafts') = n + 1 /\ drafts'[n + 1].content = content
          /\ \A i \in 1..n : drafts'[i] = drafts[i]
      BY <1>7, <1>10, <2>2 DEF added
    <3> SUFFICES ASSUME Unspoilt', content.source \notin Verified
                 PROVE  FALSE
      BY <3>1 DEF VerifiedLast
    <3>2. PICK i \in 1..(n + 1) :
              /\ drafts'[i].content.source \in Verified
              /\ \A j \in 1..(n + 1) : Legacy(drafts'[j].content) => drafts'[j].at < drafts'[i].at
      BY <3>1 DEF Unspoilt
    <3>3. i # n + 1 /\ i \in 1..n /\ n > 0
      BY <1>1, <3>1, <3>2
    <3>4. drafts[i].content.source \in Verified
          /\ \A j \in 1..n : Legacy(drafts[j].content) => drafts[j].at < drafts[i].at
      BY <1>1, <3>1, <3>2, <3>3
    <3>5. drafts[n].content.source \in Verified
      BY <3>3, <3>4 DEF DraftInv, VerifiedLast, Unspoilt
    <3>6. Latest # {} /\ LatestContent.source \in Verified /\ ~Complete(content)
      BY <1>3, <1>16, <3>3, <3>5
    <3> QED
      BY <3>1, <3>6 DEF Adds
  <2> QED
    BY <2>1, <2>2
<1>18. SidesAgree'
  <2>1. /\ \A i \in 1..m : IsSide(archive[i].payload)
        /\ IsSide(run.payload)
        /\ run.kind = "repair" => archive # <<>> /\ run.payload = archive[m].payload
    BY DEF DraftInv, SidesAgree
  <2>2. archive' # <<>> /\ archive'[Len(archive')].payload = run.payload
        /\ \A i \in 1..Len(archive') : IsSide(archive'[i].payload)
    <3>1. CASE run.kind = "repair"
      BY <1>9, <2>1, <3>1
    <3>2. CASE run.kind # "repair"
      <4>1. /\ Len(archive') = m + 1 /\ archive'[m + 1].payload = run.payload
            /\ \A i \in 1..m : archive'[i] = archive[i]
        BY <1>8, <1>9, <3>2
      <4>2. archive' # <<>>
        BY <1>1, <4>1
      <4> QED
        BY <1>1, <2>1, <4>1, <4>2
    <3> QED
      BY <3>1, <3>2
  <2>3. \A i \in 1..n : drafts[i].content.radiant # "none" =>
            /\ drafts[i].content.radiant = dltv.radiant /\ dltv.full /\ run.payload.radiant = dltv.radiant
    BY <1>2 DEF DraftInv, SidesAgree, NewestTells
  <2>4. content.radiant # "none" =>
            content.radiant = dltv.radiant /\ dltv.full /\ run.payload.radiant = dltv.radiant
    BY <1>3, <2>1 DEF IsSide
  <2>5. \A i \in 1..Len(drafts') : drafts'[i].content.radiant # "none" =>
            /\ drafts'[i].content.radiant = dltv.radiant /\ dltv.full /\ run.payload.radiant = dltv.radiant
    <3>1. CASE drafts' = drafts
      BY <2>3, <3>1
    <3>2. CASE drafts' # drafts
      BY <1>1, <1>7, <1>10, <2>3, <2>4, <3>2 DEF added
    <3> QED
      BY <3>1, <3>2
  <2>6. ~NoRun.payload.full /\ NoRun.kind = "none"
    BY DEF NoRun
  <2> QED
    BY <1>2, <2>2, <2>5, <2>6 DEF SidesAgree, IsSide, NewestTells
<1> QED
  BY <1>12, <1>15, <1>17, <1>18 DEF DraftInv

(* A curve is stored beside a draft that stays as it is.                    *)
LEMMA BuildKeeps ==
    ASSUME DraftInv, BuildSome
    PROVE  DraftInv'
<1> PICK i \in DOMAIN drafts, job \in {"event", "sweep"} : Build(i, job)
  BY DEF BuildSome
<1>1. /\ time' = time + 1 /\ dltv' = dltv /\ archive' = archive /\ run' = run
      /\ drafts' = [drafts EXCEPT ![i].curve = IF @ = 0 THEN time' ELSE @]
  BY DEF Build
<1>2. /\ time \in Nat /\ drafts \in Seq(DraftRow) /\ DOMAIN drafts = 1..Len(drafts)
      /\ archive \in Seq(ArchiveRow)
  BY DEF DraftInv, DraftTypes
<1>3. \A j \in DOMAIN drafts : drafts[j] \in DraftRow
  BY <1>2
<1>4. /\ drafts' \in Seq(DraftRow) /\ Len(drafts') = Len(drafts)
      /\ \A j \in 1..Len(drafts) : drafts'[j].at = drafts[j].at /\ drafts'[j].content = drafts[j].content
  <2>1. [drafts[i] EXCEPT !.curve = IF @ = 0 THEN time' ELSE @] \in DraftRow
    <3>1. drafts[i] \in DraftRow /\ time' \in Nat
      BY <1>1, <1>2, <1>3
    <3> QED
      BY <3>1 DEF DraftRow
  <2> DEFINE row == [drafts[i] EXCEPT !.curve = IF @ = 0 THEN time' ELSE @]
  <2>2. drafts' = [drafts EXCEPT ![i] = row]
    BY <1>1
  <2>3. row.at = drafts[i].at /\ row.content = drafts[i].content
    BY <1>3 DEF DraftRow
  <2> HIDE DEF row
  <2>4. drafts' \in Seq(DraftRow) /\ Len(drafts') = Len(drafts)
    BY <1>2, <2>1, <2>2 DEF row
  <2> QED
    BY <1>2, <2>2, <2>3, <2>4
<1>5. DraftTypes'
  BY <1>1, <1>2, <1>4 DEF DraftInv, DraftTypes
<1>6. StampsRise'
  <2>1. \A j \in 1..Len(archive) : archive[j].at \in Nat
    <3>1. \A j \in 1..Len(archive) : archive[j] \in ArchiveRow
      BY <1>2
    <3> QED
      BY <3>1 DEF ArchiveRow
  <2>2. \A j \in 1..Len(drafts) : drafts[j].at \in Nat
    BY <1>2, <1>3 DEF DraftRow
  <2>3. run # NoRun => run.at \in Nat
    BY DEF DraftInv, DraftTypes, RunRow
  <2> QED
    BY <1>1, <1>2, <1>4, <2>1, <2>2, <2>3 DEF DraftInv, StampsRise, Rising, Upto, Below
<1>7. VerifiedLast'
  <2>1. Len(drafts) > 0 => Len(drafts) \in 1..Len(drafts)
    BY <1>2
  <2>2. i \in 1..Len(drafts)
    BY <1>2
  <2> QED
    BY <1>4, <2>1, <2>2 DEF DraftInv, VerifiedLast, Unspoilt
<1>8. SidesAgree'
  BY <1>1, <1>4 DEF DraftInv, SidesAgree, IsSide, NewestTells
<1> QED
  BY <1>5, <1>6, <1>7, <1>8 DEF DraftInv

(* Every step keeps what the theorems below rest on.                        *)
LEMMA DraftInvariance == DraftSpec => []DraftInv
<1>1. DraftInit => DraftInv
  BY DraftBegins
<1>2. DraftInv /\ [DraftNext]_draftVars => DraftInv'
  <2> SUFFICES ASSUME DraftInv, [DraftNext]_draftVars
               PROVE  DraftInv'
    OBVIOUS
  <2>1. CASE Moves
    BY <2>1, MovesKeep
  <2>2. CASE Fetch \/ Repair
    BY <2>2, BeginKeeps
  <2>3. CASE Process
    BY <2>3, ProcessKeeps
  <2>4. CASE BuildSome
    BY <2>4, BuildKeeps
  <2>5. ASSUME time' = time, dltv' = dltv, archive' = archive, drafts' = drafts, run' \in {run, NoRun}
        PROVE  DraftInv'
    <3>1. NoRun \in RunRow /\ ~NoRun.payload.full /\ NoRun.kind = "none"
      BY DEF NoRun, RunRow, Payload, Team
    <3>2. DraftTypes'
      BY <2>5, <3>1 DEF DraftInv, DraftTypes
    <3>3. StampsRise' /\ VerifiedLast'
      BY <2>5 DEF DraftInv, StampsRise, Rising, Upto, Below, VerifiedLast, Unspoilt
    <3>4. SidesAgree'
      BY <2>5, <3>1 DEF DraftInv, SidesAgree, IsSide, NewestTells
    <3> QED
      BY <3>2, <3>3, <3>4 DEF DraftInv
  <2>6. CASE RunFails \/ Sweep \/ \E i \in DOMAIN drafts, job \in {"event", "sweep"} : BuildFails(i, job)
    BY <2>5, <2>6 DEF RunFails, Sweep, BuildFails
  <2>7. CASE UNCHANGED draftVars
    BY <2>5, <2>7 DEF draftVars
  <2> QED
    BY <2>1, <2>2, <2>3, <2>4, <2>6, <2>7 DEF DraftNext
<1> QED
  BY <1>1, <1>2, PTL DEF DraftSpec

(* Verified positions are not lost to a poorer payload, and the players a   *)
(* decision shows as a team's are that team's (_process_payload,            *)
(* project_map_sides): however DLTV, STRATZ and history change, and however *)
(* many bootstraps, repairs and failures there are.                         *)
THEOREM DraftsStayWhole == DraftSpec => []DraftIsWhole
<1>1. DraftInv => DraftIsWhole
  <2> SUFFICES ASSUME DraftInv
               PROVE  VerifiedStays /\ PlayersAreTheirTeams
    BY DEF DraftIsWhole
  <2>1. /\ time \in Nat /\ archive \in Seq(ArchiveRow) /\ drafts \in Seq(DraftRow)
        /\ DOMAIN drafts = 1..Len(drafts) /\ DOMAIN archive = 1..Len(archive)
        /\ Len(drafts) \in Nat /\ Len(archive) \in Nat
    BY DEF DraftInv, DraftTypes
  <2>2. /\ \A i \in 1..Len(drafts) : drafts[i] \in DraftRow
        /\ \A i \in 1..Len(archive) : archive[i] \in ArchiveRow
    BY <2>1
  <2>3. Len(drafts) > 0 => NewestOf(drafts, time) = {Len(drafts)}
    <3>1. Len(drafts) > 0 => Len(drafts) \in Nat \ {0}
      BY <2>1
    <3>2. \A i \in 1..Len(drafts) : drafts[i].at \in Nat
      BY <2>2 DEF DraftRow
    <3> QED
      BY <2>1, <3>1, <3>2, LastIsNewest DEF DraftInv, StampsRise
  <2>4. Len(archive) > 0 => NewestOf(archive, time) = {Len(archive)}
    <3>1. Len(archive) > 0 => Len(archive) \in Nat \ {0}
      BY <2>1
    <3>2. \A i \in 1..Len(archive) : archive[i].at \in Nat
      BY <2>2 DEF ArchiveRow
    <3> QED
      BY <2>1, <3>1, <3>2, LastIsNewest DEF DraftInv, StampsRise
  <2>5. Len(drafts) > 0 => LoadedDraft(time).content = drafts[Len(drafts)].content
    BY <2>3 DEF LoadedDraft
  <2>6. Len(drafts) = 0 => LoadedDraft(time).content.radiant = "none"
    <3>1. Len(drafts) = 0 => NewestOf(drafts, time) = {}
      BY <2>1 DEF NewestOf
    <3> QED
      BY <3>1 DEF LoadedDraft, NoContent
  <2>7. VerifiedStays
    <3> SUFFICES ASSUME NEW i \in DOMAIN drafts, drafts[i].content.source \in Verified,
                        \A j \in DOMAIN drafts : Legacy(drafts[j].content) => drafts[j].at < drafts[i].at
                 PROVE  LoadedDraft(time).content.source \in Verified
      BY DEF VerifiedStays
    <3>1. Len(drafts) > 0
      BY <2>1
    <3>2. Unspoilt
      BY <2>1 DEF Unspoilt
    <3> QED
      BY <2>5, <3>1, <3>2 DEF DraftInv, VerifiedLast
  <2>8. PlayersAreTheirTeams
    <3> SUFFICES ASSUME ShownAsRadiant(time) # "none"
                 PROVE  ShownAsRadiant(time) = LoadedDraft(time).content.radiant
      BY DEF PlayersAreTheirTeams
    <3>1. LoadedDraft(time).content.radiant # "none" /\ ShownAsRadiant(time) = Evidence(time)
      BY DEF ShownAsRadiant
    <3>2. Len(drafts) > 0
      BY <2>1, <2>6, <3>1
    <3>3. drafts[Len(drafts)].content.radiant # "none" /\ Len(drafts) \in 1..Len(drafts)
      BY <2>1, <2>5, <3>1, <3>2
    <3>4. drafts[Len(drafts)].content.radiant = dltv.radiant /\ NewestTells
      BY <3>3 DEF DraftInv, SidesAgree
    <3>5. Len(archive) > 0 /\ archive[Len(archive)].payload.radiant = dltv.radiant
      BY <2>1, <3>4 DEF NewestTells
    <3>6. Evidence(time) \in {"none", archive[Len(archive)].payload.radiant}
      BY <2>4, <3>5 DEF Evidence
    <3> QED
      BY <2>5, <3>1, <3>2, <3>4, <3>5, <3>6
  <2> QED
    BY <2>7, <2>8
<1> QED
  BY <1>1, DraftInvariance, PTL

(* A decision sees the same as long as the newest rows of its time are the  *)
(* same and no curve of theirs is from up to then.                          *)
LEMMA SeenIsKept ==
    ASSUME NEW at,
           NewestOf(archive', at) = NewestOf(archive, at), NewestOf(drafts', at) = NewestOf(drafts, at),
           \A i \in NewestOf(archive, at) : archive'[i] = archive[i],
           \A i \in NewestOf(drafts, at) :
               /\ drafts'[i].content = drafts[i].content
               /\ drafts'[i].curve \in 1..at <=> drafts[i].curve \in 1..at
    PROVE  Seen(at)' = Seen(at)
<1>1. Evidence(at)' = Evidence(at)
  <2>1. CASE NewestOf(archive, at) = {}
    BY <2>1 DEF Evidence
  <2>2. CASE NewestOf(archive, at) # {}
    <3> DEFINE i == CHOOSE i \in NewestOf(archive, at) : TRUE
    <3>1. i \in NewestOf(archive, at)
      BY <2>2
    <3>2. archive'[i] = archive[i]
      BY <3>1
    <3> HIDE DEF i
    <3>3. Evidence(at) = IF archive[i].payload.told THEN archive[i].payload.radiant ELSE "none"
      BY <2>2 DEF Evidence, i
    <3>4. Evidence(at)' = IF archive'[i].payload.told THEN archive'[i].payload.radiant ELSE "none"
      BY <2>2 DEF Evidence, i
    <3> QED
      BY <3>2, <3>3, <3>4
  <2> QED
    BY <2>1, <2>2
<1>2. LoadedDraft(at)' = LoadedDraft(at)
  <2>1. CASE NewestOf(drafts, at) = {}
    BY <2>1 DEF LoadedDraft
  <2>2. CASE NewestOf(drafts, at) # {}
    <3> DEFINE i == CHOOSE i \in NewestOf(drafts, at) : TRUE
    <3>1. i \in NewestOf(drafts, at)
      BY <2>2
    <3>2. drafts'[i].content = drafts[i].content /\ (drafts'[i].curve \in 1..at <=> drafts[i].curve \in 1..at)
      BY <3>1
    <3> HIDE DEF i
    <3>3. LoadedDraft(at) = [content |-> drafts[i].content,
                             ready |-> Complete(drafts[i].content) /\ drafts[i].curve \in 1..at]
      BY <2>2 DEF LoadedDraft, i
    <3>4. LoadedDraft(at)' = [content |-> drafts'[i].content,
                              ready |-> Complete(drafts'[i].content) /\ drafts'[i].curve \in 1..at]
      BY <2>2 DEF LoadedDraft, i
    <3>5. (Complete(drafts'[i].content) /\ drafts'[i].curve \in 1..at)
              = (Complete(drafts[i].content) /\ drafts[i].curve \in 1..at)
      BY <3>2
    <3> QED
      BY <3>2, <3>3, <3>4, <3>5
  <2> QED
    BY <2>1, <2>2
<1>3. ShownAsRadiant(at)' = ShownAsRadiant(at)
  BY <1>1, <1>2 DEF ShownAsRadiant
<1> QED
  BY <1>1, <1>2, <1>3 DEF Seen

(* A run that was open only adds rows for later decisions.                  *)
LEMMA ProcessIsTimeless ==
    ASSUME DraftInv, Process, NEW at \in 0 .. time, Decidable(at)
    PROVE  Seen(at)' = Seen(at)
<1> DEFINE content == Resolved(run.payload, time + 1).content
           cutoff == Resolved(run.payload, time + 1).cutoff
           stamp == IF cutoff > run.at THEN cutoff ELSE run.at
           entry == [at |-> run.at, payload |-> run.payload]
           added == Draft(stamp, content)
<1>1. /\ time \in Nat /\ archive \in Seq(ArchiveRow) /\ drafts \in Seq(DraftRow) /\ run \in RunRow
      /\ run.at \in Nat /\ run # NoRun /\ run.since = run.at
  BY DEF DraftInv, DraftTypes, StampsRise, Process, RunRow
<1>2. at \in Nat /\ at < run.at
  BY <1>1 DEF Decidable
<1>3. archive' \in {archive, Append(archive, entry)} /\ drafts' \in {drafts, Append(drafts, added)}
  BY DEF Process
<1>4. cutoff \in {run.at, time + 1} /\ stamp \in Nat /\ ~(stamp <= at) /\ ~(run.at <= at)
  <2>1. run.payload \in Payload /\ time + 1 \in Nat
    BY <1>1 DEF RunRow
  <2>2. cutoff \in {run.at, time + 1}
    BY <1>1, <2>1, ResolvedIs
  <2> QED
    BY <1>1, <1>2, <2>2
<1>5. entry.at = run.at /\ added.at = stamp
  BY DEF Draft
<1> HIDE DEF entry, added, stamp, content, cutoff
<1>6. NewestOf(archive', at) = NewestOf(archive, at) /\ \A i \in NewestOf(archive, at) : archive'[i] = archive[i]
  <2>1. CASE archive' = archive
    BY <2>1
  <2>2. CASE archive' = Append(archive, entry)
    <3>1. /\ DOMAIN archive' = 1..(Len(archive) + 1) /\ DOMAIN archive = 1..Len(archive)
          /\ archive'[Len(archive) + 1] = entry /\ Len(archive) \in Nat
          /\ \A i \in 1..Len(archive) : archive'[i] = archive[i]
      BY <1>1, <2>2
    <3>2. \A i \in DOMAIN archive' \ DOMAIN archive : ~(archive'[i].at <= at)
      BY <1>4, <1>5, <3>1
    <3>3. NewestOf(archive', at) = NewestOf(archive, at)
      <4> DEFINE more == archive'
      <4>1. DOMAIN archive \subseteq DOMAIN more /\ \A i \in DOMAIN archive : more[i].at = archive[i].at
        BY <3>1
      <4>2. \A i \in DOMAIN more \ DOMAIN archive : ~(more[i].at <= at)
        BY <3>2
      <4> HIDE DEF more
      <4>3. NewestOf(more, at) = NewestOf(archive, at)
        BY <4>1, <4>2, NewestIsKept
      <4> QED
        BY <4>3 DEF more
    <3> QED
      BY <3>1, <3>3 DEF NewestOf
  <2> QED
    BY <1>3, <2>1, <2>2
<1>7. NewestOf(drafts', at) = NewestOf(drafts, at) /\ \A i \in NewestOf(drafts, at) : drafts'[i] = drafts[i]
  <2>1. CASE drafts' = drafts
    BY <2>1
  <2>2. CASE drafts' = Append(drafts, added)
    <3>1. /\ DOMAIN drafts' = 1..(Len(drafts) + 1) /\ DOMAIN drafts = 1..Len(drafts)
          /\ drafts'[Len(drafts) + 1] = added /\ Len(drafts) \in Nat
          /\ \A i \in 1..Len(drafts) : drafts'[i] = drafts[i]
      BY <1>1, <2>2
    <3>2. \A i \in DOMAIN drafts' \ DOMAIN drafts : ~(drafts'[i].at <= at)
      BY <1>4, <1>5, <3>1
    <3>3. NewestOf(drafts', at) = NewestOf(drafts, at)
      <4> DEFINE more == drafts'
      <4>1. DOMAIN drafts \subseteq DOMAIN more /\ \A i \in DOMAIN drafts : more[i].at = drafts[i].at
        BY <3>1
      <4>2. \A i \in DOMAIN more \ DOMAIN drafts : ~(more[i].at <= at)
        BY <3>2
      <4> HIDE DEF more
      <4>3. NewestOf(more, at) = NewestOf(drafts, at)
        BY <4>1, <4>2, NewestIsKept
      <4> QED
        BY <4>3 DEF more
    <3> QED
      BY <3>1, <3>3 DEF NewestOf
  <2> QED
    BY <1>3, <2>1, <2>2
<1> QED
  BY <1>6, <1>7, SeenIsKept

(* A curve that is stored now is of no use to an earlier decision.          *)
LEMMA BuildIsTimeless ==
    ASSUME DraftInv, BuildSome, NEW at \in 0 .. time
    PROVE  Seen(at)' = Seen(at)
<1> PICK k \in DOMAIN drafts, job \in {"event", "sweep"} : Build(k, job)
  BY DEF BuildSome
<1>1. time \in Nat /\ drafts \in Seq(DraftRow) /\ DOMAIN drafts = 1..Len(drafts) /\ at \in Nat /\ at <= time
  BY DEF DraftInv, DraftTypes
<1>2. /\ time' = time + 1 /\ archive' = archive
      /\ drafts' = [drafts EXCEPT ![k].curve = IF @ = 0 THEN time' ELSE @]
  BY DEF Build
<1>3. \A i \in DOMAIN drafts : drafts[i] \in DraftRow
  BY <1>1
<1>4. DOMAIN drafts' = DOMAIN drafts
  BY <1>2
<1>5. \A i \in DOMAIN drafts : drafts'[i].at = drafts[i].at /\ drafts'[i].content = drafts[i].content
  BY <1>2, <1>3 DEF DraftRow
<1>6. \A i \in DOMAIN drafts :
          drafts'[i].curve = drafts[i].curve \/ (drafts[i].curve = 0 /\ drafts'[i].curve = time + 1)
  BY <1>2, <1>3 DEF DraftRow
<1>7. \A i \in DOMAIN drafts : drafts'[i].curve \in 1..at <=> drafts[i].curve \in 1..at
  BY <1>1, <1>6
<1>8. NewestOf(drafts', at) = NewestOf(drafts, at) /\ NewestOf(drafts, at) \subseteq DOMAIN drafts
  BY <1>4, <1>5 DEF NewestOf
<1> QED
  BY <1>2, <1>5, <1>7, <1>8, SeenIsKept

(* Nothing that is fetched, repaired, resolved or calculated later changes  *)
(* what a decision sees that was due before, once no run that began earlier *)
(* is open (SnapshotBuilder, rebuild_draft_from_stored_payload).            *)
TimelessStep == \A at \in 0 .. time : Decidable(at) => Seen(at)' = Seen(at)

THEOREM DecisionsAreTimeless == DraftSpec => DecisionIsTimeless
<1>1. DraftInv /\ [DraftNext]_draftVars => [TimelessStep]_draftVars
  <2> SUFFICES ASSUME DraftInv, DraftNext, NEW at \in 0 .. time, Decidable(at)
               PROVE  Seen(at)' = Seen(at)
    BY DEF TimelessStep
  <2>1. CASE Process
    BY <2>1, ProcessIsTimeless
  <2>2. CASE BuildSome
    BY <2>2, BuildIsTimeless
  <2>3. CASE archive' = archive /\ drafts' = drafts
    BY <2>3, SeenIsKept
  <2> QED
    BY <2>1, <2>2, <2>3 DEF DraftNext, Moves, Fetch, Repair, Begin, RunFails, Sweep, BuildFails
<1> QED
  BY <1>1, DraftInvariance, PTL DEF DraftSpec, DecisionIsTimeless, TimelessStep
=============================================================================
