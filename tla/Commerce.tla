------------------------------ MODULE Commerce ------------------------------
(***************************************************************************)
(* Competition passes and referral rewards.                                *)
(*                                                                         *)
(* A checkout reserves a purchase row, opens a transaction at the payment  *)
(* provider and ties the row to it; the provider's webhook, delivered at   *)
(* least once and in any order, turns a payment into an access grant and a *)
(* refund into its end.  The same webhook, in a transaction of its own,    *)
(* rewards or revokes the referral of the buyer.                           *)
(*                                                                         *)
(* Each action is one database transaction, or one call of the provider's  *)
(* API.  The two entitlements of a grant are written together and are one  *)
(* row here.  Times are ticks of one clock.                                *)
(***************************************************************************)
EXTENDS Integers, FiniteSets, FiniteSetsExt

CONSTANTS
    Users, Codes,              \* the accounts, and whose codes each may enter
    Purchases, Requests,       \* the checkouts, and what each may be asked for
    Targets, EventOf,          \* what a pass is sold for, and its event
    Global,                    \* the scope of a reward
    None,
    InviterDays, InvitedDays,  \* what a referral earns, in ticks
    MaxRewards,                \* max_rewards_per_inviter
    Horizon, MaxFaults         \* bounds of the model: the clock, the failures

ASSUME CommerceAssumption ==
    /\ Codes \in [Users -> SUBSET Users] /\ EventOf \in [Targets -> Targets]
    /\ Requests \in [Purchases -> SUBSET (Users \X Targets)]
    /\ InviterDays \in Nat \ {0} /\ InvitedDays \in Nat \ {0}
    /\ MaxRewards \in Nat \ {0} /\ Horizon \in Nat /\ MaxFaults \in Nat
    /\ Global \notin Targets /\ None \notin Users \cup Purchases

VARIABLES
    now,
    checkout,     \* how far the request for a purchase has come
    row,          \* competition_pass_purchases
    grants,       \* user_entitlements, by source
    occurred,     \* the provider: when a purchase was paid, when refunded
    delivery,     \* the webhook of either event
    seen,         \* competition_pass_events
    attribution,  \* referral_attributions, by the invited account
    claiming,     \* claims between their check and their commit
    faults

provider == << occurred, delivery >>
ledger   == << row, grants, seen >>
referral == << attribution, claiming >>
vars     == << now, checkout, ledger, provider, referral, faults >>

Never == -1
Time  == 0 .. Horizon
Kinds == { "completed", "refund" }
Roles == { "inviter", "invited" }

PassOf(p)      == << "pass", p >>
RewardOf(u, r) == << "reward", u, r >>
Rewards        == { RewardOf(u, r) : u \in Users, r \in Roles }
Sources        == { PassOf(p) : p \in Purchases } \cup Rewards

-----------------------------------------------------------------------------
(* EntitlementService.access_scope: a grant inside its window whose scope is *)
(* global, the target, or the event the target belongs to.                   *)
Covers(g, t) == g.scope \in { Global, t, EventOf[t] }
Open(g) == g.active /\ g.from <= now /\ (g.until = Never \/ now < g.until)
Access(u, t) ==
    \E s \in DOMAIN grants :
        /\ grants[s].user = u /\ Open(grants[s]) /\ Covers(grants[s], t)

Granted(p) == PassOf(p) \in DOMAIN grants /\ grants[PassOf(p)].active

Grant(gs, s, g) == [ x \in DOMAIN gs \cup { s } |-> IF x = s THEN g ELSE gs[x] ]
Revoke(gs, ss)  == [ x \in DOMAIN gs |->
                       IF x \in ss THEN [ gs[x] EXCEPT !.active = FALSE ] ELSE gs[x] ]

(* PENDING for more than an hour is LAPSED: pending still, but no longer in   *)
(* the way of another checkout.                                               *)
Pending == { "PENDING", "LAPSED" }

NoRow == [ user |-> None, target |-> None, status |-> "none",
           blocked |-> FALSE, completed |-> Never, last |-> Never ]

Init ==
    /\ now = 0
    /\ checkout = [ p \in Purchases |-> "none" ]
    /\ row = [ p \in Purchases |-> NoRow ]
    /\ grants = [ s \in {} |-> NoRow ]
    /\ occurred = [ p \in Purchases |-> [ k \in Kinds |-> Never ] ]
    /\ delivery = [ p \in Purchases |-> [ k \in Kinds |-> "none" ] ]
    /\ seen = [ p \in Purchases |-> {} ]
    /\ attribution = [ u \in Users |-> [ status |-> "none", by |-> None, payment |-> None ] ]
    /\ claiming = [ u \in Users |-> None ]
    /\ faults = 0

Tick ==
    /\ now < Horizon
    /\ now' = now + 1
    /\ UNCHANGED << checkout, ledger, provider, referral, faults >>

Fault ==
    /\ faults < MaxFaults
    /\ faults' = faults + 1

-----------------------------------------------------------------------------
(* PaddleCompetitionPassService.create_checkout. *)
Advance(p, from, to) ==
    /\ checkout[p] = from
    /\ checkout' = [ checkout EXCEPT ![p] = to ]

(* Access is looked at first, in a transaction of its own.  Until the row is  *)
(* reserved, its account and target are those of the request.                 *)
Ask(p, u, t) ==
    /\ Advance(p, "none", "asked")
    /\ << u, t >> \in Requests[p]
    /\ ~Access(u, t)
    /\ row' = [ row EXCEPT ![p].user = u, ![p].target = t ]
    /\ UNCHANGED << now, grants, seen, provider, referral, faults >>

Contested(p) ==
    \E q \in Purchases : /\ row[q].status = "PENDING"
                         /\ row[q].user = row[p].user /\ row[q].target = row[p].target

(* _reserve_purchase_intent, under the lock of the account. *)
Reserve(p) ==
    /\ Advance(p, "asked", "reserved")
    /\ claiming[row[p].user] = None
    /\ ~Contested(p)
    /\ row' = [ row EXCEPT ![p].status = "PENDING" ]
    /\ UNCHANGED << now, grants, seen, provider, referral, faults >>

Refuse(p) ==
    /\ Advance(p, "asked", "over")
    /\ Contested(p)
    /\ UNCHANGED << now, ledger, provider, referral, faults >>

(* The API opens a transaction; its URL is not yet with the buyer. *)
OpenTransaction(p) ==
    /\ Advance(p, "reserved", "opened")
    /\ UNCHANGED << now, ledger, provider, referral, faults >>

(* _finalize_purchase_intent ties the row to the transaction, and the URL is  *)
(* returned: checkout "returned" stands for that tie.                         *)
Finalize(p) ==
    /\ row[p].status \in Pending
    /\ Advance(p, "opened", "returned")
    /\ UNCHANGED << now, ledger, provider, referral, faults >>

(* The API or the finalisation raises: _mark_intent_failed. *)
CheckoutFails(p) ==
    /\ Advance(p, "reserved", "over") \/ Advance(p, "opened", "over")
    /\ row' = [ row EXCEPT ![p].status = IF @ \in Pending THEN "FAILED" ELSE @ ]
    /\ Fault
    /\ UNCHANGED << now, grants, seen, provider, referral >>

(* The request is cancelled or the process ends: the intent stays PENDING. *)
Abandon(p) ==
    /\ \E s \in { "asked", "reserved", "opened" } : Advance(p, s, "over")
    /\ Fault
    /\ UNCHANGED << now, ledger, provider, referral >>

HourPasses(p) ==
    /\ row[p].status = "PENDING"
    /\ row' = [ row EXCEPT ![p].status = "LAPSED" ]
    /\ UNCHANGED << now, checkout, grants, seen, provider, referral, faults >>

-----------------------------------------------------------------------------
(* The payment provider: external. *)
Happens(p, k) ==
    /\ occurred[p][k] = Never
    /\ occurred' = [ occurred EXCEPT ![p][k] = now ]
    /\ delivery' = [ delivery EXCEPT ![p][k] = "due" ]
    /\ UNCHANGED << now, checkout, ledger, referral, faults >>

Pay(p)    == checkout[p] = "returned" /\ Happens(p, "completed")
Refund(p) == occurred[p]["completed"] # Never /\ Happens(p, "refund")

Moves(p, k, from, to) ==
    /\ delivery[p][k] = from
    /\ delivery' = [ delivery EXCEPT ![p][k] = to ]

(* A call that fails or times out, and one that was answered, are repeated. *)
Redeliver(p, k) ==
    /\ \E s \in { "applied", "found", "answered" } : Moves(p, k, s, "due")
    /\ Fault
    /\ UNCHANGED << now, checkout, ledger, occurred, referral >>

-----------------------------------------------------------------------------
(* PaddleCompetitionPassService._apply_event, under the lock of the row. *)
Stale(p, k) == occurred[p][k] < row[p].last

(* _upsert_pass_grants *)
PassGrant(p) ==
    [ user |-> row[p].user, scope |-> row[p].target, active |-> TRUE,
      from |-> occurred[p]["completed"], until |-> Never ]

SlipUnblocked(p) == TRUE
Activates(p) == ~row[p].blocked

Activate(p) ==
    LET at == occurred[p]["completed"] IN
    IF Activates(p)
      THEN /\ row' = [ row EXCEPT ![p].status = "ACTIVE", ![p].completed = at, ![p].last = at ]
           /\ grants' = Grant(grants, PassOf(p), PassGrant(p))
      ELSE /\ row' = [ row EXCEPT ![p].last = at ]
           /\ UNCHANGED grants

Block(p) ==
    /\ row' = [ row EXCEPT ![p].status = "BLOCKED", ![p].blocked = TRUE,
                           ![p].last = occurred[p]["refund"] ]
    /\ grants' = Revoke(grants, { PassOf(p) })

Applied(p, k) ==
    \/ /\ k \in seen[p] \/ Stale(p, k)
       /\ UNCHANGED << row, grants >>
    \/ /\ k \notin seen[p] /\ ~Stale(p, k)
       /\ IF k = "completed" THEN Activate(p) ELSE Block(p)

SlipOnceIsEnough(p, k) ==
    /\ checkout[p] = "returned"
    /\ Moves(p, k, "due", IF k \in seen[p] THEN "answered" ELSE "applied")
    /\ Applied(p, k)
    /\ seen' = [ seen EXCEPT ![p] = @ \cup { k } ]
    /\ UNCHANGED << now, checkout, occurred, referral, faults >>
ApplyEvent(p, k) ==
    /\ checkout[p] = "returned"
    /\ Moves(p, k, "due", "applied")
    /\ Applied(p, k)
    /\ seen' = [ seen EXCEPT ![p] = @ \cup { k } ]
    /\ UNCHANGED << now, checkout, occurred, referral, faults >>

-----------------------------------------------------------------------------
(* PromotionService.claim_referral: the claim looks for a purchase first and *)
(* commits later, holding the invited account but no purchase row.           *)
HasBought(u) ==
    \E p \in Purchases : /\ row[p].user = u
                         /\ row[p].completed # Never \/ row[p].status \in { "ACTIVE", "BLOCKED" }

Claim(u, v) ==
    /\ claiming[u] = None /\ attribution[u].status = "none"
    /\ u # v /\ v \in Codes[u]
    /\ ~HasBought(u)
    /\ claiming' = [ claiming EXCEPT ![u] = v ]
    /\ UNCHANGED << now, checkout, ledger, provider, attribution, faults >>

ClaimCommits(u) ==
    /\ claiming[u] # None
    /\ attribution' = [ attribution EXCEPT ![u].status = "CLAIMED", ![u].by = claiming[u] ]
    /\ claiming' = [ claiming EXCEPT ![u] = None ]
    /\ UNCHANGED << now, checkout, ledger, provider, faults >>

-----------------------------------------------------------------------------
(* PromotionService.handle_paddle_payment_event, after _apply_event.  The    *)
(* payer is read in one transaction and rewarded in the next.                *)
FindPayer(p) ==
    /\ Moves(p, "completed", "applied",
             IF row[p].status = "ACTIVE" /\ ~row[p].blocked THEN "found" ELSE "answered")
    /\ UNCHANGED << now, checkout, ledger, occurred, referral, faults >>

Rewarded(v) == { u \in Users : attribution[u].by = v /\ attribution[u].status = "REWARDED" }

AtCap(v) == Cardinality(Rewarded(v)) >= MaxRewards

(* _grant_stacked_reward: after the last reward of the account that still runs. *)
RunningEnds(gs, u, at) ==
    { gs[s].until : s \in { x \in DOMAIN gs \cap Rewards :
                               gs[x].user = u /\ gs[x].active /\ at < gs[x].until } }
SlipAtOnce(gs, s, u, days, at) ==
    Grant(gs, s, [ user |-> u, scope |-> Global, active |-> TRUE,
                   from |-> at, until |-> at + days ])
Stacked(gs, s, u, days, at) ==
    LET start == Max({ at } \cup RunningEnds(gs, u, at))
    IN  Grant(gs, s, [ user |-> u, scope |-> Global, active |-> TRUE,
                       from |-> start, until |-> start + days ])

Qualifies(u) == attribution[u].status = "CLAIMED" /\ ~AtCap(attribution[u].by)

(* qualify_referral_payment, under the locks of the claim and both accounts. *)
Qualify(p) ==
    LET u  == row[p].user
        v  == attribution[u].by
        at == occurred[p]["completed"]
    IN  /\ Moves(p, "completed", "found", "answered")
        /\ IF Qualifies(u)
             THEN /\ claiming[v] = None
                  /\ attribution' = [ attribution EXCEPT ![u].status = "REWARDED",
                                                         ![u].payment = p ]
                  /\ grants' = Stacked(Stacked(grants, RewardOf(u, "inviter"), v, InviterDays, at),
                                       RewardOf(u, "invited"), u, InvitedDays, at)
             ELSE UNCHANGED << attribution, grants >>
        /\ UNCHANGED << now, checkout, row, seen, occurred, claiming, faults >>

(* revoke_referral_payment *)
RewardedBy(p) == { u \in Users : attribution[u].payment = p /\ attribution[u].status = "REWARDED" }
SlipInviterKeeps(u) == { RewardOf(u, "invited") }
RewardsOf(u) == { RewardOf(u, r) : r \in Roles }

RevokeReward(p) ==
    /\ Moves(p, "refund", "applied", "answered")
    /\ attribution' = [ u \in Users |-> IF u \in RewardedBy(p)
                          THEN [ attribution[u] EXCEPT !.status = "REVOKED" ]
                          ELSE attribution[u] ]
    /\ grants' = Revoke(grants, UNION { RewardsOf(u) : u \in RewardedBy(p) })
    /\ UNCHANGED << now, checkout, row, seen, occurred, claiming, faults >>

-----------------------------------------------------------------------------
Checkout(p) ==
    \/ \E u \in Users, t \in Targets : Ask(p, u, t)
    \/ Reserve(p) \/ Refuse(p) \/ OpenTransaction(p) \/ Finalize(p)
    \/ CheckoutFails(p) \/ Abandon(p) \/ HourPasses(p)

Webhook(p) ==
    \/ \E k \in Kinds : ApplyEvent(p, k)
    \/ FindPayer(p) \/ Qualify(p) \/ RevokeReward(p)

Next ==
    \/ Tick
    \/ \E p \in Purchases : Checkout(p) \/ Pay(p) \/ Refund(p) \/ Webhook(p)
    \/ \E p \in Purchases, k \in Kinds : Redeliver(p, k)
    \/ \E u, v \in Users : Claim(u, v)
    \/ \E u \in Users : ClaimCommits(u)

Spec == Init /\ [][Next]_vars

-----------------------------------------------------------------------------
(* Types.  Only a row that is tied to its transaction is ever paid for. *)
TypeOK ==
    /\ now \in Time /\ faults \in 0 .. MaxFaults
    /\ checkout \in [Purchases ->
           { "none", "asked", "reserved", "opened", "returned", "over" }]
    /\ row \in [Purchases ->
           [ user : Users \cup { None }, target : Targets \cup { None },
             status : Pending \cup { "none", "FAILED", "ACTIVE", "BLOCKED" },
             blocked : BOOLEAN, completed : Time \cup { Never }, last : Time \cup { Never } ]]
    /\ DOMAIN grants \subseteq Sources
    /\ \A s \in DOMAIN grants :
           grants[s] \in [ user : Users, scope : Targets \cup { Global }, active : BOOLEAN,
                           from : Nat, until : Nat \cup { Never } ]
    /\ occurred \in [Purchases -> [Kinds -> Time \cup { Never }]]
    /\ delivery \in [Purchases -> [Kinds -> { "none", "due", "applied", "found", "answered" }]]
    /\ seen \in [Purchases -> SUBSET Kinds]
    /\ attribution \in [Users -> [ status : { "none", "CLAIMED", "REWARDED", "REVOKED" },
                                   by : Users \cup { None }, payment : Purchases \cup { None } ]]
    /\ claiming \in [Users -> Users \cup { None }]
    /\ \A p \in Purchases : row[p].status \in { "ACTIVE", "BLOCKED" } => checkout[p] = "returned"

(* A pass is held only for a payment that is not known to be refunded: in    *)
(* whatever order and however often the two events are delivered, the refund *)
(* of a purchase (_apply_event, REVOKE) is the end of its access.            *)
AccessIsPaidFor ==
    \A p \in Purchases :
        Granted(p) => /\ occurred[p]["completed"] # Never
                      /\ "refund" \notin seen[p]
                      /\ row[p].status = "ACTIVE"

(* No inviter has more rewards than max_rewards_per_inviter, however the     *)
(* payments of the invited accounts interleave (qualify_referral_payment).   *)
RewardsWithinCap == \A v \in Users : Cardinality(Rewarded(v)) <= MaxRewards

(* The rewards of one account follow one another: days it earned as inviter  *)
(* and as invited never run at the same time (_grant_stacked_reward).        *)
RewardWindowsApart ==
    \A s, t \in DOMAIN grants \cap Rewards :
        s # t /\ grants[s].user = grants[t].user /\ grants[s].active /\ grants[t].active
        => grants[s].until <= grants[t].from \/ grants[t].until <= grants[s].from

(* Whoever pays when, the rewards keep both rules.                           *)
RewardsKeepTheRules == RewardsWithinCap /\ RewardWindowsApart

(* When the webhook of a refund has been answered, no reward stands for it,  *)
(* neither the inviter's nor the invited's (revoke_referral_payment).        *)
RefundEndsReward ==
    [][\A p \in Purchases, u \in Users :
          /\ delivery[p]["refund"] = "applied" /\ delivery'[p]["refund"] = "answered"
          /\ attribution'[u].payment = p
          => /\ attribution'[u].status # "REWARDED"
             /\ \A r \in Roles : ~grants'[RewardOf(u, r)].active]_vars

Claimed(p) == \E u \in Users : row[p].user = u /\ attribution[u].status = "CLAIMED"
Capped(p)  == \E u \in Users : row[p].user = u /\ AtCap(attribution[u].by)

(* The provider stops repeating a call that was answered.  Who paid has the  *)
(* pass by then, and a claim that was waiting for the payment its reward,    *)
(* although the handler may fail between the two transactions: unless the    *)
(* inviter is at the cap or the money has gone back.                         *)
PaymentIsHonoured ==
    [][\A p \in Purchases :
          delivery[p]["completed"] # "answered" /\ delivery'[p]["completed"] = "answered"
          => \/ Granted(p)' /\ (Claimed(p)' => Capped(p)')
             \/ occurred[p]["refund"] # Never]_vars
=============================================================================
