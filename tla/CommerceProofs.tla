--------------------------- MODULE CommerceProofs ---------------------------
(***************************************************************************)
(* What Commerce promises, for any accounts, codes, targets, purchases and *)
(* requests, however often a webhook is delivered and in whatever order.   *)
(*                                                                         *)
(* The inductive invariant has three parts, each about what one of the     *)
(* actors may rely on: the order in which the provider's events happened   *)
(* (EventsInOrder), what the row of a purchase knows of them               *)
(* (RowKnowsEvents), and what an attribution says of the rewards granted   *)
(* for it (RewardsFollowAttribution).                                      *)
(*                                                                         *)
(* The second half is about History, for any matches, teams, series and    *)
(* answers of the two providers: see HistoryInv.                           *)
(***************************************************************************)
EXTENDS Commerce, History, FiniteSetTheorems, TLAPS

(* A purchase is only paid for when its row is tied to the transaction, and *)
(* refunded after it was paid for.                                          *)
EventsInOrder ==
    \A p \in Purchases :
        /\ checkout[p] # "none" => row[p].user \in Users /\ row[p].target \in Targets
        /\ occurred[p]["completed"] # Never => checkout[p] = "returned"
        /\ occurred[p]["refund"] # Never =>
               /\ occurred[p]["completed"] # Never
               /\ occurred[p]["completed"] <= occurred[p]["refund"]
        /\ \A k \in Kinds : /\ occurred[p][k] <= now
                            /\ delivery[p][k] # "none" => occurred[p][k] # Never

(* The time of the last event that was applied is that of one of the two;   *)
(* an applied refund blocks the row, and an applied payment has given the   *)
(* pass unless the money has gone back.                                     *)
RowKnowsEvents ==
    \A p \in Purchases :
        /\ row[p].last # Never => \E k \in Kinds : row[p].last = occurred[p][k]
        /\ row[p].blocked => occurred[p]["refund"] # Never
        /\ "refund" \in seen[p] => row[p].blocked
        /\ Granted(p) => /\ row[p].status = "ACTIVE" /\ ~row[p].blocked
                         /\ occurred[p]["completed"] # Never
        /\ "completed" \in seen[p] =>
               \/ row[p].status = "ACTIVE" /\ ~row[p].blocked /\ Granted(p)
               \/ occurred[p]["refund"] # Never
        /\ delivery[p]["completed"] \in { "applied", "found", "answered" } =>
               "completed" \in seen[p]

(* Who has claimed has an inviter; the rewards of an attribution exist once *)
(* it was rewarded, and have ended once it was revoked.                     *)
RewardsFollowAttribution ==
    \A u \in Users :
        /\ claiming[u] # None => attribution[u].status = "none"
        /\ attribution[u].status # "none" => attribution[u].by \in Users
        /\ attribution[u].payment # None => attribution[u].status \in { "REWARDED", "REVOKED" }
        /\ \A r \in Roles :
               /\ attribution[u].status \in { "REWARDED", "REVOKED" } =>
                      RewardOf(u, r) \in DOMAIN grants
               /\ attribution[u].status = "REVOKED" => ~grants[RewardOf(u, r)].active

(* There are finitely many grants at any time, and every reward ends.       *)
GrantsAreFinite(gs) ==
    /\ IsFiniteSet(DOMAIN gs)
    /\ \A s \in DOMAIN gs \cap Rewards : gs[s].until \in Nat

RewardsAreFinite == GrantsAreFinite(grants) /\ \A v \in Users : IsFiniteSet(Rewarded(v))

CommerceInv ==
    /\ TypeOK
    /\ EventsInOrder
    /\ RowKnowsEvents
    /\ RewardsFollowAttribution
    /\ RewardsAreFinite
    /\ RewardsWithinCap
    /\ RewardWindowsApart

-----------------------------------------------------------------------------
(* A finite set of integers that is not empty has a largest element, which   *)
(* is what _grant_stacked_reward takes of the rewards that still run.  By    *)
(* well-founded induction over the subsets.                                  *)
LEMMA LargestOfFinite ==
    ASSUME NEW S \in SUBSET Int, IsFiniteSet(S), S # {}
    PROVE  Max(S) \in S /\ \A y \in S : y <= Max(S)
<1> DEFINE Lower == { T \in SUBSET S : T # {} /\ ~ \E m \in T : \A y \in T : y <= m }
<1>1. Lower = {}
  <2> SUFFICES ASSUME Lower # {} PROVE FALSE
    OBVIOUS
  <2>1. FiniteSubsetsOf(S) = SUBSET S
    BY FS_FiniteSubsetsOfFinite
  <2>2. IsWellFoundedOn(StrictSubsetOrdering(S), SUBSET S)
    BY <2>1, FS_StrictSubsetOrderingWellFounded
  <2> HIDE DEF Lower
  <2>3. Lower \subseteq SUBSET S
    BY DEF Lower
  <2>4. PICK T \in Lower : \A U \in Lower : << U, T >> \notin StrictSubsetOrdering(S)
    BY <2>2, <2>3, WFMin
  <2>5. PICK x \in T : TRUE
    BY DEF Lower
  <2> DEFINE U == T \ { x }
  <2>6. U \subseteq S /\ U # T /\ x \in Int /\ T \subseteq Int
    BY <2>3, <2>5
  <2>7. << U, T >> \in StrictSubsetOrdering(S)
    BY <2>3, <2>6 DEF StrictSubsetOrdering
  <2>8. U \notin Lower
    BY <2>4, <2>7
  <2>9. CASE U = {}
    <3>1. T = { x }
      BY <2>5, <2>9
    <3> QED
      BY <3>1, <2>6 DEF Lower
  <2>10. CASE U # {}
    <3>1. PICK m \in U : \A y \in U : y <= m
      BY <2>6, <2>8, <2>10 DEF Lower
    <3>2. \E n \in T : \A y \in T : y <= n
      <4>1. CASE x <= m
        BY <3>1, <4>1
      <4>2. CASE m <= x
        <5>1. \A y \in T : y <= x
          BY <2>6, <3>1, <4>2
        <5> QED
          BY <2>5, <5>1
      <4> QED
        BY <2>6, <3>1, <4>1, <4>2
    <3> QED
      BY <3>2 DEF Lower
  <2> QED
    BY <2>9, <2>10
<1>2. \E m \in S : \A y \in S : m >= y
  <2>1. \E m \in S : \A y \in S : y <= m
    BY <1>1
  <2> QED
    BY <2>1
<1> QED
  <2>1. Max(S) \in S /\ \A y \in S : Max(S) >= y
    BY <1>2 DEF Max
  <2> QED
    BY <2>1

(* The sources of grants are told apart: a purchase's pass is no reward, and *)
(* two rewards are the same only for the same account in the same role.      *)
LEMMA SourcesApart ==
    /\ \A p \in Purchases : PassOf(p) \notin Rewards
    /\ \A p, q \in Purchases : PassOf(p) = PassOf(q) => p = q
    /\ \A u, v, r, q : RewardOf(u, r) = RewardOf(v, q) => u = v /\ r = q
    /\ \A u \in Users, r \in Roles : RewardOf(u, r) \in Rewards
    /\ \A p, u, r : PassOf(p) # RewardOf(u, r)
BY DEF PassOf, RewardOf, Rewards

(* What granting and revoking do to the entitlements (_upsert_pass_grants,   *)
(* _revoke_pass_grants, revoke_referral_payment).                            *)
LEMMA GrantEffect ==
    ASSUME NEW gs, NEW s, NEW g
    PROVE  /\ \A x : x \in DOMAIN Grant(gs, s, g) <=> x \in DOMAIN gs \/ x = s
           /\ Grant(gs, s, g)[s] = g
           /\ \A x \in DOMAIN gs : x # s => Grant(gs, s, g)[x] = gs[x]
BY DEF Grant

(* Revoking a set of grants ends those and touches no other.                *)
LEMMA RevokeEffect ==
    ASSUME NEW gs, NEW ss
    PROVE  /\ DOMAIN Revoke(gs, ss) = DOMAIN gs
           /\ \A x \in DOMAIN gs : x \notin ss => Revoke(gs, ss)[x] = gs[x]
           /\ \A x \in DOMAIN gs \cap ss : Revoke(gs, ss)[x] = [ gs[x] EXCEPT !.active = FALSE ]
BY DEF Revoke

(* What TypeOK says of the entitlements.                                     *)
GrantsOK(gs) ==
    /\ DOMAIN gs \subseteq Sources
    /\ \A s \in DOMAIN gs :
           gs[s] \in [ user : Users, scope : Targets \cup { Global }, active : BOOLEAN,
                       from : Nat, until : Nat \cup { Never } ]

WindowsApart(gs) ==
    \A s, t \in DOMAIN gs \cap Rewards :
        s # t /\ gs[s].user = gs[t].user /\ gs[s].active /\ gs[t].active
        => gs[s].until <= gs[t].from \/ gs[t].until <= gs[s].from

(* _grant_stacked_reward: a reward begins when the account's last running    *)
(* one ends, so that it overlaps none of them.                               *)
LEMMA RewardIsStacked ==
    ASSUME NEW gs, GrantsOK(gs), GrantsAreFinite(gs), WindowsApart(gs),
           NEW s \in Rewards, NEW u \in Users, NEW days \in Nat, NEW at \in Nat
    PROVE  /\ GrantsOK(Stacked(gs, s, u, days, at))
           /\ GrantsAreFinite(Stacked(gs, s, u, days, at))
           /\ WindowsApart(Stacked(gs, s, u, days, at))
           /\ \A x : x \in DOMAIN Stacked(gs, s, u, days, at) <=> x \in DOMAIN gs \/ x = s
           /\ \A x \in DOMAIN gs : x # s => Stacked(gs, s, u, days, at)[x] = gs[x]
<1> DEFINE running == { x \in DOMAIN gs \cap Rewards :
                          gs[x].user = u /\ gs[x].active /\ at < gs[x].until }
           ends  == { at } \cup RunningEnds(gs, u, at)
           start == Max(ends)
           g     == [ user |-> u, scope |-> Global, active |-> TRUE,
                      from |-> start, until |-> start + days ]
<1>1. IsFiniteSet(running)
  <2>1. running \in SUBSET (DOMAIN gs)
    OBVIOUS
  <2> QED
    BY <2>1, FS_Subset DEF GrantsAreFinite
<1>2. RunningEnds(gs, u, at) = { gs[x].until : x \in running }
  BY DEF RunningEnds
<1>3. IsFiniteSet(RunningEnds(gs, u, at))
  <2> DEFINE f == [ x \in running |-> gs[x].until ]
  <2> HIDE DEF running
  <2>1. f \in Surjection(running, RunningEnds(gs, u, at))
    BY <1>2 DEF Surjection
  <2> QED
    BY <1>1, <2>1, FS_Surjection
<1>4. IsFiniteSet(ends)
  BY <1>3, FS_AddElement, { at } \cup RunningEnds(gs, u, at) = RunningEnds(gs, u, at) \cup { at }
<1>5. ends \in SUBSET Nat
  BY <1>2 DEF GrantsAreFinite
<1>6. start \in ends /\ \A y \in ends : y <= start
  <2>1. ends \in SUBSET Int /\ ends # {}
    BY <1>5
  <2> HIDE DEF ends
  <2> QED
    BY <1>4, <2>1, LargestOfFinite
<1>7. start \in Nat /\ at <= start
  BY <1>5, <1>6
<1>8. \A x \in DOMAIN gs \cap Rewards : gs[x].user = u /\ gs[x].active => gs[x].until <= start
  <2> SUFFICES ASSUME NEW x \in DOMAIN gs \cap Rewards, gs[x].user = u, gs[x].active
               PROVE  gs[x].until <= start
    OBVIOUS
  <2>1. gs[x].until \in Nat
    BY DEF GrantsAreFinite
  <2>2. CASE at < gs[x].until
    <3>1. gs[x].until \in ends
      BY <1>2, <2>2
    <3> HIDE DEF ends
    <3> QED
      BY <1>6, <3>1
  <2>3. CASE gs[x].until <= at
    <3> HIDE DEF start
    <3> QED
      BY <1>7, <2>1, <2>3
  <2> QED
    BY <2>1, <2>2, <2>3
<1>9. Stacked(gs, s, u, days, at) = Grant(gs, s, g)
  BY DEF Stacked
<1> HIDE DEF start, ends, running, g
<1> DEFINE after == Grant(gs, s, g)
<1>10. /\ \A x : x \in DOMAIN after <=> x \in DOMAIN gs \/ x = s
       /\ after[s] = g
       /\ \A x \in DOMAIN gs : x # s => after[x] = gs[x]
  BY GrantEffect
<1> HIDE DEF after
<1>11. GrantsOK(after)
  <2>1. s \in Sources /\ DOMAIN after \subseteq Sources
    BY <1>10 DEF GrantsOK, Sources
  <2>2. g \in [ user : Users, scope : Targets \cup { Global }, active : BOOLEAN,
                from : Nat, until : Nat \cup { Never } ]
    BY <1>7 DEF g
  <2> QED
    BY <1>10, <2>1, <2>2 DEF GrantsOK
<1>12. GrantsAreFinite(after)
  <2>1. DOMAIN after = DOMAIN gs \cup { s }
    BY <1>10
  <2> QED
    BY <1>7, <1>10, <2>1, FS_AddElement DEF g, GrantsAreFinite
<1>13. WindowsApart(after)
  BY <1>7, <1>8, <1>10 DEF g, WindowsApart
<1> QED
  BY <1>9, <1>10, <1>11, <1>12, <1>13 DEF after

-----------------------------------------------------------------------------
(* Nothing is bought and nobody is referred in the beginning.               *)
LEMMA InvInit == CommerceAssumption /\ Init => CommerceInv
<1> SUFFICES ASSUME CommerceAssumption, Init PROVE CommerceInv
  OBVIOUS
<1>1. DOMAIN grants = {} /\ \A v \in Users : Rewarded(v) = {}
  BY DEF Init, Rewarded
<1>2. TypeOK
  BY <1>1 DEF CommerceAssumption, Init, TypeOK, Time, Never, NoRow, Kinds, Pending
<1>3. EventsInOrder
  BY DEF Init, EventsInOrder, Never, Kinds
<1>4. RowKnowsEvents
  BY DEF Init, RowKnowsEvents, Never, Kinds, NoRow, Granted
<1>5. RewardsFollowAttribution
  BY DEF Init, RewardsFollowAttribution
<1>6. RewardsAreFinite
  BY <1>1, FS_EmptySet DEF RewardsAreFinite, GrantsAreFinite
<1>7. RewardsWithinCap
  BY <1>1, FS_EmptySet, Cardinality({}) <= MaxRewards DEF RewardsWithinCap, CommerceAssumption
<1>8. RewardWindowsApart
  BY <1>1 DEF RewardWindowsApart
<1> QED
  BY <1>2, <1>3, <1>4, <1>5, <1>6, <1>7, <1>8 DEF CommerceInv

(* qualify_referral_payment pays two rewards at most: those of the account   *)
(* that paid, one to its inviter and one to itself.                          *)
LEMMA WhatQualifyGrants ==
    ASSUME CommerceAssumption, CommerceInv, NEW p \in Purchases, Qualify(p),
           Qualifies(row[p].user)
    PROVE  /\ row[p].user \in Users
           /\ GrantsOK(grants') /\ GrantsAreFinite(grants') /\ WindowsApart(grants')
           /\ \A x : x \in DOMAIN grants' <=> x \in DOMAIN grants \/ x \in RewardsOf(row[p].user)
           /\ \A x \in DOMAIN grants : x \notin RewardsOf(row[p].user) => grants'[x] = grants[x]
<1> DEFINE u  == row[p].user
           v  == attribution[u].by
           at == occurred[p]["completed"]
           mid == Stacked(grants, RewardOf(u, "inviter"), v, InviterDays, at)
<1>1. u \in Users /\ at \in Nat
  BY DEF CommerceInv, Qualify, Moves, EventsInOrder, TypeOK, Kinds, Time, Never, CommerceAssumption
<1>2. v \in Users
  BY <1>1 DEF Qualifies, CommerceInv, RewardsFollowAttribution
<1>3. GrantsOK(grants) /\ GrantsAreFinite(grants) /\ WindowsApart(grants)
  BY DEF CommerceInv, TypeOK, GrantsOK, RewardsAreFinite, RewardWindowsApart, WindowsApart
<1>4. RewardsOf(u) = { RewardOf(u, "inviter"), RewardOf(u, "invited") } /\ RewardsOf(u) \subseteq Rewards
  BY <1>1 DEF RewardsOf, Rewards, Roles
<1>5. InviterDays \in Nat /\ InvitedDays \in Nat
  BY DEF CommerceAssumption
<1>6. grants' = Stacked(mid, RewardOf(u, "invited"), u, InvitedDays, at)
  BY DEF Qualify
<1> HIDE DEF u, v, at
<1>7. /\ GrantsOK(mid) /\ GrantsAreFinite(mid) /\ WindowsApart(mid)
      /\ \A x : x \in DOMAIN mid <=> x \in DOMAIN grants \/ x = RewardOf(u, "inviter")
      /\ \A x \in DOMAIN grants : x # RewardOf(u, "inviter") => mid[x] = grants[x]
  BY <1>1, <1>2, <1>3, <1>4, <1>5, RewardIsStacked
<1> HIDE DEF mid
<1>8. /\ GrantsOK(grants') /\ GrantsAreFinite(grants') /\ WindowsApart(grants')
      /\ \A x : x \in DOMAIN grants' <=> x \in DOMAIN mid \/ x = RewardOf(u, "invited")
      /\ \A x \in DOMAIN mid : x # RewardOf(u, "invited") => grants'[x] = mid[x]
  BY <1>1, <1>4, <1>5, <1>6, <1>7, RewardIsStacked
<1> QED
  BY <1>1, <1>4, <1>7, <1>8 DEF u

-----------------------------------------------------------------------------
(* What TypeOK says of the checkouts and the provider's events.              *)
ProviderOK ==
    /\ now \in Time
    /\ checkout \in [Purchases ->
           { "none", "asked", "reserved", "opened", "returned", "over" }]
    /\ occurred \in [Purchases -> [Kinds -> Time \cup { Never }]]
    /\ delivery \in [Purchases -> [Kinds -> { "none", "due", "applied", "found", "answered" }]]
    /\ seen \in [Purchases -> SUBSET Kinds]

(* The types of what Paddle has seen and sent, from the invariant.          *)
LEMMA ProviderTyped == ASSUME CommerceInv PROVE ProviderOK
BY DEF CommerceInv, TypeOK, ProviderOK

(* Which transactions write which table.                                     *)
LEMMA WhoWritesRows ==
    ASSUME [Next]_vars
    PROVE  \/ UNCHANGED row
           \/ \E p \in Purchases, u \in Users, t \in Targets : Ask(p, u, t)
           \/ \E p \in Purchases : Reserve(p) \/ CheckoutFails(p) \/ HourPasses(p)
           \/ \E p \in Purchases, k \in Kinds : ApplyEvent(p, k)
BY DEF Next, Checkout, Webhook, vars, ledger, Tick, Refuse, OpenTransaction, Finalize,
       Abandon, Pay, Refund, Happens, FindPayer, Qualify, RevokeReward, Redeliver, Claim,
       ClaimCommits

(* competition_pass_grants is written by the handler of a webhook and by    *)
(* the two steps of a reward.                                               *)
LEMMA WhoWritesGrants ==
    ASSUME [Next]_vars
    PROVE  \/ UNCHANGED grants
           \/ \E p \in Purchases, k \in Kinds : ApplyEvent(p, k)
           \/ \E p \in Purchases : Qualify(p) \/ RevokeReward(p)
BY DEF Next, Checkout, Webhook, vars, ledger, Tick, Ask, Reserve, Refuse, OpenTransaction,
       Finalize, CheckoutFails, Abandon, HourPasses, Pay, Refund, Happens, FindPayer, Redeliver,
       Claim, ClaimCommits

(* referral_attributions is written by a claim and by the two steps of a    *)
(* reward.                                                                  *)
LEMMA WhoWritesAttributions ==
    ASSUME [Next]_vars
    PROVE  \/ UNCHANGED referral
           \/ \E p \in Purchases : Qualify(p) \/ RevokeReward(p)
           \/ \E u, v \in Users : Claim(u, v)
           \/ \E u \in Users : ClaimCommits(u)
BY DEF Next, Checkout, Webhook, vars, referral, Tick, Ask, Reserve, Refuse, OpenTransaction,
       Finalize, CheckoutFails, Abandon, HourPasses, Pay, Refund, Happens, ApplyEvent, FindPayer,
       Redeliver

(* pass_checkouts is written by the steps of one checkout at a time.        *)
LEMMA WhoWritesCheckouts ==
    ASSUME [Next]_vars
    PROVE  \/ UNCHANGED checkout
           \/ \E p \in Purchases, u \in Users, t \in Targets : Ask(p, u, t)
           \/ \E p \in Purchases : \/ Reserve(p) \/ Refuse(p) \/ OpenTransaction(p)
                                   \/ Finalize(p) \/ CheckoutFails(p) \/ Abandon(p)
BY DEF Next, Checkout, Webhook, vars, Tick, HourPasses, Pay, Refund, Happens, ApplyEvent,
       FindPayer, Qualify, RevokeReward, Redeliver, Claim, ClaimCommits

(* A webhook moves forward through its own handling; only a payment and a   *)
(* refund give Paddle something new to send.                                *)
LEMMA WhoWritesEvents ==
    ASSUME [Next]_vars
    PROVE  \/ UNCHANGED provider
           \/ UNCHANGED occurred /\ \E p \in Purchases, k \in Kinds : ApplyEvent(p, k)
           \/ UNCHANGED occurred /\ \E p \in Purchases, k \in Kinds, to \in { "due", "found", "answered" } :
                  delivery[p][k] \notin { "none", "due" } /\ Moves(p, k, delivery[p][k], to)
           \/ UNCHANGED row /\ \E p \in Purchases : Pay(p) \/ Refund(p)
<1> DEFINE Told == \E p \in Purchases, k \in Kinds, to \in { "due", "found", "answered" } :
                      delivery[p][k] \notin { "none", "due" } /\ Moves(p, k, delivery[p][k], to)
<1>1. ASSUME NEW p \in Purchases, NEW k \in Kinds, ApplyEvent(p, k) PROVE UNCHANGED occurred
  BY <1>1 DEF ApplyEvent
<1>2. ASSUME NEW p \in Purchases, FindPayer(p) PROVE UNCHANGED occurred /\ Told
  BY <1>2 DEF FindPayer, Moves, Kinds
<1>3. ASSUME NEW p \in Purchases, Qualify(p) PROVE UNCHANGED occurred /\ Told
  BY <1>3 DEF Qualify, Moves, Kinds
<1>4. ASSUME NEW p \in Purchases, RevokeReward(p) PROVE UNCHANGED occurred /\ Told
  BY <1>4 DEF RevokeReward, Moves, Kinds
<1>5. ASSUME NEW p \in Purchases, NEW k \in Kinds, Redeliver(p, k) PROVE UNCHANGED occurred /\ Told
  BY <1>5 DEF Redeliver, Moves
<1>6. ASSUME NEW p \in Purchases, Checkout(p) PROVE UNCHANGED provider
  BY <1>6 DEF Checkout, provider, Ask, Reserve, Refuse, OpenTransaction, Finalize, CheckoutFails,
              Abandon, HourPasses
<1>7. ASSUME NEW p \in Purchases, Pay(p) \/ Refund(p) PROVE UNCHANGED row
  BY <1>7 DEF Pay, Refund, Happens, ledger
<1>8. Tick \/ (\E u, v \in Users : Claim(u, v)) \/ (\E u \in Users : ClaimCommits(u)) \/ UNCHANGED vars
      => UNCHANGED provider
  BY DEF Tick, Claim, ClaimCommits, vars, provider
<1> QED
  BY <1>1, <1>2, <1>3, <1>4, <1>5, <1>6, <1>7, <1>8 DEF Next, Webhook

(* Which events of a purchase have been recorded changes only when one is   *)
(* applied.                                                                 *)
LEMMA WhoWritesSeen ==
    ASSUME [Next]_vars
    PROVE  UNCHANGED seen \/ \E p \in Purchases, k \in Kinds : ApplyEvent(p, k)
BY DEF Next, Checkout, Webhook, vars, ledger, Tick, Ask, Reserve, Refuse, OpenTransaction, Finalize,
       CheckoutFails, Abandon, HourPasses, Pay, Refund, Happens, FindPayer, Qualify, RevokeReward,
       Redeliver, Claim, ClaimCommits

-----------------------------------------------------------------------------
Row == [ user : Users \cup { None }, target : Targets \cup { None },
         status : Pending \cup { "none", "FAILED", "ACTIVE", "BLOCKED" },
         blocked : BOOLEAN, completed : Time \cup { Never }, last : Time \cup { Never } ]

(* A row stays a row, and keeps its account and its target from the request  *)
(* on, whatever the webhooks make of it.                                     *)
LEMMA RowsStayRows ==
    ASSUME CommerceAssumption, CommerceInv, [Next]_vars
    PROVE  /\ row' \in [Purchases -> Row]
           /\ \A p \in Purchases : checkout[p] # "none" =>
                  row'[p].user = row[p].user /\ row'[p].target = row[p].target
           /\ \A p \in Purchases : row'[p].status \in { "ACTIVE", "BLOCKED" } =>
                  checkout[p] = "returned"
<1> DEFINE Kept == \A p \in Purchases : checkout[p] # "none" =>
                       row'[p].user = row[p].user /\ row'[p].target = row[p].target
           Bound == \A p \in Purchases : row'[p].status \in { "ACTIVE", "BLOCKED" } =>
                        checkout[p] = "returned"
           Good == row' \in [Purchases -> Row] /\ Kept /\ Bound
<1>1. row \in [Purchases -> Row]
  BY DEF CommerceInv, TypeOK, Row
<1>2. ASSUME NEW p \in Purchases, NEW r \in Row, row' = [row EXCEPT ![p] = r],
             checkout[p] # "none" => r.user = row[p].user /\ r.target = row[p].target,
             r.status \in { "ACTIVE", "BLOCKED" } => checkout[p] = "returned"
      PROVE  Good
  BY <1>1, <1>2 DEF CommerceInv, TypeOK
<1>3. CASE UNCHANGED row
  BY <1>1, <1>3 DEF CommerceInv, TypeOK
<1>4. ASSUME NEW p \in Purchases, NEW u \in Users, NEW t \in Targets, Ask(p, u, t) PROVE Good
  <2> DEFINE r == [ row[p] EXCEPT !.user = u, !.target = t ]
  <2>1. r \in Row /\ r.status = row[p].status
    BY <1>1 DEF Row
  <2>2. row' = [ row EXCEPT ![p] = r ] /\ checkout[p] = "none"
    BY <1>1, <1>4 DEF Ask, Advance
  <2> QED
    BY <1>2, <2>1, <2>2 DEF CommerceInv, TypeOK
<1>5. ASSUME NEW p \in Purchases, Reserve(p) \/ HourPasses(p) \/ CheckoutFails(p) PROVE Good
  <2>1. PICK st \in { "PENDING", "LAPSED", "FAILED", row[p].status } :
               row' = [ row EXCEPT ![p].status = st ]
    BY <1>5 DEF Reserve, HourPasses, CheckoutFails
  <2> DEFINE r == [ row[p] EXCEPT !.status = st ]
  <2>2. r \in Row /\ r.user = row[p].user /\ r.target = row[p].target /\ r.status = st
    BY <1>1 DEF Row, Pending
  <2>3. row' = [ row EXCEPT ![p] = r ]
    BY <1>1, <2>1
  <2> QED
    BY <1>2, <2>2, <2>3 DEF CommerceInv, TypeOK
<1>6. ASSUME NEW p \in Purchases, NEW k \in Kinds, ApplyEvent(p, k) PROVE Good
  <2> DEFINE at == occurred[p][k]
  <2>1. at \in Time /\ checkout[p] = "returned"
    BY <1>6 DEF ApplyEvent, Moves, CommerceInv, TypeOK, EventsInOrder, Never
  <2>2. PICK r \in { row[p], [ row[p] EXCEPT !.last = at ],
                     [ row[p] EXCEPT !.status = "ACTIVE", !.completed = at, !.last = at ],
                     [ row[p] EXCEPT !.status = "BLOCKED", !.blocked = TRUE, !.last = at ] } :
               row' = [ row EXCEPT ![p] = r ]
    <3>1. \/ UNCHANGED row
          \/ k = "completed" /\ Activate(p)
          \/ k = "refund" /\ Block(p)
      BY <1>6 DEF ApplyEvent, Applied, Kinds
    <3>2. ASSUME k = "completed", Activate(p)
          PROVE  row' \in { [ row EXCEPT ![p] = [ @ EXCEPT !.last = at ] ],
                            [ row EXCEPT ![p] = [ @ EXCEPT !.status = "ACTIVE", !.completed = at,
                                                           !.last = at ] ] }
      BY <1>1, <3>2 DEF Activate
    <3>3. ASSUME k = "refund", Block(p)
          PROVE  row' = [ row EXCEPT ![p] = [ @ EXCEPT !.status = "BLOCKED", !.blocked = TRUE,
                                                       !.last = at ] ]
      BY <1>1, <3>3 DEF Block
    <3> QED
      BY <1>1, <3>1, <3>2, <3>3
  <2>3. r \in Row /\ r.user = row[p].user /\ r.target = row[p].target
    <3>1. row[p] \in Row
      BY <1>1
    <3>2. CASE r = row[p]
      BY <3>1, <3>2
    <3>3. CASE r = [ row[p] EXCEPT !.last = at ]
      BY <2>1, <3>1, <3>3 DEF Row
    <3>4. CASE r = [ row[p] EXCEPT !.status = "ACTIVE", !.completed = at, !.last = at ]
      BY <2>1, <3>1, <3>4 DEF Row
    <3>5. CASE r = [ row[p] EXCEPT !.status = "BLOCKED", !.blocked = TRUE, !.last = at ]
      BY <2>1, <3>1, <3>5 DEF Row
    <3> QED
      BY <2>2, <3>2, <3>3, <3>4, <3>5
  <2> QED
    BY <1>2, <2>1, <2>2, <2>3
<1> QED
  BY <1>3, <1>4, <1>5, <1>6, WhoWritesRows

(* Neither the checkout nor the provider gets ahead of the other.            *)
LEMMA EventsStayInOrder ==
    ASSUME CommerceAssumption, CommerceInv, [Next]_vars
    PROVE  EventsInOrder'
<1> DEFINE Request(p) == checkout[p] # "none" => row[p].user \in Users /\ row[p].target \in Targets
           Paid(p) == occurred[p]["completed"] # Never => checkout[p] = "returned"
           Repaid(p) == occurred[p]["refund"] # Never =>
                            /\ occurred[p]["completed"] # Never
                            /\ occurred[p]["completed"] <= occurred[p]["refund"]
           Known(p, k) == /\ occurred[p][k] <= now
                          /\ delivery[p][k] # "none" => occurred[p][k] # Never
<1> USE DEF Never
<1>1. now <= now' /\ now \in Time /\ now' \in Time
  <2>1. Tick \/ UNCHANGED now
    BY DEF Next, Checkout, Webhook, vars, Ask, Reserve, Refuse, OpenTransaction, Finalize,
           CheckoutFails, Abandon, HourPasses, Pay, Refund, Happens, ApplyEvent, FindPayer, Qualify,
           RevokeReward, Redeliver, Claim, ClaimCommits
  <2> QED
    BY <2>1 DEF Tick, Time, CommerceInv, TypeOK, CommerceAssumption
<1>2. \/ UNCHANGED checkout
      \/ \E q \in Purchases, u \in Users, t \in Targets : Ask(q, u, t)
      \/ \E q \in Purchases, to \in { "reserved", "opened", "returned", "over" } :
             /\ checkout[q] \notin { "none", "returned" }
             /\ checkout' = [ checkout EXCEPT ![q] = to ]
  <2>1. ASSUME NEW q \in Purchases, \/ Reserve(q) \/ Refuse(q) \/ OpenTransaction(q)
                                      \/ Finalize(q) \/ CheckoutFails(q) \/ Abandon(q)
        PROVE  \E to \in { "reserved", "opened", "returned", "over" } :
                  /\ checkout[q] \notin { "none", "returned" }
                  /\ checkout' = [ checkout EXCEPT ![q] = to ]
    BY <2>1 DEF Reserve, Refuse, OpenTransaction, Finalize, CheckoutFails, Abandon, Advance
  <2> QED
    BY <2>1, WhoWritesCheckouts
<1>3. \A p \in Purchases : Request(p)' /\ (checkout[p] = "returned" => checkout'[p] = "returned")
  <2>1. ASSUME NEW p \in Purchases, checkout[p] = "none", checkout'[p] # "none"
        PROVE  Request(p)'
    <3>1. PICK q \in Purchases, u \in Users, t \in Targets : Ask(q, u, t)
      BY <1>2, <2>1 DEF CommerceInv, TypeOK
    <3>2. q = p
      BY <2>1, <3>1 DEF Ask, Advance, CommerceInv, TypeOK
    <3> QED
      BY <3>1, <3>2 DEF Ask, CommerceInv, TypeOK
  <2>2. ASSUME NEW p \in Purchases, checkout[p] # "none"
        PROVE  Request(p)'
    BY <2>2, RowsStayRows DEF CommerceInv, EventsInOrder
  <2>3. ASSUME NEW p \in Purchases, checkout[p] = "returned" PROVE checkout'[p] = "returned"
    BY <1>2, <2>3 DEF Ask, Advance, CommerceInv, TypeOK
  <2> QED
    BY <2>1, <2>2, <2>3
<1>4. CASE UNCHANGED provider
  BY <1>1, <1>3, <1>4 DEF EventsInOrder, CommerceInv, TypeOK, Time, provider
<1>5. ASSUME UNCHANGED occurred, NEW p \in Purchases, NEW k \in Kinds,
             NEW to, delivery[p][k] # "none", Moves(p, k, delivery[p][k], to)
      PROVE  EventsInOrder'
  <2>1. \A q \in Purchases, l \in Kinds : delivery'[q][l] # "none" => delivery[q][l] # "none"
    BY <1>5 DEF CommerceInv, TypeOK, Moves
  <2>2. \A q \in Purchases, l \in Kinds : Known(q, l)'
    BY <1>1, <1>5, <2>1 DEF EventsInOrder, CommerceInv, TypeOK, Time
  <2> QED
    BY <1>3, <1>5, <2>2 DEF EventsInOrder, CommerceInv
<1>6. ASSUME NEW p \in Purchases, Pay(p) \/ Refund(p)
      PROVE  EventsInOrder'
  <2>1. PICK k \in Kinds : Happens(p, k)
    BY <1>6 DEF Pay, Refund, Kinds
  <2>2. occurred' = [ occurred EXCEPT ![p][k] = now ] /\ delivery' = [ delivery EXCEPT ![p][k] = "due" ]
    BY <2>1 DEF Happens
  <2>3. \A q \in Purchases, l \in Kinds : Known(q, l)'
    BY <1>1, <2>2 DEF EventsInOrder, CommerceInv, TypeOK, Time
  <2>4. ASSUME NEW q \in Purchases PROVE Paid(q)' /\ Repaid(q)'
    <3>1. CASE q # p
      BY <1>3, <2>2, <3>1, ProviderTyped DEF EventsInOrder, CommerceInv, ProviderOK
    <3>2. CASE q = p /\ Pay(p)
      BY <1>3, <2>2, <3>2, ProviderTyped DEF EventsInOrder, CommerceInv, ProviderOK, Kinds, Pay, Happens
    <3>3. CASE q = p /\ Refund(p)
      BY <1>3, <2>2, <3>3, ProviderTyped DEF EventsInOrder, CommerceInv, ProviderOK, Kinds, Refund, Happens
    <3> QED
      BY <1>6, <3>1, <3>2, <3>3
  <2> QED
    BY <1>3, <2>3, <2>4 DEF EventsInOrder
<1>7. ASSUME NEW p \in Purchases, NEW k \in Kinds, ApplyEvent(p, k)
      PROVE  delivery[p][k] # "none" /\ Moves(p, k, delivery[p][k], "applied")
  BY <1>7 DEF ApplyEvent, Moves
<1> QED
  BY <1>4, <1>5, <1>6, <1>7, WhoWritesEvents

-----------------------------------------------------------------------------
(* Only the webhook of a purchase touches its pass.                          *)
LEMMA PassesKeep ==
    ASSUME CommerceAssumption, CommerceInv, [Next]_vars,
           \A p \in Purchases, k \in Kinds : ~ApplyEvent(p, k)
    PROVE  /\ \A p \in Purchases : Granted(p)' <=> Granted(p)
           /\ \A p \in Purchases : /\ row'[p].last = row[p].last /\ row'[p].blocked = row[p].blocked
                                   /\ row[p].status = "ACTIVE" => row'[p].status = "ACTIVE"
<1>1. ASSUME NEW p \in Purchases PROVE Granted(p)' <=> Granted(p)
  <2>1. CASE UNCHANGED grants
    BY <2>1 DEF Granted
  <2>2. ASSUME NEW q \in Purchases, Qualify(q), Qualifies(row[q].user) PROVE Granted(p)' <=> Granted(p)
    <3>1. PassOf(p) \notin RewardsOf(row[q].user)
      BY SourcesApart DEF RewardsOf
    <3> QED
      BY <2>2, <3>1, WhatQualifyGrants DEF Granted
  <2>3. ASSUME NEW q \in Purchases, RevokeReward(q) PROVE Granted(p)' <=> Granted(p)
    <3> DEFINE ss == UNION { RewardsOf(u) : u \in RewardedBy(q) }
    <3>1. PassOf(p) \notin ss
      BY SourcesApart DEF RewardsOf
    <3>2. grants' = Revoke(grants, ss)
      BY <2>3 DEF RevokeReward
    <3> HIDE DEF ss
    <3> QED
      BY <3>1, <3>2, RevokeEffect DEF Granted
  <2>4. \A q \in Purchases : Qualify(q) /\ ~Qualifies(row[q].user) => UNCHANGED grants
    BY DEF Qualify
  <2> QED
    BY <2>1, <2>2, <2>3, <2>4, WhoWritesGrants
<1>2. ASSUME NEW p \in Purchases
      PROVE  /\ row'[p].last = row[p].last /\ row'[p].blocked = row[p].blocked
             /\ row[p].status = "ACTIVE" => row'[p].status = "ACTIVE"
  <2>1. CASE UNCHANGED row
    BY <2>1
  <2>2. ASSUME NEW q \in Purchases, NEW u \in Users, NEW t \in Targets, Ask(q, u, t)
        PROVE  /\ row'[p].last = row[p].last /\ row'[p].blocked = row[p].blocked
               /\ row[p].status = "ACTIVE" => row'[p].status = "ACTIVE"
    BY <2>2 DEF Ask, CommerceInv, TypeOK
  <2>3. ASSUME NEW q \in Purchases, Reserve(q) \/ CheckoutFails(q) \/ HourPasses(q)
        PROVE  /\ row'[p].last = row[p].last /\ row'[p].blocked = row[p].blocked
               /\ row[p].status = "ACTIVE" => row'[p].status = "ACTIVE"
    <3>1. PICK st : /\ row' = [ row EXCEPT ![q].status = st ]
                    /\ row[q].status = "ACTIVE" => st = "ACTIVE"
      <4>1. Reserve(q) => row[q].status # "ACTIVE"
        BY DEF Reserve, Advance, CommerceInv, TypeOK
      <4> QED
        BY <2>3, <4>1 DEF Reserve, CheckoutFails, HourPasses, Pending
    <3> QED
      BY <3>1 DEF CommerceInv, TypeOK
  <2> QED
    BY <2>1, <2>2, <2>3, WhoWritesRows
<1> QED
  BY <1>1, <1>2

(* What the row knows stays true: _apply_event leaves a payment that is      *)
(* older than what was applied alone, and a refund is never older.           *)
KnowsEvents(p) ==
    /\ row[p].last # Never => \E k \in Kinds : row[p].last = occurred[p][k]
    /\ row[p].blocked => occurred[p]["refund"] # Never
    /\ "refund" \in seen[p] => row[p].blocked
    /\ Granted(p) => /\ row[p].status = "ACTIVE" /\ ~row[p].blocked
                     /\ occurred[p]["completed"] # Never
    /\ "completed" \in seen[p] =>
           \/ row[p].status = "ACTIVE" /\ ~row[p].blocked /\ Granted(p)
           \/ occurred[p]["refund"] # Never
    /\ delivery[p]["completed"] \in { "applied", "found", "answered" } => "completed" \in seen[p]

(* Every step keeps the row of a purchase in agreement with the events that *)
(* were recorded of it.                                                     *)
LEMMA RowStillKnowsEvents ==
    ASSUME CommerceAssumption, CommerceInv, [Next]_vars
    PROVE  RowKnowsEvents'
<1> SUFFICES ASSUME NEW p \in Purchases PROVE KnowsEvents(p)'
  BY DEF RowKnowsEvents, KnowsEvents
<1>1. KnowsEvents(p) /\ RowKnowsEvents
  BY DEF CommerceInv, RowKnowsEvents, KnowsEvents
<1>2. \A l \in Kinds : occurred[p][l] # Never => occurred'[p][l] = occurred[p][l]
  <2>1. UNCHANGED occurred \/ \E q \in Purchases, k \in Kinds :
            occurred[q][k] = Never /\ occurred' = [ occurred EXCEPT ![q][k] = now ]
    <3>1. ASSUME NEW q \in Purchases, Pay(q) \/ Refund(q)
          PROVE  \E k \in Kinds : /\ occurred[q][k] = Never
                                  /\ occurred' = [ occurred EXCEPT ![q][k] = now ]
      BY <3>1 DEF Pay, Refund, Happens, Kinds
    <3> QED
      BY <3>1, WhoWritesEvents DEF provider
  <2>2. ASSUME NEW q \in Purchases, NEW k \in Kinds, NEW l \in Kinds, occurred[q][k] = Never,
               occurred' = [ occurred EXCEPT ![q][k] = now ], occurred[p][l] # Never
        PROVE  occurred'[p][l] = occurred[p][l]
    <3>1. ~(q = p /\ k = l)
      BY <2>2
    <3> QED
      BY <2>2, <3>1, ProviderTyped DEF ProviderOK
  <2> QED
    BY <2>1, <2>2
<1>3. CASE \A q \in Purchases, k \in Kinds : ~ApplyEvent(q, k)
  <2>1. UNCHANGED seen
    BY <1>3, WhoWritesSeen
  <2>2. /\ Granted(p)' <=> Granted(p)
        /\ row'[p].last = row[p].last /\ row'[p].blocked = row[p].blocked
        /\ row[p].status = "ACTIVE" => row'[p].status = "ACTIVE"
    BY <1>3, PassesKeep
  <2>3. delivery'[p]["completed"] \in { "applied", "found", "answered" } =>
            delivery[p]["completed"] \in { "applied", "found", "answered" }
    <3>1. CASE UNCHANGED provider
      BY <3>1 DEF provider
    <3>2. ASSUME NEW q \in Purchases, NEW k \in Kinds, NEW to,
                 delivery[q][k] \notin { "none", "due" }, Moves(q, k, delivery[q][k], to)
          PROVE  delivery'[p]["completed"] \in { "applied", "found", "answered" } =>
                     delivery[p]["completed"] \in { "applied", "found", "answered" }
      <4>1. CASE q = p /\ k = "completed"
        BY <3>2, <4>1, ProviderTyped DEF ProviderOK
      <4>2. CASE ~(q = p /\ k = "completed")
        <5>1. delivery'[p]["completed"] = delivery[p]["completed"]
          BY <3>2, <4>2, ProviderTyped DEF Moves, ProviderOK, Kinds
        <5> QED
          BY <5>1
      <4> QED
        BY <4>1, <4>2
    <3>3. ASSUME NEW q \in Purchases, Pay(q) \/ Refund(q)
          PROVE  delivery'[p]["completed"] \in { "applied", "found", "answered" } =>
                     delivery[p]["completed"] \in { "applied", "found", "answered" }
      <4>1. PICK k \in Kinds : /\ delivery' = [ delivery EXCEPT ![q][k] = "due" ]
        BY <3>3 DEF Pay, Refund, Happens, Kinds
      <4> QED
        BY <4>1, ProviderTyped DEF ProviderOK, Kinds
    <3> QED
      BY <1>3, <3>1, <3>2, <3>3, WhoWritesEvents
  <2> QED
    BY <1>1, <1>2, <2>1, <2>2, <2>3 DEF KnowsEvents, Kinds
<1>4. ASSUME NEW q \in Purchases, NEW k \in Kinds, ApplyEvent(q, k), q # p
      PROVE  KnowsEvents(p)'
  <2>1. UNCHANGED occurred /\ row'[p] = row[p] /\ seen'[p] = seen[p] /\ delivery'[p] = delivery[p]
    BY <1>4 DEF ApplyEvent, Applied, Activate, Block, Moves, CommerceInv, TypeOK
  <2>2. Granted(p)' <=> Granted(p)
    <3>1. CASE UNCHANGED grants
      BY <3>1 DEF Granted
    <3>2. CASE \E g : grants' = Grant(grants, PassOf(q), g)
      BY <1>4, <3>2, SourcesApart, GrantEffect DEF Granted
    <3>3. CASE grants' = Revoke(grants, { PassOf(q) })
      BY <1>4, <3>3, SourcesApart, RevokeEffect DEF Granted
    <3> QED
      BY <1>4, <3>1, <3>2, <3>3 DEF ApplyEvent, Applied, Activate, Block
  <2> QED
    BY <1>1, <2>1, <2>2 DEF KnowsEvents
<1>5. ASSUME NEW k \in Kinds, ApplyEvent(p, k)
      PROVE  KnowsEvents(p)'
  <2>1. /\ UNCHANGED occurred /\ seen'[p] = seen[p] \cup { k }
        /\ \A l \in Kinds : delivery'[p][l] = IF l = k THEN "applied" ELSE delivery[p][l]
    BY <1>5 DEF ApplyEvent, Moves, CommerceInv, TypeOK
  <2>2. /\ occurred[p][k] \in Time
        /\ occurred[p]["refund"] # Never => /\ occurred[p]["completed"] \in Time
                                            /\ occurred[p]["refund"] \in Time
                                            /\ occurred[p]["completed"] <= occurred[p]["refund"]
        /\ row[p].last # Never => row[p].last \in Time
    BY <1>5 DEF ApplyEvent, Moves, CommerceInv, TypeOK, EventsInOrder, Never, Kinds
  <2>3. CASE (k \in seen[p] \/ Stale(p, k)) /\ UNCHANGED << row, grants >>
    <3>1. k = "refund" => "refund" \in seen[p]
      BY <1>1, <2>2, <2>3 DEF Stale, KnowsEvents, Kinds, Time, Never
    <3>2. k = "completed" => "completed" \in seen[p] \/ occurred[p]["refund"] # Never
      BY <1>1, <2>2, <2>3 DEF Stale, KnowsEvents, Kinds, Time, Never
    <3>3. Granted(p)' <=> Granted(p)
      BY <2>3 DEF Granted
    <3> QED
      BY <1>1, <2>1, <2>3, <3>1, <3>2, <3>3 DEF KnowsEvents, Kinds
  <2>4. CASE k = "completed" /\ Activate(p)
    <3>1. CASE Activates(p)
      <4>1. /\ row'[p].status = "ACTIVE" /\ row'[p].blocked = row[p].blocked
            /\ row'[p].last = occurred[p]["completed"]
        BY <2>4, <3>1 DEF Activate, CommerceInv, TypeOK
      <4>2. Granted(p)'
        BY <2>4, <3>1, GrantEffect DEF Activate, Granted, PassGrant
      <4> QED
        BY <1>1, <2>1, <2>2, <2>4, <3>1, <4>1, <4>2 DEF KnowsEvents, Kinds, Activates, Time, Never
    <3>2. CASE ~Activates(p)
      <4>1. /\ row'[p].status = row[p].status /\ row'[p].blocked = row[p].blocked
            /\ row'[p].last = occurred[p]["completed"] /\ (Granted(p)' <=> Granted(p))
        BY <2>4, <3>2 DEF Activate, CommerceInv, TypeOK, Granted
      <4> QED
        BY <1>1, <2>1, <2>2, <2>4, <3>2, <4>1 DEF KnowsEvents, Kinds, Activates
    <3> QED
      BY <3>1, <3>2
  <2>5. CASE k = "refund" /\ Block(p)
    <3>1. /\ row'[p].status = "BLOCKED" /\ row'[p].blocked /\ row'[p].last = occurred[p]["refund"]
      BY <2>5 DEF Block, CommerceInv, TypeOK
    <3>2. ~Granted(p)'
      <4>1. PassOf(p) \in DOMAIN grants => ~Revoke(grants, { PassOf(p) })[PassOf(p)].active
        <5> SUFFICES ASSUME PassOf(p) \in DOMAIN grants
                     PROVE  ~Revoke(grants, { PassOf(p) })[PassOf(p)].active
          OBVIOUS
        <5>1. Revoke(grants, { PassOf(p) })[PassOf(p)] = [ grants[PassOf(p)] EXCEPT !.active = FALSE ]
          BY RevokeEffect
        <5> QED
          BY <5>1 DEF CommerceInv, TypeOK
      <4> QED
        BY <2>5, <4>1, RevokeEffect DEF Block, Granted
    <3> QED
      BY <1>1, <2>1, <2>2, <2>5, <3>1, <3>2 DEF KnowsEvents, Kinds, Time, Never
  <2> QED
    BY <1>5, <2>3, <2>4, <2>5 DEF ApplyEvent, Applied, Kinds
<1> QED
  BY <1>3, <1>4, <1>5

-----------------------------------------------------------------------------
(* Taking grants away keeps the others apart; a pass is no reward.           *)
LEMMA RevokingKeepsApart ==
    ASSUME NEW gs, NEW ss, GrantsOK(gs), GrantsAreFinite(gs), WindowsApart(gs)
    PROVE  /\ GrantsOK(Revoke(gs, ss)) /\ GrantsAreFinite(Revoke(gs, ss))
           /\ WindowsApart(Revoke(gs, ss))
<1> DEFINE after == Revoke(gs, ss)
<1>1. /\ DOMAIN after = DOMAIN gs
      /\ \A x \in DOMAIN gs : after[x] = gs[x] \/ after[x] = [ gs[x] EXCEPT !.active = FALSE ]
  BY RevokeEffect
<1> HIDE DEF after
<1>2. \A x \in DOMAIN gs :
          /\ after[x] \in [ user : Users, scope : Targets \cup { Global }, active : BOOLEAN,
                            from : Nat, until : Nat \cup { Never } ]
          /\ after[x].user = gs[x].user /\ after[x].from = gs[x].from
          /\ after[x].until = gs[x].until /\ (after[x].active => gs[x].active)
  <2> SUFFICES ASSUME NEW x \in DOMAIN gs
               PROVE  /\ after[x] \in [ user : Users, scope : Targets \cup { Global }, active : BOOLEAN,
                                         from : Nat, until : Nat \cup { Never } ]
                      /\ after[x].user = gs[x].user /\ after[x].from = gs[x].from
                      /\ after[x].until = gs[x].until /\ (after[x].active => gs[x].active)
    OBVIOUS
  <2> DEFINE g == gs[x]
  <2>1. g \in [ user : Users, scope : Targets \cup { Global }, active : BOOLEAN,
                from : Nat, until : Nat \cup { Never } ]
    BY DEF GrantsOK
  <2>2. after[x] = g \/ after[x] = [ g EXCEPT !.active = FALSE ]
    BY <1>1
  <2> HIDE DEF g
  <2>3. /\ after[x] \in [ user : Users, scope : Targets \cup { Global }, active : BOOLEAN,
                           from : Nat, until : Nat \cup { Never } ]
        /\ after[x].user = g.user /\ after[x].from = g.from
        /\ after[x].until = g.until /\ (after[x].active => g.active)
    BY <2>1, <2>2
  <2> QED
    BY <2>3 DEF g
<1> QED
  BY <1>1, <1>2 DEF GrantsOK, GrantsAreFinite, WindowsApart, after

(* _apply_event leaves the rewards alone.                                    *)
LEMMA PaymentsLeaveRewards ==
    ASSUME CommerceAssumption, CommerceInv, NEW p \in Purchases, NEW k \in Kinds, ApplyEvent(p, k)
    PROVE  /\ GrantsOK(grants') /\ GrantsAreFinite(grants') /\ WindowsApart(grants')
           /\ \A x \in Rewards : /\ x \in DOMAIN grants' <=> x \in DOMAIN grants
                                 /\ x \in DOMAIN grants => grants'[x] = grants[x]
<1>1. GrantsOK(grants) /\ GrantsAreFinite(grants) /\ WindowsApart(grants)
  BY DEF CommerceInv, TypeOK, GrantsOK, RewardsAreFinite, RewardWindowsApart, WindowsApart
<1>2. CASE UNCHANGED grants
  BY <1>1, <1>2
<1>3. CASE k = "completed" /\ grants' = Grant(grants, PassOf(p), PassGrant(p))
  <2> DEFINE g == PassGrant(p)
  <2>1. g \in [ user : Users, scope : Targets \cup { Global }, active : BOOLEAN,
                from : Nat, until : Nat \cup { Never } ]
    <3>1. checkout[p] = "returned" /\ occurred[p]["completed"] \in Nat
      BY <1>3, ProviderTyped DEF ApplyEvent, Moves, CommerceInv, EventsInOrder, ProviderOK, Never,
                                 Kinds, Time, CommerceAssumption
    <3>2. row[p].user \in Users /\ row[p].target \in Targets
      BY <3>1 DEF CommerceInv, EventsInOrder
    <3> QED
      BY <3>1, <3>2 DEF PassGrant
  <2> HIDE DEF g
  <2>2. /\ \A x : x \in DOMAIN grants' <=> x \in DOMAIN grants \/ x = PassOf(p)
        /\ grants'[PassOf(p)] = g
        /\ \A x \in DOMAIN grants : x # PassOf(p) => grants'[x] = grants[x]
    BY <1>3, GrantEffect DEF g
  <2>3. PassOf(p) \in Sources /\ PassOf(p) \notin Rewards
    BY SourcesApart DEF Sources
  <2>4. GrantsOK(grants')
    BY <1>1, <2>1, <2>2, <2>3 DEF GrantsOK
  <2>5. IsFiniteSet(DOMAIN grants')
    <3>1. DOMAIN grants' = DOMAIN grants \cup { PassOf(p) }
      BY <2>2
    <3> QED
      BY <1>1, <3>1, FS_AddElement DEF GrantsAreFinite
  <2> QED
    BY <1>1, <2>2, <2>3, <2>4, <2>5 DEF GrantsAreFinite, WindowsApart
<1>4. CASE k = "refund" /\ grants' = Revoke(grants, { PassOf(p) })
  <2>1. GrantsOK(grants') /\ GrantsAreFinite(grants') /\ WindowsApart(grants')
    BY <1>1, <1>4, RevokingKeepsApart
  <2> QED
    BY <1>4, <2>1, RevokeEffect, SourcesApart
<1> QED
  BY <1>2, <1>3, <1>4 DEF ApplyEvent, Applied, Activate, Block, Kinds

(* What RevokeReward takes away.                                             *)
LEMMA WhatRevokeRewardEnds ==
    ASSUME CommerceInv, NEW p \in Purchases, RevokeReward(p)
    PROVE  /\ GrantsOK(grants') /\ GrantsAreFinite(grants') /\ WindowsApart(grants')
           /\ DOMAIN grants' = DOMAIN grants
           /\ \A x \in DOMAIN grants : grants'[x].active => grants[x].active
           /\ \A u \in RewardedBy(p), r \in Roles :
                  RewardOf(u, r) \in DOMAIN grants => ~grants'[RewardOf(u, r)].active
<1> DEFINE ss == UNION { RewardsOf(u) : u \in RewardedBy(p) }
<1>1. GrantsOK(grants) /\ GrantsAreFinite(grants) /\ WindowsApart(grants)
  BY DEF CommerceInv, TypeOK, GrantsOK, RewardsAreFinite, RewardWindowsApart, WindowsApart
<1>2. \A u \in RewardedBy(p), r \in Roles : RewardOf(u, r) \in ss
  BY DEF RewardsOf
<1>3. grants' = Revoke(grants, ss)
  BY DEF RevokeReward
<1> HIDE DEF ss
<1>4. GrantsOK(grants') /\ GrantsAreFinite(grants') /\ WindowsApart(grants')
  BY <1>1, <1>3, RevokingKeepsApart
<1>5. \A x \in DOMAIN grants \cap ss : ~grants'[x].active
  <2> SUFFICES ASSUME NEW x \in DOMAIN grants, x \in ss PROVE ~grants'[x].active
    OBVIOUS
  <2>1. grants'[x] = [ grants[x] EXCEPT !.active = FALSE ]
    BY <1>3, RevokeEffect
  <2> QED
    BY <1>1, <2>1 DEF GrantsOK
<1> QED
  BY <1>2, <1>3, <1>4, <1>5, RevokeEffect

(* Every step keeps the passes of one user and team apart in time.          *)
LEMMA GrantsStayApart ==
    ASSUME CommerceAssumption, CommerceInv, [Next]_vars
    PROVE  GrantsOK(grants') /\ GrantsAreFinite(grants') /\ WindowsApart(grants')
<1>1. GrantsOK(grants) /\ GrantsAreFinite(grants) /\ WindowsApart(grants)
  BY DEF CommerceInv, TypeOK, GrantsOK, RewardsAreFinite, RewardWindowsApart, WindowsApart
<1>2. \A p \in Purchases : Qualify(p) /\ ~Qualifies(row[p].user) => UNCHANGED grants
  BY DEF Qualify
<1> QED
  BY <1>1, <1>2, WhoWritesGrants, PaymentsLeaveRewards, WhatQualifyGrants, WhatRevokeRewardEnds

-----------------------------------------------------------------------------
Attribution == [ status : { "none", "CLAIMED", "REWARDED", "REVOKED" },
                 by : Users \cup { None }, payment : Purchases \cup { None } ]

ReferralOK == attribution \in [Users -> Attribution] /\ claiming \in [Users -> Users \cup { None }]

(* The types of the attributions, from the invariant.                       *)
LEMMA ReferralTyped == ASSUME CommerceInv PROVE ReferralOK
BY DEF CommerceInv, TypeOK, ReferralOK, Attribution

(* What the attribution of one account says of its claim and its rewards.    *)
Follows(u) ==
    /\ claiming[u] # None => attribution[u].status = "none"
    /\ attribution[u].status # "none" => attribution[u].by \in Users
    /\ attribution[u].payment # None => attribution[u].status \in { "REWARDED", "REVOKED" }
    /\ \A r \in Roles :
           /\ attribution[u].status \in { "REWARDED", "REVOKED" } => RewardOf(u, r) \in DOMAIN grants
           /\ attribution[u].status = "REVOKED" => ~grants[RewardOf(u, r)].active

(* A reward is granted and revoked with its attribution, in one transaction, *)
(* and a claim finds no other claim or reward of its account.                *)
LEMMA RewardsStillFollow ==
    ASSUME CommerceAssumption, CommerceInv, [Next]_vars
    PROVE  ReferralOK' /\ RewardsFollowAttribution'
<1> SUFFICES ReferralOK' /\ \A u \in Users : Follows(u)'
  BY DEF RewardsFollowAttribution, Follows
<1>1. ReferralOK /\ \A u \in Users : Follows(u)
  BY ReferralTyped DEF CommerceInv, RewardsFollowAttribution, Follows
<1>2. CASE UNCHANGED referral
  <2>1. ReferralOK'
    BY <1>1, <1>2 DEF ReferralOK, referral
  <2>2. ASSUME NEW u \in Users, NEW r \in Roles
        PROVE  /\ RewardOf(u, r) \in DOMAIN grants => RewardOf(u, r) \in DOMAIN grants'
               /\ RewardOf(u, r) \in DOMAIN grants /\ ~grants[RewardOf(u, r)].active =>
                      ~grants'[RewardOf(u, r)].active
    <3>1. CASE UNCHANGED grants
      BY <3>1
    <3>2. ASSUME NEW p \in Purchases, NEW k \in Kinds, ApplyEvent(p, k)
          PROVE  /\ RewardOf(u, r) \in DOMAIN grants => RewardOf(u, r) \in DOMAIN grants'
                 /\ RewardOf(u, r) \in DOMAIN grants /\ ~grants[RewardOf(u, r)].active =>
                        ~grants'[RewardOf(u, r)].active
      BY <3>2, PaymentsLeaveRewards, SourcesApart
    <3>3. ASSUME NEW p \in Purchases, RevokeReward(p)
          PROVE  /\ RewardOf(u, r) \in DOMAIN grants => RewardOf(u, r) \in DOMAIN grants'
                 /\ RewardOf(u, r) \in DOMAIN grants /\ ~grants[RewardOf(u, r)].active =>
                        ~grants'[RewardOf(u, r)].active
      BY <3>3, WhatRevokeRewardEnds
    <3>4. ASSUME NEW p \in Purchases, Qualify(p) PROVE UNCHANGED grants
      <4>1. ~Qualifies(row[p].user)
        <5> SUFFICES ASSUME Qualifies(row[p].user) PROVE FALSE
          OBVIOUS
        <5>1. row[p].user \in Users /\ attribution[row[p].user].status = "CLAIMED"
          BY <3>4, WhatQualifyGrants DEF Qualifies
        <5>2. attribution'[row[p].user].status = "REWARDED"
          BY <1>1, <3>4, <5>1 DEF Qualify, ReferralOK, Attribution
        <5> QED
          BY <1>2, <5>1, <5>2 DEF referral
      <4> QED
        BY <3>4, <4>1 DEF Qualify
    <3> QED
      BY <3>1, <3>2, <3>3, <3>4, WhoWritesGrants
  <2> QED
    BY <1>1, <1>2, <2>1, <2>2 DEF Follows, referral
<1>3. ASSUME NEW p \in Purchases, Qualify(p), Qualifies(row[p].user)
      PROVE  ReferralOK' /\ \A u \in Users : Follows(u)'
  <2>0. PICK w \in Users : w = row[p].user
    BY <1>3, WhatQualifyGrants
  <2>1. /\ attribution[w].status = "CLAIMED" /\ UNCHANGED claiming
        /\ attribution' = [ attribution EXCEPT ![w].status = "REWARDED", ![w].payment = p ]
    BY <1>3, <2>0 DEF Qualifies, Qualify
  <2>2. ReferralOK'
    <3>1. attribution[w] \in Attribution
      BY <1>1 DEF ReferralOK
    <3>2. [ attribution[w] EXCEPT !.status = "REWARDED", !.payment = p ] \in Attribution
      BY <3>1 DEF Attribution
    <3>3. attribution' = [ attribution EXCEPT ![w] =
                             [ attribution[w] EXCEPT !.status = "REWARDED", !.payment = p ] ]
      BY <2>1
    <3> QED
      BY <1>1, <2>1, <3>2, <3>3 DEF ReferralOK
  <2>3. \A u \in Users : u # w => attribution'[u] = attribution[u]
    BY <1>1, <2>1 DEF ReferralOK
  <2>4. ASSUME NEW u \in Users, NEW r \in Roles, u # w, RewardOf(u, r) \in DOMAIN grants
        PROVE  RewardOf(u, r) \in DOMAIN grants' /\ grants'[RewardOf(u, r)] = grants[RewardOf(u, r)]
    <3>1. RewardOf(u, r) \notin RewardsOf(w)
      BY <2>4, SourcesApart DEF RewardsOf
    <3> QED
      BY <1>3, <2>0, <2>4, <3>1, WhatQualifyGrants
  <2>5. ASSUME NEW u \in Users, u # w PROVE Follows(u)'
    <3>1. attribution'[u] = attribution[u] /\ claiming'[u] = claiming[u] /\ Follows(u)
      BY <1>1, <2>1, <2>3, <2>5
    <3> QED
      BY <2>4, <2>5, <3>1 DEF Follows
  <2>6. Follows(w)'
    <3>1. attribution'[w].status = "REWARDED" /\ attribution'[w].by = attribution[w].by
      BY <1>1, <2>1 DEF ReferralOK, Attribution
    <3>2. \A r \in Roles : RewardOf(w, r) \in DOMAIN grants'
      BY <1>3, <2>0, WhatQualifyGrants DEF RewardsOf
    <3> QED
      BY <1>1, <2>1, <3>1, <3>2 DEF Follows
  <2> QED
    BY <2>2, <2>5, <2>6
<1>4. ASSUME NEW p \in Purchases, RevokeReward(p)
      PROVE  ReferralOK' /\ \A u \in Users : Follows(u)'
  <2>1. /\ UNCHANGED claiming /\ DOMAIN attribution' = Users
        /\ \A u \in Users : attribution'[u] = IF u \in RewardedBy(p)
                                THEN [ attribution[u] EXCEPT !.status = "REVOKED" ]
                                ELSE attribution[u]
    BY <1>4 DEF RevokeReward
  <2>2. \A u \in Users :
            /\ attribution'[u] \in Attribution
            /\ attribution'[u].by = attribution[u].by /\ attribution'[u].payment = attribution[u].payment
            /\ attribution'[u].status = IF u \in RewardedBy(p) THEN "REVOKED" ELSE attribution[u].status
    BY <1>1, <2>1 DEF ReferralOK, Attribution
  <2>3. ReferralOK'
    BY <1>1, <1>4, <2>1, <2>2 DEF ReferralOK, RevokeReward
  <2>4. ASSUME NEW u \in Users PROVE Follows(u)'
    <3>1. u \in RewardedBy(p) => attribution[u].status = "REWARDED"
      BY DEF RewardedBy
    <3> QED
      BY <1>1, <1>4, <2>1, <2>2, <3>1, WhatRevokeRewardEnds DEF Follows
  <2> QED
    BY <2>3, <2>4
<1>5. ASSUME NEW u \in Users, NEW v \in Users, Claim(u, v)
      PROVE  ReferralOK' /\ \A x \in Users : Follows(x)'
  <2>1. UNCHANGED << attribution, grants >> /\ attribution[u].status = "none"
        /\ claiming' = [ claiming EXCEPT ![u] = v ]
    BY <1>5 DEF Claim, ledger
  <2>2. ReferralOK'
    BY <1>1, <2>1 DEF ReferralOK
  <2>3. ASSUME NEW x \in Users PROVE Follows(x)'
    <3>1. claiming'[x] = IF x = u THEN v ELSE claiming[x]
      BY <1>1, <2>1 DEF ReferralOK
    <3> QED
      BY <1>1, <2>1, <3>1 DEF Follows
  <2> QED
    BY <2>2, <2>3
<1>6. ASSUME NEW u \in Users, ClaimCommits(u)
      PROVE  ReferralOK' /\ \A x \in Users : Follows(x)'
  <2>1. /\ UNCHANGED grants /\ claiming[u] \in Users /\ claiming' = [ claiming EXCEPT ![u] = None ]
        /\ attribution' = [ attribution EXCEPT ![u].status = "CLAIMED", ![u].by = claiming[u] ]
    BY <1>1, <1>6 DEF ClaimCommits, ledger, ReferralOK
  <2>2. /\ \A x \in Users : x # u => attribution'[x] = attribution[x] /\ claiming'[x] = claiming[x]
        /\ claiming'[u] = None /\ attribution'[u].status = "CLAIMED"
        /\ attribution'[u].by = claiming[u] /\ attribution'[u].payment = attribution[u].payment
    BY <1>1, <2>1 DEF ReferralOK, Attribution
  <2>3. ReferralOK'
    <3>1. attribution[u] \in Attribution
      BY <1>1 DEF ReferralOK
    <3>2. [ attribution[u] EXCEPT !.status = "CLAIMED", !.by = claiming[u] ] \in Attribution
      BY <2>1, <3>1 DEF Attribution
    <3>3. attribution' = [ attribution EXCEPT ![u] =
                             [ attribution[u] EXCEPT !.status = "CLAIMED", !.by = claiming[u] ] ]
      BY <2>1
    <3> QED
      BY <1>1, <2>1, <3>2, <3>3 DEF ReferralOK
  <2>4. attribution[u].payment = None
    BY <1>1, <1>6 DEF ClaimCommits, Follows
  <2>5. ASSUME NEW x \in Users PROVE Follows(x)'
    <3>1. CASE x = u
      <4>1. Follows(u)'
        BY <2>1, <2>2, <2>4 DEF Follows
      <4> QED
        BY <3>1, <4>1
    <3>2. CASE x # u
      <4>1. attribution'[x] = attribution[x] /\ claiming'[x] = claiming[x] /\ Follows(x)
        BY <1>1, <2>2, <3>2
      <4> QED
        BY <2>1, <4>1 DEF Follows
    <3> QED
      BY <3>1, <3>2
  <2> QED
    BY <2>3, <2>5
<1>7. \A p \in Purchases : Qualify(p) /\ ~Qualifies(row[p].user) => UNCHANGED referral
  BY DEF Qualify, referral
<1> QED
  BY <1>2, <1>3, <1>4, <1>5, <1>6, <1>7, WhoWritesAttributions

-----------------------------------------------------------------------------
(* qualify_referral_payment counts the rewards of the inviter before it adds *)
(* one; every other transaction of a referral only takes rewards away.       *)
LEMMA RewardsStayCapped ==
    ASSUME CommerceAssumption, CommerceInv, [Next]_vars, NEW v \in Users
    PROVE  IsFiniteSet(Rewarded(v))' /\ (Cardinality(Rewarded(v)) <= MaxRewards)'
<1> DEFINE Capped2(S) == IsFiniteSet(S) /\ Cardinality(S) <= MaxRewards
<1>1. Capped2(Rewarded(v)) /\ MaxRewards \in Nat
  BY DEF CommerceInv, RewardsAreFinite, RewardsWithinCap, CommerceAssumption
<1>2. ASSUME NEW S, S \subseteq Rewarded(v) PROVE Capped2(S)
  <2>1. IsFiniteSet(S) /\ Cardinality(S) <= Cardinality(Rewarded(v))
    BY <1>1, <1>2, FS_Subset
  <2>2. Cardinality(S) \in Nat /\ Cardinality(Rewarded(v)) \in Nat
    BY <1>1, <2>1, FS_CardinalityType
  <2> QED
    BY <1>1, <2>1, <2>2
<1>3. ReferralOK
  BY ReferralTyped
<1>4. CASE UNCHANGED attribution
  <2>1. Rewarded(v)' = Rewarded(v)
    BY <1>4 DEF Rewarded
  <2> QED
    BY <1>1, <2>1
<1>5. ASSUME NEW p \in Purchases, Qualify(p), Qualifies(row[p].user)
      PROVE  Capped2(Rewarded(v))'
  <2>0. PICK w \in Users : w = row[p].user
    BY <1>5, WhatQualifyGrants
  <2>1. /\ ~AtCap(attribution[w].by)
        /\ attribution' = [ attribution EXCEPT ![w].status = "REWARDED", ![w].payment = p ]
    BY <1>5, <2>0 DEF Qualifies, Qualify
  <2>2. \A x \in Users : x # w => attribution'[x] = attribution[x]
    BY <1>3, <2>1 DEF ReferralOK
  <2>3. attribution'[w].by = attribution[w].by
    BY <1>3, <2>1 DEF ReferralOK, Attribution
  <2>4. CASE attribution[w].by = v
    <3>1. Rewarded(v)' \subseteq Rewarded(v) \cup { w }
      BY <2>2 DEF Rewarded
    <3>2. Cardinality(Rewarded(v)) < MaxRewards /\ Cardinality(Rewarded(v)) \in Nat
      BY <1>1, <2>1, <2>4, FS_CardinalityType DEF AtCap
    <3>3. Capped2(Rewarded(v) \cup { w })
      <4>1. /\ IsFiniteSet(Rewarded(v) \cup { w })
            /\ \/ Cardinality(Rewarded(v) \cup { w }) = Cardinality(Rewarded(v))
               \/ Cardinality(Rewarded(v) \cup { w }) = Cardinality(Rewarded(v)) + 1
        BY <1>1, FS_AddElement
      <4> QED
        BY <1>1, <3>2, <4>1
    <3>4. IsFiniteSet(Rewarded(v)') /\ Cardinality(Rewarded(v)') <= Cardinality(Rewarded(v) \cup { w })
      BY <3>1, <3>3, FS_Subset
    <3>5. Cardinality(Rewarded(v)') \in Nat /\ Cardinality(Rewarded(v) \cup { w }) \in Nat
      BY <3>3, <3>4, FS_CardinalityType
    <3> QED
      BY <1>1, <3>3, <3>4, <3>5
  <2>5. CASE attribution[w].by # v
    <3>1. Rewarded(v)' \subseteq Rewarded(v)
      BY <2>2, <2>3, <2>5 DEF Rewarded
    <3> QED
      BY <1>2, <3>1
  <2> QED
    BY <2>4, <2>5
<1>6. ASSUME NEW p \in Purchases, RevokeReward(p) PROVE Capped2(Rewarded(v))'
  <2>1. \A x \in Users : attribution'[x] = IF x \in RewardedBy(p)
                             THEN [ attribution[x] EXCEPT !.status = "REVOKED" ]
                             ELSE attribution[x]
    BY <1>6 DEF RevokeReward
  <2>2. \A x \in Users : x \in RewardedBy(p) => attribution'[x].status = "REVOKED"
    BY <1>3, <2>1 DEF ReferralOK, Attribution
  <2>3. Rewarded(v)' \subseteq Rewarded(v)
    BY <2>1, <2>2 DEF Rewarded
  <2> QED
    BY <1>2, <2>3
<1>7. ASSUME NEW u \in Users, ClaimCommits(u) PROVE Capped2(Rewarded(v))'
  <2>1. attribution' = [ attribution EXCEPT ![u].status = "CLAIMED", ![u].by = claiming[u] ]
    BY <1>7 DEF ClaimCommits
  <2>2. /\ \A x \in Users : x # u => attribution'[x] = attribution[x]
        /\ attribution'[u].status = "CLAIMED"
    BY <1>3, <2>1 DEF ReferralOK, Attribution
  <2>3. Rewarded(v)' \subseteq Rewarded(v)
    BY <2>2 DEF Rewarded
  <2> QED
    BY <1>2, <2>3
<1> QED
  BY <1>1, <1>4, <1>5, <1>6, <1>7, WhoWritesAttributions DEF Qualify, Claim, referral

(* Every table keeps its type.                                               *)
LEMMA ProviderStaysOK ==
    ASSUME CommerceAssumption, CommerceInv, [Next]_vars
    PROVE  ProviderOK' /\ faults' \in 0 .. MaxFaults
<1>1. ProviderOK
  BY ProviderTyped
<1>2. now' \in Time
  <2>1. UNCHANGED now \/ Tick
    BY DEF Next, Checkout, Webhook, vars, Ask, Reserve, Refuse, OpenTransaction, Finalize,
           CheckoutFails, Abandon, HourPasses, Pay, Refund, Happens, ApplyEvent, FindPayer, Qualify,
           RevokeReward, Redeliver, Claim, ClaimCommits
  <2> QED
    BY <1>1, <2>1 DEF ProviderOK, Tick, Time, CommerceAssumption
<1>3. faults' \in 0 .. MaxFaults
  <2>1. UNCHANGED faults \/ Fault
    BY DEF Next, Checkout, Webhook, vars, Ask, Reserve, Refuse, OpenTransaction, Finalize, Tick,
           CheckoutFails, Abandon, HourPasses, Pay, Refund, Happens, ApplyEvent, FindPayer, Qualify,
           RevokeReward, Redeliver, Claim, ClaimCommits
  <2>2. faults \in 0 .. MaxFaults
    BY DEF CommerceInv, TypeOK
  <2> QED
    BY <2>1, <2>2 DEF Fault, CommerceAssumption
<1>4. checkout' \in [Purchases -> { "none", "asked", "reserved", "opened", "returned", "over" }]
  <2>1. \A p \in Purchases, from, to \in { "none", "asked", "reserved", "opened", "returned", "over" } :
            Advance(p, from, to) =>
                checkout' \in [Purchases -> { "none", "asked", "reserved", "opened", "returned", "over" }]
    BY <1>1 DEF Advance, ProviderOK
  <2>2. UNCHANGED checkout \/
        \E p \in Purchases, from, to \in { "none", "asked", "reserved", "opened", "returned", "over" } :
            Advance(p, from, to)
    BY WhoWritesCheckouts DEF Ask, Reserve, Refuse, OpenTransaction, Finalize, CheckoutFails, Abandon
  <2> QED
    BY <1>1, <2>1, <2>2 DEF ProviderOK
<1>5. seen' \in [Purchases -> SUBSET Kinds]
  BY <1>1, WhoWritesSeen DEF ApplyEvent, ProviderOK
<1>6. ASSUME NEW p \in Purchases, NEW k \in Kinds,
             NEW to \in { "none", "due", "applied", "found", "answered" },
             delivery' = [ delivery EXCEPT ![p][k] = to ]
      PROVE  delivery' \in [Purchases -> [Kinds -> { "none", "due", "applied", "found", "answered" }]]
  <2>1. delivery[p] \in [Kinds -> { "none", "due", "applied", "found", "answered" }]
    BY <1>1 DEF ProviderOK
  <2>2. [ delivery[p] EXCEPT ![k] = to ] \in [Kinds -> { "none", "due", "applied", "found", "answered" }]
    BY <2>1
  <2>3. delivery' = [ delivery EXCEPT ![p] = [ delivery[p] EXCEPT ![k] = to ] ]
    BY <1>6
  <2> QED
    BY <1>1, <2>2, <2>3 DEF ProviderOK
<1>7. ASSUME NEW p \in Purchases, NEW k \in Kinds, Happens(p, k)
      PROVE  occurred' \in [Purchases -> [Kinds -> Time \cup { Never }]]
  <2>1. occurred[p] \in [Kinds -> Time \cup { Never }] /\ now \in Time
    BY <1>1 DEF ProviderOK
  <2>2. [ occurred[p] EXCEPT ![k] = now ] \in [Kinds -> Time \cup { Never }]
    BY <2>1
  <2>3. occurred' = [ occurred EXCEPT ![p] = [ occurred[p] EXCEPT ![k] = now ] ]
    BY <1>7 DEF Happens
  <2> QED
    BY <1>1, <2>2, <2>3 DEF ProviderOK
<1>8. \/ UNCHANGED provider
      \/ UNCHANGED occurred /\ \E p \in Purchases, k \in Kinds, to \in { "due", "applied", "found", "answered" } :
             delivery' = [ delivery EXCEPT ![p][k] = to ]
      \/ \E p \in Purchases, k \in Kinds : Happens(p, k)
  BY WhoWritesEvents DEF ApplyEvent, Moves, Pay, Refund, Kinds
<1>9. /\ occurred' \in [Purchases -> [Kinds -> Time \cup { Never }]]
      /\ delivery' \in [Purchases -> [Kinds -> { "none", "due", "applied", "found", "answered" }]]
  <2>1. CASE UNCHANGED provider
    BY <1>1, <2>1 DEF ProviderOK, provider
  <2>2. CASE UNCHANGED occurred /\ \E p \in Purchases, k \in Kinds, to \in { "due", "applied", "found", "answered" } :
                 delivery' = [ delivery EXCEPT ![p][k] = to ]
    BY <1>1, <1>6, <2>2 DEF ProviderOK
  <2>3. CASE \E p \in Purchases, k \in Kinds : Happens(p, k)
    BY <1>6, <1>7, <2>3 DEF Happens
  <2> QED
    BY <1>8, <2>1, <2>2, <2>3
<1> QED
  BY <1>2, <1>3, <1>4, <1>5, <1>9 DEF ProviderOK

(* Every step keeps the types.                                              *)
LEMMA TypesStay ==
    ASSUME CommerceAssumption, CommerceInv, [Next]_vars
    PROVE  TypeOK'
<1>1. ProviderOK' /\ faults' \in 0 .. MaxFaults
  BY ProviderStaysOK
<1>2. row' \in [Purchases -> Row]
  BY RowsStayRows
<1>3. GrantsOK(grants')
  BY GrantsStayApart
<1>4. ReferralOK'
  BY RewardsStillFollow
<1>5. \A p \in Purchases : row'[p].status \in { "ACTIVE", "BLOCKED" } => checkout'[p] = "returned"
  <2>1. \A p \in Purchases : checkout[p] = "returned" => checkout'[p] = "returned"
    BY ProviderTyped, WhoWritesCheckouts
       DEF ProviderOK, Ask, Reserve, Refuse, OpenTransaction, Finalize, CheckoutFails, Abandon, Advance
  <2> QED
    BY <2>1, RowsStayRows
<1> QED
  BY <1>1, <1>2, <1>3, <1>4, <1>5 DEF TypeOK, ProviderOK, Row, GrantsOK, ReferralOK, Attribution

(* Every step of a checkout, a webhook, a claim or a reward keeps the       *)
(* invariant.                                                               *)
LEMMA InvStep == CommerceAssumption /\ CommerceInv /\ [Next]_vars => CommerceInv'
<1> SUFFICES ASSUME CommerceAssumption, CommerceInv, [Next]_vars PROVE CommerceInv'
  OBVIOUS
<1>1. TypeOK'
  BY TypesStay
<1>2. EventsInOrder' /\ RowKnowsEvents' /\ RewardsFollowAttribution'
  BY EventsStayInOrder, RowStillKnowsEvents, RewardsStillFollow
<1>3. RewardsAreFinite' /\ RewardsWithinCap' /\ RewardWindowsApart'
  BY GrantsStayApart, RewardsStayCapped
     DEF RewardsAreFinite, RewardsWithinCap, RewardWindowsApart, WindowsApart, GrantsAreFinite
<1> QED
  BY <1>1, <1>2, <1>3 DEF CommerceInv

-----------------------------------------------------------------------------
(* The invariant, the types among it, holds in every state: nothing the      *)
(* checkouts, the webhooks and the claims do to the tables leaves it.        *)
THEOREM CommerceTypes == Spec => []TypeOK
<1>1. CommerceInv => TypeOK
  BY DEF CommerceInv
<1> QED
  BY <1>1, InvInit, InvStep, CommerceAssumption, PTL DEF Spec

(* A pass is held only for a payment that is not known to be refunded, in    *)
(* whatever order _apply_event sees the two events, and however often.       *)
THEOREM PassesArePaidFor == Spec => []AccessIsPaidFor
<1>1. CommerceInv => AccessIsPaidFor
  BY DEF CommerceInv, RowKnowsEvents, AccessIsPaidFor
<1> QED
  BY <1>1, InvInit, InvStep, CommerceAssumption, PTL DEF Spec

(* No inviter has more rewards than its cap, and the rewards of one account  *)
(* never run at the same time (qualify_referral_payment,                     *)
(* _grant_stacked_reward).                                                   *)
THEOREM RewardRulesKept == Spec => []RewardsKeepTheRules
<1>1. CommerceInv => RewardsKeepTheRules
  BY DEF CommerceInv, RewardsKeepTheRules
<1> QED
  BY <1>1, InvInit, InvStep, CommerceAssumption, PTL DEF Spec

(* The answer to a refund's webhook comes with the end of both rewards       *)
(* (revoke_referral_payment).                                                *)
LEMMA RefundStep ==
    ASSUME CommerceAssumption, CommerceInv, [Next]_vars,
           NEW p \in Purchases, NEW u \in Users,
           delivery[p]["refund"] = "applied", delivery'[p]["refund"] = "answered",
           attribution'[u].payment = p
    PROVE  /\ attribution'[u].status # "REWARDED"
           /\ \A r \in Roles : ~grants'[RewardOf(u, r)].active
<1>1. RevokeReward(p)
  <2>1. ProviderOK
    BY ProviderTyped
  <2>2. ~UNCHANGED provider
    BY DEF provider
  <2>3. \A q \in Purchases, k \in Kinds : \A from, to : Moves(q, k, from, to) =>
            /\ delivery[q][k] = from
            /\ << q, k >> # << p, "refund" >> => delivery'[p]["refund"] = delivery[p]["refund"]
            /\ q = p /\ k = "refund" => delivery'[p]["refund"] = to
    BY <2>1 DEF Moves, ProviderOK, Kinds
  <2>4. \A q \in Purchases, k \in Kinds : ~ApplyEvent(q, k) /\ ~Redeliver(q, k)
    BY <2>3 DEF ApplyEvent, Redeliver
  <2>5. \A q \in Purchases : ~FindPayer(q) /\ ~Qualify(q)
    BY <2>3 DEF FindPayer, Qualify, Kinds
  <2>6. \A q \in Purchases, k \in Kinds : Happens(q, k) =>
            delivery'[p]["refund"] \in { delivery[p]["refund"], "due" }
    BY <2>1 DEF Happens, ProviderOK, Kinds
  <2>7. \A q \in Purchases : ~Pay(q) /\ ~Refund(q)
    BY <2>6 DEF Pay, Refund, Kinds
  <2>8. \A q \in Purchases : RevokeReward(q) => q = p
    BY <2>3 DEF RevokeReward, Kinds
  <2> QED
    BY <2>2, <2>4, <2>5, <2>7, <2>8
       DEF Next, Checkout, Webhook, vars, provider, Tick, Ask, Reserve, Refuse, OpenTransaction,
           Finalize, CheckoutFails, Abandon, HourPasses, Claim, ClaimCommits
<1>2. attribution'[u].payment # None
  BY DEF CommerceAssumption
<1>3. attribution'[u].status \in { "REWARDED", "REVOKED" }
  BY <1>2, RewardsStillFollow DEF RewardsFollowAttribution
<1>4. attribution'[u].status # "REWARDED"
  <2>1. attribution'[u] = IF u \in RewardedBy(p)
                            THEN [ attribution[u] EXCEPT !.status = "REVOKED" ] ELSE attribution[u]
    BY <1>1 DEF RevokeReward
  <2> QED
    BY <2>1, ReferralTyped DEF ReferralOK, Attribution, RewardedBy
<1> QED
  BY <1>3, <1>4, RewardsStillFollow DEF RewardsFollowAttribution

(* When the webhook of a refund has been answered, no reward of either side  *)
(* stands for that payment (revoke_referral_payment).                        *)
THEOREM RefundTakesRewards == Spec => RefundEndsReward
<1> DEFINE Ends == \A p \in Purchases, u \in Users :
          /\ delivery[p]["refund"] = "applied" /\ delivery'[p]["refund"] = "answered"
          /\ attribution'[u].payment = p
          => /\ attribution'[u].status # "REWARDED"
             /\ \A r \in Roles : ~grants'[RewardOf(u, r)].active
<1>1. CommerceInv /\ [Next]_vars => [Ends]_vars
  BY RefundStep, CommerceAssumption
<1> QED
  BY <1>1, InvInit, InvStep, CommerceAssumption, PTL DEF Spec, RefundEndsReward

(* What handle_paddle_payment_event has seen to when it answers.             *)
LEMMA AnswerStep ==
    ASSUME CommerceAssumption, CommerceInv, [Next]_vars, NEW p \in Purchases,
           delivery[p]["completed"] # "answered", delivery'[p]["completed"] = "answered"
    PROVE  \/ Granted(p)' /\ (Claimed(p)' => Capped(p)')
           \/ occurred[p]["refund"] # Never
<1>1. ProviderOK
  BY ProviderTyped
<1>2. \A q \in Purchases, k \in Kinds : \A from, to : Moves(q, k, from, to) =>
          /\ delivery[q][k] = from
          /\ << q, k >> # << p, "completed" >> => delivery'[p]["completed"] = delivery[p]["completed"]
          /\ q = p /\ k = "completed" => delivery'[p]["completed"] = to
  BY <1>1 DEF Moves, ProviderOK, Kinds
<1>3. \A q \in Purchases, k \in Kinds : ~ApplyEvent(q, k) /\ ~Redeliver(q, k)
  BY <1>2 DEF ApplyEvent, Redeliver
<1>4. FindPayer(p) \/ Qualify(p)
  <2>1. ~UNCHANGED provider
    BY DEF provider
  <2>2. \A q \in Purchases : ~RevokeReward(q)
    BY <1>2 DEF RevokeReward, Kinds
  <2>3. \A q \in Purchases, k \in Kinds : Happens(q, k) =>
            delivery'[p]["completed"] \in { delivery[p]["completed"], "due" }
    BY <1>1 DEF Happens, ProviderOK, Kinds
  <2>4. \A q \in Purchases : ~Pay(q) /\ ~Refund(q)
    BY <2>3 DEF Pay, Refund, Kinds
  <2>5. \A q \in Purchases : FindPayer(q) \/ Qualify(q) => q = p
    BY <1>2 DEF FindPayer, Qualify, Kinds
  <2> QED
    BY <1>3, <2>1, <2>2, <2>4, <2>5
       DEF Next, Checkout, Webhook, vars, provider, Tick, Ask, Reserve, Refuse, OpenTransaction,
           Finalize, CheckoutFails, Abandon, HourPasses, Claim, ClaimCommits
<1>5. \/ row[p].status = "ACTIVE" /\ ~row[p].blocked /\ Granted(p)
      \/ occurred[p]["refund"] # Never
  <2>1. delivery[p]["completed"] \in { "applied", "found" }
    BY <1>4 DEF FindPayer, Qualify, Moves
  <2> QED
    BY <2>1 DEF CommerceInv, RowKnowsEvents
<1>6. CASE FindPayer(p)
  <2>1. ~(row[p].status = "ACTIVE" /\ ~row[p].blocked)
    <3>1. delivery'[p]["completed"] = IF row[p].status = "ACTIVE" /\ ~row[p].blocked
                                        THEN "found" ELSE "answered"
      BY <1>2, <1>6 DEF FindPayer, Kinds
    <3> QED
      BY <3>1
  <2> QED
    BY <1>5, <2>1
<1>7. CASE Qualify(p) /\ Granted(p)
  <2>1. Granted(p)'
    BY <1>3, <1>7, PassesKeep
  <2>2. UNCHANGED row
    BY <1>7 DEF Qualify
  <2>3. ASSUME NEW u \in Users, row'[p].user = u, attribution'[u].status = "CLAIMED"
        PROVE  AtCap(attribution[u].by)'
    <3>1. row[p].user = u
      BY <2>2, <2>3
    <3>2. ~Qualifies(u)
      <4> SUFFICES ASSUME Qualifies(u) PROVE FALSE
        OBVIOUS
      <4>1. attribution'[u].status = "REWARDED"
        BY <1>7, <3>1, ReferralTyped DEF Qualify, ReferralOK, Attribution
      <4> QED
        BY <2>3, <4>1
    <3>3. UNCHANGED attribution
      BY <1>7, <3>1, <3>2 DEF Qualify
    <3>4. AtCap(attribution[u].by)
      BY <2>3, <3>2, <3>3 DEF Qualifies
    <3> QED
      BY <3>3, <3>4 DEF AtCap, Rewarded
  <2>4. Claimed(p)' => Capped(p)'
    BY <2>3 DEF Claimed, Capped
  <2> QED
    BY <2>1, <2>4
<1> QED
  BY <1>4, <1>5, <1>6, <1>7

(* Who paid has the pass when the webhook is answered, and a waiting claim   *)
(* its reward, unless the inviter is at the cap or the money has gone back:  *)
(* whatever fails between the two transactions of                            *)
(* handle_paddle_payment_event.                                              *)
THEOREM PayersAreServed == Spec => PaymentIsHonoured
<1> DEFINE Served == \A p \in Purchases :
          delivery[p]["completed"] # "answered" /\ delivery'[p]["completed"] = "answered"
          => \/ Granted(p)' /\ (Claimed(p)' => Capped(p)')
             \/ occurred[p]["refund"] # Never
<1>1. CommerceInv /\ [Next]_vars => [Served]_vars
  BY AnswerStep, CommerceAssumption
<1> QED
  BY <1>1, InvInit, InvStep, CommerceAssumption, PTL DEF Spec, PaymentIsHonoured

-----------------------------------------------------------------------------
(* The history of teams and players.  The inductive invariant is stated of   *)
(* tables and facts first, and of the state at the end: a sync moves the     *)
(* facts on and then adds rows that rest on the facts as they are by then.   *)
Statuses == {"NONE", "BASIC_READY", "ADVANCED_READY", "DATA_CONFLICT"}
FactRow == [status: Statuses, winner: Winners, usable: Nat, advanced: Nat, since: Nat]

FactOK(f) ==
    /\ f \in FactRow
    /\ f.status = "NONE" <=> f.usable = 0
    /\ f.winner # "?" => f.usable # 0
    /\ f.winner = "?" => f.since = 0

FactsOK(facts) ==
    /\ facts \in [Providers -> [Matches -> FactRow]]
    /\ \A p \in Providers, m \in Matches : FactOK(facts[p][m])

(* What a response may do to a fact, when it is stored at the instant        *)
(* `commit`.                                                                *)
MovesTo(f, g, commit) ==
    /\ f.usable # 0 => g.usable \in 1..f.usable
    /\ f.advanced # 0 => g.advanced = f.advanced
    /\ f.status = "DATA_CONFLICT" => g.status = "DATA_CONFLICT"
    /\ f.winner # "?" => g.winner = f.winner
    /\ \/ g.since = commit
       \/ g.since = f.since /\ g.winner = f.winner /\ (f.winner # "?" => g.usable = f.usable)

FactsMove(old, new, commit) ==
    /\ FactsOK(new)
    /\ \A p \in Providers, m \in Matches : MovesTo(old[p][m], new[p][m], commit)

(* CameLate, UsableBy and AdvancedBy of any facts and cutoffs.              *)
LateIn(facts, m, cs) ==
    \E p \in Providers, c \in cs : facts[p][m].since > c /\ facts[p][m].usable =< c
UsableIn(facts, t) == {m \in Matches : \E p \in Providers : facts[p][m].usable \in 1..t}
AdvancedIn(facts, t) == {m \in Matches : \E p \in Providers : facts[p][m].advanced \in 1..t}
DisturbedIn(facts, x, cs) ==
    \E m \in MapsWith(x) : \/ LateIn(facts, m, cs)
                           \/ \E p \in Providers : facts[p][m].status = "DATA_CONFLICT"

(* The smaller of two instants (the min of persist_bundle).                 *)
LEMMA MinOfTwo ==
    ASSUME NEW a \in Int, NEW b \in Int
    PROVE  Min({a, b}) \in {a, b} /\ Min({a, b}) =< a /\ Min({a, b}) =< b
<1>1. \E x \in {a, b} : \A y \in {a, b} : x =< y
  <2>1. CASE a =< b
    BY <2>1
  <2>2. CASE b =< a
    BY <2>2
  <2> QED
    BY <2>1, <2>2
<1>2. Min({a, b}) \in {a, b} /\ \A y \in {a, b} : Min({a, b}) =< y
  BY <1>1 DEF Min
<1> QED
  BY <1>2

(* A response leaves a fact a fact and takes nothing back (persist_bundle). *)
LEMMA MergeMoves ==
    ASSUME NEW f, FactOK(f), NEW a \in FactAnswer, NEW at \in Nat \ {0}, NEW commit \in Nat
    PROVE  FactOK(Merged(f, a, at, commit)) /\ MovesTo(f, Merged(f, a, at, commit), commit)
<1>1. Min({f.usable, at}) \in {f.usable, at} /\ Min({f.usable, at}) =< f.usable /\ Min({f.usable, at}) =< at
  BY MinOfTwo DEF FactOK, FactRow
<1> DEFINE low == Min({f.usable, at})
<1>2. low \in {f.usable, at} /\ low =< f.usable /\ low =< at
  BY <1>1
<1> HIDE DEF low
<1> DEFINE g == Merged(f, a, at, commit)
<1>3. /\ g.usable = (IF f.status = "NONE" THEN at ELSE low)
      /\ g.advanced = AdvancedAt(f, a, at)
      /\ g.winner = (IF f.winner # "?" THEN f.winner ELSE a.winner)
      /\ g.since = (IF g.winner = "?" THEN 0
                    ELSE IF f.winner # "?" /\ f.usable =< at THEN f.since ELSE commit)
  BY DEF Merged, low
<1>4. /\ g.status \in Statuses \ {"NONE"}
      /\ f.status = "DATA_CONFLICT" => g.status = "DATA_CONFLICT"
  BY DEF Merged, Statuses
<1>5. g = [status |-> g.status, winner |-> g.winner, usable |-> g.usable,
           advanced |-> g.advanced, since |-> g.since]
  BY DEF Merged
<1> HIDE DEF g
<1>6. g.advanced \in Nat /\ (f.advanced # 0 => g.advanced = f.advanced)
  BY <1>3 DEF AdvancedAt, FactOK, FactRow
<1>7. g.usable \in Nat \ {0} /\ (f.usable # 0 => g.usable \in 1..f.usable)
  BY <1>2, <1>3 DEF FactOK, FactRow
<1>8. g.winner \in Winners /\ (f.winner # "?" => g.winner = f.winner)
  BY <1>3 DEF FactOK, FactRow, FactAnswer
<1>9. g.since \in Nat /\ (g.winner = "?" => g.since = 0)
  BY <1>3 DEF FactOK, FactRow
<1>10. \/ g.since = commit
       \/ g.since = f.since /\ g.winner = f.winner /\ (f.winner # "?" => g.usable = f.usable)
  <2>1. CASE g.winner = "?"
    BY <1>3, <1>8, <2>1 DEF FactOK
  <2>2. CASE g.winner # "?" /\ f.winner # "?" /\ f.usable =< at
    <3>1. f.status # "NONE" /\ g.usable = low
      BY <1>3, <2>2 DEF FactOK
    <3>2. low = f.usable
      BY <1>2, <2>2, <3>1 DEF FactOK, FactRow
    <3> QED
      BY <1>3, <1>8, <2>2, <3>1, <3>2
  <2>3. CASE g.winner # "?" /\ ~(f.winner # "?" /\ f.usable =< at)
    BY <1>3, <2>3
  <2> QED
    BY <2>1, <2>2, <2>3
<1>11. FactOK(g)
  BY <1>4, <1>5, <1>6, <1>7, <1>8, <1>9 DEF FactOK, FactRow
<1>12. MovesTo(f, g, commit)
  BY <1>4, <1>6, <1>7, <1>8, <1>10 DEF MovesTo
<1> QED
  BY <1>11, <1>12 DEF g

(* A conflict changes a fact's status only.                                 *)
LEMMA ConflictMoves ==
    ASSUME NEW f, FactOK(f), f.winner # "?", NEW commit
    PROVE  FactOK(Conflicted(f)) /\ MovesTo(f, Conflicted(f), commit)
<1> DEFINE g == Conflicted(f)
<1>1. /\ g.status = "DATA_CONFLICT" /\ g.winner = f.winner /\ g.usable = f.usable
      /\ g.advanced = f.advanced /\ g.since = f.since /\ g \in FactRow
  BY DEF Conflicted, FactOK, FactRow, Statuses
<1> HIDE DEF g
<1>2. f.usable \in Nat
  BY DEF FactOK, FactRow
<1>3. FactOK(g) /\ MovesTo(f, g, commit)
  BY <1>1, <1>2 DEF FactOK, MovesTo
<1> QED
  BY <1>3 DEF g

(* Two moves of one transaction are one.                                    *)
LEMMA MovesCompose ==
    ASSUME NEW f, NEW g, NEW h, NEW commit, FactOK(f), FactOK(g), FactOK(h),
           MovesTo(f, g, commit), MovesTo(g, h, commit)
    PROVE  MovesTo(f, h, commit)
<1>1. f.usable \in Nat /\ g.usable \in Nat /\ h.usable \in Nat
  BY DEF FactOK, FactRow
<1>2. f.usable # 0 => h.usable \in 1..f.usable
  BY <1>1 DEF MovesTo
<1>3. /\ f.advanced # 0 => h.advanced = f.advanced
      /\ f.status = "DATA_CONFLICT" => h.status = "DATA_CONFLICT"
      /\ f.winner # "?" => h.winner = f.winner
  BY DEF MovesTo
<1>4. \/ h.since = commit
      \/ h.since = f.since /\ h.winner = f.winner /\ (f.winner # "?" => h.usable = f.usable)
  BY DEF MovesTo
<1> QED
  BY <1>2, <1>3, <1>4 DEF MovesTo

(* The other of the two providers.                                          *)
LEMMA OtherProvider ==
    ASSUME NEW p \in Providers PROVE Other(p) \in Providers /\ Other(p) # p
<1>1. Primary # Fallback
  BY DEF Primary, Fallback
<1>2. \E q \in Providers : q # p
  BY <1>1 DEF Providers
<1> QED
  BY <1>2 DEF Other

(* A stored response moves the facts: its own and, when the two providers    *)
(* differ, the other one's (persist_bundle).                                *)
LEMMA StoringMoves ==
    ASSUME NEW facts, FactsOK(facts), NEW p \in Providers, NEW m \in Matches, NEW a \in FactAnswer,
           NEW at \in Nat \ {0}, NEW commit \in Nat
    PROVE  FactsMove(facts, Stored(facts, p, m, a, at, commit), commit)
<1> DEFINE new == Merged(facts[p][m], a, at, commit)
           other == facts[Other(p)][m]
           differ == new.winner # "?" /\ other.winner # "?" /\ new.winner # other.winner
           mine == IF differ THEN Conflicted(new) ELSE new
           theirs == IF differ THEN Conflicted(other) ELSE other
           after == Stored(facts, p, m, a, at, commit)
<1>1. Other(p) \in Providers /\ Other(p) # p
  BY OtherProvider
<1>2. FactOK(facts[p][m]) /\ FactOK(other)
  BY <1>1 DEF FactsOK
<1>3. FactOK(new) /\ MovesTo(facts[p][m], new, commit)
  BY <1>2, MergeMoves
<1>4. after = [facts EXCEPT ![p][m] = mine, ![Other(p)][m] = theirs]
  BY DEF Stored
<1> HIDE DEF new
<1>5. FactOK(mine) /\ MovesTo(facts[p][m], mine, commit)
  <2>1. CASE differ
    <3>1. FactOK(Conflicted(new)) /\ MovesTo(new, Conflicted(new), commit)
      BY <1>3, <2>1, ConflictMoves
    <3> QED
      BY <1>2, <1>3, <2>1, <3>1, MovesCompose
  <2>2. CASE ~differ
    BY <1>3, <2>2
  <2> QED
    BY <2>1, <2>2
<1>6. \A f : FactOK(f) => MovesTo(f, f, commit)
  BY DEF MovesTo, FactOK, FactRow
<1>7. FactOK(theirs) /\ MovesTo(other, theirs, commit)
  <2>1. CASE differ
    BY <1>2, <2>1, ConflictMoves
  <2>2. CASE ~differ
    BY <1>2, <1>6, <2>2
  <2> QED
    BY <2>1, <2>2
<1> HIDE DEF mine, theirs, differ
<1>8. facts \in [Providers -> [Matches -> FactRow]]
  BY DEF FactsOK
<1>9. mine \in FactRow /\ theirs \in FactRow
  BY <1>5, <1>7 DEF FactOK
<1>10. after \in [Providers -> [Matches -> FactRow]]
  BY <1>1, <1>4, <1>8, <1>9
<1>11. \A q \in Providers, n \in Matches :
          after[q][n] = (IF n # m THEN facts[q][n] ELSE IF q = p THEN mine
                         ELSE IF q = Other(p) THEN theirs ELSE facts[q][n])
  BY <1>1, <1>4, <1>8
<1> HIDE DEF after
<1>12. ASSUME NEW q \in Providers, NEW n \in Matches
       PROVE  FactOK(after[q][n]) /\ MovesTo(facts[q][n], after[q][n], commit)
  <2>1. FactOK(facts[q][n]) /\ MovesTo(facts[q][n], facts[q][n], commit)
    BY <1>6 DEF FactsOK
  <2>2. CASE n # m
    BY <1>11, <2>1, <2>2
  <2>3. CASE n = m /\ q = p
    BY <1>11, <1>5, <2>3
  <2>4. CASE n = m /\ q # p /\ q = Other(p)
    BY <1>11, <1>7, <2>4
  <2>5. CASE n = m /\ q # p /\ q # Other(p)
    BY <1>11, <2>1, <2>5
  <2> QED
    BY <2>2, <2>3, <2>4, <2>5
<1>13. FactsMove(facts, after, commit)
  BY <1>10, <1>12 DEF FactsMove, FactsOK
<1> QED
  BY <1>13 DEF after

(* Two responses of one sync.                                               *)
LEMMA StoringTwiceMoves ==
    ASSUME NEW f, NEW g, NEW h, NEW commit, FactsOK(f), FactsMove(f, g, commit), FactsMove(g, h, commit)
    PROVE  FactsMove(f, h, commit)
<1> SUFFICES ASSUME NEW p \in Providers, NEW m \in Matches PROVE MovesTo(f[p][m], h[p][m], commit)
  BY DEF FactsMove
<1>1. FactOK(f[p][m]) /\ FactOK(g[p][m]) /\ FactOK(h[p][m])
  BY DEF FactsOK, FactsMove
<1>2. MovesTo(f[p][m], g[p][m], commit) /\ MovesTo(g[p][m], h[p][m], commit)
  BY DEF FactsMove
<1> QED
  BY <1>1, <1>2, MovesCompose

(* Facts that stand still move.                                             *)
LEMMA StandingStillMoves ==
    ASSUME NEW facts, FactsOK(facts), NEW commit PROVE FactsMove(facts, facts, commit)
<1> SUFFICES ASSUME NEW p \in Providers, NEW m \in Matches
             PROVE  MovesTo(facts[p][m], facts[p][m], commit)
  BY DEF FactsMove
<1>1. FactOK(facts[p][m])
  BY DEF FactsOK
<1> QED
  BY <1>1 DEF FactOK, FactRow, MovesTo

-----------------------------------------------------------------------------
(* What a move of the facts leaves as it is, with respect to the cutoffs of  *)
(* the syncs that have finished, which all lie before it.                   *)
LEMMA LateStays ==
    ASSUME NEW old, NEW new, NEW commit \in Nat, NEW cs \in SUBSET Nat, FactsOK(old),
           FactsMove(old, new, commit), \A c \in cs : c < commit, NEW m \in Matches, LateIn(old, m, cs)
    PROVE  LateIn(new, m, cs)
<1>1. PICK p \in Providers, c \in cs : old[p][m].since > c /\ old[p][m].usable =< c
  BY DEF LateIn
<1> DEFINE f == old[p][m]  g == new[p][m]
<1>2. FactOK(f) /\ FactOK(g) /\ MovesTo(f, g, commit)
  BY DEF FactsOK, FactsMove
<1>3. c \in Nat /\ c < commit /\ f.since > c /\ f.usable =< c
  BY <1>1
<1> HIDE DEF f, g
<1>4. f.since \in Nat /\ f.usable \in Nat /\ g.usable \in Nat
  BY <1>2 DEF FactOK, FactRow
<1>5. f.winner # "?" /\ f.usable # 0
  BY <1>2, <1>3, <1>4 DEF FactOK
<1>6. g.usable =< c
  BY <1>2, <1>3, <1>4, <1>5 DEF MovesTo
<1>7. g.since > c
  BY <1>2, <1>3 DEF MovesTo
<1> QED
  BY <1>6, <1>7 DEF LateIn, g

LEMMA UsableStays ==
    ASSUME NEW old, NEW new, NEW commit, NEW t \in Nat, FactsOK(old), FactsMove(old, new, commit)
    PROVE  UsableIn(old, t) \subseteq UsableIn(new, t) /\ AdvancedIn(old, t) \subseteq AdvancedIn(new, t)
<1>1. ASSUME NEW p \in Providers, NEW m \in Matches
      PROVE  /\ old[p][m].usable \in 1..t => new[p][m].usable \in 1..t
             /\ old[p][m].advanced \in 1..t => new[p][m].advanced \in 1..t
  <2> DEFINE f == old[p][m]  g == new[p][m]
  <2>1. FactOK(f) /\ FactOK(g) /\ MovesTo(f, g, commit)
    BY DEF FactsOK, FactsMove
  <2> HIDE DEF f, g
  <2>2. f.usable \in Nat /\ g.usable \in Nat /\ f.advanced \in Nat
    BY <2>1 DEF FactOK, FactRow
  <2>3. (f.usable \in 1..t => g.usable \in 1..t) /\ (f.advanced \in 1..t => g.advanced \in 1..t)
    BY <2>1, <2>2 DEF MovesTo
  <2> QED
    BY <2>3 DEF f, g
<1> QED
  BY <1>1 DEF UsableIn, AdvancedIn

LEMMA AsBefore ==
    ASSUME NEW old, NEW new, NEW commit \in Nat, NEW c \in Nat, c < commit, FactsOK(old),
           FactsMove(old, new, commit), NEW p \in Providers, NEW m \in Matches,
           Rateable(new[p][m], c), new[p][m].since =< c
    PROVE  /\ Rateable(old[p][m], c) /\ old[p][m].since =< c
           /\ old[p][m].usable = new[p][m].usable
<1> DEFINE f == old[p][m]  g == new[p][m]
<1>1. FactOK(f) /\ FactOK(g) /\ MovesTo(f, g, commit) /\ Rateable(g, c) /\ g.since =< c
  BY DEF FactsOK, FactsMove
<1> HIDE DEF f, g
<1>2. g.since = f.since /\ g.winner = f.winner /\ f.winner # "?" /\ g.usable = f.usable
  BY <1>1 DEF MovesTo, Rateable, Usable, FactOK, FactRow
<1>3. f.status # "DATA_CONFLICT" /\ f.status # "NONE"
  BY <1>1, <1>2 DEF MovesTo, FactOK, Rateable, Usable
<1>4. Rateable(f, c)
  BY <1>1, <1>2, <1>3 DEF Rateable, Usable
<1> QED
  BY <1>1, <1>2, <1>4 DEF f, g

(* When a map's chosen fact became usable: that of one of the providers that *)
(* will do, at the cutoff or before.                                        *)
LEMMA UsableAtOf ==
    ASSUME NEW facts, FactsOK(facts), NEW m \in Matches, NEW c \in Nat, Eligible(facts, m, c) # {}
    PROVE  \E p \in Eligible(facts, m, c) :
               /\ p \in Providers /\ UsableAt(facts, m, c) = facts[p][m].usable
               /\ facts[p][m].usable \in 1..c
<1> DEFINE p == IF Primary \in Eligible(facts, m, c) THEN Primary ELSE Fallback
<1>1. p \in Eligible(facts, m, c) /\ p \in Providers
  BY DEF Eligible, Providers
<1>2. UsableAt(facts, m, c) = facts[p][m].usable
  BY DEF UsableAt, Preferred
<1> HIDE DEF p
<1>3. FactOK(facts[p][m]) /\ Rateable(facts[p][m], c)
  BY <1>1 DEF FactsOK, Eligible
<1>4. facts[p][m].usable \in 1..c
  BY <1>3 DEF FactOK, FactRow, Rateable, Usable
<1> QED
  BY <1>1, <1>2, <1>4

-----------------------------------------------------------------------------
(* The table of ratings, with respect to the facts and to the cutoffs it was *)
(* built for: a row is not newer than the facts it rests on, unless one of   *)
(* them came late; no map is rated twice for a team, nor for one of its      *)
(* teams only; a map that could be rated as of one of the cutoffs, with what *)
(* was known by then, is; and the newest row of a team rests on all its maps. *)
RatingRow == [team: Teams, match: Matches, cutoff: Nat, maps: SUBSET Matches]

RatingRowOK(r, facts, cs) ==
    /\ r \in RatingRow /\ r.team \in Playing[r.match]
    /\ \E c \in cs : r.cutoff =< c
    /\ \/ r.maps \subseteq UsableIn(facts, r.cutoff)
       \/ \E m \in r.maps : LateIn(facts, m, cs)

OncePerMap(rows) == \A r, q \in rows : r.match = q.match /\ r.team = q.team => r = q

BothRated(rows) ==
    \A m \in Rated(rows) : {r.team : r \in {q \in rows : q.match = m}} = Playing[m]

AllRated(rows, facts, cs) ==
    \A c \in cs, p \in Providers, m \in Matches :
        Rateable(facts[p][m], c) /\ facts[p][m].since =< c => m \in Rated(rows)

ChainIn(rows, facts, cs) ==
    \A x \in Teams, t \in Nat :
        /\ \A c \in cs : c =< t
        /\ \A m \in Rated(OfTeam(rows, x)) : ~LateIn(facts, m, cs)
        => MapsOf(OfTeam(rows, x), t) = Rated(OfTeam(rows, x))

RatingsOK(rows, facts, cs) ==
    /\ \A r \in rows : RatingRowOK(r, facts, cs)
    /\ OncePerMap(rows)
    /\ BothRated(rows)
    /\ AllRated(rows, facts, cs)
    /\ ChainIn(rows, facts, cs)

(* What was built stays sound when the facts move on.                       *)
LEMMA RatingsKeep ==
    ASSUME NEW rows, NEW old, NEW new, NEW commit \in Nat, NEW cs \in SUBSET Nat, FactsOK(old),
           FactsMove(old, new, commit), \A c \in cs : c < commit, RatingsOK(rows, old, cs)
    PROVE  RatingsOK(rows, new, cs)
<1>1. \A m \in Matches : LateIn(old, m, cs) => LateIn(new, m, cs)
  BY LateStays
<1>2. ASSUME NEW r \in rows PROVE RatingRowOK(r, new, cs)
  <2>1. RatingRowOK(r, old, cs)
    BY DEF RatingsOK
  <2>2. r.maps \subseteq Matches /\ r.cutoff \in Nat
    BY <2>1 DEF RatingRowOK, RatingRow
  <2>3. UsableIn(old, r.cutoff) \subseteq UsableIn(new, r.cutoff)
    BY <2>2, UsableStays
  <2>4. r.maps \subseteq UsableIn(new, r.cutoff) \/ \E m \in r.maps : LateIn(new, m, cs)
    BY <1>1, <2>1, <2>2, <2>3 DEF RatingRowOK
  <2> QED
    BY <2>1, <2>4 DEF RatingRowOK
<1>3. AllRated(rows, new, cs)
  <2> SUFFICES ASSUME NEW c \in cs, NEW p \in Providers, NEW m \in Matches,
                      Rateable(new[p][m], c), new[p][m].since =< c
               PROVE  m \in Rated(rows)
    BY DEF AllRated
  <2>1. c \in Nat /\ c < commit
    OBVIOUS
  <2>2. Rateable(old[p][m], c) /\ old[p][m].since =< c
    BY <2>1, AsBefore
  <2> QED
    BY <2>2 DEF RatingsOK, AllRated
<1>4. ChainIn(rows, new, cs)
  <2> SUFFICES ASSUME NEW x \in Teams, NEW t \in Nat, \A c \in cs : c =< t,
                      \A m \in Rated(OfTeam(rows, x)) : ~LateIn(new, m, cs)
               PROVE  MapsOf(OfTeam(rows, x), t) = Rated(OfTeam(rows, x))
    BY DEF ChainIn
  <2>1. Rated(OfTeam(rows, x)) \subseteq Matches
    BY DEF Rated, OfTeam, RatingsOK, RatingRowOK, RatingRow
  <2>2. \A m \in Rated(OfTeam(rows, x)) : ~LateIn(old, m, cs)
    BY <1>1, <2>1
  <2> QED
    BY <2>2 DEF RatingsOK, ChainIn
<1> QED
  BY <1>2, <1>3, <1>4 DEF RatingsOK

-----------------------------------------------------------------------------
(* build_team_ratings adds, for each team of each map that has not been      *)
(* rated, one row.                                                          *)
RowFor(rows, facts, c, x, m) ==
    [team |-> x, match |-> m, cutoff |-> UsableAt(facts, m, c), maps |-> RatedUpTo(rows, facts, c, x, m)]

LEMMA WhatRatingAdds ==
    ASSUME NEW rows, NEW facts, NEW c
    PROVE  \A r : r \in Ratings(rows, facts, c) <=>
              \/ r \in rows
              \/ \E m \in Unrated(rows, facts, c) : \E x \in Playing[m] : r = RowFor(rows, facts, c, x, m)
BY DEF Ratings, RowFor

LEMMA UnratedMaps ==
    ASSUME NEW rows, NEW facts, FactsOK(facts), NEW c \in Nat, NEW m \in Unrated(rows, facts, c)
    PROVE  /\ m \in Matches /\ m \notin Rated(rows) /\ UsableAt(facts, m, c) \in 1..c
           /\ m \in UsableIn(facts, UsableAt(facts, m, c))
<1>1. m \in Matches /\ m \notin Rated(rows) /\ Eligible(facts, m, c) # {}
  BY DEF Unrated
<1>2. PICK p \in Eligible(facts, m, c) :
          /\ p \in Providers /\ UsableAt(facts, m, c) = facts[p][m].usable
          /\ facts[p][m].usable \in 1..c
  BY <1>1, UsableAtOf
<1>3. facts[p][m].usable \in 1..UsableAt(facts, m, c)
  BY <1>2
<1> QED
  BY <1>1, <1>2, <1>3 DEF UsableIn

(* A map that was not rated although a sync that has finished could read its *)
(* fact, as it counts now, came late.                                       *)
LEMMA UnratedIsLate ==
    ASSUME NEW rows, NEW facts, FactsOK(facts), NEW cs \in SUBSET Nat, RatingsOK(rows, facts, cs),
           NEW c \in Nat, NEW m \in Unrated(rows, facts, c), NEW b \in cs, UsableAt(facts, m, c) =< b
    PROVE  LateIn(facts, m, cs)
<1>1. m \in Matches /\ m \notin Rated(rows) /\ Eligible(facts, m, c) # {}
  BY DEF Unrated
<1>2. PICK p \in Eligible(facts, m, c) :
          p \in Providers /\ UsableAt(facts, m, c) = facts[p][m].usable
  BY <1>1, UsableAtOf
<1>3. facts[p][m].usable =< b /\ Rateable(facts[p][m], b)
  BY <1>2 DEF Eligible, Rateable, Usable
<1>4. ~(facts[p][m].since =< b)
  BY <1>1, <1>2, <1>3 DEF RatingsOK, AllRated
<1>5. facts[p][m].since \in Nat /\ b \in Nat
  BY <1>1, <1>2 DEF FactsOK, FactOK, FactRow
<1>6. facts[p][m].since > b
  BY <1>4, <1>5
<1> QED
  BY <1>2, <1>3, <1>6 DEF LateIn

(* A new row is sound: what it goes on from is not newer than its own map,   *)
(* unless that map came late.                                               *)
LEMMA NewRowIsOK ==
    ASSUME HistoryAssumption, NEW rows, NEW facts, FactsOK(facts), NEW cs \in SUBSET Nat,
           RatingsOK(rows, facts, cs), NEW c \in Nat, \A b \in cs : b < c,
           NEW m \in Unrated(rows, facts, c), NEW x \in Playing[m]
    PROVE  RatingRowOK(RowFor(rows, facts, c, x, m), facts, cs \cup {c})
<1> DEFINE r == RowFor(rows, facts, c, x, m)
           u == UsableAt(facts, m, c)
           before == MapsOf(OfTeam(rows, x), c)
           own == {n \in Unrated(rows, facts, c) : x \in Playing[n] /\ Precedes(facts, c, n, m)}
<1>1. r.team = x /\ r.match = m /\ r.cutoff = u /\ r.maps = before \cup own \cup {m}
  BY DEF RowFor, RatedUpTo
<1>2. m \in Matches /\ u \in 1..c /\ m \in UsableIn(facts, u)
  BY UnratedMaps
<1>3. \A q \in rows : RatingRowOK(q, facts, cs)
  BY DEF RatingsOK
<1>4. ASSUME NEW n \in before
      PROVE  \E q \in rows : q.team = x /\ n \in q.maps
    BY DEF MapsOf, NewestAsOf, OfTeam
<1>5. before \subseteq Matches
  BY <1>3, <1>4 DEF RatingRowOK, RatingRow
<1>6. own \subseteq Matches /\ own \subseteq UsableIn(facts, u)
  <2> SUFFICES ASSUME NEW n \in own PROVE n \in Matches /\ n \in UsableIn(facts, u)
    OBVIOUS
  <2>1. n \in Matches /\ UsableAt(facts, n, c) \in 1..c /\ n \in UsableIn(facts, UsableAt(facts, n, c))
    BY UnratedMaps
  <2>2. UsableAt(facts, n, c) =< u
    BY <1>2, <2>1 DEF Precedes
  <2> QED
    BY <1>2, <2>1, <2>2 DEF UsableIn
<1>7. x \in Teams
  BY <1>2 DEF Teams
<1>8. r \in RatingRow
  BY <1>2, <1>5, <1>6, <1>7 DEF RatingRow, RowFor, RatedUpTo
<1>9. r.cutoff =< c
  BY <1>1, <1>2
<1>10. r.maps \subseteq UsableIn(facts, r.cutoff) \/ \E n \in r.maps : LateIn(facts, n, cs \cup {c})
  <2>1. SUFFICES ASSUME NEW n \in before, n \notin UsableIn(facts, u)
                 PROVE  \E k \in r.maps : LateIn(facts, k, cs)
    <3>1. \A k \in Matches : LateIn(facts, k, cs) => LateIn(facts, k, cs \cup {c})
      BY DEF LateIn
    <3>2. r.maps \subseteq Matches
      BY <1>8 DEF RatingRow
    <3> QED
      BY <1>1, <1>2, <1>6, <2>1, <3>1, <3>2
  <2>2. PICK q \in NewestAsOf(OfTeam(rows, x), c) : n \in q.maps
    BY <2>1 DEF MapsOf
  <2>3. q \in rows /\ q.maps \subseteq before
    BY <2>2 DEF NewestAsOf, OfTeam, MapsOf
  <2>4. RatingRowOK(q, facts, cs) /\ q.cutoff \in Nat
    BY <1>3, <2>3 DEF RatingRowOK, RatingRow
  <2>5. CASE \E k \in q.maps : LateIn(facts, k, cs)
    BY <1>1, <2>3, <2>5
  <2>6. CASE q.maps \subseteq UsableIn(facts, q.cutoff)
    <3>1. n \in UsableIn(facts, q.cutoff) /\ u \in Nat
      BY <1>2, <2>2, <2>6
    <3>2. ~(q.cutoff =< u)
      BY <2>1, <2>4, <3>1 DEF UsableIn
    <3>3. PICK b \in cs : q.cutoff =< b
      BY <2>4 DEF RatingRowOK
    <3>4. u =< b
      BY <2>4, <3>1, <3>2, <3>3
    <3>5. LateIn(facts, m, cs)
      BY <3>4, UnratedIsLate
    <3> QED
      BY <1>1, <3>5
  <2> QED
    BY <2>4, <2>5, <2>6 DEF RatingRowOK
<1>11. r.team \in Playing[r.match]
  BY <1>1
<1> QED
  BY <1>8, <1>9, <1>10, <1>11 DEF RatingRowOK

(* The teams of a map are two.                                              *)
LEMMA SomeonePlays ==
    ASSUME HistoryAssumption, NEW m \in Matches PROVE Playing[m] # {}
<1>1. Cardinality(Playing[m]) = 2
  BY DEF HistoryAssumption
<1>2. Cardinality({}) = 0
  BY FS_EmptySet
<1> QED
  BY <1>1, <1>2

(* Of the maps a job rates for a team, the last one it rates.               *)
LEMMA LastRated ==
    ASSUME HistoryAssumption, NEW rows, NEW facts, FactsOK(facts), NEW c \in Nat,
           NEW U \in SUBSET Unrated(rows, facts, c), U # {}
    PROVE  \E m \in U : \A n \in U : /\ UsableAt(facts, n, c) =< UsableAt(facts, m, c)
                                     /\ n = m \/ Precedes(facts, c, n, m)
<1> DEFINE At(m) == UsableAt(facts, m, c)
           S == {At(m) : m \in U}
           u == Max(S)
           T == {m \in U : At(m) = u}
           m == Max(T)
<1>1. \A n \in U : n \in Matches /\ n \in Int /\ At(n) \in 1..c
  <2>1. \A n \in Unrated(rows, facts, c) : n \in Matches /\ UsableAt(facts, n, c) \in 1..c
    BY UnratedMaps
  <2>2. Matches \subseteq Int
    BY DEF HistoryAssumption
  <2>3. U \subseteq Unrated(rows, facts, c)
    OBVIOUS
  <2> QED
    BY <2>1, <2>2, <2>3
<1>2. IsFiniteSet(U)
  BY <1>1, FS_Subset DEF HistoryAssumption
<1> HIDE DEF At
<1>3. IsFiniteSet(S)
  <2>1. S \subseteq 1..c
    BY <1>1
  <2>2. IsFiniteSet(1..c)
    BY FS_Interval
  <2> QED
    BY <2>1, <2>2, FS_Subset
<1>4. u \in S /\ \A y \in S : y =< u
  <2> HIDE DEF S
  <2>1. S \in SUBSET Int /\ S # {}
    BY <1>1 DEF S
  <2> QED
    BY <1>3, <2>1, LargestOfFinite
<1>5. T \in SUBSET Int /\ T # {} /\ IsFiniteSet(T)
  <2>1. T \subseteq U
    OBVIOUS
  <2>2. IsFiniteSet(T)
    BY <1>2, <2>1, FS_Subset
  <2>3. T # {}
    BY <1>4
  <2> QED
    BY <1>1, <2>1, <2>2, <2>3
<1> HIDE DEF u
<1>6. m \in T /\ \A y \in T : y =< m
  <2> HIDE DEF T
  <2> QED
    BY <1>5, LargestOfFinite
<1> HIDE DEF m
<1>7. m \in U /\ At(m) = u
  BY <1>6
<1>8. ASSUME NEW n \in U PROVE At(n) =< At(m) /\ (n = m \/ Precedes(facts, c, n, m))
  <2>1. At(n) =< At(m)
    BY <1>4, <1>7
  <2>2. CASE At(n) < At(m)
    BY <2>1, <2>2 DEF Precedes, At
  <2>3. CASE At(n) = At(m)
    <3>1. n =< m
      BY <1>6, <1>7, <2>3
    <3>2. n = m \/ n < m
      BY <1>1, <1>7, <3>1
    <3> QED
      BY <2>1, <2>3, <3>2 DEF Precedes, At
  <2> QED
    BY <1>1, <1>7, <2>1, <2>2, <2>3
<1> QED
  BY <1>7, <1>8 DEF At

(* After a job the newest row of a team rests on all its maps again.        *)
LEMMA ChainGrows ==
    ASSUME HistoryAssumption, NEW rows, NEW facts, FactsOK(facts), NEW cs \in SUBSET Nat,
           RatingsOK(rows, facts, cs), NEW c \in Nat, \A b \in cs : b < c
    PROVE  ChainIn(Ratings(rows, facts, c), facts, cs \cup {c})
<1> SUFFICES ASSUME NEW x \in Teams, NEW t \in Nat, \A b \in cs \cup {c} : b =< t,
                    \A m \in Rated(OfTeam(Ratings(rows, facts, c), x)) : ~LateIn(facts, m, cs \cup {c})
             PROVE  MapsOf(OfTeam(Ratings(rows, facts, c), x), t)
                        = Rated(OfTeam(Ratings(rows, facts, c), x))
  BY DEF ChainIn
<1> DEFINE more == OfTeam(Ratings(rows, facts, c), x)
           old == OfTeam(rows, x)
           U == {m \in Unrated(rows, facts, c) : x \in Playing[m]}
           NewRow(m) == RowFor(rows, facts, c, x, m)
<1>1. \A r : r \in more <=> r \in old \/ \E m \in U : r = NewRow(m)
  <2> SUFFICES ASSUME NEW r PROVE r \in more <=> r \in old \/ \E m \in U : r = NewRow(m)
    OBVIOUS
  <2>1. r \in Ratings(rows, facts, c) <=>
              \/ r \in rows
              \/ \E m \in Unrated(rows, facts, c) : \E y \in Playing[m] : r = RowFor(rows, facts, c, y, m)
    BY WhatRatingAdds
  <2>2. \A m, y : RowFor(rows, facts, c, y, m).team = y
    BY DEF RowFor
  <2> QED
    BY <2>1, <2>2 DEF OfTeam
<1>2. \A m \in U : /\ NewRow(m).match = m /\ NewRow(m).cutoff = UsableAt(facts, m, c)
                   /\ NewRow(m).maps = MapsOf(old, c)
                                      \cup {n \in U : Precedes(facts, c, n, m)} \cup {m}
  BY DEF RowFor, RatedUpTo
<1>3. Rated(more) = Rated(old) \cup U
  <2>1. \A r \in old : r \in more
    BY <1>1
  <2>2. \A m \in U : NewRow(m) \in more
    BY <1>1
  <2> HIDE DEF more, old, U, NewRow
  <2> QED
    BY <1>1, <1>2, <2>1, <2>2 DEF Rated
<1>4. \A m \in Rated(more) : ~LateIn(facts, m, cs)
  BY DEF LateIn
<1>5. c =< t /\ \A b \in cs : b =< c /\ b =< t
  OBVIOUS
<1>6. MapsOf(old, c) = Rated(old) /\ MapsOf(old, t) = Rated(old)
  BY <1>3, <1>4, <1>5 DEF RatingsOK, ChainIn
<1>7. \A m \in U : UsableAt(facts, m, c) \in Nat /\ UsableAt(facts, m, c) =< c
  <2>1. \A m \in Unrated(rows, facts, c) : UsableAt(facts, m, c) \in 1..c
    BY UnratedMaps
  <2> QED
    BY <2>1
<1>8. \A r \in old : r.cutoff \in Nat /\ \E b \in cs : r.cutoff =< b
  BY DEF RatingsOK, RatingRowOK, RatingRow, OfTeam
<1>9. ASSUME NEW m \in U, NEW r \in old PROVE r.cutoff < UsableAt(facts, m, c)
  <2>1. PICK b \in cs : r.cutoff =< b
    BY <1>8
  <2>2. ~(UsableAt(facts, m, c) =< b)
    BY <1>3, <1>4, UnratedIsLate
  <2> QED
    BY <1>7, <1>8, <2>1, <2>2
<1> HIDE DEF more, old, NewRow
<1>10. CASE U = {}
  <2>1. more = old
    BY <1>1, <1>10
  <2> QED
    BY <1>6, <2>1 DEF more
<1>11. CASE U # {}
  <2>1. PICK m \in U : \A n \in U : /\ UsableAt(facts, n, c) =< UsableAt(facts, m, c)
                                    /\ n = m \/ Precedes(facts, c, n, m)
    BY <1>11, LastRated
  <2> HIDE DEF U
  <2>2. NewRow(m) \in more /\ NewRow(m).cutoff = UsableAt(facts, m, c)
    BY <1>1, <1>2
  <2>3. NewRow(m).maps = Rated(old) \cup U
    BY <1>2, <1>6, <2>1
  <2>4. \A r \in more : r.cutoff \in Nat /\ r.cutoff =< NewRow(m).cutoff
    BY <1>1, <1>2, <1>7, <1>8, <1>9, <2>1, <2>2
  <2>5. NewRow(m) \in NewestAsOf(more, t)
    BY <1>5, <1>7, <2>2, <2>4 DEF NewestAsOf
  <2>6. ASSUME NEW r \in NewestAsOf(more, t) PROVE r.maps \subseteq Rated(old) \cup U
    <3>1. r \in more /\ NewRow(m).cutoff =< r.cutoff
      BY <2>5, <2>6 DEF NewestAsOf
    <3>2. r \notin old
      BY <1>7, <1>8, <1>9, <2>2, <3>1
    <3>3. PICK n \in U : r = NewRow(n)
      BY <1>1, <3>1, <3>2
    <3> QED
      BY <1>2, <1>6, <3>3
  <2>7. MapsOf(more, t) = Rated(old) \cup U
    BY <2>3, <2>5, <2>6 DEF MapsOf
  <2> QED
    BY <1>3, <2>7 DEF more
<1> QED
  BY <1>10, <1>11

(* A job leaves the table of ratings sound.                                 *)
LEMMA RatingsGrow ==
    ASSUME HistoryAssumption, NEW rows, NEW facts, FactsOK(facts), NEW cs \in SUBSET Nat,
           RatingsOK(rows, facts, cs), NEW c \in Nat, \A b \in cs : b < c
    PROVE  RatingsOK(Ratings(rows, facts, c), facts, cs \cup {c})
<1> DEFINE more == Ratings(rows, facts, c)
           U == Unrated(rows, facts, c)
           NewRow(x, m) == RowFor(rows, facts, c, x, m)
<1>1. \A r : r \in more <=> r \in rows \/ \E m \in U : \E x \in Playing[m] : r = NewRow(x, m)
  BY WhatRatingAdds
<1>2. \A x, m : NewRow(x, m).team = x /\ NewRow(x, m).match = m
  BY DEF RowFor
<1>3. \A m \in U : m \in Matches /\ m \notin Rated(rows)
  BY DEF Unrated
<1>4. \A m \in U : \A x \in Playing[m] : RatingRowOK(NewRow(x, m), facts, cs \cup {c})
  BY NewRowIsOK
<1>5. \A r \in rows : RatingRowOK(r, facts, cs)
  BY DEF RatingsOK
<1>6. ChainIn(more, facts, cs \cup {c})
  BY ChainGrows
<1>7. \A m \in Matches : Eligible(facts, m, c) # {} => m \in Rated(rows) \/ m \in U
  BY DEF Unrated
<1>8. OncePerMap(rows) /\ BothRated(rows) /\ AllRated(rows, facts, cs)
  BY DEF RatingsOK
<1> HIDE DEF more, U, NewRow
<1>9. ASSUME NEW r \in rows PROVE RatingRowOK(r, facts, cs \cup {c})
  <2>1. \A m : LateIn(facts, m, cs) => LateIn(facts, m, cs \cup {c})
    BY DEF LateIn
  <2> QED
    BY <1>5, <2>1 DEF RatingRowOK
<1>10. \A r \in more : RatingRowOK(r, facts, cs \cup {c})
  BY <1>1, <1>4, <1>9
<1>11. \A r \in rows : r.match \in Rated(rows)
  BY DEF Rated
<1>12. OncePerMap(more)
  <2> SUFFICES ASSUME NEW r \in more, NEW q \in more, r.match = q.match, r.team = q.team PROVE r = q
    BY DEF OncePerMap
  <2>1. CASE r \in rows /\ q \in rows
    BY <1>8, <2>1 DEF OncePerMap
  <2>2. CASE r \notin rows
    <3>1. PICK m \in U : \E x \in Playing[m] : r = NewRow(x, m)
      BY <1>1, <2>2
    <3>2. q \notin rows
      BY <1>2, <1>3, <1>11, <3>1
    <3>3. PICK n \in U : \E y \in Playing[n] : q = NewRow(y, n)
      BY <1>1, <3>2
    <3> QED
      BY <1>2, <3>1, <3>3
  <2>3. CASE q \notin rows
    <3>1. PICK m \in U : \E x \in Playing[m] : q = NewRow(x, m)
      BY <1>1, <2>3
    <3>2. r \notin rows
      BY <1>2, <1>3, <1>11, <3>1
    <3>3. PICK n \in U : \E y \in Playing[n] : r = NewRow(y, n)
      BY <1>1, <3>2
    <3> QED
      BY <1>2, <3>1, <3>3
  <2> QED
    BY <2>1, <2>2, <2>3
<1>13. \A m \in U : m \in Rated(more)
  <2> SUFFICES ASSUME NEW m \in U PROVE m \in Rated(more)
    OBVIOUS
  <2>1. PICK x \in Playing[m] : TRUE
    BY <1>3, SomeonePlays
  <2>2. NewRow(x, m) \in more /\ NewRow(x, m).match = m
    BY <1>1, <1>2
  <2> QED
    BY <2>2 DEF Rated
<1>14. Rated(rows) \subseteq Rated(more)
  BY <1>1 DEF Rated
<1>15. BothRated(more)
  <2> SUFFICES ASSUME NEW m \in Rated(more)
               PROVE  {r.team : r \in {q \in more : q.match = m}} = Playing[m]
    BY DEF BothRated
  <2>1. CASE m \in U
    <3>1. \A q \in more : q.match = m => \E x \in Playing[m] : q = NewRow(x, m)
      BY <1>1, <1>2, <1>3, <1>11, <2>1
    <3>2. \A x \in Playing[m] : NewRow(x, m) \in more
      BY <1>1, <2>1
    <3> QED
      BY <1>2, <3>1, <3>2
  <2>2. CASE m \notin U
    <3>1. \A q \in more : q.match = m => q \in rows
      BY <1>1, <1>2, <2>2
    <3>2. m \in Rated(rows)
      BY <3>1, <1>11 DEF Rated
    <3>3. {q \in more : q.match = m} = {q \in rows : q.match = m}
      BY <1>1, <3>1
    <3> QED
      BY <1>8, <3>2, <3>3 DEF BothRated
  <2> QED
    BY <2>1, <2>2
<1>16. AllRated(more, facts, cs \cup {c})
  <2> SUFFICES ASSUME NEW b \in cs \cup {c}, NEW p \in Providers, NEW m \in Matches,
                      Rateable(facts[p][m], b), facts[p][m].since =< b
               PROVE  m \in Rated(more)
    BY DEF AllRated
  <2>1. CASE b \in cs
    BY <1>8, <1>14, <2>1 DEF AllRated
  <2>2. CASE b = c
    <3>1. p \in Eligible(facts, m, c)
      BY <2>2 DEF Eligible
    <3> QED
      BY <1>7, <1>13, <1>14, <3>1
  <2> QED
    BY <2>1, <2>2
<1>17. RatingsOK(more, facts, cs \cup {c})
  BY <1>6, <1>10, <1>12, <1>15, <1>16 DEF RatingsOK
<1> QED
  BY <1>17 DEF more

-----------------------------------------------------------------------------
(* The table of forms: a form is not newer than what it rests on; and every  *)
(* team a sync was for has the form it would get if it were built as of that *)
(* cutoff again, unless one of its facts came late or has a conflict.       *)
FormKnown(rows, facts, x, c) ==
    FormMaps(facts, x, c) # {} => \E r \in OfTeam(rows, x) : r.cutoff = LastOf(facts, x, c)

CutoffsIn(syncs) == {b.cutoff : b \in syncs}

FormsOK(rows, facts, syncs) ==
    /\ \A r \in rows : r.cutoff \in Nat /\ r.maps \subseteq UsableIn(facts, r.cutoff)
    /\ \A b \in syncs : \A x \in b.on :
          DisturbedIn(facts, x, CutoffsIn(syncs)) \/ FormKnown(rows, facts, x, b.cutoff)

SyncsBefore(syncs, c) == \A b \in syncs : b.cutoff \in Nat /\ b.cutoff < c

(* Of a map that came late for no sync and has no conflict, a move of the    *)
(* facts changes nothing that a sync with a past cutoff would read.         *)
LEMMA SameForSync ==
    ASSUME NEW old, NEW new, NEW commit \in Nat, NEW cs \in SUBSET Nat, \A b \in cs : b < commit,
           FactsOK(old), FactsMove(old, new, commit), NEW c \in cs, NEW p \in Providers, NEW m \in Matches,
           ~LateIn(new, m, cs), new[p][m].status # "DATA_CONFLICT"
    PROVE  /\ Rateable(old[p][m], c) <=> Rateable(new[p][m], c)
           /\ Rateable(new[p][m], c) => old[p][m].usable = new[p][m].usable
<1>1. FactOK(old[p][m]) /\ FactOK(new[p][m]) /\ MovesTo(old[p][m], new[p][m], commit)
  BY DEF FactsOK, FactsMove
<1>2. c \in Nat /\ c < commit
  OBVIOUS
<1>3. ASSUME Rateable(new[p][m], c)
      PROVE  Rateable(old[p][m], c) /\ old[p][m].usable = new[p][m].usable
  <2>1. new[p][m].usable =< c
    BY <1>3 DEF Rateable, Usable
  <2>2. ~(new[p][m].since > c)
    BY <2>1 DEF LateIn
  <2>3. new[p][m].since =< c
    BY <1>1, <1>2, <2>2 DEF FactOK, FactRow
  <2> QED
    BY <1>2, <1>3, <2>3, AsBefore
<1>4. ASSUME Rateable(old[p][m], c) PROVE Rateable(new[p][m], c)
  <2> DEFINE f == old[p][m]  g == new[p][m]
  <2>1. FactOK(f) /\ FactOK(g) /\ MovesTo(f, g, commit) /\ Rateable(f, c) /\ g.status # "DATA_CONFLICT"
    BY <1>1, <1>4
  <2> HIDE DEF f, g
  <2>2. f.usable \in Nat /\ f.usable # 0 /\ f.usable =< c /\ f.winner # "?" /\ g.usable \in Nat
    BY <2>1 DEF FactOK, FactRow, Rateable, Usable
  <2>3. g.usable \in 1..f.usable /\ g.winner # "?"
    BY <2>1, <2>2 DEF MovesTo
  <2>4. g.status # "NONE" /\ g.usable =< c
    BY <1>2, <2>1, <2>2, <2>3 DEF FactOK
  <2>5. Rateable(g, c)
    BY <2>1, <2>3, <2>4 DEF Rateable, Usable
  <2> QED
    BY <2>5 DEF g
<1> QED
  BY <1>3, <1>4

LEMMA SameFormForSync ==
    ASSUME NEW old, NEW new, NEW commit \in Nat, NEW cs \in SUBSET Nat, \A b \in cs : b < commit,
           FactsOK(old), FactsMove(old, new, commit), NEW c \in cs, NEW x, ~DisturbedIn(new, x, cs)
    PROVE  /\ FormMaps(new, x, c) = FormMaps(old, x, c)
           /\ LastOf(new, x, c) = LastOf(old, x, c)
<1>1. ASSUME NEW p \in Providers, NEW m \in Matches, x \in Playing[m]
      PROVE  /\ Rateable(old[p][m], c) <=> Rateable(new[p][m], c)
             /\ Rateable(new[p][m], c) => old[p][m].usable = new[p][m].usable
  <2>1. ~LateIn(new, m, cs) /\ new[p][m].status # "DATA_CONFLICT"
    BY <1>1 DEF DisturbedIn, MapsWith
  <2> QED
    BY <2>1, SameForSync
<1>2. \A m \in Matches : x \in Playing[m] => Eligible(new, m, c) = Eligible(old, m, c)
  BY <1>1 DEF Eligible
<1>3. FormMaps(new, x, c) = FormMaps(old, x, c)
  BY <1>2 DEF FormMaps
<1>4. ASSUME NEW m \in FormMaps(new, x, c) PROVE UsableAt(new, m, c) = UsableAt(old, m, c)
  <2>1. m \in Matches /\ x \in Playing[m] /\ Eligible(new, m, c) # {} /\ Eligible(new, m, c) = Eligible(old, m, c)
    BY <1>2 DEF FormMaps
  <2> DEFINE p == IF Primary \in Eligible(new, m, c) THEN Primary ELSE Fallback
  <2>2. p \in Eligible(new, m, c) /\ p \in Providers
    BY <2>1 DEF Eligible, Providers
  <2>3. UsableAt(new, m, c) = new[p][m].usable /\ UsableAt(old, m, c) = old[p][m].usable
    BY <2>1 DEF UsableAt, Preferred
  <2> HIDE DEF p
  <2>4. Rateable(new[p][m], c)
    BY <2>2 DEF Eligible
  <2> QED
    BY <1>1, <2>1, <2>2, <2>3, <2>4
<1>5. {UsableAt(new, m, c) : m \in FormMaps(new, x, c)} = {UsableAt(old, m, c) : m \in FormMaps(old, x, c)}
  BY <1>3, <1>4
<1> QED
  BY <1>3, <1>5 DEF LastOf

LEMMA DisturbedStays ==
    ASSUME NEW old, NEW new, NEW commit \in Nat, NEW cs \in SUBSET Nat, \A b \in cs : b < commit,
           FactsOK(old), FactsMove(old, new, commit), NEW x, DisturbedIn(old, x, cs)
    PROVE  DisturbedIn(new, x, cs)
<1>1. PICK m \in MapsWith(x) : \/ LateIn(old, m, cs)
                               \/ \E p \in Providers : old[p][m].status = "DATA_CONFLICT"
  BY DEF DisturbedIn
<1>2. m \in Matches
  BY DEF MapsWith
<1>3. CASE LateIn(old, m, cs)
  BY <1>2, <1>3, LateStays DEF DisturbedIn
<1>4. CASE \E p \in Providers : old[p][m].status = "DATA_CONFLICT"
  BY <1>2, <1>4 DEF DisturbedIn, FactsMove, MovesTo
<1> QED
  BY <1>1, <1>3, <1>4

LEMMA FormsKeep ==
    ASSUME NEW rows, NEW old, NEW new, NEW commit \in Nat, NEW syncs, SyncsBefore(syncs, commit),
           FactsOK(old), FactsMove(old, new, commit), FormsOK(rows, old, syncs)
    PROVE  FormsOK(rows, new, syncs)
<1> DEFINE cs == CutoffsIn(syncs)
<1>1. cs \in SUBSET Nat /\ \A b \in cs : b < commit
  BY DEF SyncsBefore, CutoffsIn
<1> HIDE DEF cs
<1>2. ASSUME NEW r \in rows PROVE r.cutoff \in Nat /\ r.maps \subseteq UsableIn(new, r.cutoff)
  <2>1. r.cutoff \in Nat /\ r.maps \subseteq UsableIn(old, r.cutoff)
    BY DEF FormsOK
  <2> QED
    BY <2>1, UsableStays
<1>3. ASSUME NEW b \in syncs, NEW x \in b.on, ~DisturbedIn(new, x, cs)
      PROVE  FormKnown(rows, new, x, b.cutoff)
  <2>1. b.cutoff \in cs
    BY DEF CutoffsIn, cs
  <2>2. ~DisturbedIn(old, x, cs)
    BY <1>1, <1>3, DisturbedStays
  <2>3. FormKnown(rows, old, x, b.cutoff)
    BY <2>2 DEF FormsOK, cs
  <2> DEFINE c == b.cutoff
  <2>4. c \in cs
    BY <2>1
  <2> HIDE DEF c
  <2>5. FormMaps(new, x, c) = FormMaps(old, x, c) /\ LastOf(new, x, c) = LastOf(old, x, c)
    BY <1>1, <1>3, <2>4, SameFormForSync
  <2>6. FormMaps(new, x, b.cutoff) = FormMaps(old, x, b.cutoff) /\ LastOf(new, x, b.cutoff) = LastOf(old, x, b.cutoff)
    BY <2>5 DEF c
  <2> QED
    BY <2>3, <2>6 DEF FormKnown
<1> QED
  BY <1>2, <1>3 DEF FormsOK, cs

(* The last of a form's maps.                                               *)
LEMMA LastOfForm ==
    ASSUME NEW facts, FactsOK(facts), NEW c \in Nat, NEW x, FormMaps(facts, x, c) # {}
    PROVE  /\ LastOf(facts, x, c) \in 1..c
           /\ \A m \in FormMaps(facts, x, c) : UsableAt(facts, m, c) =< LastOf(facts, x, c)
           /\ FormMaps(facts, x, c) \subseteq UsableIn(facts, LastOf(facts, x, c))
<1> DEFINE S == {UsableAt(facts, m, c) : m \in FormMaps(facts, x, c)}
<1>1. ASSUME NEW m \in FormMaps(facts, x, c)
      PROVE  /\ UsableAt(facts, m, c) \in 1..c /\ m \in Matches
             /\ \E p \in Providers : facts[p][m].usable \in 1..UsableAt(facts, m, c)
  <2>1. m \in Matches /\ Eligible(facts, m, c) # {}
    BY DEF FormMaps
  <2>2. PICK p \in Eligible(facts, m, c) :
            /\ p \in Providers /\ UsableAt(facts, m, c) = facts[p][m].usable
            /\ facts[p][m].usable \in 1..c
    BY <2>1, UsableAtOf
  <2> QED
    BY <2>1, <2>2
<1>2. S \subseteq 1..c /\ S # {}
  BY <1>1
<1>3. \A m \in FormMaps(facts, x, c) : UsableAt(facts, m, c) \in S
  OBVIOUS
<1> HIDE DEF S
<1>4. IsFiniteSet(S)
  <2>1. IsFiniteSet(1..c)
    BY FS_Interval
  <2> QED
    BY <1>2, <2>1, FS_Subset
<1>5. Max(S) \in S /\ \A y \in S : y =< Max(S)
  <2>1. S \in SUBSET Int
    BY <1>2
  <2> QED
    BY <1>2, <1>4, <2>1, LargestOfFinite
<1>6. LastOf(facts, x, c) = Max(S)
  BY DEF LastOf, S
<1>7. LastOf(facts, x, c) \in 1..c
  BY <1>2, <1>5, <1>6
<1>8. \A m \in FormMaps(facts, x, c) : UsableAt(facts, m, c) =< LastOf(facts, x, c)
  BY <1>3, <1>5, <1>6
<1>9. ASSUME NEW m \in FormMaps(facts, x, c) PROVE m \in UsableIn(facts, LastOf(facts, x, c))
  <2>1. PICK p \in Providers : facts[p][m].usable \in 1..UsableAt(facts, m, c)
    BY <1>1
  <2>2. facts[p][m].usable \in 1..LastOf(facts, x, c)
    BY <1>1, <1>7, <1>8, <2>1
  <2> QED
    BY <1>1, <2>2 DEF UsableIn
<1> QED
  BY <1>7, <1>8, <1>9

(* A form that is as old as the cutoff of an earlier sync, or older, is what *)
(* that sync would have built.                                              *)
LEMMA OldFormIsSame ==
    ASSUME NEW facts, FactsOK(facts), NEW c \in Nat, NEW b \in Nat, b < c, NEW x,
           FormMaps(facts, x, c) # {}, LastOf(facts, x, c) =< b
    PROVE  FormMaps(facts, x, b) = FormMaps(facts, x, c) /\ LastOf(facts, x, b) = LastOf(facts, x, c)
<1>1. ASSUME NEW m \in Matches, NEW p \in Providers, Rateable(facts[p][m], b)
      PROVE  Rateable(facts[p][m], c)
  BY <1>1 DEF Rateable, Usable, FactsOK, FactOK, FactRow
<1>2. \A m \in Matches : Eligible(facts, m, b) \subseteq Eligible(facts, m, c)
  BY <1>1 DEF Eligible
<1>3. ASSUME NEW m \in FormMaps(facts, x, c)
      PROVE  m \in FormMaps(facts, x, b) /\ UsableAt(facts, m, b) = UsableAt(facts, m, c)
  <2> DEFINE p == IF Primary \in Eligible(facts, m, c) THEN Primary ELSE Fallback
  <2>1. m \in Matches /\ x \in Playing[m] /\ Eligible(facts, m, c) # {}
    BY DEF FormMaps
  <2>2. p \in Eligible(facts, m, c) /\ p \in Providers
    BY <2>1 DEF Eligible, Providers
  <2>3. UsableAt(facts, m, c) = facts[p][m].usable
    BY DEF UsableAt, Preferred
  <2>4. facts[p][m].usable =< b
    <3>1. UsableAt(facts, m, c) =< LastOf(facts, x, c) /\ LastOf(facts, x, c) \in 1..c
      BY LastOfForm
    <3>2. facts[p][m].usable \in Nat
      BY <2>1, <2>2 DEF FactsOK, FactOK, FactRow
    <3> HIDE DEF p
    <3> QED
      BY <2>3, <3>1, <3>2
  <2>5. p \in Eligible(facts, m, b)
    <3> HIDE DEF p
    <3> QED
      BY <2>2, <2>4 DEF Eligible, Rateable, Usable
  <2>6. Primary \in Eligible(facts, m, b) <=> Primary \in Eligible(facts, m, c)
    BY <1>2, <2>1, <2>5
  <2>7. UsableAt(facts, m, b) = UsableAt(facts, m, c)
    BY <2>6 DEF UsableAt, Preferred
  <2> QED
    BY <2>1, <2>5, <2>7 DEF FormMaps
<1>4. FormMaps(facts, x, b) = FormMaps(facts, x, c)
  BY <1>2, <1>3 DEF FormMaps
<1>5. {UsableAt(facts, m, b) : m \in FormMaps(facts, x, b)} = {UsableAt(facts, m, c) : m \in FormMaps(facts, x, c)}
  BY <1>3, <1>4
<1> QED
  BY <1>4, <1>5 DEF LastOf

(* A sync leaves the table of forms sound.                                  *)
FormFor(facts, x, c) == [team |-> x, cutoff |-> LastOf(facts, x, c), maps |-> FormMaps(facts, x, c)]

LEMMA WhatFormAdds ==
    ASSUME NEW rows, NEW facts, NEW teams, NEW c
    PROVE  \A r : r \in Forms(rows, facts, teams, c) <=>
              \/ r \in rows
              \/ \E x \in teams : /\ FormMaps(facts, x, c) # {} /\ r = FormFor(facts, x, c)
                                  /\ \A q \in OfTeam(rows, x) : q.cutoff # LastOf(facts, x, c)
BY DEF Forms, FormFor

LEMMA FormsGrow ==
    ASSUME NEW rows, NEW facts, FactsOK(facts), NEW syncs, NEW s, s.cutoff \in Nat,
           SyncsBefore(syncs, s.cutoff), FormsOK(rows, facts, syncs)
    PROVE  FormsOK(Forms(rows, facts, s.on, s.cutoff), facts, syncs \cup {s})
<1> DEFINE c == s.cutoff
           more == Forms(rows, facts, s.on, c)
           cs == CutoffsIn(syncs \cup {s})
<1>1. \A r : r \in more <=>
              \/ r \in rows
              \/ \E x \in s.on : /\ FormMaps(facts, x, c) # {} /\ r = FormFor(facts, x, c)
                                 /\ \A q \in OfTeam(rows, x) : q.cutoff # LastOf(facts, x, c)
  BY WhatFormAdds
<1> HIDE DEF more
<1>2. ASSUME NEW r \in more PROVE r.cutoff \in Nat /\ r.maps \subseteq UsableIn(facts, r.cutoff)
  <2>1. CASE r \in rows
    BY <2>1 DEF FormsOK
  <2>2. CASE r \notin rows
    <3>1. PICK x \in s.on : FormMaps(facts, x, c) # {} /\ r = FormFor(facts, x, c)
      BY <1>1, <2>2
    <3>2. LastOf(facts, x, c) \in 1..c /\ FormMaps(facts, x, c) \subseteq UsableIn(facts, LastOf(facts, x, c))
      BY <3>1, LastOfForm
    <3> QED
      BY <3>1, <3>2 DEF FormFor
  <2> QED
    BY <2>1, <2>2
<1>3. ASSUME NEW b \in syncs, NEW x \in b.on
      PROVE  DisturbedIn(facts, x, cs) \/ FormKnown(more, facts, x, b.cutoff)
  <2>1. CutoffsIn(syncs) \subseteq cs
    BY DEF CutoffsIn
  <2>2. DisturbedIn(facts, x, CutoffsIn(syncs)) => DisturbedIn(facts, x, cs)
    BY <2>1 DEF DisturbedIn, LateIn
  <2>3. FormKnown(rows, facts, x, b.cutoff) => FormKnown(more, facts, x, b.cutoff)
    BY <1>1 DEF FormKnown, OfTeam
  <2> QED
    BY <2>2, <2>3 DEF FormsOK
<1>4. ASSUME NEW x \in s.on, FormMaps(facts, x, c) # {}
      PROVE  \E r \in OfTeam(more, x) : r.cutoff = LastOf(facts, x, c)
  <2>1. CASE \E q \in OfTeam(rows, x) : q.cutoff = LastOf(facts, x, c)
    BY <1>1, <2>1 DEF OfTeam
  <2>2. CASE \A q \in OfTeam(rows, x) : q.cutoff # LastOf(facts, x, c)
    <3>1. FormFor(facts, x, c) \in more
      BY <1>1, <1>4, <2>2
    <3>2. FormFor(facts, x, c).team = x /\ FormFor(facts, x, c).cutoff = LastOf(facts, x, c)
      BY DEF FormFor
    <3> QED
      BY <3>1, <3>2 DEF OfTeam
  <2> QED
    BY <2>1, <2>2
<1>5. \A x \in s.on : FormKnown(more, facts, x, c)
  BY <1>4 DEF FormKnown
<1>6. FormsOK(more, facts, syncs \cup {s})
  BY <1>2, <1>3, <1>5 DEF FormsOK
<1> QED
  BY <1>6 DEF more

-----------------------------------------------------------------------------
(* The players' figures are as old as a cutoff, and of it.                  *)
PlayersOK(rows, facts, cs) ==
    \A r \in rows : /\ r.cutoff \in cs /\ r.maps \subseteq UsableIn(facts, r.cutoff)
                    /\ r.scored \subseteq AdvancedIn(facts, r.cutoff)

LEMMA PlayersKeep ==
    ASSUME NEW rows, NEW old, NEW new, NEW commit, NEW cs \in SUBSET Nat, FactsOK(old),
           FactsMove(old, new, commit), PlayersOK(rows, old, cs)
    PROVE  PlayersOK(rows, new, cs)
<1> SUFFICES ASSUME NEW r \in rows
             PROVE  /\ r.maps \subseteq UsableIn(new, r.cutoff)
                    /\ r.scored \subseteq AdvancedIn(new, r.cutoff)
  BY DEF PlayersOK
<1>1. /\ r.cutoff \in Nat /\ r.maps \subseteq UsableIn(old, r.cutoff)
      /\ r.scored \subseteq AdvancedIn(old, r.cutoff)
  BY DEF PlayersOK
<1> QED
  BY <1>1, UsableStays

LEMMA PlayersGrow ==
    ASSUME NEW rows, NEW facts, FactsOK(facts), NEW cs \in SUBSET Nat, NEW c \in Nat,
           PlayersOK(rows, facts, cs)
    PROVE  PlayersOK(rows, facts, cs \cup {c}) /\ PlayersOK(Players(rows, facts, c), facts, cs \cup {c})
<1>1. \A r \in Players(rows, facts, c) : r \in rows \/ r = [cutoff |-> c, maps |-> HeroUses(facts, c),
                                                            scored |-> Scored(facts, c)]
  BY DEF Players
<1>2. HeroUses(facts, c) \subseteq UsableIn(facts, c)
  <2> SUFFICES ASSUME NEW m \in Matches, NEW p \in Providers, Usable(facts[p][m], c)
               PROVE  facts[p][m].usable \in 1..c
    BY DEF HeroUses, UsableIn
  <2> QED
    BY DEF Usable, FactsOK, FactOK, FactRow
<1>3. Scored(facts, c) \subseteq AdvancedIn(facts, c)
  BY DEF Scored, AdvancedIn, Advanced
<1>4. PlayersOK(rows, facts, cs \cup {c})
  BY DEF PlayersOK
<1>5. PlayersOK(Players(rows, facts, c), facts, cs \cup {c})
  BY <1>1, <1>2, <1>3, <1>4 DEF PlayersOK
<1> QED
  BY <1>4, <1>5

-----------------------------------------------------------------------------
(* Rows that are newer than an instant change nothing as of it.             *)
LEMMA NewerRowsDoNotCount ==
    ASSUME NEW rows, NEW more, rows \subseteq more, NEW t, \A r \in more \ rows : ~(r.cutoff =< t)
    PROVE  NewestAsOf(more, t) = NewestAsOf(rows, t)
BY DEF NewestAsOf

(* A later sync changes a rating only if a fact came late                   *)
(* (build_team_ratings).                                                    *)
LEMMA RatingAsOf ==
    ASSUME NEW rows, NEW facts, FactsOK(facts), NEW cs \in SUBSET Nat, RatingsOK(rows, facts, cs),
           NEW c \in Nat, NEW b \in cs, NEW t \in Nat, t =< b, NEW x,
           \A m \in MapsWith(x) : ~LateIn(facts, m, cs)
    PROVE  MapsOf(OfTeam(Ratings(rows, facts, c), x), t) = MapsOf(OfTeam(rows, x), t)
<1> DEFINE more == OfTeam(Ratings(rows, facts, c), x)
           old == OfTeam(rows, x)
<1>1. \A r : r \in Ratings(rows, facts, c) <=>
              \/ r \in rows
              \/ \E m \in Unrated(rows, facts, c) : \E y \in Playing[m] : r = RowFor(rows, facts, c, y, m)
  BY WhatRatingAdds
<1>2. ASSUME NEW r \in more, r \notin old PROVE ~(r.cutoff =< t)
  <2>1. PICK m \in Unrated(rows, facts, c) : \E y \in Playing[m] : r = RowFor(rows, facts, c, y, m)
    BY <1>1, <1>2 DEF OfTeam
  <2>2. PICK y \in Playing[m] : r = RowFor(rows, facts, c, y, m)
    BY <2>1
  <2>3. r.team = y /\ r.cutoff = UsableAt(facts, m, c)
    BY <2>2 DEF RowFor
  <2>4. y = x
    BY <2>3 DEF OfTeam
  <2>5. m \in Matches /\ UsableAt(facts, m, c) \in 1..c
    BY UnratedMaps
  <2>6. ~LateIn(facts, m, cs)
    BY <2>2, <2>4, <2>5 DEF MapsWith
  <2>7. ~(UsableAt(facts, m, c) =< b)
    BY <2>6, UnratedIsLate
  <2>8. b \in Nat
    OBVIOUS
  <2> QED
    BY <2>3, <2>5, <2>7, <2>8
<1>3. old \subseteq more
  BY <1>1 DEF OfTeam
<1> HIDE DEF old, more
<1>4. NewestAsOf(more, t) = NewestAsOf(old, t)
  BY <1>2, <1>3, NewerRowsDoNotCount
<1> QED
  BY <1>4 DEF MapsOf, old, more

(* A later sync changes a team's form as of the cutoff of a sync it was in   *)
(* only if one of its facts came late or has a conflict (build_team_form).  *)
LEMMA FormAsOf ==
    ASSUME NEW rows, NEW facts, FactsOK(facts), NEW syncs, NEW c \in Nat, SyncsBefore(syncs, c),
           FormsOK(rows, facts, syncs), NEW b \in syncs, NEW x \in b.on, NEW t \in Nat, t =< b.cutoff,
           ~DisturbedIn(facts, x, CutoffsIn(syncs)), NEW teams
    PROVE  MapsOf(OfTeam(Forms(rows, facts, teams, c), x), t) = MapsOf(OfTeam(rows, x), t)
<1> DEFINE more == OfTeam(Forms(rows, facts, teams, c), x)
           old == OfTeam(rows, x)
<1>1. \A r : r \in Forms(rows, facts, teams, c) <=>
              \/ r \in rows
              \/ \E y \in teams : /\ FormMaps(facts, y, c) # {} /\ r = FormFor(facts, y, c)
                                  /\ \A q \in OfTeam(rows, y) : q.cutoff # LastOf(facts, y, c)
  BY WhatFormAdds
<1>2. b.cutoff \in Nat /\ b.cutoff < c
  BY DEF SyncsBefore
<1>3. ASSUME NEW r \in more, r \notin old, r.cutoff =< t PROVE FALSE
  <2>1. PICK y \in teams : /\ FormMaps(facts, y, c) # {} /\ r = FormFor(facts, y, c)
                           /\ \A q \in OfTeam(rows, y) : q.cutoff # LastOf(facts, y, c)
    BY <1>1, <1>3 DEF OfTeam
  <2>2. r.team = y /\ r.cutoff = LastOf(facts, y, c)
    BY <2>1 DEF FormFor
  <2>3. y = x
    BY <2>2 DEF OfTeam
  <2>4. FormMaps(facts, x, c) # {} /\ LastOf(facts, x, c) =< t
    BY <1>3, <2>1, <2>2, <2>3
  <2>5. LastOf(facts, x, c) \in 1..c
    BY <2>4, LastOfForm
  <2>6. LastOf(facts, x, c) =< b.cutoff
    BY <1>2, <2>4, <2>5
  <2> DEFINE k == b.cutoff
  <2>7. k \in Nat /\ k < c /\ LastOf(facts, x, c) =< k
    BY <1>2, <2>6
  <2>8. FormKnown(rows, facts, x, k)
    BY DEF FormsOK
  <2> HIDE DEF k
  <2>9. FormMaps(facts, x, k) = FormMaps(facts, x, c) /\ LastOf(facts, x, k) = LastOf(facts, x, c)
    BY <2>4, <2>7, OldFormIsSame
  <2>10. \E q \in OfTeam(rows, x) : q.cutoff = LastOf(facts, x, c)
    BY <2>4, <2>8, <2>9 DEF FormKnown
  <2> QED
    BY <2>1, <2>3, <2>10
<1>4. old \subseteq more
  BY <1>1 DEF OfTeam
<1>5. \A r \in more \ old : ~(r.cutoff =< t)
  BY <1>3
<1> HIDE DEF old, more
<1>6. NewestAsOf(more, t) = NewestAsOf(old, t)
  BY <1>4, <1>5, NewerRowsDoNotCount
<1> QED
  BY <1>6 DEF MapsOf, old, more

-----------------------------------------------------------------------------
(* The inductive invariant of the history: what the facts are, that every    *)
(* cutoff lies behind the clock and before the running sync, and that the    *)
(* three tables are sound with respect to the facts and the cutoffs.        *)
AskedOK == asked = NotAsked \/ /\ asked.from \in Providers /\ asked.of \in Matches
                               /\ asked.answer \in FactAnswer /\ asked.at \in Nat \ {0}

SyncingOK == syncing = Idle \/ /\ syncing.cutoff \in Nat /\ syncing.cutoff < clock
                               /\ SyncsBefore(built, syncing.cutoff)

HistoryInv ==
    /\ clock \in Nat \ {0}
    /\ FactsOK(fact)
    /\ AskedOK
    /\ SyncsBefore(built, clock)
    /\ SyncingOK
    /\ RatingsOK(rating, fact, CutoffsIn(built))
    /\ FormsOK(form, fact, built)
    /\ PlayersOK(player, fact, CutoffsIn(built))

LEMMA HistoryInvInit == HistoryInit => HistoryInv
<1> SUFFICES ASSUME HistoryInit PROVE HistoryInv
  OBVIOUS
<1>1. FactsOK(fact)
  <2>1. FactOK(NoFact)
    BY DEF FactOK, NoFact, FactRow, Statuses, Winners
  <2>2. NoFact \in FactRow
    BY <2>1 DEF FactOK
  <2> HIDE DEF NoFact
  <2> QED
    BY <2>1, <2>2 DEF HistoryInit, FactsOK
<1>2. AskedOK /\ SyncingOK /\ SyncsBefore(built, clock) /\ clock \in Nat \ {0}
  BY DEF HistoryInit, AskedOK, SyncingOK, SyncsBefore
<1>3. rating = {} /\ form = {} /\ player = {} /\ built = {} /\ CutoffsIn({}) = {}
  BY DEF HistoryInit, CutoffsIn
<1>4. RatingsOK({}, fact, {})
  BY DEF RatingsOK, OncePerMap, BothRated, AllRated, ChainIn, Rated, OfTeam, MapsOf, NewestAsOf
<1>5. FormsOK({}, fact, {}) /\ PlayersOK({}, fact, {})
  BY DEF FormsOK, PlayersOK
<1> QED
  BY <1>1, <1>2, <1>3, <1>4, <1>5 DEF HistoryInv

(* The cutoffs of the syncs that have finished lie before an instant.       *)
LEMMA CutoffsBefore ==
    ASSUME NEW syncs, NEW c \in Nat, SyncsBefore(syncs, c)
    PROVE  CutoffsIn(syncs) \in SUBSET Nat /\ \A b \in CutoffsIn(syncs) : b < c
BY DEF SyncsBefore, CutoffsIn

(* The tables when the facts move on, and when a sync has built.            *)
LEMMA TablesKeep ==
    ASSUME HistoryInv, NEW facts, NEW commit \in Nat, clock =< commit, FactsMove(fact, facts, commit)
    PROVE  /\ RatingsOK(rating, facts, CutoffsIn(built))
           /\ FormsOK(form, facts, built)
           /\ PlayersOK(player, facts, CutoffsIn(built))
<1>1. SyncsBefore(built, commit)
  BY DEF HistoryInv, SyncsBefore
<1>2. CutoffsIn(built) \in SUBSET Nat /\ \A b \in CutoffsIn(built) : b < commit
  BY <1>1, CutoffsBefore
<1>3. FactsOK(fact) /\ RatingsOK(rating, fact, CutoffsIn(built)) /\ FormsOK(form, fact, built)
      /\ PlayersOK(player, fact, CutoffsIn(built))
  BY DEF HistoryInv
<1> QED
  BY <1>1, <1>2, <1>3, RatingsKeep, FormsKeep, PlayersKeep

LEMMA SyncKeeps ==
    ASSUME HistoryAssumption, HistoryInv, NEW facts, NEW commit \in Nat, clock =< commit,
           FactsMove(fact, facts, commit), NEW n \in Nat, NEW drafted, FinishSync(facts, n, drafted)
    PROVE  HistoryInv'
<1> DEFINE c == syncing.cutoff
           cs == CutoffsIn(built)
<1>1. c \in Nat /\ c < clock /\ SyncsBefore(built, c)
  BY DEF HistoryInv, SyncingOK, FinishSync
<1>2. cs \in SUBSET Nat /\ \A b \in cs : b < c
  BY <1>1, CutoffsBefore
<1>3. RatingsOK(rating, facts, cs) /\ FormsOK(form, facts, built) /\ PlayersOK(player, facts, cs)
  BY TablesKeep
<1>4. FactsOK(facts)
  BY DEF FactsMove
<1>5. CutoffsIn(built \cup {syncing}) = cs \cup {c}
  BY DEF CutoffsIn
<1> HIDE DEF cs
<1>6. RatingsOK(Ratings(rating, facts, c), facts, cs \cup {c})
  BY <1>1, <1>2, <1>3, <1>4, RatingsGrow
<1>7. FormsOK(Forms(form, facts, syncing.on, c), facts, built \cup {syncing})
  BY <1>1, <1>3, <1>4, FormsGrow
<1>8. PlayersOK(player, facts, cs \cup {c}) /\ PlayersOK(Players(player, facts, c), facts, cs \cup {c})
  BY <1>1, <1>2, <1>3, <1>4, PlayersGrow
<1>9. /\ fact' = facts /\ rating' = Ratings(rating, facts, c)
      /\ form' = Forms(form, facts, syncing.on, c)
      /\ player' = IF drafted THEN Players(player, facts, c) ELSE player
      /\ built' = built \cup {syncing} /\ clock' = clock + n /\ syncing' = Idle /\ asked' = asked
  BY DEF FinishSync
<1>10. clock' \in Nat \ {0} /\ AskedOK' /\ SyncingOK'
  BY <1>9 DEF HistoryInv, AskedOK, SyncingOK
<1>11. SyncsBefore(built', clock')
  BY <1>1, <1>9 DEF SyncsBefore, HistoryInv
<1>12. /\ RatingsOK(rating', fact', CutoffsIn(built')) /\ FormsOK(form', fact', built')
       /\ PlayersOK(player', fact', CutoffsIn(built')) /\ FactsOK(fact')
  <2> HIDE DEF c
  <2> QED
    BY <1>4, <1>5, <1>6, <1>7, <1>8, <1>9 DEF c
<1> QED
  BY <1>10, <1>11, <1>12 DEF HistoryInv

(* A sync finishes with the facts moved on by at most two responses.        *)
LEMMA HowSyncsFinish ==
    ASSUME HistoryAssumption, HistoryInv, NEW list \in Providers, NEW drafted,
           \/ FinishSync(fact, 0, drafted)
           \/ \E r \in Responses(list) :
                 \/ FinishSync(Persisted(fact, r, 1, 1), 1, drafted)
                 \/ \E s \in Responses(list) :
                       FinishSync(Persisted(Persisted(fact, r, 1, 2), s, 2, 2), 2, drafted)
    PROVE  \E facts, commit, n : /\ commit \in Nat /\ clock =< commit /\ n \in Nat
                                 /\ FactsMove(fact, facts, commit) /\ FinishSync(facts, n, drafted)
<1>1. clock \in Nat \ {0} /\ FactsOK(fact)
  BY DEF HistoryInv
<1>2. ASSUME NEW facts, FactsOK(facts), NEW r \in Responses(list), NEW i \in 1..2, NEW n \in 1..2
      PROVE  FactsMove(facts, Persisted(facts, r, i, n), clock + n)
  <2>1. r[1] \in Providers /\ r[2] \in Matches /\ r[3] \in FactAnswer
    BY DEF Responses, Lacking
  <2>2. clock - 1 + i \in Nat \ {0} /\ clock + n \in Nat
    BY <1>1
  <2>3. FactsMove(facts, Stored(facts, r[1], r[2], r[3], clock - 1 + i, clock + n), clock + n)
    BY <1>2, <2>1, <2>2, StoringMoves
  <2> QED
    BY <2>3 DEF Persisted
<1>3. CASE FinishSync(fact, 0, drafted)
  <2>1. FactsMove(fact, fact, clock)
    BY <1>1, StandingStillMoves
  <2>2. clock \in Nat /\ clock =< clock /\ 0 \in Nat
    BY <1>1
  <2> QED
    BY <1>3, <2>1, <2>2, Zenon
<1>4. CASE \E r \in Responses(list) : FinishSync(Persisted(fact, r, 1, 1), 1, drafted)
  <2>1. PICK r \in Responses(list) : FinishSync(Persisted(fact, r, 1, 1), 1, drafted)
    BY <1>4
  <2>2. FactsMove(fact, Persisted(fact, r, 1, 1), clock + 1)
    BY <1>1, <1>2
  <2>3. clock + 1 \in Nat /\ clock =< clock + 1 /\ 1 \in Nat
    BY <1>1
  <2> QED
    BY <2>1, <2>2, <2>3, Zenon
<1>5. CASE \E r, s \in Responses(list) :
              FinishSync(Persisted(Persisted(fact, r, 1, 2), s, 2, 2), 2, drafted)
  <2>1. PICK r \in Responses(list), s \in Responses(list) :
              FinishSync(Persisted(Persisted(fact, r, 1, 2), s, 2, 2), 2, drafted)
    BY <1>5
  <2> DEFINE one == Persisted(fact, r, 1, 2)
             two == Persisted(one, s, 2, 2)
  <2>2. FactsMove(fact, one, clock + 2)
    BY <1>1, <1>2
  <2>3. FactsOK(one)
    BY <2>2 DEF FactsMove
  <2> HIDE DEF one
  <2>4. FactsMove(one, two, clock + 2)
    BY <1>2, <2>3
  <2> HIDE DEF two
  <2>5. FactsMove(fact, two, clock + 2)
    BY <1>1, <2>2, <2>4, StoringTwiceMoves
  <2>6. clock + 2 \in Nat /\ clock =< clock + 2 /\ 2 \in Nat
    BY <1>1
  <2>7. FinishSync(two, 2, drafted)
    BY <2>1 DEF one, two
  <2> QED
    BY <2>5, <2>6, <2>7, Zenon
<1> QED
  BY <1>3, <1>4, <1>5

(* Every step either leaves the tables as they are or is the end of a sync. *)
LEMMA HistorySteps ==
    ASSUME HistoryAssumption, HistoryInv, HistoryNext
    PROVE  \/ UNCHANGED <<rating, form, player, built>>
           \/ \E facts, commit, n, drafted :
                 /\ commit \in Nat /\ clock =< commit /\ n \in Nat
                 /\ FactsMove(fact, facts, commit) /\ FinishSync(facts, n, drafted)
<1>1. CASE \E list \in Providers, drafted \in Drafted :
          \/ FinishSync(fact, 0, drafted)
          \/ \E r \in Responses(list) :
                \/ FinishSync(Persisted(fact, r, 1, 1), 1, drafted)
                \/ \E s \in Responses(list) :
                      s[2] # r[2] /\ FinishSync(Persisted(Persisted(fact, r, 1, 2), s, 2, 2), 2, drafted)
  <2>1. PICK list \in Providers, drafted \in Drafted :
          \/ FinishSync(fact, 0, drafted)
          \/ \E r \in Responses(list) :
                \/ FinishSync(Persisted(fact, r, 1, 1), 1, drafted)
                \/ \E s \in Responses(list) :
                      s[2] # r[2] /\ FinishSync(Persisted(Persisted(fact, r, 1, 2), s, 2, 2), 2, drafted)
    BY <1>1
  <2>2. \E facts, commit, n : /\ commit \in Nat /\ clock =< commit /\ n \in Nat
                              /\ FactsMove(fact, facts, commit) /\ FinishSync(facts, n, drafted)
    BY <2>1, HowSyncsFinish
  <2> QED
    BY <2>2, Zenon
<1>2. CASE \/ \E p \in Providers, m \in Matches : \E a \in Answers[p][m] : AskProvider(p, m, a)
           \/ Store \/ FailSync
           \/ \E teams \in Pairings : BeginSync(teams)
  BY <1>2 DEF AskProvider, Store, FailSync, BeginSync
<1> QED
  BY <1>1, <1>2 DEF HistoryNext

LEMMA HistoryInvStep ==
    ASSUME HistoryAssumption, HistoryInv, [HistoryNext]_historyVars PROVE HistoryInv'
<1>1. CASE \E facts, commit, n, drafted :
                 /\ commit \in Nat /\ clock =< commit /\ n \in Nat
                 /\ FactsMove(fact, facts, commit) /\ FinishSync(facts, n, drafted)
  <2>1. PICK facts, commit, n, drafted :
                 /\ commit \in Nat /\ clock =< commit /\ n \in Nat
                 /\ FactsMove(fact, facts, commit) /\ FinishSync(facts, n, drafted)
    BY <1>1
  <2> QED
    BY <2>1, SyncKeeps
<1>2. ASSUME NEW p \in Providers, NEW m \in Matches, NEW a \in Answers[p][m], AskProvider(p, m, a)
      PROVE  HistoryInv'
  <2>1. a \in FactAnswer
    BY <1>2 DEF HistoryAssumption
  <2>2. /\ asked' = [of |-> m, answer |-> a, from |-> p, at |-> clock] /\ clock' = clock + 1
        /\ UNCHANGED <<fact, rating, form, player, syncing, built>>
    BY <1>2 DEF AskProvider
  <2>3. clock \in Nat \ {0} /\ SyncsBefore(built, clock) /\ SyncingOK
    BY DEF HistoryInv
  <2>4. AskedOK' /\ clock' \in Nat \ {0}
    BY <2>1, <2>2, <2>3 DEF AskedOK
  <2>5. SyncsBefore(built', clock') /\ SyncingOK'
    BY <2>2, <2>3 DEF SyncsBefore, SyncingOK
  <2> QED
    BY <2>2, <2>4, <2>5 DEF HistoryInv
<1>3. CASE Store
  <2> DEFINE new == Stored(fact, asked.from, asked.of, asked.answer, asked.at, clock)
  <2>1. /\ asked.from \in Providers /\ asked.of \in Matches /\ asked.answer \in FactAnswer
        /\ asked.at \in Nat \ {0} /\ clock \in Nat /\ clock =< clock /\ FactsOK(fact)
    BY <1>3 DEF Store, HistoryInv, AskedOK
  <2>2. FactsMove(fact, new, clock) /\ FactsMove(fact, fact, clock)
    BY <2>1, StoringMoves, StandingStillMoves
  <2>3. /\ fact' = new \/ fact' = fact
        /\ asked' = NotAsked /\ UNCHANGED <<clock, rating, form, player, syncing, built>>
    BY <1>3 DEF Store
  <2> HIDE DEF new
  <2>4. FactsMove(fact, fact', clock)
    BY <2>2, <2>3
  <2> DEFINE after == fact'
  <2>5. FactsMove(fact, after, clock)
    BY <2>4
  <2> HIDE DEF after
  <2>6. /\ RatingsOK(rating, after, CutoffsIn(built)) /\ FormsOK(form, after, built)
        /\ PlayersOK(player, after, CutoffsIn(built)) /\ FactsOK(after)
    BY <2>1, <2>5, TablesKeep DEF FactsMove
  <2>7. AskedOK' /\ SyncingOK' /\ SyncsBefore(built', clock') /\ clock' \in Nat \ {0}
    BY <2>3 DEF HistoryInv, AskedOK, SyncingOK
  <2> QED
    BY <2>3, <2>6, <2>7 DEF HistoryInv, after
<1>4. ASSUME NEW teams, BeginSync(teams) PROVE HistoryInv'
  <2>1. /\ syncing' = [on |-> teams, cutoff |-> clock] /\ clock' = clock + 1
        /\ UNCHANGED <<fact, rating, form, player, asked, built>>
    BY <1>4 DEF BeginSync
  <2>2. clock \in Nat \ {0} /\ SyncsBefore(built, clock) /\ AskedOK
    BY DEF HistoryInv
  <2>3. syncing'.cutoff = clock
    BY <2>1
  <2>4. clock' \in Nat \ {0} /\ clock < clock' /\ AskedOK'
    BY <2>1, <2>2 DEF AskedOK
  <2>5. SyncingOK' /\ SyncsBefore(built', clock')
    BY <2>1, <2>2, <2>3, <2>4 DEF SyncingOK, SyncsBefore
  <2> QED
    BY <2>1, <2>4, <2>5 DEF HistoryInv
<1>5. CASE FailSync \/ UNCHANGED historyVars
  <2>1. (syncing' = Idle \/ syncing' = syncing)
        /\ UNCHANGED <<clock, fact, rating, form, player, asked, built>>
    BY <1>5 DEF FailSync, historyVars
  <2> QED
    BY <2>1 DEF HistoryInv, AskedOK, SyncingOK
<1>6. ASSUME NEW list \in Providers, NEW drafted \in Drafted,
             \/ FinishSync(fact, 0, drafted)
             \/ \E r \in Responses(list) :
                   \/ FinishSync(Persisted(fact, r, 1, 1), 1, drafted)
                   \/ \E s \in Responses(list) :
                         s[2] # r[2] /\ FinishSync(Persisted(Persisted(fact, r, 1, 2), s, 2, 2), 2, drafted)
      PROVE  HistoryInv'
  <2>1. \E facts, commit, n : /\ commit \in Nat /\ clock =< commit /\ n \in Nat
                              /\ FactsMove(fact, facts, commit) /\ FinishSync(facts, n, drafted)
    BY <1>6, HowSyncsFinish
  <2> QED
    BY <1>1, <2>1, Zenon
<1> QED
  BY <1>2, <1>3, <1>4, <1>5, <1>6 DEF HistoryNext

-----------------------------------------------------------------------------
(* The invariant says what HistoryIsSound does.                             *)
LEMMA LateMeansLate == ASSUME NEW m PROVE LateIn(fact, m, CutoffsIn(built)) <=> CameLate(m)
BY DEF LateIn, CameLate, CutoffsIn, Cutoffs

LEMMA InvLeaksNothing == ASSUME HistoryInv PROVE NoFutureLeak
<1> SUFFICES ASSUME NEW t \in 0..clock
             PROVE  /\ \A x \in Teams :
                          /\ TeamPayload(x, t).form \subseteq UsableBy(t)
                          /\ \/ TeamPayload(x, t).rating \subseteq UsableBy(t)
                             \/ \E m \in TeamPayload(x, t).rating : CameLate(m)
                    /\ HeroPayload(t) \cup RecentUses(t) \subseteq UsableBy(t)
                    /\ PlayerPayload(t) \subseteq AdvancedBy(t)
  BY DEF NoFutureLeak
<1>1. t \in Nat
  BY DEF HistoryInv
<1>2. \A u \in Nat : u =< t => UsableIn(fact, u) \subseteq UsableBy(t)
                               /\ AdvancedIn(fact, u) \subseteq AdvancedBy(t)
  BY <1>1 DEF UsableIn, UsableBy, AdvancedIn, AdvancedBy
<1>3. ASSUME NEW x \in Teams PROVE TeamPayload(x, t).form \subseteq UsableBy(t)
  <2>1. \A r \in form : r.cutoff \in Nat /\ r.maps \subseteq UsableIn(fact, r.cutoff)
    BY DEF HistoryInv, FormsOK
  <2>2. \A r \in NewestAsOf(OfTeam(form, x), t) : r \in form /\ r.cutoff =< t
    BY DEF NewestAsOf, OfTeam
  <2>3. \A r \in NewestAsOf(OfTeam(form, x), t) : r.maps \subseteq UsableBy(t)
    BY <1>2, <2>1, <2>2
  <2> QED
    BY <2>3 DEF TeamPayload, MapsOf
<1>4. ASSUME NEW x \in Teams
      PROVE  \/ TeamPayload(x, t).rating \subseteq UsableBy(t)
             \/ \E m \in TeamPayload(x, t).rating : CameLate(m)
  <2> DEFINE rows == NewestAsOf(OfTeam(rating, x), t)
  <2>1. \A r \in rows : r \in rating /\ r.cutoff =< t
    BY DEF NewestAsOf, OfTeam
  <2>2. \A r \in rows : RatingRowOK(r, fact, CutoffsIn(built))
    BY <2>1 DEF HistoryInv, RatingsOK
  <2>3. TeamPayload(x, t).rating = UNION {r.maps : r \in rows}
    BY DEF TeamPayload, MapsOf
  <2> HIDE DEF rows
  <2>4. CASE \E r \in rows : \E m \in r.maps : LateIn(fact, m, CutoffsIn(built))
    BY <2>3, <2>4, LateMeansLate
  <2>5. CASE \A r \in rows : ~ \E m \in r.maps : LateIn(fact, m, CutoffsIn(built))
    <3>1. \A r \in rows : r.cutoff \in Nat /\ r.maps \subseteq UsableIn(fact, r.cutoff)
      BY <2>2, <2>5 DEF RatingRowOK, RatingRow
    <3>2. \A r \in rows : r.maps \subseteq UsableBy(t)
      BY <1>2, <2>1, <3>1
    <3> QED
      BY <2>3, <3>2
  <2> QED
    BY <2>4, <2>5
<1>5. \A r \in player : /\ r.cutoff \in Nat /\ r.maps \subseteq UsableIn(fact, r.cutoff)
                        /\ r.scored \subseteq AdvancedIn(fact, r.cutoff)
  BY CutoffsBefore DEF HistoryInv, PlayersOK
<1>6. \A r \in NewestAsOf(player, t) : r \in player /\ r.cutoff =< t
  BY DEF NewestAsOf
<1>7. \A r \in NewestAsOf(player, t) : r.maps \subseteq UsableBy(t) /\ r.scored \subseteq AdvancedBy(t)
  BY <1>2, <1>5, <1>6
<1>8. HeroPayload(t) \subseteq UsableBy(t) /\ PlayerPayload(t) \subseteq AdvancedBy(t)
  BY <1>7 DEF HeroPayload, PlayerPayload, MapsOf
<1>9. RecentUses(t) \subseteq UsableBy(t)
  <2> SUFFICES ASSUME NEW p \in Providers, NEW m \in Matches, Usable(fact[p][m], t)
               PROVE  fact[p][m].usable \in 1..t
    BY DEF RecentUses, UsableBy
  <2> QED
    BY <1>1 DEF Usable, HistoryInv, FactsOK, FactOK, FactRow
<1> QED
  BY <1>3, <1>4, <1>8, <1>9

LEMMA InvHoldsTheChain == ASSUME HistoryInv PROVE ChainHolds
<1>1. OncePerMap(rating) /\ BothRated(rating) /\ ChainIn(rating, fact, CutoffsIn(built))
  BY DEF HistoryInv, RatingsOK
<1>2. clock \in Nat /\ \A c \in CutoffsIn(built) : c =< clock
  BY CutoffsBefore DEF HistoryInv
<1>3. ASSUME NEW x \in Teams, \A m \in Rated(OfTeam(rating, x)) : ~CameLate(m)
      PROVE  MapsOf(OfTeam(rating, x), clock) = Rated(OfTeam(rating, x))
  BY <1>1, <1>2, <1>3, LateMeansLate DEF ChainIn
<1> QED
  BY <1>1, <1>3 DEF ChainHolds, OncePerMap, BothRated

-----------------------------------------------------------------------------
(* One step, as of an instant that a finished sync lies behind.             *)
LEMMA AsOfStep ==
    ASSUME HistoryAssumption, HistoryInv, [HistoryNext]_historyVars PROVE AsOfStays \/ UNCHANGED historyVars
<1>1. ASSUME UNCHANGED <<rating, form, player, built>> PROVE AsOfStays
  BY <1>1 DEF AsOfStays, PlayerPayload, HeroPayload, TeamPayload
<1>2. ASSUME NEW facts, NEW commit \in Nat, clock =< commit, FactsMove(fact, facts, commit),
             NEW n \in Nat, NEW drafted, FinishSync(facts, n, drafted)
      PROVE  AsOfStays
  <2> DEFINE c == syncing.cutoff
             cs == CutoffsIn(built)
  <2>1. c \in Nat /\ SyncsBefore(built, c) /\ clock \in Nat
    BY <1>2 DEF HistoryInv, SyncingOK, FinishSync
  <2>2. cs \in SUBSET Nat /\ \A b \in cs : b < c
    BY <2>1, CutoffsBefore
  <2>3. RatingsOK(rating, facts, cs) /\ FormsOK(form, facts, built) /\ PlayersOK(player, facts, cs)
    BY <1>2, TablesKeep
  <2>4. FactsOK(facts)
    BY <1>2 DEF FactsMove
  <2>5. /\ fact' = facts /\ rating' = Ratings(rating, facts, c)
        /\ form' = Forms(form, facts, syncing.on, c)
        /\ player' = IF drafted THEN Players(player, facts, c) ELSE player
        /\ built' = built \cup {syncing}
    BY <1>2 DEF FinishSync
  <2>6. \A m : LateIn(facts, m, cs) => CameLate(m)'
    BY <2>5 DEF LateIn, CameLate, CutoffsIn, Cutoffs
  <2>7. \A x : DisturbedIn(facts, x, cs) => Disturbed(x)'
    BY <2>5, <2>6 DEF DisturbedIn, Disturbed
  <2> HIDE DEF c
  <2> SUFFICES ASSUME NEW t \in 0..clock, Settled(t)
               PROVE  /\ PlayerPayload(t)' = PlayerPayload(t) /\ HeroPayload(t)' = HeroPayload(t)
                      /\ \A x \in Teams :
                            /\ \/ TeamPayload(x, t).rating' = TeamPayload(x, t).rating
                               \/ \E m \in MapsWith(x) : CameLate(m)'
                            /\ SettledFor(x, t) => \/ TeamPayload(x, t).form' = TeamPayload(x, t).form
                                                   \/ Disturbed(x)'
    BY DEF AsOfStays
  <2>8. t \in Nat
    BY <2>1
  <2>9. PICK b \in cs : t =< b
    BY DEF Settled, CutoffsIn
  <2>10. b \in Nat /\ b < c
    BY <2>2
  <2> HIDE DEF cs
  <2>11. NewestAsOf(player', t) = NewestAsOf(player, t)
    <3>1. \A r \in Players(player, facts, c) \ player : r.cutoff = c
      BY DEF Players
    <3>2. player \subseteq Players(player, facts, c)
      BY DEF Players
    <3>3. \A r \in Players(player, facts, c) \ player : ~(r.cutoff =< t)
      BY <2>1, <2>8, <2>9, <2>10, <3>1
    <3>4. NewestAsOf(Players(player, facts, c), t) = NewestAsOf(player, t)
      BY <3>2, <3>3, NewerRowsDoNotCount
    <3> QED
      BY <2>5, <3>4
  <2>12. PlayerPayload(t)' = PlayerPayload(t) /\ HeroPayload(t)' = HeroPayload(t)
    BY <2>11 DEF PlayerPayload, HeroPayload, MapsOf
  <2>13. ASSUME NEW x \in Teams, \A m \in MapsWith(x) : ~CameLate(m)'
         PROVE  TeamPayload(x, t).rating' = TeamPayload(x, t).rating
    <3>1. \A m \in MapsWith(x) : ~LateIn(facts, m, cs)
      BY <2>6, <2>13
    <3>2. MapsOf(OfTeam(Ratings(rating, facts, c), x), t) = MapsOf(OfTeam(rating, x), t)
      BY <2>1, <2>2, <2>3, <2>4, <2>8, <2>9, <3>1, RatingAsOf
    <3>3. TeamPayload(x, t).rating' = MapsOf(OfTeam(rating', x), t)
      BY DEF TeamPayload
    <3>4. TeamPayload(x, t).rating = MapsOf(OfTeam(rating, x), t)
      BY DEF TeamPayload
    <3> QED
      BY <2>5, <3>2, <3>3, <3>4
  <2>14. ASSUME NEW x \in Teams, SettledFor(x, t), ~Disturbed(x)'
         PROVE  TeamPayload(x, t).form' = TeamPayload(x, t).form
    <3>1. PICK s \in built : x \in s.on /\ t =< s.cutoff
      BY <2>14 DEF SettledFor
    <3>2. ~DisturbedIn(facts, x, CutoffsIn(built))
      BY <2>7, <2>14 DEF cs
    <3> DEFINE teams == syncing.on
    <3> HIDE DEF teams
    <3>3. MapsOf(OfTeam(Forms(form, facts, teams, c), x), t) = MapsOf(OfTeam(form, x), t)
      BY <2>1, <2>3, <2>4, <2>8, <3>1, <3>2, FormAsOf
    <3>4. TeamPayload(x, t).form' = MapsOf(OfTeam(form', x), t)
      BY DEF TeamPayload
    <3>5. TeamPayload(x, t).form = MapsOf(OfTeam(form, x), t)
      BY DEF TeamPayload
    <3> QED
      BY <2>5, <3>3, <3>4, <3>5 DEF teams
  <2> QED
    BY <2>12, <2>13, <2>14
<1>3. CASE HistoryNext
  <2>1. CASE UNCHANGED <<rating, form, player, built>>
    BY <1>1, <2>1
  <2>2. CASE \E facts, commit, n, drafted :
                 /\ commit \in Nat /\ clock =< commit /\ n \in Nat
                 /\ FactsMove(fact, facts, commit) /\ FinishSync(facts, n, drafted)
    BY <1>2, <2>2
  <2> QED
    BY <1>3, <2>1, <2>2, HistorySteps
<1> QED
  BY <1>3

(* A decision is never told what was not known at its time, and the chain of *)
(* ratings holds, whatever comes late (build_team_ratings, build_team_form,  *)
(* HistoricalIntelligenceService).                                          *)
THEOREM HistoryAlwaysSound == HistoryAssumption => (HistorySpec => []HistoryIsSound)
<1> SUFFICES ASSUME HistoryAssumption PROVE HistorySpec => []HistoryIsSound
  OBVIOUS
<1>1. HistoryInv /\ [HistoryNext]_historyVars => HistoryInv'
  BY HistoryInvStep
<1>2. HistoryInv => HistoryIsSound
  BY InvLeaksNothing, InvHoldsTheChain DEF HistoryIsSound
<1> QED
  BY <1>1, <1>2, HistoryInvInit, PTL DEF HistorySpec

(* What a sync has built as of its cutoff stays what a decision up to that   *)
(* cutoff reads, the late and the disputed facts of AsOfStays apart.        *)
THEOREM WhatWasBuiltStays == HistoryAssumption => (HistorySpec => AsOfIsStable)
<1> SUFFICES ASSUME HistoryAssumption PROVE HistorySpec => AsOfIsStable
  OBVIOUS
<1>1. HistoryInv /\ [HistoryNext]_historyVars => HistoryInv'
  BY HistoryInvStep
<1>2. HistoryInv /\ [HistoryNext]_historyVars => [AsOfStays]_historyVars
  BY AsOfStep
<1> QED
  BY <1>1, <1>2, HistoryInvInit, PTL DEF HistorySpec, AsOfIsStable
=============================================================================
