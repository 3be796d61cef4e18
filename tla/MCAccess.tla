------------------------------ MODULE MCAccess -------------------------------
(* AiDecisions and what surrounds it in one run: how visitors become users  *)
(* (Accounts), what their subscription gives them (Subscriptions) and what  *)
(* administrators configure (RuntimeConfig).  A behaviour is one of the     *)
(* module that `part` names while the others stand still.  RuntimeConfig    *)
(* has two themes: secrets come and go, or revisions of the slots are used. *)
EXTENDS MCAiDecisions, Accounts, Subscriptions, RuntimeConfig

VARIABLE part

-----------------------------------------------------------------------------
CONSTANTS p1, p2, i1, i2, google, steam

MCPeople == {p1, p2}
MCInboxes == {i1, i2}
MCGoogleIds == {google}
MCSteamIds == {steam}

(* Bounds.  Codes go to one inbox; Google may know the other one too.  The  *)
(* first account is p1.  One session ends or one account is disabled, while *)
(* no request is under way.  The account of Steam comes before the codes.   *)
Ended == {x \in sessions : ~x.valid}
Disabled == {u \in {p1, p2} : ~person[u].enabled}
NoRequest == mailing[i1] = "no" /\ \A s \in {google, steam} : joining[s] = Nil

FewLogins ==
    /\ codes'[i2] = <<>>
    /\ person'[p2].exists => person'[p1].exists
    /\ Cardinality(Ended') + Cardinality(Disabled') <= 1
    /\ Ended' = Ended \/ codes[i1] # <<>>
    /\ NoRequest \/ (Ended' = Ended /\ Disabled' = Disabled)
    /\ joining'[steam] = joining[steam] \/ codes[i1] = <<>>

-----------------------------------------------------------------------------
CONSTANTS monthly, weekend, sub

MCTransactions == {monthly, weekend}
MCRecurring == {monthly}
MCSubscriptionOf == monthly :> sub

(* Bounds.  One of the two purchases is made.  Two webhooks are handled at  *)
(* a time; Paddle sends more of them between that, one refund at most, one  *)
(* sign of a missed payment and one of a new period.  Time passes between   *)
(* two of them.                                                             *)
Handled == {i \in DOMAIN webhooks : handling[i].pc # "idle"}
SentOf(kind) == {i \in DOMAIN webhooks : webhooks[i].kind = kind}

FewWebhooks ==
    /\ purchase'[monthly] = "NONE" \/ purchase'[weekend] = "NONE"
    /\ Cardinality(Handled') <= 2
    /\ webhooks' # webhooks => Handled' = {}
    /\ clock' # clock => Handled = {} /\ webhooks # <<>>
    /\ \A kind \in {"refund", "active", "inactive"} : Cardinality(SentOf(kind)') <= 1

-----------------------------------------------------------------------------
CONSTANTS flash, pro, model1, model2, model3, low, high, k1, k2, ad1, ad2

MCSlots == {flash, pro}
MCModels == {model1, model2, model3}
MCTunings == {low, high}
MCLags == {1, 2}
MCAdmins == {ad1, ad2}
MCMasterKeys == {k1, k2}

NobodyEdits == editing = [a \in {ad1, ad2} |-> NoEdit]

FewSettings ==
    /\ ConfigInit
    /\ slot[pro] = [enabled |-> inEnvironment, decides |-> part # "revisions",
                    approved |-> TRUE, model |-> model2, tuning |-> low, revision |-> 1]
    /\ slot[flash].tuning = low /\ slot[flash].model = model1
    /\ part = "revisions" =>
           inEnvironment /\ master = Unset /\ slot[flash].approved /\ slot[flash].decides
           /\ policy.lag = 1

(* Bounds.  Secrets: one administrator edits one slot, once, and no call is *)
(* made.                                                                    *)
OnlySecrets ==
    /\ calls' = {} /\ policy' = policy /\ editing'[ad2] = NoEdit
    /\ slot'[pro] = slot[pro]
    /\ slot'[flash].tuning = low /\ slot'[flash].model # model3 /\ slot'[flash].revision <= 2
    /\ scheduled' # {} => editing' = editing /\ NobodyEdits

(* Revisions: of the model and the tuning, two calls, of the slot that      *)
(* decides.  Two requests may both have been validated, but they upsert one *)
(* at a time.                                                               *)
OnlyRevisions ==
    /\ UNCHANGED <<master, inEnvironment, secret>>
    /\ Cardinality(calls') <= 2
    /\ slot'[flash].revision + slot'[pro].revision <= 4 /\ slot'[pro].tuning = low
    /\ OneUpsertAtATime'
    /\ \A a \in {ad1, ad2} :
          editing'[a].change \in {Unset} \cup [model: {model1, model2, model3}]
                                 \cup [tuning: {low, high}]
    /\ policy' # policy => NobodyEdits /\ calls # {} /\ policy'.lag = 2 /\ policy'.decisions
    /\ policy' # policy \/ editing' # editing => scheduled = {}
    /\ editing' # editing => policy.lag = 1 \/ calls = {}

-----------------------------------------------------------------------------
ASSUME AccessAssumption ==
    /\ AccountsAssumption
    /\ SubscriptionsAssumption
    /\ RuntimeConfigAssumption

SumInit ==
    /\ part \in {"decisions", "logins", "billing", "secrets", "revisions"}
    /\ AiInit /\ LoginInit /\ BillingInit /\ FewSettings
    /\ part \notin {"secrets", "revisions"} =>
           /\ master = Unset /\ inEnvironment /\ policy.lag = 1
           /\ slot[flash] = [slot[pro] EXCEPT !.model = model1]

SumNext ==
    \/ part = "decisions" /\ AiNext
       /\ UNCHANGED <<part, accountVars, billingVars, configVars>>
    \/ part = "logins" /\ LoginNext /\ FewLogins
       /\ UNCHANGED <<part, aiVars, billingVars, configVars>>
    \/ part = "billing" /\ BillingNext /\ FewWebhooks
       /\ UNCHANGED <<part, aiVars, accountVars, configVars>>
    \/ part = "secrets" /\ ConfigNext /\ OnlySecrets
       /\ UNCHANGED <<part, aiVars, accountVars, billingVars>>
    \/ part = "revisions" /\ ConfigNext /\ OnlyRevisions
       /\ UNCHANGED <<part, aiVars, accountVars, billingVars>>

sumVars == <<part, aiVars, accountVars, billingVars, configVars>>
SumSpec == SumInit /\ [][SumNext]_sumVars
=============================================================================
