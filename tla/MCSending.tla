----------------------------- MODULE MCSending ------------------------------
(* JobRunner, Notifications and QqSending in one run: a behaviour is one of *)
(* the module that `part` names while the others stand still.               *)
(* Notifications has two themes: users bind, pair and unbind their          *)
(* accounts; or a batch goes out to accounts that were bound without        *)
(* trouble.  So has QqSending: people write to the bots; or a batch goes    *)
(* out to a configured group and to one that may subscribe.                 *)
EXTENDS MCJobRunner, Notifications, QqSending

CONSTANTS u1, u2, a1, a2, h1, h2, q1, q2, g1, g2, k1, k2

VARIABLES part

MCUsers == {u1, u2}
MCAccounts == {a1, a2}
MCHandlers == {h1, h2}

MCBots == {q1, q2}
MCSharedBots == {q1}
MCGroups == {g1, g2}
MCBotOf == (g1 :> q1) @@ (g2 :> q2)
MCCalls == {k1, k2}
MCConfigured == {g2}

ASSUME SendingAssumption == NotificationsAssumption /\ QqAssumption

SumInit ==
    /\ part \in {"runner", "logins", "sending", "qq inbox", "qq sending"}
    /\ Init /\ SendingInit /\ QqInit

(* Bounds on the logins: u1 has pairing codes and scans both accounts, u2   *)
(* disputes one of them; only u1 deletes a binding; nothing is sent.        *)
OnlyLogins ==
    /\ access' = access
    /\ u2 \notin code' /\ qr'[u2].account # a2 /\ revoking'[u2] = NoOne
    /\ sendJob'.status = "ABSENT" /\ stale' = stale /\ muted' = muted

(* Bounds on the sending.  Each user scans an account of their own, before  *)
(* the batch or between two attempts; only u1 withdraws, once, while the    *)
(* batch is out.  The age and the switch change where a handler looks.      *)
OwnAccount(u) == IF u = u1 THEN a1 ELSE a2
NotYetWithdrawn == access[u1] = "on" /\ revoking[u1] = NoOne /\ binding[a1].status = "ACTIVE"
AtRest == \A h \in MCHandlers : handler[h].pc = "idle"
Looking(pc) == \E h \in MCHandlers : handler[h].pc = pc

OnlySending ==
    /\ code' = code
    /\ \A u \in MCUsers : qr'[u].account \in {NoOne, OwnAccount(u)}
    /\ access'[u2] = access[u2] /\ revoking'[u2] = NoOne
    /\ access' # access => NotYetWithdrawn
    /\ revoking'[u1] # revoking[u1] /\ revoking'[u1] # NoOne => NotYetWithdrawn
    /\ qr' # qr => AtRest
    /\ LockFree \/ handler' = handler
    /\ stale' # stale => Looking("check")
    /\ muted' # muted => Looking("begin")
    /\ sendJob'.status = "ABSENT" => access' = access /\ revoking' = revoking
    /\ sendJob'.status # "ABSENT" => qr'[u1] = NoLogin /\ binding[a1].status # "NONE"
    /\ sendJob.status \in {"SUCCEEDED", "FAILED"} =>
           binding' = binding /\ access' = access /\ qr' = qr

(* Bounds on the inbox: the first message is one of g1, the second takes    *)
(* g1's order back or is one of g2, whose bot is the user's.  The login     *)
(* moves between two rounds, after an order without a label, and nothing is *)
(* sent.                                                                    *)
Says(x) ==
    IF x.id = 1 THEN x.group = g1 /\ x.says \in {"on", "ask"}
    ELSE ~x.named /\ x.says \in (IF x.group = g1 THEN {"off"} ELSE {"on", "none"})

OnlyInbox ==
    /\ \A x \in buffer' : Says(x)
    /\ scan' # scan => /\ round = {} /\ arrived = 1 /\ poll.pc \in {"idle", "answered"}
                       /\ \A x \in buffer : x.says = "on" /\ ~x.named
    /\ q2 \in listed /\ q2 \notin listed' => poll.pc # "asked"
    /\ qqJob' = qqJob /\ tooOld' = tooOld /\ switchedOff' = switchedOff

(* Bounds on the QQ batch: g1 subscribes, before it or between two runs,    *)
(* and is read at once.  The age and the switch change where a handler      *)
(* looks.                                                                   *)
QqAtRest == \A h \in MCHandlers : sender[h].pc = "idle"
QqLooking(pc) == \E h \in MCHandlers : sender[h].pc = pc
Read == buffer = {} \/ contact[g1].wants

OnlyBatch ==
    /\ scan' = scan /\ arrived' <= 1
    /\ \A x \in buffer' : x.group = g1 /\ x.says = "on" /\ ~x.named
    /\ arrived' # arrived => QqAtRest /\ qqJob.status \in {"ABSENT", "READY"}
    /\ round' # round => ~Read
    /\ UNCHANGED outgoingVars \/ (Read /\ poll.pc = "idle")
    /\ poll.pc # "idle" => qqMishaps' = qqMishaps
    /\ tooOld' # tooOld => QqLooking("check")
    /\ switchedOff' # switchedOff => QqLooking("begin")

SumNext ==
    \/ part = "runner" /\ Next /\ UNCHANGED <<part, sendingVars, qqVars>>
    \/ part = "logins" /\ SendingNext /\ OnlyLogins /\ UNCHANGED <<part, vars, qqVars>>
    \/ part = "sending" /\ SendingNext /\ OnlySending /\ UNCHANGED <<part, vars, qqVars>>
    \/ part = "qq inbox" /\ QqNext /\ OnlyInbox /\ UNCHANGED <<part, vars, sendingVars>>
    \/ part = "qq sending" /\ QqNext /\ OnlyBatch /\ UNCHANGED <<part, vars, sendingVars>>

SumSpec == SumInit /\ [][SumNext]_<<part, vars, sendingVars, qqVars>>

SumSymmetry == MCSymmetry \cup Permutations(MCHandlers)
=============================================================================
