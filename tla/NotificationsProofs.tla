------------------------- MODULE NotificationsProofs -------------------------
(***************************************************************************)
(* Who binds which account, and how often a message goes out, for every    *)
(* number of users, accounts, handlers and mishaps; and the same of the QQ *)
(* bots: what becomes of the messages of their groups, and which targets   *)
(* get a batch.                                                            *)
(*                                                                         *)
(* A login holds a lock from the credential to the last removal, so what   *)
(* it knows of the bindings stays true except where a deletion crosses it. *)
(* Messages are counted against lost answers: the start of a message that  *)
(* another handler has in hand is a loss, so that what the handlers have   *)
(* in hand is covered by the losses and one message more.                  *)
(*                                                                         *)
(* The cursor of a QQ bot covers what was handled as long as no batch      *)
(* outlives its bridge; an older order of a batch is followed by the       *)
(* newest one, which is what makes a repeated batch harmless.  Of the      *)
(* calls that are open for a target at most one may send, and only while   *)
(* the outbox has no answer.                                               *)
(***************************************************************************)
EXTENDS Notifications, QqSending, FiniteSetTheorems, TLAPS

-----------------------------------------------------------------------------
(* The bindings.  A binding that is active has an owner; one login holds    *)
(* the lock; and it knows how the bindings it may undo stand.               *)
Scanned(a) == binding[a].status = "ACTIVE" /\ binding[a].qr
Kept(a) == Scanned(a) => store[a] = binding[a].owner \/ a \in crossed
Locks(u) == qr[u].pc \in {"saved", "bound"}

LoginKnows(u) ==
    Locks(u) =>
        /\ qr[u].account \in Accounts
        /\ store[qr[u].account] = u \/ qr[u].account \in crossed
        /\ \A a \in Accounts \ crossed :
              Scanned(a) =>
                  IF qr[u].pc = "bound" THEN a \notin qr[u].previous \ {qr[u].account}
                  ELSE IF a \in qr[u].previous THEN binding[a].owner = u ELSE a # qr[u].account

BindingsInv ==
    /\ BindingsTypeOK
    /\ \A a \in Accounts : binding[a].status = "ACTIVE" => binding[a].owner \in Users
    /\ \A u, v \in Users : Locks(u) /\ Locks(v) => u = v
    /\ \A u \in Users : LoginKnows(u)
    /\ \A a \in Accounts : Kept(a)

-----------------------------------------------------------------------------
(* The sending.  A handler is at a destination from the start to the mark.  *)
Carries == {"send", "sent", "refused", "unbacked"}

HandlerRow ==
    [pc: {"idle", "begin", "check", "expire", "loop", "send", "sent", "refused", "unbacked"},
     todo: SUBSET Accounts, accounts: SUBSET Accounts, at: Accounts \cup {NoOne}, failed: BOOLEAN]
JobRow == [status: {"ABSENT", "READY", "RUNNING", "SUCCEEDED", "FAILED"},
           left: 0..SendAttempts, owner: Handlers \cup {NoOne}]

RowSound(row) ==
    /\ row.pc \in Carries <=> row.at # NoOne
    /\ row.pc = "idle" => row = Idle
    /\ row.pc = "begin" => ~row.failed

(* Who has the destination, and who of them has not delivered.              *)
At(a) == {h \in Handlers : handler[h].at = a}
Unanswered(a) == {h \in At(a) : handler[h].pc \in {"refused", "unbacked"}}

(* The batch has not reached the destination more often than answers were   *)
(* lost: no attempt is under way that could have, or one has failed.        *)
Undelivered(a) ==
    \/ Unanswered(a) # {}
    \/ delivery[a] \in {"NONE", "PENDING", "FAILED"}
    \/ delivery[a] = "SENDING" /\ At(a) = {}

Counted(a) ==
    /\ Cardinality(MessagesInHand(a)) <= lost[a] - sent[a] + 1
    /\ Undelivered(a) => Cardinality(MessagesInHand(a)) <= lost[a] - sent[a]

(* What may still go out without a permission was in hand when it ended.    *)
Lent(a) ==
    /\ grace[a] >= 0
    /\ ~Permitted(a) => Cardinality(MessagesInHand(a)) <= grace[a]

(* The handler that owns the job has every delivery of the batch before it, *)
(* or has answered for it, or knows that it failed.                         *)
Answered(a) == delivery[a] \in Ended \/ a \in late

Answers(h) ==
    Owns(h) =>
        /\ handler[h].pc # "idle"
        /\ handler[h].pc # "begin" /\ ~handler[h].failed =>
              \A a \in batch : Answered(a) \/ a \in handler[h].todo \/ handler[h].at = a

JobInv ==
    /\ \A a \in batch : delivery[a] # "NONE"
    /\ \A h \in Handlers : Answers(h)
    /\ sendJob.status = "RUNNING" => sendJob.owner \in Handlers
    /\ SuccessAnswersForAll

HandlersInv ==
    /\ handler \in [Handlers -> HandlerRow]
    /\ \A h \in Handlers : RowSound(handler[h])

CountersOK ==
    /\ delivery \in [Accounts -> {"NONE"} \cup Open \cup Ended]
    /\ sent \in [Accounts -> Nat] /\ lost \in [Accounts -> Nat] /\ grace \in [Accounts -> Int]

CountsInv == CountersOK /\ \A a \in Accounts : Counted(a) /\ Lent(a)

RestOK ==
    /\ batch \subseteq Accounts /\ late \subseteq Accounts
    /\ sendJob \in JobRow
    /\ stale \in BOOLEAN /\ muted \in BOOLEAN

CoreInv == HandlersInv /\ CountsInv /\ RestOK

SendingInv == BindingsInv /\ CoreInv /\ JobInv

-----------------------------------------------------------------------------
BindingRow == [owner: Users \cup {NoOne}, status: {"NONE", "ACTIVE", "DISABLED"}, qr: BOOLEAN]
LoginRow == [pc: {"none", "open", "saved", "bound"}, account: Accounts \cup {NoOne},
             previous: SUBSET Accounts]

(* What the steps of one user do to the types.                              *)
LEMMA BindingsTypes ==
    ASSUME BindingsAssumption, BindingsInv, NEW u \in Users, BindingsStep(u)
    PROVE  BindingsTypeOK'
<1>0. /\ store \in [Accounts -> Users \cup {NoOne}] /\ binding \in [Accounts -> BindingRow]
      /\ access \in [Users -> {"on", "paused", "none"}] /\ qr \in [Users -> LoginRow]
      /\ code \subseteq Users /\ revoking \in [Users -> Accounts \cup {NoOne}]
      /\ crossed \subseteq Accounts /\ mishaps \in 0..MaxMishaps /\ MaxMishaps \in Nat
  BY DEF BindingsInv, BindingsTypeOK, BindingRow, LoginRow, BindingsAssumption
<1>1. mishaps' \in 0..MaxMishaps
  BY <1>0 DEF BindingsStep, SetPreference, EntitlementChanges, QrStart, QrEnds, QrBind, QrBindRaises,
     QrFinish, CreateCode, Revoke, RevokeRaises, QrSave, ConsumeCode, Disable, Mishap, NoMishap
<1>2. access' \in [Users -> {"on", "paused", "none"}]
  BY <1>0 DEF BindingsStep, SetPreference, EntitlementChanges, QrStart, QrEnds, QrBind, QrBindRaises,
     QrFinish, CreateCode, Revoke, RevokeRaises, QrSave, ConsumeCode, Disable
<1>3. code' \subseteq Users /\ revoking' \in [Users -> Accounts \cup {NoOne}]
  BY <1>0 DEF BindingsStep, SetPreference, EntitlementChanges, QrStart, QrEnds, QrBind, QrBindRaises,
     QrFinish, CreateCode, Revoke, RevokeRaises, QrSave, ConsumeCode, Disable
<1>4. crossed' \subseteq Accounts
  <2>1. CASE Revoke(u)
    BY <1>0, <2>1 DEF Revoke
  <2>2. CASE ~Revoke(u)
    BY <1>0, <2>2 DEF BindingsStep, SetPreference, EntitlementChanges, QrStart, QrEnds, QrBind,
       QrBindRaises, QrFinish, CreateCode, RevokeRaises, QrSave, ConsumeCode, Disable
  <2> QED
    BY <2>1, <2>2
<1>5. store' \in [Accounts -> Users \cup {NoOne}]
  <2>1. CASE QrBindRaises(u) \/ QrFinish(u)
    BY <1>0, <2>1 DEF QrBindRaises, QrFinish, Restored
  <2>2. CASE Revoke(u)
    BY <1>0, <2>2 DEF Revoke
  <2>3. ASSUME NEW a \in Accounts, QrSave(u, a) PROVE store' \in [Accounts -> Users \cup {NoOne}]
    BY <1>0, <2>3 DEF QrSave
  <2>4. CASE UNCHANGED store
    BY <1>0, <2>4
  <2> QED
    BY <2>1, <2>2, <2>3, <2>4 DEF BindingsStep, SetPreference, EntitlementChanges, QrStart, QrEnds, QrBind,
       CreateCode, RevokeRaises, ConsumeCode, Disable
<1>6. binding' \in [Accounts -> BindingRow]
  <2>1. ASSUME NEW a \in Accounts, ConsumeCode(u, a) PROVE binding' \in [Accounts -> BindingRow]
    <3>1. [owner |-> u, status |-> "ACTIVE", qr |-> FALSE] \in BindingRow
      BY DEF BindingRow
    <3> QED
      BY <1>0, <2>1, <3>1 DEF ConsumeCode
  <2>2. ASSUME NEW a \in Accounts, Disable(u, a) PROVE binding' \in [Accounts -> BindingRow]
    <3>1. [binding[a] EXCEPT !.status = "DISABLED"] \in BindingRow
      BY <1>0 DEF BindingRow
    <3> QED
      BY <1>0, <2>2, <3>1 DEF Disable
  <2>3. CASE QrBind(u)
    <3>1. ASSUME NEW b \in Accounts PROVE Bound(u, qr[u].account)[b] \in BindingRow
      <4>1. [binding[b] EXCEPT !.status = "DISABLED"] \in BindingRow
        BY <1>0 DEF BindingRow
      <4>2. [owner |-> u, status |-> "ACTIVE", qr |-> TRUE] \in BindingRow
        BY DEF BindingRow
      <4> QED
        BY <1>0, <4>1, <4>2 DEF Bound
    <3>2. binding' = [b \in Accounts |-> Bound(u, qr[u].account)[b]]
      BY <2>3 DEF QrBind, Bound
    <3> QED
      BY <3>1, <3>2
  <2>4. CASE UNCHANGED binding
    BY <1>0, <2>4
  <2> QED
    BY <2>1, <2>2, <2>3, <2>4 DEF BindingsStep, SetPreference, EntitlementChanges, QrStart, QrEnds,
       QrBindRaises, QrFinish, CreateCode, Revoke, RevokeRaises, QrSave
<1>7. qr' \in [Users -> LoginRow]
  <2>0. NoLogin \in LoginRow /\ [NoLogin EXCEPT !.pc = "open"] \in LoginRow
    BY DEF NoLogin, LoginRow
  <2>1. \A pc \in {"none", "open", "saved", "bound"} : [qr[u] EXCEPT !.pc = pc] \in LoginRow
    BY <1>0 DEF LoginRow
  <2>2. ASSUME NEW a \in Accounts, QrSave(u, a) PROVE qr' \in [Users -> LoginRow]
    <3>1. [pc |-> "saved", account |-> a, previous |-> CredentialsOf(u)] \in LoginRow
      BY DEF LoginRow, CredentialsOf
    <3> QED
      BY <1>0, <2>0, <2>2, <3>1 DEF QrSave
  <2>3. CASE QrStart(u)
    <3>1. qr' = [qr EXCEPT ![u] = [qr[u] EXCEPT !.pc = "open"]]
      BY <1>0, <2>3 DEF QrStart
    <3> QED
      BY <1>0, <2>1, <3>1
  <2>4. CASE QrBind(u)
    <3>1. qr' = [qr EXCEPT ![u] = [qr[u] EXCEPT !.pc = "bound"]]
      BY <1>0, <2>4 DEF QrBind
    <3> QED
      BY <1>0, <2>1, <3>1
  <2>5. CASE QrEnds(u) \/ QrBindRaises(u) \/ QrFinish(u)
    BY <1>0, <2>0, <2>5 DEF QrEnds, QrBindRaises, QrFinish
  <2>6. CASE UNCHANGED qr
    BY <1>0, <2>6
  <2> QED
    BY <2>2, <2>3, <2>4, <2>5, <2>6 DEF BindingsStep, SetPreference, EntitlementChanges,
       CreateCode, Revoke, RevokeRaises, ConsumeCode, Disable
<1> QED
  BY <1>1, <1>2, <1>3, <1>4, <1>5, <1>6, <1>7 DEF BindingsTypeOK, BindingRow, LoginRow

-----------------------------------------------------------------------------
(* Preferences, entitlements, codes and requests touch no credential.       *)
LEMMA RowsStay ==
    ASSUME BindingsInv, BindingsTypeOK', UNCHANGED <<store, binding, qr, crossed>>
    PROVE  BindingsInv'
BY DEF BindingsInv, Kept, Scanned, Locks, LoginKnows

(* A login that holds no lock begins or ends.                               *)
LEMMA LoginBeginsOrEnds ==
    ASSUME BindingsInv, BindingsTypeOK', NEW u \in Users, QrStart(u) \/ QrEnds(u)
    PROVE  BindingsInv'
<1>1. qr \in [Users -> LoginRow]
  BY DEF BindingsInv, BindingsTypeOK, LoginRow
<1>2. UNCHANGED <<store, binding, crossed>> /\ (\A v \in Users : v # u => qr'[v] = qr[v])
      /\ qr'[u].pc \in {"none", "open"}
  BY <1>1 DEF QrStart, QrEnds, NoLogin, LoginRow
<1>3. ASSUME NEW v \in Users, Locks(v)' PROVE Locks(v) /\ qr'[v] = qr[v] /\ v # u
  BY <1>2, <1>3 DEF Locks
<1>4. ASSUME NEW v \in Users PROVE LoginKnows(v)'
  BY <1>2, <1>3 DEF LoginKnows, Scanned, BindingsInv
<1> QED
  BY <1>2, <1>3, <1>4 DEF BindingsInv, Kept, Scanned

(* _complete writes the credential of an account that nobody else has.      *)
LEMMA SaveKeeps ==
    ASSUME BindingsAssumption, BindingsInv, BindingsTypeOK', NEW u \in Users, NEW a \in Accounts, QrSave(u, a)
    PROVE  BindingsInv'
<1>1. qr \in [Users -> LoginRow] /\ store \in [Accounts -> Users \cup {NoOne}] /\ u # NoOne
  BY DEF BindingsInv, BindingsTypeOK, LoginRow, BindingsAssumption
<1>2. UNCHANGED <<binding, crossed>> /\ (\A v \in Users : v # u => qr'[v] = qr[v])
      /\ \A v \in Users : ~Locks(v)
  BY <1>1 DEF QrSave, LockFree, Locks
<1>3. CASE store[a] \in {NoOne, u}
  <2>1. /\ store' = [store EXCEPT ![a] = u]
        /\ qr'[u] = [pc |-> "saved", account |-> a, previous |-> CredentialsOf(u)]
    BY <1>1, <1>3 DEF QrSave
  <2>2. store'[a] = u /\ \A b \in Accounts : b # a => store'[b] = store[b]
    BY <1>1, <2>1
  <2>3. qr'[u].pc = "saved" /\ qr'[u].account = a /\ qr'[u].previous = CredentialsOf(u)
    BY <2>1
  <2>4. ASSUME NEW b \in Accounts, Scanned(b), b \notin crossed
        PROVE  store[b] = binding[b].owner /\ binding[b].owner \in Users
    BY <2>4 DEF BindingsInv, Kept, Scanned
  <2>5. ASSUME NEW b \in Accounts PROVE Kept(b)'
    <3>1. CASE b = a
      <4>1. store[a] = u \/ store[a] = NoOne
        BY <1>3
      <4> QED
        BY <1>1, <1>2, <2>2, <2>4, <3>1, <4>1 DEF Kept, Scanned, BindingsAssumption
    <3>2. CASE b # a
      BY <1>2, <2>2, <2>4, <3>2 DEF Kept, Scanned
    <3> QED
      BY <3>1, <3>2
  <2>6. LoginKnows(u)'
    <3>1. ASSUME NEW b \in Accounts \ crossed, Scanned(b)
          PROVE  IF b \in CredentialsOf(u) THEN binding[b].owner = u ELSE b # a
      <4>1. store[b] = binding[b].owner /\ binding[b].owner \in Users
        BY <2>4, <3>1
      <4>2. CASE b \in CredentialsOf(u)
        BY <4>1, <4>2 DEF CredentialsOf
      <4>3. CASE b \notin CredentialsOf(u)
        <5>1. store[b] # u
          BY <4>3 DEF CredentialsOf
        <5> QED
          BY <1>3, <4>1, <4>3, <5>1 DEF BindingsAssumption
      <4> QED
        BY <4>2, <4>3
    <3> QED
      BY <1>2, <2>2, <2>3, <3>1 DEF LoginKnows, Scanned
  <2>7. ASSUME NEW v \in Users, Locks(v)' PROVE v = u
    BY <1>2, <2>7 DEF Locks
  <2>8. ASSUME NEW v \in Users PROVE LoginKnows(v)'
    BY <2>6, <2>7 DEF LoginKnows
  <2> QED
    BY <1>2, <2>5, <2>7, <2>8 DEF BindingsInv
<1>4. CASE store[a] \notin {NoOne, u}
  <2>1. UNCHANGED store /\ qr'[u] = NoLogin
    BY <1>1, <1>4 DEF QrSave
  <2>2. ASSUME NEW v \in Users PROVE ~Locks(v)'
    BY <1>2, <2>1 DEF Locks, NoLogin
  <2> QED
    BY <1>2, <2>1, <2>2 DEF BindingsInv, Kept, Scanned, LoginKnows
<1> QED
  BY <1>3, <1>4

(* bind_user_account: the other bindings of the user are disabled.          *)
LEMMA BindKeeps ==
    ASSUME BindingsAssumption, BindingsInv, BindingsTypeOK', NEW u \in Users, QrBind(u)
    PROVE  BindingsInv'
<1>1. qr \in [Users -> LoginRow] /\ binding \in [Accounts -> BindingRow]
  BY DEF BindingsInv, BindingsTypeOK, LoginRow, BindingRow
<1>2. Locks(u) /\ qr[u].pc = "saved" /\ UNCHANGED <<store, crossed>>
      /\ (\A v \in Users : v # u => qr'[v] = qr[v])
  BY <1>1 DEF QrBind, Locks
<1>3. qr'[u].pc = "bound" /\ qr'[u].account = qr[u].account /\ qr'[u].previous = qr[u].previous
  BY <1>1 DEF QrBind, LoginRow
<1>4. PICK a : a = qr[u].account
  OBVIOUS
<1>5. a \in Accounts /\ (store[a] = u \/ a \in crossed)
  BY <1>2, <1>4 DEF BindingsInv, LoginKnows
<1>6. ASSUME NEW b \in Accounts
      PROVE  /\ b = a => binding'[b] = [owner |-> u, status |-> "ACTIVE", qr |-> TRUE]
             /\ b # a => \/ binding'[b] = binding[b] /\ ~(binding[b].owner = u /\ binding[b].status = "ACTIVE")
                         \/ binding'[b] = [binding[b] EXCEPT !.status = "DISABLED"]
  BY <1>4 DEF QrBind, Bound
<1>a. binding'[a].owner = u
  <2>1. binding'[a] = [owner |-> u, status |-> "ACTIVE", qr |-> TRUE]
    BY <1>4, <1>5 DEF QrBind, Bound
  <2> QED
    BY <2>1
<1>7. ASSUME NEW b \in Accounts, b # a, Scanned(b)'
      PROVE  binding'[b] = binding[b] /\ Scanned(b) /\ binding[b].owner # u
  <2>1. binding'[b] # [binding[b] EXCEPT !.status = "DISABLED"]
    BY <1>1, <1>7 DEF Scanned, BindingRow
  <2> QED
    BY <1>6, <1>7, <2>1 DEF Scanned
<1>8. ASSUME NEW b \in Accounts PROVE Kept(b)'
  <2>1. CASE b = a
    BY <1>2, <1>5, <1>a, <2>1 DEF Kept
  <2>2. CASE b # a
    BY <1>2, <1>7, <2>2 DEF BindingsInv, Kept
  <2> QED
    BY <2>1, <2>2
<1>9. ASSUME NEW b \in Accounts, binding'[b].status = "ACTIVE" PROVE binding'[b].owner \in Users
  <2>1. CASE b = a
    BY <1>a, <2>1
  <2>2. CASE b # a
    <3>1. binding'[b] # [binding[b] EXCEPT !.status = "DISABLED"]
      BY <1>1, <1>9 DEF BindingRow
    <3> QED
      BY <1>6, <1>9, <2>2, <3>1 DEF BindingsInv
  <2> QED
    BY <2>1, <2>2
<1>10. ASSUME NEW v \in Users, Locks(v)' PROVE v = u
  <2>1. CASE v # u
    <3>1. Locks(v)
      BY <1>2, <1>10, <2>1 DEF Locks
    <3> QED
      BY <1>2, <3>1 DEF BindingsInv
  <2> QED
    BY <2>1
<1>11. LoginKnows(u)'
  <2>1. ASSUME NEW b \in Accounts \ crossed, Scanned(b)' PROVE b \notin qr[u].previous \ {a}
    <3> SUFFICES ASSUME b \in qr[u].previous, b # a PROVE FALSE
      OBVIOUS
    <3>1. Scanned(b) /\ binding[b].owner # u
      BY <1>7, <2>1
    <3> QED
      BY <1>2, <3>1 DEF BindingsInv, LoginKnows
  <2> QED
    BY <1>2, <1>3, <1>4, <1>5, <2>1 DEF LoginKnows
<1>12. ASSUME NEW v \in Users PROVE LoginKnows(v)'
  BY <1>10, <1>11 DEF LoginKnows
<1> QED
  BY <1>8, <1>9, <1>10, <1>12 DEF BindingsInv

(* The binding raises or is finished: credentials come back, or go.         *)
LEMMA UnbindKeeps ==
    ASSUME BindingsAssumption, BindingsInv, BindingsTypeOK', NEW u \in Users, QrBindRaises(u) \/ QrFinish(u)
    PROVE  BindingsInv'
<1>1. qr \in [Users -> LoginRow] /\ store \in [Accounts -> Users \cup {NoOne}]
  BY DEF BindingsInv, BindingsTypeOK, LoginRow
<1>2. Locks(u) /\ UNCHANGED <<binding, crossed>> /\ (\A v \in Users : v # u => qr'[v] = qr[v])
      /\ qr'[u].pc \in {"none", "open"}
  BY <1>1 DEF QrBindRaises, QrFinish, Locks, NoLogin
<1>3. ASSUME NEW v \in Users PROVE ~Locks(v)'
  <2>1. CASE v = u
    BY <1>2, <2>1 DEF Locks
  <2>2. CASE v # u
    <3>1. ~Locks(v)
      BY <1>2, <2>2 DEF BindingsInv
    <3> QED
      BY <1>2, <2>2, <3>1 DEF Locks
  <2> QED
    BY <2>1, <2>2
<1>4. ASSUME NEW a \in Accounts, Scanned(a), a \notin crossed PROVE store'[a] = binding[a].owner
  <2>0. store[a] = binding[a].owner
    BY <1>4 DEF BindingsInv, Kept
  <2>1. CASE QrBindRaises(u)
    <3>1. qr[u].pc = "saved"
          /\ store'[a] = IF a \in qr[u].previous THEN u ELSE IF a = qr[u].account THEN NoOne ELSE store[a]
      BY <2>1 DEF QrBindRaises, Restored
    <3>2. IF a \in qr[u].previous THEN binding[a].owner = u ELSE a # qr[u].account
      BY <1>2, <1>4, <3>1 DEF BindingsInv, LoginKnows
    <3> QED
      BY <2>0, <3>1, <3>2
  <2>2. CASE QrFinish(u)
    <3>1. qr[u].pc = "bound"
          /\ store'[a] = IF a \in qr[u].previous \ {qr[u].account} THEN NoOne ELSE store[a]
      BY <2>2 DEF QrFinish
    <3>2. a \notin qr[u].previous \ {qr[u].account}
      BY <1>2, <1>4, <3>1 DEF BindingsInv, LoginKnows
    <3> QED
      BY <2>0, <3>1, <3>2
  <2> QED
    BY <2>1, <2>2
<1>5. ASSUME NEW a \in Accounts PROVE Kept(a)'
  BY <1>2, <1>4 DEF Kept, Scanned
<1> QED
  BY <1>2, <1>3, <1>5 DEF BindingsInv, LoginKnows

(* A pairing code binds a destination; a deletion disables one.             *)
LEMMA CodeOrDeleteKeeps ==
    ASSUME BindingsInv, BindingsTypeOK', NEW u \in Users, NEW a \in Accounts,
           ConsumeCode(u, a) \/ Disable(u, a)
    PROVE  BindingsInv'
<1>1. binding \in [Accounts -> BindingRow]
  BY DEF BindingsInv, BindingsTypeOK, BindingRow
<1>2. UNCHANGED <<store, qr, crossed>> /\ (\A b \in Accounts : b # a => binding'[b] = binding[b])
      /\ ~Scanned(a)' /\ (binding'[a].status = "ACTIVE" => binding'[a].owner \in Users)
  BY <1>1 DEF ConsumeCode, Disable, Scanned, BindingRow
<1>3. ASSUME NEW b \in Accounts, Scanned(b)' PROVE Scanned(b) /\ binding'[b] = binding[b]
  BY <1>2, <1>3 DEF Scanned
<1>4. ASSUME NEW b \in Accounts PROVE Kept(b)'
  BY <1>2, <1>3 DEF Kept, BindingsInv
<1>5. ASSUME NEW v \in Users PROVE LoginKnows(v)'
  BY <1>2, <1>3 DEF LoginKnows, Locks, BindingsInv
<1> QED
  BY <1>2, <1>4, <1>5 DEF BindingsInv, Locks

(* revoke() removes a credential: of an active binding it says so.          *)
LEMMA RevokeKeeps ==
    ASSUME BindingsAssumption, BindingsInv, BindingsTypeOK', NEW u \in Users, Revoke(u)
    PROVE  BindingsInv'
<1>1. store \in [Accounts -> Users \cup {NoOne}] /\ revoking \in [Users -> Accounts \cup {NoOne}]
  BY DEF BindingsInv, BindingsTypeOK
<1>2. PICK a : a = revoking[u]
  OBVIOUS
<1>3. a \in Accounts /\ UNCHANGED <<binding, qr>>
  BY <1>1, <1>2 DEF Revoke
<1>4. CASE store[a] = u
  <2>1. /\ \A b \in Accounts : b # a => store'[b] = store[b]
        /\ crossed \subseteq crossed'
        /\ Binding(u, a) \/ binding[a].status = "ACTIVE" => a \in crossed'
    BY <1>1, <1>2, <1>3, <1>4 DEF Revoke
  <2>2. ASSUME NEW b \in Accounts PROVE Kept(b)'
    BY <1>3, <2>1 DEF Kept, Scanned, BindingsInv
  <2>3. ASSUME NEW v \in Users PROVE LoginKnows(v)'
    <3> SUFFICES ASSUME Locks(v) PROVE LoginKnows(v)'
      BY <1>3 DEF LoginKnows, Locks
    <3>1. /\ qr[v].account \in Accounts
          /\ store[qr[v].account] = v \/ qr[v].account \in crossed
      BY DEF BindingsInv, LoginKnows
    <3>2. store'[qr[v].account] = v \/ qr[v].account \in crossed'
      <4>1. CASE qr[v].account # a
        BY <2>1, <3>1, <4>1
      <4>2. CASE qr[v].account = a /\ u = v
        BY <2>1, <4>2 DEF Binding, Locks
      <4>3. CASE qr[v].account = a /\ u # v
        BY <1>4, <2>1, <3>1, <4>3
      <4> QED
        BY <4>1, <4>2, <4>3
    <3> QED
      BY <1>3, <2>1, <3>1, <3>2 DEF LoginKnows, Scanned, Locks, BindingsInv
  <2> QED
    BY <1>3, <2>2, <2>3 DEF BindingsInv, Locks
<1>5. CASE store[a] # u
  <2>1. UNCHANGED <<store, crossed>>
    BY <1>2, <1>5 DEF Revoke
  <2> QED
    BY <1>3, <2>1, RowsStay
<1> QED
  BY <1>4, <1>5

(* Every step of a user, and the death of the process, keeps the bindings.  *)
LEMMA BindingsKept ==
    ASSUME BindingsAssumption, BindingsInv,
           (\E u \in Users : BindingsStep(u)) \/ (BindingsLost /\ (Mishap \/ NoMishap))
           \/ (UNCHANGED bindingVars /\ (Mishap \/ NoMishap))
    PROVE  BindingsInv'
<1>1. ASSUME NEW u \in Users, BindingsStep(u) PROVE BindingsInv'
  <2>0. BindingsTypeOK'
    BY <1>1, BindingsTypes
  <2>1. CASE SetPreference(u) \/ EntitlementChanges(u) \/ CreateCode(u) \/ RevokeRaises(u)
    BY <2>0, <2>1, RowsStay DEF SetPreference, EntitlementChanges, CreateCode, RevokeRaises
  <2>2. CASE QrStart(u) \/ QrEnds(u)
    BY <2>0, <2>2, LoginBeginsOrEnds
  <2>3. CASE QrBind(u)
    BY <2>0, <2>3, BindKeeps
  <2>4. CASE QrBindRaises(u) \/ QrFinish(u)
    BY <2>0, <2>4, UnbindKeeps
  <2>5. CASE Revoke(u)
    BY <2>0, <2>5, RevokeKeeps
  <2>6. ASSUME NEW a \in Accounts, QrSave(u, a) PROVE BindingsInv'
    BY <2>0, <2>6, SaveKeeps
  <2>7. ASSUME NEW a \in Accounts, ConsumeCode(u, a) \/ Disable(u, a) PROVE BindingsInv'
    BY <2>0, <2>7, CodeOrDeleteKeeps
  <2> QED
    BY <1>1, <2>1, <2>2, <2>3, <2>4, <2>5, <2>6, <2>7 DEF BindingsStep
<1>2. CASE BindingsLost /\ (Mishap \/ NoMishap)
  <2>1. mishaps' \in 0..MaxMishaps
    BY <1>2 DEF Mishap, NoMishap, BindingsInv, BindingsTypeOK, BindingsAssumption
  <2>2. BindingsTypeOK'
    BY <1>2, <2>1 DEF BindingsLost, NoLogin, BindingsInv, BindingsTypeOK
  <2>3. \A u \in Users : ~Locks(u)'
    BY <1>2 DEF BindingsLost, NoLogin, Locks
  <2> QED
    BY <1>2, <2>2, <2>3 DEF BindingsLost, BindingsInv, Kept, Scanned, LoginKnows
<1>3. CASE UNCHANGED bindingVars /\ (Mishap \/ NoMishap)
  <2>1. mishaps' \in 0..MaxMishaps
    BY <1>3 DEF Mishap, NoMishap, BindingsInv, BindingsTypeOK, BindingsAssumption
  <2>2. BindingsTypeOK'
    BY <1>3, <2>1 DEF bindingVars, BindingsInv, BindingsTypeOK
  <2> QED
    BY <1>3, <2>2, RowsStay DEF bindingVars
<1> QED
  BY <1>1, <1>2, <1>3

-----------------------------------------------------------------------------
(* The sending.                                                             *)
(* One handler moves.                                                       *)
Becomes(h, row) == handler' = [g \in Handlers |-> IF g = h THEN row ELSE handler[g]]

(* A handler that moves to a sound state leaves all of them sound.          *)
LEMMA MoveKeeps ==
    ASSUME HandlersInv, NEW h \in Handlers, NEW row \in HandlerRow, RowSound(row), Becomes(h, row)
    PROVE  /\ HandlersInv'
           /\ handler'[h] = row
           /\ \A g \in Handlers : g # h => handler'[g] = handler[g]
<1>1. handler'[h] = row /\ \A g \in Handlers : g # h => handler'[g] = handler[g]
  BY DEF Becomes
<1>2. handler' \in [Handlers -> HandlerRow]
  BY DEF Becomes, HandlersInv
<1>3. ASSUME NEW g \in Handlers PROVE RowSound(handler[g])'
  <2>1. CASE g = h
    <3>1. handler'[g] = row
      BY <1>1, <2>1
    <3> QED
      BY <3>1 DEF RowSound
  <2>2. CASE g # h
    <3>1. handler'[g] = handler[g] /\ RowSound(handler[g])
      BY <1>1, <2>2 DEF HandlersInv
    <3> QED
      BY <3>1 DEF RowSound
  <2> QED
    BY <2>1, <2>2
<1> QED
  BY <1>1, <1>2, <1>3 DEF HandlersInv

(* What is in hand can be counted.                                          *)
LEMMA HandsFinite ==
    ASSUME NotificationsAssumption
    PROVE  \A S \in SUBSET Handlers : IsFiniteSet(S) /\ Cardinality(S) \in Nat
BY FS_Subset, FS_CardinalityType DEF NotificationsAssumption

(* ... and so can the messages to a destination.                           *)
LEMMA InHandFinite ==
    ASSUME NotificationsAssumption, NEW a
    PROVE  IsFiniteSet(MessagesInHand(a)) /\ Cardinality(MessagesInHand(a)) \in Nat
<1>1. MessagesInHand(a) \in SUBSET Handlers
  BY DEF MessagesInHand
<1> QED
  BY <1>1, HandsFinite

(* Nobody takes up a message or puts one down.                              *)
HandsStill ==
    \A g \in Handlers :
        /\ handler'[g].at = handler[g].at
        /\ handler[g].at # NoOne => handler'[g].pc = handler[g].pc

SameRights == \A a \in Accounts : Permitted(a)' <=> Permitted(a)

(* ... and a delivery is made, or is over.                                  *)
DeliveriesAdvance ==
    /\ delivery' \in [Accounts -> {"NONE"} \cup Open \cup Ended]
    /\ \A a \in Accounts : \/ delivery'[a] = delivery[a]
                           \/ delivery'[a] \in Ended
                           \/ delivery[a] = "NONE" /\ delivery'[a] = "PENDING"

(* The counters stay right where no message is taken up or put down.       *)
LEMMA StillKeeps ==
    ASSUME NotificationsAssumption, CountsInv, HandlersInv, HandlersInv',
           HandsStill, SameRights, DeliveriesAdvance, UNCHANGED <<sent, lost, grace>>
    PROVE  CountsInv'
<1>1. ASSUME NEW a \in Accounts PROVE Counted(a)' /\ Lent(a)'
  <2>0. a # NoOne
    BY DEF NotificationsAssumption, BindingsAssumption
  <2>1. MessagesInHand(a)' = MessagesInHand(a)
    BY <2>0 DEF MessagesInHand, HandsStill
  <2>2. At(a)' = At(a)
    BY DEF At, HandsStill
  <2>3. Unanswered(a)' = Unanswered(a)
    BY <2>0, <2>2 DEF Unanswered, HandsStill, At
  <2>4. Undelivered(a)' => Undelivered(a)
    BY <2>2, <2>3 DEF Undelivered, DeliveriesAdvance, Ended
  <2>5. Counted(a)'
    BY <2>1, <2>4 DEF Counted, CountsInv
  <2>6. Lent(a)'
    BY <2>1 DEF Lent, CountsInv, SameRights
  <2> QED
    BY <2>5, <2>6
<1> QED
  BY <1>1 DEF CountsInv, CountersOK, DeliveriesAdvance

(* start_delivery puts one message into a hand: if another one has it too,  *)
(* that is a loss.                                                          *)
LEMMA StartKeeps ==
    ASSUME NotificationsAssumption, CountsInv, HandlersInv, HandlersInv', SameRights,
           NEW h \in Handlers, NEW a \in Accounts, handler[h].at = NoOne, handler'[h].at = a,
           handler'[h].pc \in {"send", "unbacked"},
           \A g \in Handlers : g # h => handler'[g] = handler[g],
           Permitted(a), delivery[a] \notin Ended, delivery' = [delivery EXCEPT ![a] = "SENDING"],
           lost' = [lost EXCEPT ![a] = IF \E g \in Handlers : handler[g].at = a THEN @ + 1 ELSE @],
           UNCHANGED <<sent, grace>>
    PROVE  CountsInv'
<1>1. CountersOK'
  BY DEF CountsInv, CountersOK, Open, Ended
<1>2. ASSUME NEW b \in Accounts, b # a PROVE Counted(b)' /\ Lent(b)'
  <2>1. b # NoOne
    BY DEF NotificationsAssumption, BindingsAssumption
  <2>2. At(b)' = At(b) /\ MessagesInHand(b)' = MessagesInHand(b) /\ Unanswered(b)' = Unanswered(b)
    BY <1>2, <2>1 DEF At, MessagesInHand, Unanswered
  <2>3. delivery'[b] = delivery[b] /\ lost'[b] = lost[b]
    BY <1>2 DEF CountsInv, CountersOK
  <2> QED
    BY <2>2, <2>3 DEF CountsInv, Counted, Undelivered, Lent, SameRights
<1>3. Lent(a)'
  BY DEF Lent, CountsInv, SameRights
<1>4. Counted(a)'
  <2>0. a # NoOne
    BY DEF NotificationsAssumption, BindingsAssumption
  <2>1. PICK n, m : n = Cardinality(MessagesInHand(a)) /\ m = Cardinality(MessagesInHand(a)')
    OBVIOUS
  <2>2. n \in Nat /\ m \in Nat /\ m <= n + 1
    <3>1. MessagesInHand(a)' \in SUBSET (MessagesInHand(a) \cup {h})
      BY DEF MessagesInHand
    <3>2. IsFiniteSet(MessagesInHand(a)) /\ n \in Nat
      BY <2>1, InHandFinite
    <3>3. IsFiniteSet(MessagesInHand(a) \cup {h}) /\ Cardinality(MessagesInHand(a) \cup {h}) <= n + 1
      <4>1. PICK S : S = MessagesInHand(a)
        OBVIOUS
      <4>2. IsFiniteSet(S \cup {h}) /\ Cardinality(S \cup {h}) = IF h \in S THEN Cardinality(S) ELSE Cardinality(S) + 1
        BY <3>2, <4>1, FS_AddElement
      <4> QED
        BY <2>1, <3>2, <4>1, <4>2
    <3>4. IsFiniteSet(MessagesInHand(a)') /\ m <= Cardinality(MessagesInHand(a) \cup {h})
      BY <2>1, <3>1, <3>3, FS_Subset
    <3>5. m \in Nat /\ Cardinality(MessagesInHand(a) \cup {h}) \in Nat
      BY <2>1, <3>3, <3>4, FS_CardinalityType
    <3> QED
      BY <3>2, <3>3, <3>4, <3>5
  <2>3. PICK l, s : l = lost[a] /\ s = sent[a]
    OBVIOUS
  <2>4. l \in Nat /\ s \in Nat /\ sent'[a] = s
    BY <2>3 DEF CountsInv, CountersOK
  <2>5. delivery'[a] = "SENDING" /\ h \in At(a)'
    BY DEF At, CountsInv, CountersOK
  <2>6. CASE At(a) = {}
    <3>1. Undelivered(a)
      BY <2>6 DEF Undelivered, CountsInv, CountersOK, Open
    <3>2. n <= l - s
      BY <2>1, <2>3, <3>1 DEF CountsInv, Counted
    <3>3. MessagesInHand(a) = {}
      BY <2>6 DEF MessagesInHand, At
    <3>4. n = 0
      BY <2>1, <3>3, FS_EmptySet
    <3>5. lost'[a] = l
      BY <2>3, <2>6 DEF At, CountsInv, CountersOK
    <3>6. CASE handler'[h].pc = "send"
      <4>1. Unanswered(a)' = {}
        BY <2>0, <2>6, <3>6 DEF Unanswered, At
      <4>2. ~Undelivered(a)'
        BY <2>5, <4>1 DEF Undelivered
      <4> QED
        BY <2>1, <2>2, <2>4, <3>2, <3>4, <3>5, <4>2 DEF Counted
    <3>7. CASE handler'[h].pc = "unbacked"
      <4>1. MessagesInHand(a)' = {}
        BY <2>6, <3>7 DEF MessagesInHand, At
      <4>2. m = 0
        BY <2>1, <4>1, FS_EmptySet
      <4> QED
        BY <2>1, <2>4, <3>2, <3>4, <3>5, <4>2 DEF Counted
    <3> QED
      BY <3>6, <3>7
  <2>7. CASE At(a) # {}
    <3>1. lost'[a] = l + 1
      BY <2>3, <2>7 DEF At, CountsInv, CountersOK
    <3>2. n <= l - s + 1
      BY <2>1, <2>3 DEF CountsInv, Counted
    <3>3. CASE handler'[h].pc = "send"
      <4>1. Unanswered(a)' \subseteq Unanswered(a)
        BY <3>3 DEF Unanswered, At
      <4>2. Undelivered(a)' => Undelivered(a)
        BY <2>5, <4>1 DEF Undelivered
      <4>3. Undelivered(a) => n <= l - s
        BY <2>1, <2>3 DEF CountsInv, Counted
      <4> QED
        BY <2>1, <2>2, <2>4, <3>1, <3>2, <4>2, <4>3 DEF Counted
    <3>4. CASE handler'[h].pc = "unbacked"
      <4>1. MessagesInHand(a)' = MessagesInHand(a)
        BY <2>0, <3>4 DEF MessagesInHand
      <4>2. m = n
        BY <2>1, <4>1
      <4> QED
        BY <2>1, <2>2, <2>4, <3>1, <3>2, <4>2 DEF Counted
    <3> QED
      BY <3>3, <3>4
  <2> QED
    BY <2>6, <2>7
<1> QED
  BY <1>1, <1>2, <1>3, <1>4 DEF CountsInv

(* send_text takes the message out of the hand: it arrives, is refused, or  *)
(* arrives and the answer is lost.                                          *)
LEMMA SendKeeps ==
    ASSUME NotificationsAssumption, CountsInv, HandlersInv, HandlersInv', SameRights,
           NEW h \in Handlers, NEW a \in Accounts, handler[h].at = a, handler[h].pc = "send",
           handler'[h].at = a, \A g \in Handlers : g # h => handler'[g] = handler[g],
           UNCHANGED delivery,
           \/ handler'[h].pc = "sent" /\ Reaches(a) /\ UNCHANGED lost
           \/ handler'[h].pc = "refused" /\ UNCHANGED <<sent, lost, grace>>
           \/ handler'[h].pc = "refused" /\ Reaches(a) /\ lost' = [lost EXCEPT ![a] = @ + 1]
    PROVE  CountsInv'
<1>0. a # NoOne /\ \A b \in Accounts : b # NoOne
  BY DEF NotificationsAssumption, BindingsAssumption
<1>1. CountersOK'
  BY DEF CountsInv, CountersOK, Reaches
<1>2. ASSUME NEW b \in Accounts, b # a PROVE Counted(b)' /\ Lent(b)'
  <2>1. At(b)' = At(b) /\ MessagesInHand(b)' = MessagesInHand(b) /\ Unanswered(b)' = Unanswered(b)
    BY <1>0, <1>2 DEF At, MessagesInHand, Unanswered
  <2>2. lost'[b] = lost[b] /\ sent'[b] = sent[b] /\ grace'[b] = grace[b]
    BY <1>2 DEF CountsInv, CountersOK, Reaches
  <2> QED
    BY <2>1, <2>2 DEF CountsInv, Counted, Undelivered, Lent, SameRights
<1>3. PICK n, m : n = Cardinality(MessagesInHand(a)) /\ m = Cardinality(MessagesInHand(a)')
  OBVIOUS
<1>4. n \in Nat /\ m \in Nat /\ m = n - 1
  <2>1. MessagesInHand(a)' = MessagesInHand(a) \ {h} /\ h \in MessagesInHand(a)
    BY DEF MessagesInHand
  <2>2. PICK S : S = MessagesInHand(a)
    OBVIOUS
  <2>3. IsFiniteSet(S) /\ n \in Nat /\ n = Cardinality(S)
    BY <1>3, <2>2, InHandFinite
  <2>4. IsFiniteSet(S \ {h}) /\ Cardinality(S \ {h}) = n - 1
    BY <2>1, <2>2, <2>3, FS_RemoveElement
  <2>5. Cardinality(S \ {h}) \in Nat
    BY <2>4, FS_CardinalityType
  <2> QED
    BY <1>3, <2>1, <2>2, <2>3, <2>4, <2>5
<1>5. PICK l, s, g : l = lost[a] /\ s = sent[a] /\ g = grace[a]
  OBVIOUS
<1>6. l \in Nat /\ s \in Nat /\ g \in Int /\ n <= l - s + 1 /\ g >= 0 /\ (~Permitted(a) => n <= g)
  BY <1>3, <1>5 DEF CountsInv, CountersOK, Counted, Lent
<1>7. Undelivered(a) => n <= l - s
  BY <1>3, <1>5 DEF CountsInv, Counted
<1>8. At(a)' = At(a) /\ h \in At(a)
  BY DEF At
<1>9. \/ handler'[h].pc = "sent" /\ sent'[a] = s + 1 /\ lost'[a] = l
      \/ handler'[h].pc = "refused" /\ sent'[a] = s /\ lost'[a] = l /\ grace'[a] = g
      \/ handler'[h].pc = "refused" /\ sent'[a] = s + 1 /\ lost'[a] = l + 1
  BY <1>5 DEF CountsInv, CountersOK, Reaches
<1>10. grace'[a] \in {g, IF Permitted(a) THEN g ELSE g - 1}
  BY <1>5 DEF CountsInv, CountersOK, Reaches
<1>11. Lent(a)'
  <2>1. CASE Permitted(a)
    BY <1>6, <1>10, <2>1 DEF Lent, SameRights
  <2>2. CASE ~Permitted(a)
    <3>1. grace'[a] >= n - 1 /\ n - 1 >= 0
      BY <1>4, <1>6, <1>10, <2>2
    <3>2. m <= grace'[a] /\ grace'[a] >= 0
      BY <1>4, <1>6, <1>10, <2>2
    <3> QED
      BY <1>3, <3>2 DEF Lent
  <2> QED
    BY <2>1, <2>2
<1>12. Counted(a)'
  <2>1. CASE handler'[h].pc = "sent"
    <3>1. Unanswered(a)' = Unanswered(a)
      BY <1>8, <2>1 DEF Unanswered, At
    <3>2. Undelivered(a)' => Undelivered(a)
      BY <1>8, <3>1 DEF Undelivered
    <3>3. sent'[a] = s + 1 /\ lost'[a] = l
      BY <1>9, <2>1
    <3> QED
      BY <1>3, <1>4, <1>6, <1>7, <3>2, <3>3 DEF Counted
  <2>2. CASE handler'[h].pc = "refused"
    <3>1. lost'[a] - sent'[a] = l - s
      BY <1>6, <1>9, <2>2
    <3> QED
      BY <1>3, <1>4, <1>6, <3>1 DEF Counted
  <2> QED
    BY <1>9, <2>1, <2>2
<1> QED
  BY <1>1, <1>2, <1>11, <1>12 DEF CountsInv

(* mark_sent, mark_failed, mark_expired.                                    *)
LEMMA MarkKeeps ==
    ASSUME NotificationsAssumption, CountsInv, HandlersInv, HandlersInv', SameRights,
           NEW h \in Handlers, NEW a \in Accounts, handler[h].at = a,
           handler[h].pc \in {"sent", "refused", "unbacked"},
           handler'[h].at = NoOne, \A g \in Handlers : g # h => handler'[g] = handler[g],
           delivery' = [delivery EXCEPT ![a] = Outcome(handler[h].pc)], UNCHANGED <<sent, lost, grace>>
    PROVE  CountsInv'
<1>0. \A b \in Accounts : b # NoOne
  BY DEF NotificationsAssumption, BindingsAssumption
<1>1. \/ Outcome(handler[h].pc) \in Ended
      \/ Outcome(handler[h].pc) = "FAILED" /\ handler[h].pc = "refused"
  BY DEF Outcome, Ended
<1>2. CountersOK'
  BY <1>1 DEF CountsInv, CountersOK, Open
<1>3. ASSUME NEW b \in Accounts PROVE Counted(b)' /\ Lent(b)'
  <2>1. MessagesInHand(b)' = MessagesInHand(b)
    BY <1>0 DEF MessagesInHand
  <2>2. Undelivered(b)' => Undelivered(b)
    <3>1. CASE b # a
      <4>1. At(b)' = At(b) /\ Unanswered(b)' = Unanswered(b) /\ delivery'[b] = delivery[b]
        BY <1>0, <3>1 DEF At, Unanswered, CountsInv, CountersOK
      <4> QED
        BY <4>1 DEF Undelivered
    <3>2. CASE b = a
      <4>1. Unanswered(b)' \subseteq Unanswered(b)
        BY <1>0, <3>2 DEF Unanswered, At
      <4>2. delivery'[b] = Outcome(handler[h].pc)
        BY <3>2 DEF CountsInv, CountersOK
      <4>3. CASE delivery'[b] \in Ended
        BY <4>1, <4>3 DEF Undelivered, Ended
      <4>4. CASE handler[h].pc = "refused"
        <5>1. h \in Unanswered(b)
          BY <3>2, <4>4 DEF Unanswered, At
        <5> QED
          BY <5>1 DEF Undelivered
      <4> QED
        BY <1>1, <4>2, <4>3, <4>4
    <3> QED
      BY <3>1, <3>2
  <2> QED
    BY <2>1, <2>2 DEF CountsInv, Counted, Lent, SameRights
<1> QED
  BY <1>2, <1>3 DEF CountsInv

(* Handlers stop where they are: what may have arrived is counted as lost.  *)
LEMMA StopKeeps ==
    ASSUME NotificationsAssumption, CountsInv, HandlersInv, HandlersInv', SameRights,
           NEW hs \in SUBSET Handlers, Stop(hs), UNCHANGED delivery,
           \A g \in Handlers : handler'[g] = IF g \in hs THEN Idle ELSE handler[g]
    PROVE  CountsInv'
<1>0. \A b \in Accounts : b # NoOne
  BY DEF NotificationsAssumption, BindingsAssumption
<1>1. PICK through \in SUBSET {h \in hs : handler[h].pc = "send"} :
        /\ sent' = [a \in Accounts |-> sent[a] + Cardinality({h \in through : handler[h].at = a})]
        /\ lost' = [a \in Accounts |-> lost[a] + Cardinality({h \in through : handler[h].at = a})
                        + Cardinality({h \in hs : handler[h].pc = "sent" /\ handler[h].at = a})]
        /\ grace' = [a \in Accounts |->
                        IF Permitted(a) THEN grace[a]
                        ELSE grace[a] - Cardinality({h \in through : handler[h].at = a})]
  BY DEF Stop
<1>2. ASSUME NEW a \in Accounts
      PROVE  /\ Counted(a)' /\ Lent(a)'
             /\ sent'[a] \in Nat /\ lost'[a] \in Nat /\ grace'[a] \in Int
  <2>1. PICK M, N, D : /\ M = MessagesInHand(a) /\ N = {h \in through : handler[h].at = a}
                       /\ D = {h \in hs : handler[h].pc = "sent" /\ handler[h].at = a}
    OBVIOUS
  <2>2. M \in SUBSET Handlers /\ N \in SUBSET M /\ D \in SUBSET Handlers
    BY <2>1 DEF MessagesInHand
  <2>3. MessagesInHand(a)' = M \ hs /\ (M \ hs) \in SUBSET (M \ N)
    BY <1>0, <2>1 DEF MessagesInHand, Idle
  <2>4. PICK m, n, d, r : /\ m = Cardinality(M) /\ n = Cardinality(N) /\ d = Cardinality(D)
                          /\ r = Cardinality(M \ hs)
    OBVIOUS
  <2>5. /\ IsFiniteSet(M) /\ IsFiniteSet(N) /\ IsFiniteSet(D) /\ IsFiniteSet(M \ hs)
        /\ m \in Nat /\ n \in Nat /\ d \in Nat /\ r \in Nat
    BY <2>2, <2>4, HandsFinite
  <2>6. n <= m /\ r <= m - n
    <3>1. n <= m
      BY <2>2, <2>4, <2>5, FS_Subset
    <3>2. M \cap N = N
      BY <2>2
    <3>3. IsFiniteSet(M \ N) /\ Cardinality(M \ N) = m - n
      BY <2>4, <2>5, <3>2, FS_Difference
    <3>4. r <= Cardinality(M \ N)
      BY <2>3, <2>4, <3>3, FS_Subset
    <3> QED
      BY <3>1, <3>3, <3>4
  <2>7. PICK l, s, g : l = lost[a] /\ s = sent[a] /\ g = grace[a]
    OBVIOUS
  <2>8. /\ l \in Nat /\ s \in Nat /\ g \in Int /\ m <= l - s + 1 /\ g >= 0
        /\ (~Permitted(a) => m <= g) /\ (Undelivered(a) => m <= l - s)
    BY <2>1, <2>4, <2>7 DEF CountsInv, CountersOK, Counted, Lent
  <2>9. sent'[a] = s + n /\ lost'[a] = l + n + d /\ grace'[a] = IF Permitted(a) THEN g ELSE g - n
    BY <1>1, <2>1, <2>4, <2>7
  <2>10. Cardinality(MessagesInHand(a)') = r
    BY <2>3, <2>4
  <2>11. Lent(a)'
    <3>1. grace'[a] >= 0 /\ (~Permitted(a) => r <= grace'[a])
      BY <2>5, <2>6, <2>8, <2>9
    <3> QED
      BY <2>10, <3>1 DEF Lent, SameRights
  <2>12. lost'[a] - sent'[a] = l - s + d
    BY <2>5, <2>8, <2>9
  <2>13. Undelivered(a)' => r <= l - s + d
    <3>1. CASE Undelivered(a)
      BY <2>5, <2>6, <2>8, <3>1
    <3>2. CASE ~Undelivered(a) /\ Undelivered(a)'
      <4>1. Unanswered(a)' \subseteq Unanswered(a)
        BY <1>0 DEF Unanswered, At, Idle
      <4>2. delivery[a] = "SENDING" /\ At(a)' = {} /\ At(a) # {}
        BY <3>2, <4>1 DEF Undelivered
      <4>3. PICK h \in Handlers : handler[h].at = a
        BY <4>2 DEF At
      <4>4. h \in hs
        BY <4>2, <4>3 DEF At
      <4>5. handler[h].pc \in {"send", "sent"}
        <5>1. handler[h].pc \in Carries
          BY <1>0, <4>3 DEF HandlersInv, RowSound
        <5>2. h \notin Unanswered(a)
          BY <3>2 DEF Undelivered
        <5> QED
          BY <4>3, <5>1, <5>2 DEF Carries, Unanswered, At
      <4>6. M \ hs = {}
        BY <2>3, <4>2 DEF At, MessagesInHand
      <4>7. r = 0
        BY <2>4, <4>6, FS_EmptySet
      <4>8. CASE handler[h].pc = "send"
        <5>1. M # {}
          BY <2>1, <4>3, <4>8 DEF MessagesInHand
        <5>2. m # 0
          BY <2>4, <2>5, <5>1, FS_EmptySet
        <5> QED
          BY <2>5, <2>8, <4>7, <5>2
      <4>9. CASE handler[h].pc = "sent"
        <5>1. D # {}
          BY <2>1, <4>3, <4>4, <4>9
        <5>2. d # 0
          BY <2>4, <2>5, <5>1, FS_EmptySet
        <5> QED
          BY <2>5, <2>8, <4>7, <5>2
      <4> QED
        BY <4>5, <4>8, <4>9
    <3> QED
      BY <3>1, <3>2
  <2>14. r <= l - s + d + 1
    BY <2>5, <2>6, <2>8
  <2>15. Counted(a)'
    BY <2>10, <2>12, <2>13, <2>14 DEF Counted
  <2>16. sent'[a] \in Nat /\ lost'[a] \in Nat /\ grace'[a] \in Int
    BY <2>5, <2>8, <2>9
  <2> QED
    BY <2>11, <2>15, <2>16
<1>3. CountersOK'
  <2>1. /\ sent' = [a \in Accounts |-> sent'[a]] /\ lost' = [a \in Accounts |-> lost'[a]]
        /\ grace' = [a \in Accounts |-> grace'[a]]
    BY <1>1
  <2> QED
    BY <1>2, <2>1 DEF CountsInv, CountersOK
<1> QED
  BY <1>2, <1>3 DEF CountsInv

(* A permission that ends lends what is in hand at that moment.             *)
LEMMA RightsKeep ==
    ASSUME NotificationsAssumption, CountsInv, UNCHANGED <<handler, delivery, sent, lost>>,
           grace' = [a \in Accounts |-> IF Permitted(a) /\ ~Permitted(a)'
                                        THEN Cardinality(MessagesInHand(a)) ELSE grace[a]]
    PROVE  CountsInv'
<1>1. ASSUME NEW a \in Accounts PROVE Counted(a)' /\ Lent(a)' /\ grace'[a] \in Int
  <2>1. /\ MessagesInHand(a)' = MessagesInHand(a) /\ At(a)' = At(a) /\ Unanswered(a)' = Unanswered(a)
        /\ Cardinality(MessagesInHand(a)) \in Nat
    BY InHandFinite DEF MessagesInHand, At, Unanswered
  <2>2. Counted(a)'
    BY <2>1 DEF Counted, CountsInv, Undelivered
  <2>3. grace'[a] = IF Permitted(a) /\ ~Permitted(a)' THEN Cardinality(MessagesInHand(a)) ELSE grace[a]
    OBVIOUS
  <2>4. grace[a] \in Int /\ grace[a] >= 0 /\ (~Permitted(a) => Cardinality(MessagesInHand(a)) <= grace[a])
    BY DEF CountsInv, CountersOK, Lent
  <2>5. Lent(a)'
    BY <2>1, <2>3, <2>4 DEF Lent
  <2> QED
    BY <2>1, <2>2, <2>3, <2>4, <2>5
<1>2. CountersOK'
  BY <1>1 DEF CountsInv, CountersOK
<1> QED
  BY <1>1, <1>2 DEF CountsInv

-----------------------------------------------------------------------------
(* The steps of the handlers, as far as their states, the counters and the  *)
(* types are concerned.                                                     *)
(* Rights are what the bindings and the entitlements say.                   *)
LEMMA RightsStay == UNCHANGED <<binding, access>> => SameRights
BY DEF SameRights, Permitted, PermittedBy

(* A handler that carries no message moves, and carries none afterwards.    *)
LEMMA QuietKeeps ==
    ASSUME NotificationsAssumption, HandlersInv, CountsInv, NEW h \in Handlers, NEW row \in HandlerRow,
           RowSound(row), row.at = NoOne, handler[h].at = NoOne, Becomes(h, row),
           SameRights, DeliveriesAdvance, UNCHANGED <<sent, lost, grace>>
    PROVE  HandlersInv' /\ CountsInv'
<1>1. HandlersInv' /\ handler'[h] = row /\ \A g \in Handlers : g # h => handler'[g] = handler[g]
  BY MoveKeeps
<1>2. HandsStill
  BY <1>1 DEF HandsStill
<1> QED
  BY <1>1, <1>2, StillKeeps

(* Nobody moves.                                                            *)
LEMMA HandlersStay ==
    ASSUME NotificationsAssumption, HandlersInv, CountsInv, UNCHANGED handler,
           SameRights, DeliveriesAdvance, UNCHANGED <<sent, lost, grace>>
    PROVE  HandlersInv' /\ CountsInv'
<1>1. HandlersInv'
  <2>1. \A h \in Handlers : RowSound(handler[h])'
    BY DEF HandlersInv, RowSound
  <2> QED
    BY <2>1 DEF HandlersInv
<1>2. HandsStill
  BY DEF HandsStill
<1> QED
  BY <1>1, <1>2, StillKeeps

(* The handler that does nothing is sound.                                  *)
LEMMA IdleIsSound ==
    ASSUME NotificationsAssumption
    PROVE  Idle \in HandlerRow /\ RowSound(Idle) /\ Idle.at = NoOne
BY DEF Idle, HandlerRow, RowSound, Carries

(* The job's row stays one, however its run ends.                           *)
LEMMA JobRowStays ==
    ASSUME RestOK, NEW h \in Handlers, NEW ok \in BOOLEAN, Ends(h, ok)
    PROVE  sendJob' \in JobRow
BY DEF RestOK, Ends, GivenBack, JobRow

(* claim_next, for this job.                                                *)
LEMMA ClaimCore ==
    ASSUME NotificationsAssumption, CoreInv, NEW h \in Handlers, ClaimBatch(h)
    PROVE  CoreInv'
<1>1. PICK row : row = [Idle EXCEPT !.pc = "begin"]
  OBVIOUS
<1>2. handler[h] = Idle
  BY DEF ClaimBatch, CoreInv, HandlersInv, RowSound
<1>3. row = [pc |-> "begin", todo |-> {}, accounts |-> {}, at |-> NoOne, failed |-> FALSE]
  BY <1>1 DEF Idle
<1>3a. row \in HandlerRow /\ RowSound(row) /\ row.at = NoOne
  BY <1>3 DEF HandlerRow, RowSound, Carries
<1>3b. handler[h].at = NoOne
  BY <1>2 DEF Idle
<1>4. Becomes(h, row)
  BY <1>1, <1>2 DEF ClaimBatch, Becomes, CoreInv, HandlersInv
<1>5. SameRights /\ DeliveriesAdvance /\ UNCHANGED <<sent, lost, grace>>
  BY RightsStay DEF ClaimBatch, SameBatch, bindingVars, DeliveriesAdvance, CoreInv, CountsInv, CountersOK
<1>6. HandlersInv' /\ CountsInv'
  BY <1>3a, <1>3b, <1>4, <1>5, QuietKeeps DEF CoreInv
<1>7. RestOK'
  BY DEF ClaimBatch, SameBatch, CoreInv, RestOK, JobRow, NotificationsAssumption
<1> QED
  BY <1>6, <1>7 DEF CoreInv

(* A handler that carries nothing ends, and the deliveries stay.            *)
LEMMA EndsCore ==
    ASSUME NotificationsAssumption, CoreInv, NEW h \in Handlers, NEW ok \in BOOLEAN, Ends(h, ok),
           handler[h].at = NoOne, SameBatch, UNCHANGED <<delivery, sent, lost, grace>>
    PROVE  CoreInv'
<1>1. Becomes(h, Idle)
  BY DEF Ends, Becomes, CoreInv, HandlersInv
<1>2. SameRights /\ DeliveriesAdvance
  BY RightsStay DEF SameBatch, bindingVars, DeliveriesAdvance, CoreInv, CountsInv, CountersOK
<1>3. HandlersInv' /\ CountsInv'
  BY <1>1, <1>2, IdleIsSound, QuietKeeps DEF CoreInv
<1>4. RestOK'
  BY JobRowStays DEF SameBatch, CoreInv, RestOK
<1> QED
  BY <1>3, <1>4 DEF CoreInv

(* batch_delivery_ids, and the deliveries before the handler.               *)
LEMMA ListCore ==
    ASSUME NotificationsAssumption, CoreInv, NEW h \in Handlers, ListBatch(h)
    PROVE  CoreInv'
<1>1. handler[h] \in HandlerRow /\ handler[h].pc = "begin" /\ handler[h].at = NoOne
  BY DEF ListBatch, CoreInv, HandlersInv, RowSound, Carries
<1>2. CASE Ends(h, TRUE)
  BY <1>1, <1>2, EndsCore DEF ListBatch
<1>3. CASE handler' = [handler EXCEPT ![h].pc = "check", ![h].todo = BatchDeliveries] /\ UNCHANGED sendJob
  <2>1. PICK row : row = [handler[h] EXCEPT !.pc = "check", !.todo = BatchDeliveries]
    OBVIOUS
  <2>2. row \in HandlerRow /\ RowSound(row) /\ row.at = NoOne
    BY <1>1, <2>1 DEF HandlerRow, RowSound, Carries, BatchDeliveries
  <2>3. Becomes(h, row)
    BY <1>3, <2>1 DEF Becomes, CoreInv, HandlersInv
  <2>4. SameRights /\ DeliveriesAdvance /\ UNCHANGED <<sent, lost, grace>>
    BY RightsStay DEF ListBatch, SameBatch, bindingVars, DeliveriesAdvance, CoreInv, CountsInv, CountersOK
  <2>5. HandlersInv' /\ CountsInv'
    BY <1>1, <2>2, <2>3, <2>4, QuietKeeps DEF CoreInv
  <2> QED
    BY <1>3, <2>5 DEF CoreInv, RestOK, ListBatch, SameBatch
<1> QED
  BY <1>2, <1>3 DEF ListBatch

(* The age of the snapshot and the stored accounts.                         *)
LEMMA CheckCore ==
    ASSUME NotificationsAssumption, CoreInv, NEW h \in Handlers, Check(h)
    PROVE  CoreInv'
<1>1. handler[h] \in HandlerRow /\ handler[h].pc = "check" /\ handler[h].at = NoOne
  BY DEF Check, CoreInv, HandlersInv, RowSound, Carries
<1>2. PICK row : row = [handler[h] EXCEPT !.pc = IF stale THEN "expire" ELSE "loop",
                                          !.accounts = {a \in Accounts : store[a] # NoOne}]
  OBVIOUS
<1>3. row \in HandlerRow /\ RowSound(row) /\ row.at = NoOne
  BY <1>1, <1>2 DEF HandlerRow, RowSound, Carries
<1>4. Becomes(h, row)
  BY <1>2 DEF Check, Becomes, CoreInv, HandlersInv
<1>5. SameRights /\ DeliveriesAdvance /\ UNCHANGED <<sent, lost, grace>>
  BY RightsStay DEF Check, SameBatch, bindingVars, DeliveriesAdvance, CoreInv, CountsInv, CountersOK
<1>6. HandlersInv' /\ CountsInv'
  BY <1>1, <1>3, <1>4, <1>5, QuietKeeps DEF CoreInv
<1> QED
  BY <1>6 DEF CoreInv, RestOK, Check, SameBatch

(* One delivery leaves the list of a handler that carries nothing, with its *)
(* end recorded or already there.                                           *)
LEMMA DropCore ==
    ASSUME NotificationsAssumption, CoreInv, NEW h \in Handlers, NEW a \in Accounts,
           handler[h].pc \in {"expire", "loop"}, handler' = [handler EXCEPT ![h].todo = @ \ {a}],
           UNCHANGED delivery \/ \E status \in Ended : Mark(a, status),
           SameBatch, UNCHANGED <<sendJob, sent, lost, grace>>
    PROVE  CoreInv'
<1>1. handler[h] \in HandlerRow /\ handler[h].at = NoOne /\ RowSound(handler[h])
  BY DEF CoreInv, HandlersInv, RowSound, Carries
<1>2. PICK row : row = [handler[h] EXCEPT !.todo = @ \ {a}]
  OBVIOUS
<1>3. row \in HandlerRow /\ RowSound(row) /\ row.at = NoOne
  BY <1>1, <1>2 DEF HandlerRow, RowSound, Carries
<1>4. Becomes(h, row)
  BY <1>2 DEF Becomes, CoreInv, HandlersInv
<1>5. SameRights
  BY RightsStay DEF SameBatch, bindingVars
<1>6. DeliveriesAdvance
  BY DEF Mark, DeliveriesAdvance, CoreInv, CountsInv, CountersOK
<1>7. HandlersInv' /\ CountsInv'
  BY <1>1, <1>3, <1>4, <1>5, <1>6, QuietKeeps DEF CoreInv
<1> QED
  BY <1>7 DEF CoreInv, RestOK, SameBatch

(* mark_expired, for a snapshot that is too old.                            *)
LEMMA ExpireCore ==
    ASSUME NotificationsAssumption, CoreInv, NEW h \in Handlers, NEW a \in Accounts, Expire(h, a)
    PROVE  CoreInv'
BY DropCore DEF Expire, Ended

(* start_delivery.                                                          *)
LEMMA StartCore ==
    ASSUME NotificationsAssumption, CoreInv, NEW h \in Handlers, NEW a \in Accounts, StartDelivery(h, a)
    PROVE  CoreInv'
<1>1. CASE /\ handler' = [handler EXCEPT ![h].todo = @ \ {a}]
           /\ UNCHANGED lost
           /\ UNCHANGED delivery \/ Mark(a, "CANCELLED")
  BY <1>1, DropCore DEF StartDelivery, Ended
<1>2. CASE /\ ~HasEnded(a) /\ StillPermitted(a)
           /\ Mark(a, "SENDING")
           /\ handler' = [handler EXCEPT
                  ![h].pc = IF a \in handler[h].accounts THEN "send" ELSE "unbacked",
                  ![h].at = a, ![h].todo = @ \ {a}]
           /\ lost' = [lost EXCEPT ![a] = IF \E g \in Handlers : handler[g].at = a THEN @ + 1 ELSE @]
  <2>1. handler[h] \in HandlerRow /\ handler[h].at = NoOne /\ handler[h].pc = "loop"
    BY DEF StartDelivery, CoreInv, HandlersInv, RowSound, Carries
  <2>2. PICK row : row = [handler[h] EXCEPT !.pc = IF a \in handler[h].accounts THEN "send" ELSE "unbacked",
                                            !.at = a, !.todo = @ \ {a}]
    OBVIOUS
  <2>3. a # NoOne
    BY DEF NotificationsAssumption, BindingsAssumption
  <2>4. row \in HandlerRow /\ RowSound(row) /\ row.at = a /\ row.pc \in {"send", "unbacked"}
    BY <2>1, <2>2, <2>3 DEF HandlerRow, RowSound, Carries
  <2>5. Becomes(h, row)
    BY <1>2, <2>2 DEF Becomes, CoreInv, HandlersInv
  <2>6. HandlersInv' /\ handler'[h] = row /\ \A g \in Handlers : g # h => handler'[g] = handler[g]
    BY <2>4, <2>5, MoveKeeps DEF CoreInv
  <2>7. SameRights /\ UNCHANGED <<sent, grace>>
    BY RightsStay DEF StartDelivery, SameBatch, bindingVars
  <2>8. Permitted(a) /\ delivery[a] \notin Ended /\ delivery' = [delivery EXCEPT ![a] = "SENDING"]
    BY <1>2 DEF HasEnded, StillPermitted, Mark
  <2>9. CountsInv'
    BY <1>2, <2>1, <2>4, <2>6, <2>7, <2>8, StartKeeps DEF CoreInv
  <2> QED
    BY <2>6, <2>9 DEF CoreInv, RestOK, StartDelivery, SameBatch
<1> QED
  BY <1>1, <1>2 DEF StartDelivery

(* send_text.                                                               *)
LEMMA SendCore ==
    ASSUME NotificationsAssumption, CoreInv, NEW h \in Handlers, Send(h)
    PROVE  CoreInv'
<1>1. PICK a : a = handler[h].at
  OBVIOUS
<1>2. handler[h] \in HandlerRow /\ a \in Accounts /\ handler[h].pc = "send"
  BY <1>1 DEF Send, CoreInv, HandlersInv, HandlerRow, RowSound, Carries
<1>3. PICK pc \in {"sent", "refused"} :
        /\ handler' = [handler EXCEPT ![h].pc = pc]
        /\ \/ pc = "sent" /\ Reaches(a) /\ UNCHANGED lost
           \/ pc = "refused" /\ UNCHANGED <<sent, lost, grace>>
           \/ pc = "refused" /\ Reaches(a) /\ lost' = [lost EXCEPT ![a] = @ + 1]
  BY <1>1 DEF Send
<1>4. PICK row : row = [handler[h] EXCEPT !.pc = pc]
  OBVIOUS
<1>5. a # NoOne
  BY <1>2 DEF NotificationsAssumption, BindingsAssumption
<1>6. row \in HandlerRow /\ RowSound(row) /\ row.at = a /\ row.pc = pc
  BY <1>1, <1>2, <1>4, <1>5 DEF HandlerRow, RowSound, Carries
<1>7. Becomes(h, row)
  BY <1>3, <1>4 DEF Becomes, CoreInv, HandlersInv
<1>8. HandlersInv' /\ handler'[h] = row /\ \A g \in Handlers : g # h => handler'[g] = handler[g]
  BY <1>6, <1>7, MoveKeeps DEF CoreInv
<1>9. SameRights /\ UNCHANGED delivery
  BY RightsStay DEF Send, SameBatch, bindingVars
<1>10. \/ handler'[h].pc = "sent" /\ Reaches(a) /\ UNCHANGED lost
       \/ handler'[h].pc = "refused" /\ UNCHANGED <<sent, lost, grace>>
       \/ handler'[h].pc = "refused" /\ Reaches(a) /\ lost' = [lost EXCEPT ![a] = @ + 1]
  BY <1>3, <1>6, <1>8
<1>11. handler'[h].at = a
  BY <1>6, <1>8
<1>12. CountsInv'
  BY <1>1, <1>2, <1>8, <1>9, <1>10, <1>11, SendKeeps DEF CoreInv
<1> QED
  BY <1>8, <1>12 DEF CoreInv, RestOK, Send, SameBatch

(* mark_sent, mark_failed, mark_expired.                                    *)
LEMMA MarkCore ==
    ASSUME NotificationsAssumption, CoreInv, NEW h \in Handlers, MarkOutcome(h)
    PROVE  CoreInv'
<1>1. PICK a : a = handler[h].at
  OBVIOUS
<1>2. handler[h] \in HandlerRow /\ a \in Accounts /\ handler[h].pc \in {"sent", "refused", "unbacked"}
  BY <1>1 DEF MarkOutcome, CoreInv, HandlersInv, HandlerRow, RowSound, Carries
<1>3. PICK row : row = [handler[h] EXCEPT !.pc = "loop", !.at = NoOne,
                                          !.failed = @ \/ handler[h].pc = "refused"]
  OBVIOUS
<1>4. (handler[h].failed \/ handler[h].pc = "refused") \in BOOLEAN
  OBVIOUS
<1>5. row \in HandlerRow /\ row.pc = "loop" /\ row.at = NoOne
  BY <1>2, <1>3, <1>4 DEF HandlerRow
<1>6. RowSound(row)
  BY <1>5 DEF RowSound, Carries
<1>7. Becomes(h, row)
  BY <1>3 DEF MarkOutcome, Becomes, CoreInv, HandlersInv
<1>8. HandlersInv' /\ handler'[h] = row /\ \A g \in Handlers : g # h => handler'[g] = handler[g]
  BY <1>5, <1>6, <1>7, MoveKeeps DEF CoreInv
<1>9. SameRights
  BY RightsStay DEF MarkOutcome, bindingVars
<1>10. delivery' = [delivery EXCEPT ![a] = Outcome(handler[h].pc)] /\ UNCHANGED <<sent, lost, grace>>
  BY <1>1 DEF MarkOutcome, Mark
<1>11. CountsInv'
  BY <1>1, <1>2, <1>5, <1>8, <1>9, <1>10, MarkKeeps DEF CoreInv
<1>12. RestOK'
  BY <1>1, <1>2 DEF CoreInv, RestOK, MarkOutcome
<1> QED
  BY <1>8, <1>11, <1>12 DEF CoreInv

(* All targets had their turn.                                              *)
LEMMA FinishCore ==
    ASSUME NotificationsAssumption, CoreInv, NEW h \in Handlers, Finish(h)
    PROVE  CoreInv'
<1>1. handler[h].at = NoOne /\ handler[h].failed \in BOOLEAN
  BY DEF Finish, CoreInv, HandlersInv, HandlerRow, RowSound, Carries
<1> QED
  BY <1>1, EndsCore DEF Finish

(* Handlers stop where they are.                                            *)
LEMMA StopCore ==
    ASSUME NotificationsAssumption, HandlersInv, CountsInv, NEW hs \in SUBSET Handlers, Stop(hs),
           handler' = [g \in Handlers |-> IF g \in hs THEN Idle ELSE handler[g]],
           UNCHANGED <<binding, access, delivery>>
    PROVE  HandlersInv' /\ CountsInv'
<1>1. \A g \in Handlers : handler'[g] = IF g \in hs THEN Idle ELSE handler[g]
  OBVIOUS
<1>2. handler' \in [Handlers -> HandlerRow]
  BY IdleIsSound DEF HandlersInv
<1>3. ASSUME NEW g \in Handlers PROVE RowSound(handler[g])'
  <2>1. PICK row : row = handler'[g]
    OBVIOUS
  <2>2. RowSound(row)
    BY <1>1, <2>1, IdleIsSound DEF HandlersInv
  <2> QED
    BY <2>1, <2>2 DEF RowSound
<1>4. HandlersInv'
  BY <1>2, <1>3 DEF HandlersInv
<1> QED
  BY <1>1, <1>4, RightsStay, StopKeeps

(* A transaction of the handler fails.                                      *)
LEMMA RaisesCore ==
    ASSUME NotificationsAssumption, CoreInv, NEW h \in Handlers, SendingRaises(h)
    PROVE  CoreInv'
<1>1. handler' = [g \in Handlers |-> IF g \in {h} THEN Idle ELSE handler[g]]
  BY DEF SendingRaises, Ends, CoreInv, HandlersInv
<1>2. HandlersInv' /\ CountsInv'
  BY <1>1, StopCore DEF SendingRaises, SameBatch, bindingVars, CoreInv
<1>3. sendJob' \in JobRow
  BY JobRowStays DEF SendingRaises, CoreInv
<1> QED
  BY <1>2, <1>3 DEF CoreInv, RestOK, SendingRaises, SameBatch

(* The handler of a lost lease is cancelled.                                *)
LEMMA CancelCore ==
    ASSUME NotificationsAssumption, CoreInv, NEW h \in Handlers, HandlerCancelled(h)
    PROVE  CoreInv'
<1>1. handler' = [g \in Handlers |-> IF g \in {h} THEN Idle ELSE handler[g]]
  BY DEF HandlerCancelled, CoreInv, HandlersInv
<1>2. HandlersInv' /\ CountsInv'
  BY <1>1, StopCore DEF HandlerCancelled, SameBatch, bindingVars, CoreInv
<1> QED
  BY <1>2 DEF CoreInv, RestOK, HandlerCancelled, SameBatch

(* The process dies.                                                        *)
LEMMA CrashCore ==
    ASSUME NotificationsAssumption, CoreInv, Crash
    PROVE  CoreInv'
<1>1. handler' = [g \in Handlers |-> IF g \in Handlers THEN Idle ELSE handler[g]]
  BY DEF Crash
<1>2. HandlersInv' /\ CountsInv'
  BY <1>1, StopCore DEF Crash, BindingsLost, CoreInv
<1>3. sendJob' \in JobRow
  BY DEF Crash, CoreInv, RestOK, JobRow, Reclaimed
<1> QED
  BY <1>2, <1>3 DEF CoreInv, RestOK, Crash

(* The steps that no handler takes.                                         *)
LEMMA OthersCore ==
    ASSUME NotificationsAssumption, CoreInv, BindingsMove \/ Prepare \/ BecomesStale \/ Mute \/ LeaseLost
    PROVE  CoreInv'
<1>1. CASE BindingsMove
  <2>1. grace' = [a \in Accounts |-> IF Permitted(a) /\ ~Permitted(a)'
                                     THEN Cardinality(MessagesInHand(a)) ELSE grace[a]]
    BY <1>1 DEF BindingsMove, Permitted
  <2>2. CountsInv'
    BY <1>1, <2>1, RightsKeep DEF BindingsMove, CoreInv
  <2> QED
    BY <1>1, <2>2 DEF BindingsMove, CoreInv, HandlersInv, RestOK, RowSound
<1>2. CASE Prepare
  <2>1. SameRights
    BY <1>2, RightsStay DEF Prepare, bindingVars
  <2>2. DeliveriesAdvance
    BY <1>2 DEF Prepare, NewDeliveries, DeliveriesAdvance, CoreInv, CountsInv, CountersOK, Open
  <2>3. HandlersInv' /\ CountsInv'
    BY <1>2, <2>1, <2>2, HandlersStay DEF Prepare, CoreInv
  <2>4. RestOK'
    BY <1>2 DEF Prepare, NewDeliveries, CoreInv, RestOK, JobRow, NotificationsAssumption
  <2> QED
    BY <2>3, <2>4 DEF CoreInv
<1>3. CASE BecomesStale \/ Mute \/ LeaseLost
  <2>1. SameRights /\ DeliveriesAdvance /\ UNCHANGED <<handler, sent, lost, grace>>
    BY <1>3, RightsStay DEF BecomesStale, Mute, LeaseLost, SameBatch, bindingVars, DeliveriesAdvance,
                            CoreInv, CountsInv, CountersOK
  <2>2. HandlersInv' /\ CountsInv'
    BY <2>1, HandlersStay DEF CoreInv
  <2>3. RestOK'
    BY <1>3 DEF BecomesStale, Mute, LeaseLost, SameBatch, CoreInv, RestOK, JobRow, Reclaimed, GivenBack
  <2> QED
    BY <2>2, <2>3 DEF CoreInv
<1> QED
  BY <1>1, <1>2, <1>3

-----------------------------------------------------------------------------
(* Who answers for the batch.                                               *)
StayAnswered == \A a \in batch : Answered(a) => Answered(a)'

(* The owner goes on, with every delivery still before it or answered for.  *)
GoesOn(h) ==
    /\ handler'[h].pc # "idle"
    /\ handler'[h].pc # "begin" /\ ~handler'[h].failed =>
          /\ handler[h].pc # "begin" /\ ~handler[h].failed
          /\ StayAnswered
          /\ \A a \in batch : a \in handler[h].todo \/ handler[h].at = a =>
                a \in handler'[h].todo \/ handler'[h].at = a \/ Answered(a)'

(* A step after which the job has the owner it had, or none.                *)
LEMMA AnswersStay ==
    ASSUME JobInv, batch' = batch, muted => muted',
           \A a \in batch : delivery'[a] # "NONE",
           sendJob'.status = "RUNNING" => sendJob'.owner \in Handlers,
           sendJob'.status = "SUCCEEDED" => sendJob.status = "SUCCEEDED" /\ StayAnswered,
           \A h \in Handlers : Owns(h)' => Owns(h) /\ GoesOn(h)
    PROVE  JobInv'
<1>1. ASSUME NEW h \in Handlers PROVE Answers(h)'
  <2>1. CASE ~Owns(h)'
    BY <2>1 DEF Answers
  <2>2. CASE Owns(h)'
    <3>1. Owns(h) /\ GoesOn(h) /\ Answers(h)
      BY <2>2 DEF JobInv
    <3>2. ASSUME handler'[h].pc # "begin", ~handler'[h].failed, NEW a \in batch
          PROVE  Answered(a)' \/ a \in handler'[h].todo \/ handler'[h].at = a
      BY <3>1, <3>2 DEF Answers, GoesOn, StayAnswered
    <3> QED
      BY <3>1, <3>2 DEF Answers, GoesOn
  <2> QED
    BY <2>1, <2>2
<1>2. SuccessAnswersForAll'
  BY DEF JobInv, SuccessAnswersForAll, StayAnswered, Answered
<1> QED
  BY <1>1, <1>2 DEF JobInv

(* A run that ends well has answered for all, or the channel is muted.      *)
LEMMA EndsAnswers ==
    ASSUME RestOK, JobInv, NEW h \in Handlers, NEW ok \in BOOLEAN, Ends(h, ok), handler \in [Handlers -> HandlerRow],
           UNCHANGED <<batch, delivery, muted, late>>,
           ok /\ Owns(h) => muted \/ \A a \in batch : Answered(a)
    PROVE  JobInv'
<1>1. CASE Owns(h)
  <2>1. sendJob'.status # "RUNNING"
    BY <1>1 DEF Ends, GivenBack, RestOK, JobRow
  <2>2. SuccessAnswersForAll'
    BY <1>1 DEF Ends, GivenBack, RestOK, JobRow, SuccessAnswersForAll, Answered
  <2> QED
    BY <2>1, <2>2 DEF JobInv, Answers, Owns
<1>2. CASE ~Owns(h)
  <2>1. sendJob' = sendJob
    BY <1>2 DEF Ends
  <2>2. ASSUME NEW g \in Handlers, Owns(g)' PROVE Owns(g) /\ GoesOn(g)
    <3>1. Owns(g) /\ g # h
      BY <1>2, <2>1, <2>2 DEF Owns
    <3>2. handler'[g] = handler[g]
      BY <3>1 DEF Ends
    <3>3. Answers(g)
      BY DEF JobInv
    <3> QED
      BY <3>1, <3>2, <3>3 DEF GoesOn, StayAnswered, Answers, Answered
  <2> QED
    BY <2>1, <2>2, AnswersStay DEF JobInv, StayAnswered, Answered
<1> QED
  BY <1>1, <1>2

(* One handler moves and the job stays as it is.                            *)
LEMMA OneAnswers ==
    ASSUME JobInv, NEW h \in Handlers, UNCHANGED <<sendJob, batch, muted>>,
           \A g \in Handlers : g # h => handler'[g] = handler[g],
           \A a \in batch : delivery'[a] # "NONE",
           StayAnswered \/ Owns(h), Owns(h) => GoesOn(h)
    PROVE  JobInv'
<1>1. ASSUME NEW g \in Handlers, Owns(g)' PROVE Owns(g) /\ GoesOn(g)
  <2>1. Owns(g) /\ Answers(g)
    BY <1>1 DEF Owns, JobInv
  <2>2. CASE g = h
    BY <2>1, <2>2
  <2>3. CASE g # h
    <3>1. handler'[g] = handler[g] /\ ~Owns(h)
      BY <2>1, <2>3 DEF Owns
    <3> QED
      BY <2>1, <3>1 DEF GoesOn, StayAnswered, Answers
  <2> QED
    BY <2>2, <2>3
<1>2. sendJob.status = "SUCCEEDED" => StayAnswered
  BY DEF Owns
<1> QED
  BY <1>1, <1>2, AnswersStay DEF JobInv

(* claim_next: the new owner has not begun.                                 *)
LEMMA ClaimAnswers ==
    ASSUME NotificationsAssumption, CoreInv, JobInv, NEW h \in Handlers, ClaimBatch(h)
    PROVE  JobInv'
<1>1. handler'[h].pc = "begin" /\ sendJob'.status = "RUNNING" /\ sendJob'.owner = h
  BY DEF ClaimBatch, CoreInv, HandlersInv, HandlerRow
<1>2. ASSUME NEW g \in Handlers PROVE Answers(g)'
  BY <1>1 DEF Answers, Owns
<1> QED
  BY <1>1, <1>2 DEF JobInv, ClaimBatch, SameBatch, SuccessAnswersForAll

(* batch_delivery_ids: what is not before the handler has ended.            *)
LEMMA ListAnswers ==
    ASSUME NotificationsAssumption, CoreInv, JobInv, NEW h \in Handlers, ListBatch(h)
    PROVE  JobInv'
<1>1. \A a \in batch : Answered(a) \/ a \in BatchDeliveries
  BY DEF Answered, BatchDeliveries, JobInv, CoreInv, RestOK, CountsInv, CountersOK
<1>2. handler \in [Handlers -> HandlerRow] /\ RestOK /\ RowSound(handler[h]) /\ handler[h].pc = "begin"
  BY DEF CoreInv, HandlersInv, ListBatch
<1>3. CASE (muted \/ BatchDeliveries = {}) /\ Ends(h, TRUE)
  BY <1>1, <1>2, <1>3, EndsAnswers DEF ListBatch, SameBatch
<1>4. CASE handler' = [handler EXCEPT ![h].pc = "check", ![h].todo = BatchDeliveries] /\ UNCHANGED sendJob
  <2>1. /\ UNCHANGED <<sendJob, batch, muted, delivery, late>>
        /\ \A g \in Handlers : g # h => handler'[g] = handler[g]
        /\ handler'[h].pc = "check" /\ handler'[h].todo = BatchDeliveries
    BY <1>2, <1>4 DEF ListBatch, SameBatch, HandlerRow
  <2>2. ASSUME NEW g \in Handlers PROVE Answers(g)'
    <3>1. CASE g = h
      BY <1>1, <2>1, <3>1 DEF Answers, Answered
    <3>2. CASE g # h
      BY <2>1, <3>2 DEF Answers, Answered, Owns, JobInv
    <3> QED
      BY <3>1, <3>2
  <2> QED
    BY <2>1, <2>2 DEF JobInv, SuccessAnswersForAll
<1> QED
  BY <1>3, <1>4 DEF ListBatch

(* The checks of the handler, the ends and the starts of its deliveries.    *)
LEMMA HandlerAnswers ==
    ASSUME NotificationsAssumption, CoreInv, JobInv, NEW h \in Handlers,
           \/ Check(h) \/ Send(h)
           \/ \E a \in Accounts : Expire(h, a) \/ StartDelivery(h, a)
    PROVE  JobInv'
<1>1. /\ UNCHANGED <<sendJob, batch, muted, late>>
      /\ \A g \in Handlers : g # h => handler'[g] = handler[g]
  BY DEF Check, Send, Expire, StartDelivery, SameBatch, CoreInv, HandlersInv
<1>2. handler[h] \in HandlerRow /\ RowSound(handler[h]) /\ (Owns(h) => Answers(h))
  BY DEF CoreInv, HandlersInv, JobInv
<1>3. CASE Check(h) \/ Send(h)
  <2>1. /\ UNCHANGED delivery
        /\ handler[h].pc # "begin" /\ handler'[h].pc \notin {"idle", "begin"}
        /\ handler'[h].todo = handler[h].todo /\ handler'[h].at = handler[h].at
        /\ handler'[h].failed = handler[h].failed
    BY <1>2, <1>3 DEF Check, Send, CoreInv, HandlersInv, HandlerRow
  <2>2. StayAnswered /\ GoesOn(h)
    BY <1>1, <2>1 DEF StayAnswered, GoesOn, Answered
  <2> QED
    BY <1>1, <2>1, <2>2, OneAnswers DEF JobInv
<1>4. ASSUME NEW a \in Accounts, Expire(h, a) \/ StartDelivery(h, a)
      PROVE  JobInv'
  <2>1. /\ \A b \in batch : b # a => delivery'[b] = delivery[b]
        /\ delivery'[a] \in Ended \cup {"SENDING"}
        /\ delivery[a] \in Ended => delivery'[a] \in Ended
        /\ handler[h].pc # "begin" /\ handler'[h].pc \notin {"idle", "begin"}
        /\ handler'[h].todo = handler[h].todo \ {a}
        /\ handler'[h].failed = handler[h].failed
        /\ handler[h].at = NoOne
        /\ delivery'[a] \in Ended \/ handler'[h].at = a
    <3>1. handler[h].at = NoOne /\ handler[h].pc \in {"expire", "loop"}
      BY <1>2, <1>4 DEF Expire, StartDelivery, RowSound, Carries
    <3>2. CASE Expire(h, a)
      BY <1>2, <3>1, <3>2 DEF Expire, Mark, Ended, CoreInv, HandlersInv, HandlerRow, CountsInv, CountersOK, RestOK
    <3>3. CASE StartDelivery(h, a)
      <4>1. delivery \in [Accounts -> {"NONE"} \cup Open \cup Ended] /\ batch \subseteq Accounts
        BY DEF CoreInv, CountsInv, CountersOK, RestOK
      <4>2. handler \in [Handlers -> HandlerRow]
        BY DEF CoreInv, HandlersInv
      <4>3. CASE /\ handler' = [handler EXCEPT ![h].todo = @ \ {a}]
                 /\ \/ UNCHANGED delivery /\ delivery[a] \in Ended
                    \/ delivery' = [delivery EXCEPT ![a] = "CANCELLED"]
        <5>1. /\ handler'[h].todo = handler[h].todo \ {a} /\ handler'[h].pc = handler[h].pc
              /\ handler'[h].failed = handler[h].failed /\ handler'[h].at = handler[h].at
          BY <4>2, <4>3 DEF HandlerRow
        <5> QED
          BY <3>1, <4>1, <4>3, <5>1 DEF Ended
      <4>4. CASE /\ delivery[a] \notin Ended /\ delivery' = [delivery EXCEPT ![a] = "SENDING"]
                 /\ handler' = [handler EXCEPT
                        ![h].pc = IF a \in handler[h].accounts THEN "send" ELSE "unbacked",
                        ![h].at = a, ![h].todo = @ \ {a}]
        <5>1. /\ handler'[h].todo = handler[h].todo \ {a} /\ handler'[h].pc \in {"send", "unbacked"}
              /\ handler'[h].failed = handler[h].failed /\ handler'[h].at = a
          BY <4>2, <4>4 DEF HandlerRow
        <5> QED
          BY <3>1, <4>1, <4>4, <5>1
      <4> QED
        BY <3>3, <4>3, <4>4 DEF StartDelivery, HasEnded, Mark
    <3> QED
      BY <1>4, <3>1, <3>2, <3>3
  <2>2. StayAnswered
    BY <1>1, <2>1 DEF StayAnswered, Answered
  <2>3. GoesOn(h)
    <3>1. \A b \in batch : b # NoOne
      BY DEF CoreInv, RestOK, NotificationsAssumption, BindingsAssumption
    <3> QED
      BY <1>1, <2>1, <2>2, <3>1 DEF GoesOn, Answered
  <2>4. \A b \in batch : delivery'[b] # "NONE"
    BY <2>1 DEF JobInv, Ended
  <2> QED
    BY <1>1, <2>2, <2>3, <2>4, OneAnswers
<1> QED
  BY <1>3, <1>4

(* mark_sent, mark_failed, mark_expired: a mark of a handler that has lost  *)
(* the job is late, and the owner knows of its failure.                     *)
LEMMA MarkAnswers ==
    ASSUME NotificationsAssumption, CoreInv, JobInv, NEW h \in Handlers, MarkOutcome(h)
    PROVE  JobInv'
<1>1. PICK a : a = handler[h].at
  OBVIOUS
<1>2. handler[h] \in HandlerRow /\ a \in Accounts /\ handler[h].pc \in {"sent", "refused", "unbacked"}
  BY <1>1 DEF MarkOutcome, CoreInv, HandlersInv, HandlerRow, RowSound, Carries
<1>3. /\ UNCHANGED <<sendJob, batch, muted>>
      /\ \A g \in Handlers : g # h => handler'[g] = handler[g]
      /\ handler'[h].pc = "loop" /\ handler'[h].todo = handler[h].todo
      /\ handler'[h].failed = (handler[h].failed \/ handler[h].pc = "refused")
  BY DEF MarkOutcome, CoreInv, HandlersInv, HandlerRow
<1>4. late' = IF Owns(h) THEN late ELSE late \cup {a}
  BY <1>1 DEF MarkOutcome
<1>5. /\ \A b \in batch : b # a => delivery'[b] = delivery[b]
      /\ delivery'[a] = Outcome(handler[h].pc)
  BY <1>1, <1>2 DEF MarkOutcome, Mark, CoreInv, CountsInv, CountersOK, RestOK
<1>6. \A b \in batch : delivery'[b] # "NONE"
  BY <1>2, <1>5 DEF JobInv, Outcome
<1>7. CASE ~Owns(h)
  <2>1. StayAnswered
    BY <1>4, <1>5, <1>7 DEF StayAnswered, Answered
  <2> QED
    BY <1>3, <1>6, <1>7, <2>1, OneAnswers
<1>8. CASE Owns(h)
  <2>1. CASE handler[h].pc = "refused"
    <3>1. GoesOn(h)
      BY <1>3, <2>1 DEF GoesOn
    <3> QED
      BY <1>3, <1>6, <1>8, <3>1, OneAnswers
  <2>2. CASE handler[h].pc # "refused"
    <3>1. delivery'[a] \in Ended
      BY <1>2, <1>5, <2>2 DEF Outcome, Ended
    <3>2. StayAnswered
      BY <1>4, <1>5, <1>8, <3>1 DEF StayAnswered, Answered
    <3>3. GoesOn(h)
      BY <1>1, <1>2, <1>3, <1>4, <1>8, <3>1, <3>2 DEF GoesOn, Answered
    <3> QED
      BY <1>3, <1>6, <3>2, <3>3, OneAnswers
  <2> QED
    BY <2>1, <2>2
<1> QED
  BY <1>7, <1>8

(* The ends of a run.                                                       *)
LEMMA EndAnswers ==
    ASSUME NotificationsAssumption, CoreInv, JobInv, NEW h \in Handlers,
           Finish(h) \/ SendingRaises(h) \/ HandlerCancelled(h)
    PROVE  JobInv'
<1>1. handler \in [Handlers -> HandlerRow] /\ RestOK /\ RowSound(handler[h])
  BY DEF CoreInv, HandlersInv
<1>2. CASE Finish(h)
  <2>1. handler[h].at = NoOne /\ handler[h].failed \in BOOLEAN
    BY <1>1, <1>2 DEF Finish, RowSound, Carries, HandlerRow
  <2>2. ASSUME ~handler[h].failed, Owns(h), NEW a \in batch PROVE Answered(a)
    <3>1. Answers(h) /\ a # NoOne
      BY <1>1 DEF JobInv, RestOK, NotificationsAssumption, BindingsAssumption
    <3> QED
      BY <1>2, <2>1, <2>2, <3>1 DEF Answers, Finish
  <2>3. PICK ok : ok = ~handler[h].failed
    OBVIOUS
  <2>4. ok \in BOOLEAN /\ Ends(h, ok)
    BY <1>2, <2>1, <2>3 DEF Finish
  <2> QED
    BY <1>1, <1>2, <2>2, <2>3, <2>4, EndsAnswers DEF Finish, SameBatch
<1>3. CASE SendingRaises(h)
  BY <1>1, <1>3, EndsAnswers DEF SendingRaises, SameBatch
<1>4. CASE HandlerCancelled(h)
  <2>1. /\ UNCHANGED <<sendJob, batch, muted, late, delivery>> /\ ~Owns(h)
        /\ \A g \in Handlers : g # h => handler'[g] = handler[g]
    BY <1>4 DEF HandlerCancelled, SameBatch
  <2>2. StayAnswered
    BY <2>1 DEF StayAnswered, Answered
  <2> QED
    BY <2>1, <2>2, OneAnswers DEF JobInv
<1> QED
  BY <1>2, <1>3, <1>4

(* The steps that no handler takes.                                         *)
LEMMA OthersAnswer ==
    ASSUME NotificationsAssumption, CoreInv, JobInv,
           BindingsMove \/ Prepare \/ BecomesStale \/ Mute \/ LeaseLost \/ Crash
    PROVE  JobInv'
<1>1. CASE Prepare /\ sendJob.status = "ABSENT"
  <2>1. sendJob'.status = "READY" /\ batch' = NewDeliveries
    BY <1>1 DEF Prepare
  <2>2. \A a \in NewDeliveries : delivery'[a] # "NONE"
    BY <1>1 DEF Prepare, NewDeliveries
  <2> QED
    BY <2>1, <2>2 DEF JobInv, Answers, Owns, SuccessAnswersForAll
<1>2. CASE \/ Prepare /\ sendJob.status # "ABSENT"
           \/ BindingsMove \/ BecomesStale \/ Mute
  <2>1. UNCHANGED <<sendJob, batch, handler, late>> /\ (muted => muted')
    BY <1>2 DEF Prepare, BindingsMove, BecomesStale, Mute
  <2>2. \A a \in batch : delivery'[a] = delivery[a]
    BY <1>2 DEF Prepare, BindingsMove, BecomesStale, Mute, NewDeliveries, JobInv, CoreInv, RestOK
  <2>3. StayAnswered
    BY <2>1, <2>2 DEF StayAnswered, Answered
  <2>4. ASSUME NEW h \in Handlers, Owns(h)' PROVE Owns(h) /\ GoesOn(h)
    <3>1. Owns(h) /\ Answers(h)
      BY <2>1, <2>4 DEF Owns, JobInv
    <3> QED
      BY <2>1, <2>3, <3>1 DEF GoesOn, Answers
  <2> QED
    BY <2>1, <2>2, <2>3, <2>4, AnswersStay DEF JobInv
<1>3. CASE LeaseLost \/ Crash
  <2>1. UNCHANGED <<batch, late, muted, delivery>>
    BY <1>3 DEF LeaseLost, Crash, SameBatch
  <2>2. sendJob'.status # "RUNNING" /\ (sendJob'.status = "SUCCEEDED" => sendJob.status = "SUCCEEDED")
    BY <1>3 DEF LeaseLost, Crash, Reclaimed, GivenBack, CoreInv, RestOK, JobRow
  <2>3. StayAnswered
    BY <2>1 DEF StayAnswered, Answered
  <2> QED
    BY <2>1, <2>2, <2>3, AnswersStay DEF JobInv, Owns
<1> QED
  BY <1>1, <1>2, <1>3

-----------------------------------------------------------------------------
(* Nothing is sent, and nobody is bound, when the system starts.            *)
LEMMA SendingBegins ==
    ASSUME NotificationsAssumption, SendingInit
    PROVE  SendingInv
<1>1. BindingsInv
  BY DEF SendingInit, BindingsInit, BindingsInv, BindingsTypeOK, NoBinding, NoLogin, Locks, LoginKnows,
         Kept, Scanned, NotificationsAssumption, BindingsAssumption
<1>2. HandlersInv
  BY IdleIsSound DEF SendingInit, HandlersInv
<1>3. RestOK
  <2>1. 0 \in 0..SendAttempts
    BY DEF NotificationsAssumption
  <2> QED
    BY <2>1 DEF SendingInit, RestOK, JobRow
<1>4. CountersOK
  BY DEF SendingInit, CountersOK
<1>5. ASSUME NEW a \in Accounts PROVE Counted(a) /\ Lent(a)
  <2>1. MessagesInHand(a) = {}
    BY DEF SendingInit, MessagesInHand, Idle
  <2>2. Cardinality(MessagesInHand(a)) = 0
    BY <2>1, FS_EmptySet
  <2> QED
    BY <2>2 DEF SendingInit, Counted, Lent
<1>6. JobInv
  BY DEF SendingInit, JobInv, Answers, Owns, SuccessAnswersForAll
<1> QED
  BY <1>1, <1>2, <1>3, <1>4, <1>5, <1>6 DEF SendingInv, CoreInv, CountsInv

(* Every step keeps it.                                                     *)
LEMMA SendingGoesOn ==
    ASSUME NotificationsAssumption, SendingInv, [SendingNext]_sendingVars
    PROVE  SendingInv'
<1>1. BindingsInv /\ CoreInv /\ JobInv
  BY DEF SendingInv
<1>2. CASE UNCHANGED sendingVars
  <2>1. BindingsInv'
    BY <1>1, <1>2, BindingsKept DEF sendingVars, NoMishap, NotificationsAssumption
  <2>2. CoreInv'
    <3>1. HandlersInv' /\ RestOK' /\ CountersOK'
      BY <1>1, <1>2 DEF sendingVars, deliveryVars, CoreInv, HandlersInv, RowSound, RestOK, CountsInv, CountersOK
    <3>2. \A a \in Accounts : Counted(a)'
      BY <1>1, <1>2 DEF sendingVars, deliveryVars, CoreInv, CountsInv, Counted, Undelivered, Unanswered, At,
                        MessagesInHand
    <3>3. \A a \in Accounts : Lent(a)'
      BY <1>1, <1>2 DEF sendingVars, deliveryVars, bindingVars, CoreInv, CountsInv, Lent, MessagesInHand,
                        Permitted, PermittedBy
    <3> QED
      BY <3>1, <3>2, <3>3 DEF CoreInv, CountsInv
  <2>3. JobInv'
    BY <1>1, <1>2 DEF sendingVars, deliveryVars, JobInv, Answers, Owns, Answered, SuccessAnswersForAll
  <2> QED
    BY <2>1, <2>2, <2>3 DEF SendingInv
<1>3. CASE SendingNext
  <2>1. BindingsInv'
    <3>1. \/ \E u \in Users : BindingsStep(u)
          \/ BindingsLost /\ (Mishap \/ NoMishap)
          \/ UNCHANGED bindingVars /\ (Mishap \/ NoMishap)
      <4>1. ASSUME NEW h \in Handlers, HandlerStep(h)
            PROVE  UNCHANGED bindingVars /\ (Mishap \/ NoMishap)
        BY <4>1 DEF HandlerStep, ClaimBatch, ListBatch, Check, Send, MarkOutcome, Finish, SendingRaises,
                    HandlerCancelled, Expire, StartDelivery, SameBatch
      <4> QED
        BY <1>3, <4>1 DEF SendingNext, BindingsMove, Prepare, BecomesStale, Mute, LeaseLost, Crash, SameBatch
    <3> QED
      BY <1>1, <3>1, BindingsKept DEF NotificationsAssumption
  <2>2. CoreInv'
    <3>1. CASE BindingsMove \/ Prepare \/ BecomesStale \/ Mute \/ LeaseLost
      BY <1>1, <3>1, OthersCore
    <3>2. CASE Crash
      BY <1>1, <3>2, CrashCore
    <3>3. ASSUME NEW h \in Handlers, HandlerStep(h) PROVE CoreInv'
      BY <1>1, <3>3, ClaimCore, ListCore, CheckCore, SendCore, MarkCore, FinishCore, RaisesCore, CancelCore,
         ExpireCore, StartCore DEF HandlerStep
    <3> QED
      BY <1>3, <3>1, <3>2, <3>3 DEF SendingNext
  <2>3. JobInv'
    <3>1. CASE BindingsMove \/ Prepare \/ BecomesStale \/ Mute \/ LeaseLost \/ Crash
      BY <1>1, <3>1, OthersAnswer
    <3>2. ASSUME NEW h \in Handlers, HandlerStep(h) PROVE JobInv'
      <4>1. \/ ClaimBatch(h) \/ ListBatch(h)
            \/ Check(h) \/ Send(h) \/ \E a \in Accounts : Expire(h, a) \/ StartDelivery(h, a)
            \/ MarkOutcome(h)
            \/ Finish(h) \/ SendingRaises(h) \/ HandlerCancelled(h)
        BY <3>2 DEF HandlerStep
      <4> QED
        BY <1>1, <4>1, ClaimAnswers, ListAnswers, HandlerAnswers, MarkAnswers, EndAnswers
    <3> QED
      BY <1>3, <3>1, <3>2 DEF SendingNext
  <2> QED
    BY <2>1, <2>2, <2>3 DEF SendingInv
<1> QED
  BY <1>2, <1>3

(* What the invariant says of the deliveries and the bindings.              *)
LEMMA InvIsSound ==
    ASSUME NotificationsAssumption, SendingInv
    PROVE  SendingIsSound
<1>1. FailedLoginStrandsNobody
  BY DEF SendingInv, BindingsInv, Kept, Scanned, FailedLoginStrandsNobody
<1>2. SentOncePerLoss
  <2>1. ASSUME NEW a \in Accounts PROVE sent[a] <= 1 + lost[a]
    <3>1. PICK n : n = Cardinality(MessagesInHand(a))
      OBVIOUS
    <3>2. n \in Nat /\ n <= lost[a] - sent[a] + 1 /\ sent[a] \in Nat /\ lost[a] \in Nat
      BY <3>1, InHandFinite DEF SendingInv, CoreInv, CountsInv, CountersOK, Counted
    <3> QED
      BY <3>2
  <2> QED
    BY <2>1 DEF SentOncePerLoss
<1>3. RevokedIsNotSent
  BY DEF RevokedIsNotSent, SendingInv, CoreInv, CountsInv, Lent
<1>4. SendingTypeOK
  BY DEF SendingTypeOK, SendingInv, BindingsInv, CoreInv, HandlersInv, HandlerRow, CountsInv, CountersOK, RestOK, JobRow
<1> QED
  BY <1>1, <1>2, <1>3, <1>4 DEF SendingIsSound, SendingInv, JobInv

(* A destination gets a batch once, and once more for each answer that was  *)
(* lost; a revoked one gets what was in hand; a job that succeeds has       *)
(* answered for its batch; a login that fails leaves every binding with the *)
(* credential it was bound with (UserScopedWeChatClawBotService,            *)
(* NotificationCenterService, WeChatQrLoginManager).                        *)
THEOREM SendingAlwaysSound ==
    ASSUME NotificationsAssumption
    PROVE  SendingSpec => []SendingIsSound
<1>1. SendingInit => SendingInv
  BY SendingBegins
<1>2. SendingInv /\ [SendingNext]_sendingVars => SendingInv'
  BY SendingGoesOn
<1>3. SendingInv => SendingIsSound
  BY InvIsSound
<1> QED
  BY <1>1, <1>2, <1>3, PTL DEF SendingSpec

-----------------------------------------------------------------------------
(* The QQ inbox.  Events are in order, and the newest order of a group is   *)
(* in the buffer as long as an older one is.                                *)
InOrder(S) == \A x, y \in S : (x.id < y.id <=> x.n < y.n) /\ (x.n = y.n => x = y)

Recognised(x) ==
    /\ x.id \in 1..arrived
    /\ x.says \in Orders => x.id <= word[x.group].id
    /\ \A g \in Groups : x.id = word[g].id => x.group = g /\ x.says = word[g].says

BufferSound ==
    /\ \A x \in buffer : x.n \in 1..eventCursor /\ Recognised(x)
    /\ InOrder(buffer)
    /\ \A x \in buffer, g \in Groups : x.id < word[g].id => \E y \in buffer : y.id = word[g].id
    /\ \A g \in Groups : word[g].id <= arrived
    /\ \A b \in Bots : b \notin behind => cursor[b] <= eventCursor

(* A batch that no restart has overtaken, and that starts where nothing was *)
(* passed over, may move the cursor of its bot.                             *)
Reading == poll.pc \in {"answered", "replying"}
Starts == poll.bot \notin behind \/ poll.base = 0
Trusted == Reading /\ ~poll.old /\ Starts

PollSound ==
    /\ poll.pc # "idle" => poll.bot \in Bots
    /\ poll.pc \in {"idle", "asked"} => poll.todo = {}
    /\ \A x \in poll.todo : Recognised(x) /\ BotFor(x) = poll.bot /\ poll.base < x.n /\ x.n <= poll.upto
    /\ InOrder(poll.todo)
    /\ poll.pc # "idle" /\ poll.bot \notin behind => cursor[poll.bot] <= poll.base
    /\ poll.pc = "asked" /\ poll.bot \notin behind => poll.base <= eventCursor
    /\ Reading => poll.base <= poll.upto
    /\ Reading /\ ~poll.old => poll.upto <= eventCursor
    /\ poll.pc = "replying" =>
          \A x \in poll.todo : IsFirst(x) =>
              contact[x.group].wants = (IF x.says \in Orders THEN x.says = "on" ELSE poll.was)

HandledSound ==
    /\ NothingSkipped
    /\ poll.pc = "asked" /\ poll.bot \notin behind =>
          \A x \in buffer : BotFor(x) = poll.bot /\ x.n <= poll.base => x.id \in handled
    /\ Trusted =>
          \A x \in buffer : BotFor(x) = poll.bot /\ x.n <= poll.upto => x \in poll.todo \/ x.id \in handled

(* What becomes of the newest order of a group.                             *)
Settled(g) ==
    \/ word[g].id = 0
    \/ contact[g].wants = (word[g].says = "on")
    \/ word[g].id \in dropped \cup undone

OrderIsAsked(g) == \E x \in buffer : x.id = word[g].id /\ poll.base < x.n
OrderIsToCome(g) == \E x \in buffer : x.id = word[g].id /\ (x \in poll.todo \/ poll.upto < x.n)

(* An older order in the batch is followed by the newest one.               *)
Followed(x) ==
    LET w == word[x.group].id
    IN  x.says \in Orders /\ x.id < w =>
            \/ w \in dropped
            \/ \E y \in buffer : y.id = w /\ AtStake(y) /\ (y \in poll.todo \/ poll.upto < y.n \/ poll.old)

WordSound ==
    /\ \A g \in Groups : Settled(g) \/ Waits(g)
    /\ poll.pc = "asked" /\ Starts =>
          \A g \in Groups : BotOf[g] = poll.bot => Settled(g) \/ OrderIsAsked(g)
    /\ Trusted => \A g \in Groups : BotOf[g] = poll.bot => Settled(g) \/ OrderIsToCome(g)
    /\ \A x \in poll.todo : Followed(x)

InboxInv == InboxTypeOK /\ BufferSound /\ PollSound /\ HandledSound /\ WordSound

-----------------------------------------------------------------------------
(* The QQ sending.  A handler that waits for a call waits for one of its    *)
(* targets; what it has behind it reached its target.                       *)
RowOK(h) ==
    /\ sender[h].call # Unset =>
          /\ sender[h].pc = "loop"
          /\ call[sender[h].call].pc # "free"
          /\ call[sender[h].call].target \in sender[h].todo
    /\ sender[h].pc \in {"check", "loop"} => Configured \subseteq sender[h].due
    /\ sender[h].pc = "check" => sender[h].todo = sender[h].due
    /\ sender[h].pc = "loop" /\ ~sender[h].failed =>
          \A g \in sender[h].due \ sender[h].todo : reached[g] >= 1

CallsSound ==
    /\ \A k \in Calls : call[k].pc # "free" => call[k].target \in Groups
    /\ \A k \in Calls : call[k].pc = "sent" => reached[call[k].target] >= 1
    /\ \A g \in Groups : outbox[g] # "nothing" => reached[g] >= 1

OncePerTarget(g) ==
    g \notin risked =>
        /\ reached[g] <= 1
        /\ \A k, l \in OpenFor(g) : k = l
        /\ \A k \in OpenFor(g) : call[k].pc = "unsent" => reached[g] = 0
        /\ outbox[g] = "nothing" /\ (\A k \in OpenFor(g) : call[k].pc = "unsent") => reached[g] = 0

OutgoingInv ==
    /\ OutgoingTypeOK
    /\ CallsSound
    /\ \A h \in Senders : RowOK(h)
    /\ \A g \in Groups : OncePerTarget(g)
    /\ SuccessReachesAll

QqInv == InboxInv /\ OutgoingInv

-----------------------------------------------------------------------------
(* A step of the inbox, with a restart of the bridge.                       *)
InboxMove == InboxStep \/ BridgeRestarts

LEMMA LostIds ==
    ASSUME InboxTypeOK, NEW gone \in SUBSET buffer, Loses(gone)
    PROVE  dropped' \in SUBSET Nat /\ dropped \subseteq dropped'
<1>1. \A x \in gone : x.id \in Nat
  BY DEF InboxTypeOK, Message
<1> DEFINE ids == {x.id : x \in {y \in gone : AtStake(y)}}
<1>2. ids \subseteq Nat
  BY <1>1
<1>3. dropped' = dropped \cup ids
  BY DEF Loses
<1> HIDE DEF ids
<1> QED
  BY <1>2, <1>3 DEF InboxTypeOK

LEMMA InboxTypes ==
    ASSUME InboxAssumption, InboxInv, InboxMove
    PROVE  InboxTypeOK'
PROOF
<1> DEFINE PollRow == [pc: {"idle", "asked", "answered", "replying"}, bot: Bots \cup {Unset},
                       base: Nat, upto: Nat, todo: SUBSET Message, was: BOOLEAN, old: BOOLEAN]
           ScanRow == [pc: {"none", "open", "saved"}, bot: Bots \cup {Unset}, previous: SUBSET Bots]
<1>0. RestingPoll \in PollRow /\ NoScan \in ScanRow
  BY DEF RestingPoll, NoScan
<1>1. ASSUME NEW g \in Groups, NEW says \in Texts, NEW named \in BOOLEAN, Arrive(g, says, named)
      PROVE  InboxTypeOK'
  <2> DEFINE new == [id |-> arrived + 1, n |-> eventCursor + 1, group |-> g, says |-> says, named |-> named]
  <2>1. new \in Message /\ arrived' \in Nat /\ eventCursor' \in Nat
    BY <1>1 DEF Arrive, Message, InboxInv, InboxTypeOK
  <2>2. Shifted \in SUBSET buffer
    BY DEF Shifted
  <2>3. buffer' \in SUBSET Message
    BY <1>1, <2>1 DEF Arrive, InboxInv, InboxTypeOK
  <2>4. dropped' \in SUBSET Nat
    BY <1>1, <2>2, LostIds DEF Arrive, InboxInv
  <2>5. word' \in [Groups -> [id: Nat, says: Orders]]
    BY <1>1 DEF Arrive, InboxInv, InboxTypeOK
  <2> QED
    BY <1>1, <2>1, <2>3, <2>4, <2>5 DEF Arrive, InboxInv, InboxTypeOK
<1>2. CASE NextRound
  BY <1>2 DEF NextRound, InboxInv, InboxTypeOK, bridgeVars
<1>3. ASSUME NEW b \in Bots, Ask(b)
      PROVE  InboxTypeOK'
  BY <1>3 DEF Ask, RestingPoll, InboxInv, InboxTypeOK, bridgeVars
<1>4. CASE Answer
  BY <1>4 DEF Answer, ReadFor, InboxInv, InboxTypeOK, bridgeVars
<1>5. ASSUME NEW x \in poll.todo, TakeEffect(x) \/ Ignore(x) \/ Reply(x)
      PROVE  InboxTypeOK'
  <2>1. x \in Message
    BY DEF InboxInv, InboxTypeOK
  <2>2. poll' \in PollRow
    <3>1. contact[x.group].wants \in BOOLEAN /\ poll \in PollRow
      BY <2>1 DEF InboxInv, InboxTypeOK, Message
    <3>2. CASE TakeEffect(x)
      BY <3>1, <3>2 DEF TakeEffect
    <3>3. CASE Ignore(x)
      BY <3>1, <3>3 DEF Ignore
    <3>4. CASE Reply(x)
      BY <3>1, <3>4 DEF Reply
    <3> QED
      BY <1>5, <3>2, <3>3, <3>4
  <2>3. contact' \in [Groups -> [wants: BOOLEAN, label: BOOLEAN]]
    <3>1. x.group \in Groups /\ poll.was \in BOOLEAN /\ contact[x.group] \in [wants: BOOLEAN, label: BOOLEAN]
      BY <2>1 DEF InboxInv, InboxTypeOK, Message
    <3>2. Labelled(x) \in [wants: BOOLEAN, label: BOOLEAN]
      BY <3>1 DEF Labelled
    <3>3. CASE TakeEffect(x)
      <4>1. (x.says = "on") \in BOOLEAN
        OBVIOUS
      <4> QED
        BY <3>1, <3>3, <4>1 DEF TakeEffect, InboxInv, InboxTypeOK
    <3>4. CASE Ignore(x)
      BY <3>4 DEF Ignore, InboxInv, InboxTypeOK
    <3>5. CASE Reply(x)
      BY <3>1, <3>2, <3>5 DEF Reply, InboxInv, InboxTypeOK
    <3> QED
      BY <1>5, <3>3, <3>4, <3>5
  <2>4. handled' \in SUBSET Nat /\ undone' \in SUBSET Nat
    <3>1. x.id \in Nat
      BY <2>1 DEF Message
    <3> QED
      BY <1>5, <3>1 DEF TakeEffect, Ignore, Reply, InboxInv, InboxTypeOK
  <2> QED
    BY <1>5, <2>2, <2>3, <2>4 DEF TakeEffect, Ignore, Reply, InboxInv, InboxTypeOK, bridgeVars
<1>6. CASE SaveCursor \/ PollFails \/ ServiceRestarts
  <2>1. CASE SaveCursor
    <3>1. poll.bot \in Bots /\ poll.upto \in Nat
      BY <2>1 DEF SaveCursor, InboxInv, InboxTypeOK, PollSound
    <3>2. cursor' \in [Bots -> Nat] /\ behind' \in SUBSET Bots
      BY <2>1, <3>1 DEF SaveCursor, InboxInv, InboxTypeOK
    <3> QED
      BY <1>0, <2>1, <3>2 DEF SaveCursor, InboxInv, InboxTypeOK, bridgeVars
  <2>2. CASE PollFails
    BY <1>0, <2>2 DEF PollFails, QqMishap, InboxInv, InboxTypeOK, bridgeVars
  <2>3. CASE ServiceRestarts
    BY <1>0, <2>3 DEF ServiceRestarts, QqMishap, InboxInv, InboxTypeOK, InboxAssumption, bridgeVars
  <2> QED
    BY <1>6, <2>1, <2>2, <2>3
<1>7. CASE ScanStarts \/ ScanEnds \/ ScanBinds \/ ScanBindRaises
  BY <1>0, <1>7 DEF ScanStarts, ScanEnds, ScanBinds, ScanBindRaises, NoScan, WithoutCursors, QqMishap,
     InboxInv, InboxTypeOK, inboundVars, bridgeVars
<1>8. ASSUME NEW b \in Bots, ScanSaves(b) \/ RevokeBot(b)
      PROVE  InboxTypeOK'
  <2>1. scan' \in ScanRow
    BY <1>8 DEF ScanSaves, RevokeBot, UserBots, InboxInv, InboxTypeOK
  <2>2. listed' \in SUBSET Bots /\ cursor' \in [Bots -> Nat]
    BY <1>8 DEF ScanSaves, RevokeBot, WithoutCursors, InboxInv, InboxTypeOK
  <2> QED
    BY <1>8, <2>1, <2>2 DEF ScanSaves, RevokeBot, InboxInv, InboxTypeOK, inboundVars, bridgeVars
<1>9. CASE BridgeRestarts
  <2>1. dropped' \in SUBSET Nat
    BY <1>9, LostIds DEF BridgeRestarts, InboxInv
  <2>2. StoredCursors \subseteq Nat
    BY DEF StoredCursors, InboxInv, InboxTypeOK
  <2>3. eventCursor' \in Nat
    BY <1>9, <2>2 DEF BridgeRestarts
  <2>4. poll' \in PollRow
    <3>1. poll \in PollRow /\ poll.old \in BOOLEAN /\ poll.upto \in Nat
      BY DEF InboxInv, InboxTypeOK
    <3>2. PICK c \in StoredCursors : poll' = IF poll.pc \in {"idle", "asked"} THEN RestingPoll
                                            ELSE [poll EXCEPT !.old = poll.old \/ c < poll.upto]
      BY <1>9 DEF BridgeRestarts
    <3> QED
      BY <1>0, <2>2, <3>1, <3>2
  <2> QED
    BY <1>9, <2>1, <2>3, <2>4 DEF BridgeRestarts, QqMishap, InboxInv, InboxTypeOK
<1> QED
  BY <1>1, <1>2, <1>3, <1>4, <1>5, <1>6, <1>7, <1>8, <1>9 DEF InboxMove, InboxStep

-----------------------------------------------------------------------------
(* What a step that leaves the cursors and `behind` alone has at stake.     *)
LEMMA SameStake ==
    ASSUME UNCHANGED <<cursor, behind>>, NEW x
    PROVE  AtStake(x)' <=> AtStake(x)
BY DEF AtStake, Unread, BotFor

LEMMA LostAreDropped ==
    ASSUME NEW gone, Loses(gone), NEW x \in gone, AtStake(x)
    PROVE  x.id \in dropped'
BY DEF Loses

(* The numbers of the messages in the buffer and in the batch.              *)
LEMMA Numbers ==
    ASSUME InboxInv
    PROVE  /\ \A x \in buffer \cup poll.todo :
                 /\ x \in Message /\ x.id \in Nat /\ x.n \in Nat /\ x.group \in Groups /\ x.says \in Texts
                 /\ x.id \in 1..arrived /\ BotFor(x) = BotOf[x.group]
           /\ \A x \in buffer : 1 <= x.n /\ x.n <= eventCursor
           /\ \A g \in Groups : word[g].id \in Nat /\ word[g].says \in Orders /\ word[g].id <= arrived
           /\ eventCursor \in Nat /\ arrived \in Nat /\ poll.base \in Nat /\ poll.upto \in Nat
           /\ \A b \in Bots : cursor[b] \in Nat
<1>1. \A x \in buffer \cup poll.todo : x \in Message /\ Recognised(x)
  BY DEF InboxInv, InboxTypeOK, BufferSound, PollSound
<1>2. \A x \in Message : x.id \in Nat /\ x.n \in Nat /\ x.group \in Groups /\ x.says \in Texts
  BY DEF Message
<1>3. \A x \in buffer : x.n \in 1..eventCursor
  BY DEF InboxInv, BufferSound
<1>4. \A g \in Groups : word[g].id \in Nat /\ word[g].says \in Orders /\ word[g].id <= arrived
  BY DEF InboxInv, InboxTypeOK, BufferSound
<1>5. eventCursor \in Nat /\ arrived \in Nat /\ poll.base \in Nat /\ poll.upto \in Nat
      /\ \A b \in Bots : cursor[b] \in Nat
  BY DEF InboxInv, InboxTypeOK
<1> QED
  BY <1>1, <1>2, <1>3, <1>4, <1>5 DEF Recognised, BotFor

LEMMA ArriveKeeps ==
    ASSUME InboxAssumption, InboxInv, InboxTypeOK',
           NEW g \in Groups, NEW says \in Texts, NEW named \in BOOLEAN, Arrive(g, says, named)
    PROVE  InboxInv'
PROOF
<1> DEFINE stay == buffer \ Shifted
<1>1. PICK new : /\ new.id = arrived + 1 /\ new.n = eventCursor + 1 /\ new.group = g /\ new.says = says
                 /\ BotFor(new) = BotOf[g]
                 /\ buffer' = stay \cup {new}
  BY DEF BotFor, Arrive
<1>2. /\ buffer' = stay \cup {new} /\ arrived' = arrived + 1 /\ eventCursor' = eventCursor + 1
      /\ UNCHANGED <<cursor, poll, contact, handled, behind, undone>>
      /\ Loses(Shifted) /\ Shifted \subseteq buffer
  BY <1>1 DEF Arrive, Shifted
<1>3. \A h \in Groups : \/ word'[h] = word[h] /\ (h = g => says \notin Orders)
                        \/ h = g /\ says \in Orders /\ word'[h] = [id |-> arrived + 1, says |-> says]
  BY DEF Arrive, InboxInv, InboxTypeOK
<1>4. \A x \in Shifted, y \in stay : x.n < y.n /\ x.id < y.id
  <2> SUFFICES ASSUME NEW x \in Shifted, NEW y \in stay
               PROVE  x.n < y.n /\ x.id < y.id
    OBVIOUS
  <2>1. x.n <= y.n /\ x # y /\ x \in buffer /\ y \in buffer
    BY DEF Shifted
  <2>2. (x.n = y.n => x = y) /\ (x.id < y.id <=> x.n < y.n)
    BY <2>1 DEF InboxInv, BufferSound, InOrder
  <2> QED
    BY <2>1, <2>2, Numbers
<1>5. \A x \in buffer \cup poll.todo : Recognised(x)'
  <2> SUFFICES ASSUME NEW x \in buffer \cup poll.todo
               PROVE  Recognised(x)'
    OBVIOUS
  <2>1. Recognised(x)
    BY DEF InboxInv, BufferSound, PollSound
  <2> QED
    BY <1>2, <1>3, <2>1, Numbers DEF Recognised
<1>6. Recognised(new)'
  BY <1>1, <1>2, <1>3, Numbers DEF Recognised
<1>7. AtStake(new)
  BY <1>1, Numbers DEF AtStake, Unread, InboxInv, BufferSound, InboxAssumption
<1>8. \A x \in Shifted : AtStake(x) => x.id \in dropped'
  BY <1>2, LostAreDropped
<1>9. dropped \subseteq dropped'
  BY <1>2, LostIds DEF InboxInv
<1>10. \A x : AtStake(x)' <=> AtStake(x)
  BY <1>2, SameStake
<1>11. BufferSound'
  <2>1. \A x \in buffer' : x.n \in 1..eventCursor' /\ Recognised(x)'
    BY <1>1, <1>2, <1>5, <1>6, Numbers
  <2>2. InOrder(buffer)'
    <3>1. InOrder(buffer)
      BY DEF InboxInv, BufferSound
    <3>2. \A x \in buffer : x.id < new.id /\ x.n < new.n
      BY <1>1, Numbers
    <3> QED
      BY <1>1, <1>2, <3>1, <3>2, Numbers DEF InOrder
  <2>3. ASSUME NEW x \in buffer', NEW h \in Groups, x.id < word'[h].id
        PROVE  \E y \in buffer' : y.id = word'[h].id
    <3>1. CASE word'[h].id = arrived + 1
      BY <1>1, <1>2, <3>1
    <3>2. CASE word'[h] = word[h]
      <4>1. x \in stay
        BY <1>1, <1>2, <2>3, <3>2, Numbers
      <4>2. PICK y \in buffer : y.id = word[h].id
        BY <2>3, <3>2, <4>1 DEF InboxInv, BufferSound
      <4>3. y \notin Shifted
        BY <1>4, <2>3, <3>2, <4>1, <4>2, Numbers
      <4> QED
        BY <1>2, <3>2, <4>2, <4>3
    <3> QED
      BY <1>3, <3>1, <3>2
  <2>4. \A h \in Groups : word'[h].id <= arrived'
    BY <1>2, <1>3, Numbers
  <2>5. \A b \in Bots : b \notin behind' => cursor'[b] <= eventCursor'
    BY <1>2, Numbers DEF InboxInv, BufferSound
  <2> QED
    BY <2>1, <2>2, <2>3, <2>4, <2>5 DEF BufferSound
<1>12. PollSound'
  <2>1. PollSound
    BY DEF InboxInv
  <2> QED
    BY <1>2, <1>5, <2>1, Numbers DEF PollSound, InOrder, IsFirst, Reading, BotFor
<1>13. HandledSound'
  <2>1. HandledSound /\ PollSound /\ BufferSound
    BY DEF InboxInv
  <2>2. NothingSkipped'
    BY <1>2, <1>7, <1>10, <2>1 DEF HandledSound, NothingSkipped
  <2>3. poll.pc = "asked" /\ poll.bot \notin behind => poll.base < new.n
    BY <1>1, <2>1, Numbers DEF PollSound
  <2>4. Trusted => poll.upto < new.n
    BY <1>1, <2>1, Numbers DEF PollSound, Trusted
  <2>5. Trusted' <=> Trusted
    BY <1>2 DEF Trusted, Reading, Starts
  <2>6. poll.pc = "asked" /\ poll.bot \notin behind =>
          \A x \in buffer' : BotFor(x)' = poll.bot /\ x.n <= poll.base => x.id \in handled
    BY <1>1, <1>2, <2>1, <2>3, Numbers DEF HandledSound, BotFor
  <2>7. Trusted =>
          \A x \in buffer' : BotFor(x)' = poll.bot /\ x.n <= poll.upto => x \in poll.todo \/ x.id \in handled
    BY <1>1, <1>2, <2>1, <2>4, Numbers DEF HandledSound, BotFor
  <2> QED
    BY <1>2, <2>2, <2>5, <2>6, <2>7 DEF HandledSound
<1>14. WordSound'
  <2>1. WordSound /\ PollSound
    BY DEF InboxInv
  <2>2. ASSUME NEW h \in Groups, word'[h] = word[h]
        PROVE  Settled(h) => Settled(h)'
    BY <1>2, <1>9, <2>2 DEF Settled
  <2>3. ASSUME NEW h \in Groups, NEW x \in buffer, x.id = word[h].id, word'[h] = word[h], AtStake(x)
        PROVE  Settled(h)' \/ x \in stay
    BY <1>8, <2>3 DEF Settled
  <2>4. ASSUME NEW h \in Groups
        PROVE  Settled(h)' \/ Waits(h)'
    <3>1. CASE word'[h] = word[h]
      BY <1>2, <1>10, <2>1, <2>2, <2>3, <3>1 DEF WordSound, Waits
    <3>2. CASE word'[h].id = arrived + 1
      BY <1>1, <1>2, <1>7, <1>10, <3>2 DEF Waits
    <3> QED
      BY <1>3, <3>1, <3>2
  <2>5. poll.pc # "idle" /\ poll.bot \notin behind =>
            /\ poll.bot \in Bots /\ cursor[poll.bot] <= poll.base
    BY <2>1 DEF PollSound
  <2>6. ASSUME poll.pc = "asked", Starts, NEW h \in Groups, BotOf[h] = poll.bot
        PROVE  Settled(h)' \/ OrderIsAsked(h)'
    <3>1. poll.base < new.n
      BY <1>1, <2>1, <2>6, Numbers DEF PollSound, Starts
    <3>2. CASE word'[h].id = arrived + 1
      BY <1>1, <1>2, <3>1, <3>2 DEF OrderIsAsked
    <3>3. CASE word'[h] = word[h] /\ ~Settled(h)
      <4>1. PICK x \in buffer : x.id = word[h].id /\ poll.base < x.n
        BY <2>1, <2>6, <3>3 DEF WordSound, OrderIsAsked
      <4>2. BotFor(x) = poll.bot
        BY <2>6, <4>1, Numbers DEF InboxInv, BufferSound, Recognised
      <4>3. AtStake(x)
        BY <2>5, <2>6, <4>1, <4>2, Numbers DEF AtStake, Unread
      <4> QED
        BY <1>2, <2>3, <3>3, <4>1, <4>3 DEF OrderIsAsked
    <3> QED
      BY <1>3, <2>2, <3>2, <3>3
  <2>7. ASSUME Trusted, NEW h \in Groups, BotOf[h] = poll.bot
        PROVE  Settled(h)' \/ OrderIsToCome(h)'
    <3>1. poll.upto < new.n
      BY <1>1, <2>1, <2>7, Numbers DEF PollSound, Trusted
    <3>2. CASE word'[h].id = arrived + 1
      BY <1>1, <1>2, <3>1, <3>2 DEF OrderIsToCome
    <3>3. CASE word'[h] = word[h] /\ ~Settled(h)
      <4>1. PICK x \in buffer : x.id = word[h].id /\ (x \in poll.todo \/ poll.upto < x.n)
        BY <2>1, <2>7, <3>3 DEF WordSound, OrderIsToCome
      <4>2. BotFor(x) = poll.bot
        BY <2>7, <4>1, Numbers DEF InboxInv, BufferSound, Recognised
      <4>3. poll.base < x.n
        BY <2>1, <2>7, <4>1, Numbers DEF PollSound, Trusted
      <4>4. AtStake(x)
        BY <2>5, <2>7, <4>2, <4>3, Numbers DEF AtStake, Unread, Trusted, Reading
      <4> QED
        BY <1>2, <2>3, <3>3, <4>1, <4>4 DEF OrderIsToCome
    <3> QED
      BY <1>3, <2>2, <3>2, <3>3
  <2>8. ASSUME NEW x \in poll.todo
        PROVE  Followed(x)'
    <3>1. PICK h \in Groups : h = x.group
      BY Numbers
    <3>2. /\ Followed(x)
          /\ \/ word'[h] = word[h]
             \/ word'[h].id = arrived + 1
      BY <1>3, <2>1 DEF WordSound
    <3>3. SUFFICES ASSUME x.says \in Orders, x.id < word'[h].id, word'[h].id \notin dropped'
                   PROVE  \E y \in buffer' : /\ y.id = word'[h].id /\ AtStake(y)'
                                             /\ y \in poll.todo \/ poll.upto < y.n \/ poll.old
      BY <1>2, <3>1 DEF Followed
    <3>4. CASE word'[h].id = arrived + 1
      <4>1. poll.upto < new.n \/ poll.old
        BY <1>1, <2>1, Numbers DEF PollSound, Reading, InboxInv, InboxTypeOK
      <4> QED
        BY <1>1, <1>2, <1>7, <3>4, <4>1 DEF AtStake, Unread, BotFor
    <3>5. CASE word'[h] = word[h]
      <4>1. PICK y \in buffer : /\ y.id = word[h].id /\ AtStake(y)
                                /\ y \in poll.todo \/ poll.upto < y.n \/ poll.old
        BY <1>9, <3>1, <3>2, <3>3, <3>5 DEF Followed
      <4>2. y \in buffer'
        BY <1>2, <1>8, <3>3, <3>5, <4>1
      <4>3. AtStake(y)'
        BY <1>10, <4>1
      <4> QED
        BY <3>5, <4>1, <4>2, <4>3
    <3> QED
      BY <3>2, <3>4, <3>5
  <2>9. Trusted' <=> Trusted
    BY <1>2 DEF Trusted, Reading, Starts
  <2>10. Starts' <=> Starts
    BY <1>2 DEF Starts
  <2> QED
    BY <1>2, <2>4, <2>6, <2>7, <2>8, <2>9, <2>10 DEF WordSound
<1> QED
  BY <1>11, <1>12, <1>13, <1>14 DEF InboxInv

LEMMA RestartKeeps ==
    ASSUME InboxInv, InboxTypeOK', BridgeRestarts
    PROVE  InboxInv'
PROOF
<1>1. /\ UNCHANGED <<cursor, contact, arrived, word, handled, behind, undone>>
      /\ buffer' = {} /\ Loses(buffer)
  BY DEF BridgeRestarts
<1>2. PICK c \in StoredCursors :
          /\ \A d \in StoredCursors : d <= c
          /\ eventCursor' = c
          /\ poll' = IF poll.pc \in {"idle", "asked"} THEN RestingPoll
                     ELSE [poll EXCEPT !.old = poll.old \/ c < poll.upto]
  BY DEF BridgeRestarts
<1>3. \A x \in buffer : AtStake(x) => x.id \in dropped'
  BY <1>1, LostAreDropped
<1>4. dropped \subseteq dropped'
  BY <1>1, LostIds DEF InboxInv
<1>5. c \in Nat /\ poll.upto \in Nat
  BY <1>2 DEF StoredCursors, InboxInv, InboxTypeOK
<1>6. \/ poll' = RestingPoll
      \/ /\ poll.pc \in {"answered", "replying"}
         /\ ~poll'.old => poll.upto <= c
         /\ poll'.pc = poll.pc /\ poll'.bot = poll.bot /\ poll'.base = poll.base /\ poll'.upto = poll.upto
         /\ poll'.todo = poll.todo /\ poll'.was = poll.was
  BY <1>2, <1>5 DEF InboxInv, InboxTypeOK
<1>7. \A g \in Groups : Settled(g)'
  <2> SUFFICES ASSUME NEW g \in Groups
               PROVE  Settled(g)'
    OBVIOUS
  <2>1. Settled(g) \/ Waits(g)
    BY DEF InboxInv, WordSound
  <2> QED
    BY <1>1, <1>3, <1>4, <2>1 DEF Settled, Waits
<1>8. BufferSound'
  <2>1. \A b \in Bots : cursor[b] <= c
    BY <1>2 DEF StoredCursors
  <2> QED
    BY <1>1, <1>2, <2>1 DEF BufferSound, InOrder, InboxInv
<1>9. PollSound'
  <2>1. CASE poll' = RestingPoll
    BY <2>1 DEF PollSound, RestingPoll, InOrder, Reading
  <2>2. CASE poll' # RestingPoll
    <3>1. PollSound /\ eventCursor' = c
      BY <1>2 DEF InboxInv
    <3>2. \A x \in poll'.todo : Recognised(x)' /\ BotFor(x)' = poll'.bot /\ poll'.base < x.n /\ x.n <= poll'.upto
      BY <1>1, <1>6, <2>2, <3>1 DEF PollSound, Recognised, BotFor
    <3>3. poll'.pc = "replying" =>
             \A x \in poll'.todo : IsFirst(x)' =>
                 contact'[x.group].wants = (IF x.says \in Orders THEN x.says = "on" ELSE poll'.was)
      BY <1>1, <1>6, <2>2, <3>1 DEF PollSound, IsFirst
    <3>4. Reading' /\ ~poll'.old => poll'.upto <= eventCursor'
      BY <1>6, <1>5, <2>2, <3>1
    <3>5. InOrder(poll.todo)'
      BY <1>6, <2>2, <3>1 DEF PollSound, InOrder
    <3> QED
      BY <1>1, <1>6, <2>2, <3>1, <3>2, <3>3, <3>4, <3>5 DEF PollSound, Reading
  <2> QED
    BY <2>1, <2>2
<1>10. HandledSound'
  BY <1>1 DEF HandledSound, NothingSkipped
<1>11. WordSound'
  <2>1. ASSUME NEW x \in poll'.todo
        PROVE  Followed(x)'
    <3>1. x \in poll.todo /\ Followed(x)
      BY <1>6, <2>1 DEF RestingPoll, InboxInv, WordSound
    <3> QED
      BY <1>1, <1>3, <1>4, <3>1 DEF Followed
  <2> QED
    BY <1>6, <1>7, <2>1 DEF WordSound, RestingPoll
<1> QED
  BY <1>8, <1>9, <1>10, <1>11 DEF InboxInv

(* The newest order of a group, where it is found.                          *)
LEMMA WordFound ==
    ASSUME InboxInv, NEW x \in buffer \cup poll.todo, NEW g \in Groups, x.id = word[g].id
    PROVE  x.group = g /\ x.says = word[g].says /\ x.says \in Orders /\ BotFor(x) = BotOf[g]
<1>1. Recognised(x)
  BY DEF InboxInv, BufferSound, PollSound
<1> QED
  BY <1>1, Numbers DEF Recognised

LEMMA InboxFacts ==
    ASSUME InboxInv
    PROVE  InboxTypeOK /\ BufferSound /\ PollSound /\ HandledSound /\ WordSound
BY DEF InboxInv

(* Nothing but the login and the round moves, or cursors drop to 0.         *)
LEMMA CursorsDropKeeps ==
    ASSUME InboxAssumption, InboxInv, InboxTypeOK',
           UNCHANGED <<eventCursor, buffer, poll, contact, arrived, word, handled, dropped, behind, undone>>,
           \A b \in Bots : cursor'[b] \in {0, cursor[b]}
    PROVE  InboxInv'
PROOF
<1>1. \A x \in buffer : AtStake(x) => AtStake(x)'
  <2> SUFFICES ASSUME NEW x \in buffer, AtStake(x)
               PROVE  AtStake(x)'
    OBVIOUS
  <2>1. BotFor(x) \in Bots
    BY Numbers DEF InboxAssumption
  <2> QED
    BY <2>1, Numbers DEF AtStake, Unread, BotFor
<1>2. BufferSound'
  <2>1. \A x \in buffer : Recognised(x)'
    BY InboxFacts DEF BufferSound, Recognised
  <2> QED
    BY <2>1, InboxFacts, Numbers DEF BufferSound, InOrder
<1>3. PollSound'
  <2>1. \A x \in poll.todo : Recognised(x)'
    BY InboxFacts DEF PollSound, Recognised
  <2> QED
    BY <2>1, InboxFacts, Numbers DEF PollSound, InOrder, IsFirst, Reading, BotFor
<1>4. HandledSound'
  <2>1. NothingSkipped'
    BY <1>1, InboxFacts DEF HandledSound, NothingSkipped
  <2>2. Trusted' <=> Trusted
    BY DEF Trusted, Reading, Starts
  <2> QED
    BY <2>1, <2>2, InboxFacts DEF HandledSound, BotFor
<1>5. WordSound'
  <2>1. \A g \in Groups : Settled(g)' \/ Waits(g)'
    BY <1>1, InboxFacts DEF WordSound, Settled, Waits
  <2>2. ASSUME NEW x \in poll.todo
        PROVE  Followed(x)'
    <3>1. Followed(x)
      BY InboxFacts DEF WordSound
    <3> QED
      BY <1>1, <3>1 DEF Followed
  <2>3. /\ Trusted' <=> Trusted
        /\ Starts' <=> Starts
        /\ \A g \in Groups : (Settled(g)' <=> Settled(g)) /\ (OrderIsAsked(g)' <=> OrderIsAsked(g))
                             /\ (OrderIsToCome(g)' <=> OrderIsToCome(g))
    BY DEF Trusted, Reading, Starts, Settled, OrderIsAsked, OrderIsToCome
  <2> QED
    BY <2>1, <2>2, <2>3, InboxFacts DEF WordSound
<1> QED
  BY <1>2, <1>3, <1>4, <1>5 DEF InboxInv

(* The poll is given up.                                                    *)
LEMMA PollGivenUpKeeps ==
    ASSUME InboxInv, InboxTypeOK', poll' = RestingPoll,
           UNCHANGED <<eventCursor, buffer, cursor, contact, arrived, word, handled, dropped, behind, undone>>
    PROVE  InboxInv'
PROOF
<1>1. BufferSound'
  <2>1. \A x \in buffer : Recognised(x)'
    BY InboxFacts DEF BufferSound, Recognised
  <2> QED
    BY <2>1, InboxFacts DEF BufferSound, InOrder
<1>2. PollSound'
  BY DEF PollSound, RestingPoll, InOrder, Reading
<1>3. HandledSound'
  <2>1. \A x \in buffer : AtStake(x)' <=> AtStake(x)
    BY SameStake
  <2> QED
    BY <2>1, InboxFacts DEF HandledSound, NothingSkipped, Trusted, Reading, RestingPoll
<1>4. WordSound'
  <2>1. \A x \in buffer : AtStake(x)' <=> AtStake(x)
    BY SameStake
  <2>2. \A g \in Groups : Settled(g)' \/ Waits(g)'
    BY <2>1, InboxFacts DEF WordSound, Settled, Waits
  <2> QED
    BY <2>2 DEF WordSound, Trusted, Reading, RestingPoll
<1> QED
  BY <1>1, <1>2, <1>3, <1>4 DEF InboxInv

LEMMA AskKeeps ==
    ASSUME InboxAssumption, InboxInv, InboxTypeOK', NEW b \in Bots, Ask(b)
    PROVE  InboxInv'
PROOF
<1>1. /\ UNCHANGED <<eventCursor, buffer, cursor, contact, arrived, word, handled, dropped, behind, undone>>
      /\ poll' = [RestingPoll EXCEPT !.pc = "asked", !.bot = b, !.base = cursor[b]]
  BY DEF Ask, bridgeVars
<1>2. poll'.pc = "asked" /\ poll'.bot = b /\ poll'.base = cursor[b] /\ poll'.todo = {}
  BY <1>1 DEF RestingPoll
<1>3. BufferSound'
  <2>1. \A x \in buffer : Recognised(x)'
    BY <1>1, InboxFacts DEF BufferSound, Recognised
  <2> QED
    BY <1>1, <2>1, InboxFacts DEF BufferSound, InOrder
<1>4. PollSound'
  BY <1>1, <1>2, InboxFacts, Numbers DEF PollSound, BufferSound, InOrder, Reading
<1>5. \A x \in buffer : AtStake(x)' <=> AtStake(x)
  BY <1>1, SameStake
<1>6. HandledSound'
  <2>1. \A x \in buffer : x.id \in handled \/ AtStake(x)
    BY InboxFacts DEF HandledSound, NothingSkipped
  <2>2. \A x \in buffer : b \notin behind /\ BotFor(x) = b /\ x.n <= cursor[b] => x.id \in handled
    BY <2>1, Numbers DEF AtStake, Unread
  <2> QED
    BY <1>1, <1>2, <1>5, <2>1, <2>2 DEF HandledSound, NothingSkipped, Trusted, Reading, BotFor
<1>7. WordSound'
  <2>1. \A g \in Groups : Settled(g) \/ Waits(g)
    BY InboxFacts DEF WordSound
  <2>2. \A g \in Groups : Settled(g)' \/ Waits(g)'
    BY <1>1, <1>5, <2>1 DEF Settled, Waits
  <2>3. ASSUME Starts', NEW g \in Groups, BotOf[g] = b
        PROVE  Settled(g)' \/ OrderIsAsked(g)'
    <3>1. CASE Settled(g)
      BY <1>1, <3>1 DEF Settled
    <3>2. CASE Waits(g)
      <4>1. PICK x \in buffer : x.id = word[g].id /\ AtStake(x)
        BY <3>2 DEF Waits
      <4>2. cursor[b] < x.n
        BY <1>1, <1>2, <2>3, <4>1, WordFound, Numbers DEF AtStake, Unread, Starts
      <4> QED
        BY <1>1, <1>2, <4>1, <4>2 DEF OrderIsAsked
    <3> QED
      BY <2>1, <3>1, <3>2
  <2> QED
    BY <1>2, <2>2, <2>3 DEF WordSound, Trusted, Reading
<1> QED
  BY <1>3, <1>4, <1>6, <1>7 DEF InboxInv

LEMMA AnswerKeeps ==
    ASSUME InboxAssumption, InboxInv, InboxTypeOK', Answer
    PROVE  InboxInv'
PROOF
<1>1. /\ UNCHANGED <<eventCursor, buffer, cursor, contact, arrived, word, handled, dropped, behind, undone>>
      /\ poll.pc = "asked" /\ poll.bot \in Bots
  BY InboxFacts DEF Answer, bridgeVars, PollSound
<1>2. BufferSound'
  <2>1. \A x \in buffer : Recognised(x)'
    BY <1>1, InboxFacts DEF BufferSound, Recognised
  <2> QED
    BY <1>1, <2>1, InboxFacts DEF BufferSound, InOrder
<1>3. NothingSkipped' /\ \A g \in Groups : Settled(g)' \/ Waits(g)'
  <2>1. \A x \in buffer : AtStake(x)' <=> AtStake(x)
    BY <1>1, SameStake
  <2> QED
    BY <1>1, <2>1, InboxFacts DEF HandledSound, NothingSkipped, WordSound, Settled, Waits
<1>4. CASE eventCursor < poll.base
  <2>1. /\ poll'.pc = "asked" /\ poll'.bot = poll.bot /\ poll'.base = 0 /\ poll'.todo = {}
    BY <1>1, <1>4, InboxFacts DEF Answer, InboxTypeOK, PollSound
  <2>2. poll.bot \in behind
    BY <1>1, <1>4, InboxFacts, Numbers DEF PollSound
  <2>3. PollSound'
    BY <1>1, <2>1, <2>2 DEF PollSound, InOrder, Reading
  <2>4. HandledSound'
    BY <1>1, <1>3, <2>1, <2>2 DEF HandledSound, Trusted, Reading
  <2>5. ASSUME NEW g \in Groups
        PROVE  Settled(g)' \/ OrderIsAsked(g)'
    <3>1. CASE Settled(g)
      BY <1>1, <3>1 DEF Settled
    <3>2. CASE Waits(g)
      <4>1. PICK x \in buffer : x.id = word[g].id
        BY <3>2 DEF Waits
      <4>2. 0 < x.n
        BY Numbers
      <4> QED
        BY <1>1, <2>1, <4>1, <4>2 DEF OrderIsAsked
    <3> QED
      BY <3>1, <3>2, InboxFacts DEF WordSound
  <2>6. WordSound'
    BY <1>3, <2>1, <2>5 DEF WordSound, Trusted, Reading
  <2> QED
    BY <1>2, <2>3, <2>4, <2>6 DEF InboxInv
<1>5. CASE ~(eventCursor < poll.base)
  <2>1. /\ poll'.pc = "answered" /\ poll'.bot = poll.bot /\ poll'.base = poll.base
        /\ poll'.upto = eventCursor /\ poll'.todo = ReadFor(poll.bot, poll.base)
        /\ poll.base <= eventCursor
    BY <1>1, <1>5, InboxFacts, Numbers DEF Answer, InboxTypeOK
  <2>2. \A x : x \in poll'.todo <=> x \in buffer /\ BotFor(x) = poll.bot /\ x.n > poll.base
    BY <2>1 DEF ReadFor
  <2>3. PollSound'
    <3>1. \A x \in poll'.todo : Recognised(x)' /\ BotFor(x)' = poll'.bot /\ poll'.base < x.n /\ x.n <= poll'.upto
      BY <1>1, <2>1, <2>2, InboxFacts, Numbers DEF BufferSound, Recognised, BotFor
    <3>2. InOrder(poll.todo)'
      BY <2>2, InboxFacts DEF BufferSound, InOrder
    <3> QED
      BY <1>1, <2>1, <3>1, <3>2, InboxFacts, Numbers DEF PollSound, Reading
  <2>4. HandledSound'
    <3>1. ASSUME Starts, NEW x \in buffer, BotFor(x) = poll.bot
          PROVE  x \in poll'.todo \/ x.id \in handled
      BY <1>1, <2>2, <3>1, InboxFacts, Numbers DEF HandledSound, Starts
    <3>2. Starts' <=> Starts
      BY <1>1, <2>1 DEF Starts
    <3> QED
      BY <1>1, <1>3, <2>1, <3>1, <3>2 DEF HandledSound, Trusted, BotFor
  <2>5. ASSUME Starts, NEW g \in Groups, BotOf[g] = poll.bot
        PROVE  Settled(g)' \/ OrderIsToCome(g)'
    <3>1. CASE Settled(g)
      BY <1>1, <3>1 DEF Settled
    <3>2. CASE OrderIsAsked(g)
      <4>1. PICK x \in buffer : x.id = word[g].id /\ poll.base < x.n
        BY <3>2 DEF OrderIsAsked
      <4>2. x \in poll'.todo
        BY <2>2, <2>5, <4>1, WordFound, Numbers
      <4> QED
        BY <1>1, <4>1, <4>2 DEF OrderIsToCome
    <3> QED
      BY <1>1, <2>5, <3>1, <3>2, InboxFacts DEF WordSound
  <2>6. ASSUME NEW x \in poll'.todo
        PROVE  Followed(x)'
    <3>1. PICK g \in Groups : g = x.group /\ x \in buffer /\ BotFor(x) = poll.bot /\ x.n > poll.base
      BY <2>2, <2>6, Numbers
    <3>2. ASSUME x.id < word[g].id
          PROVE  \E y \in buffer : y.id = word[g].id /\ AtStake(y)' /\ y \in poll'.todo
      <4>1. PICK y \in buffer : y.id = word[g].id
        BY <3>1, <3>2, InboxFacts DEF BufferSound
      <4>2. x.n < y.n /\ BotFor(y) = poll.bot
        BY <3>1, <3>2, <4>1, WordFound, InboxFacts DEF BufferSound, InOrder, BotFor
      <4>3. poll.base < y.n
        BY <3>1, <4>2, Numbers
      <4>4. y \in poll'.todo
        BY <2>2, <4>2, <4>3, Numbers
      <4>5. AtStake(y)
        BY <1>1, <4>2, <4>3, InboxFacts, Numbers DEF PollSound, AtStake, Unread
      <4>6. AtStake(y)'
        BY <1>1, <4>5, SameStake
      <4> QED
        BY <4>1, <4>4, <4>6
    <3> QED
      BY <1>1, <3>1, <3>2 DEF Followed
  <2>7. Starts' <=> Starts
    BY <1>1, <2>1 DEF Starts
  <2>8. WordSound'
    BY <1>3, <2>1, <2>5, <2>6, <2>7 DEF WordSound, Trusted
  <2> QED
    BY <1>2, <2>3, <2>4, <2>8 DEF InboxInv
<1> QED
  BY <1>4, <1>5

(* The first message of a batch is one message.                             *)
LEMMA OneIsFirst ==
    ASSUME InboxInv, NEW x \in poll.todo, NEW y \in poll.todo, IsFirst(x), IsFirst(y)
    PROVE  x = y
BY InboxFacts, Numbers DEF IsFirst, PollSound, InOrder

LEMMA TakeEffectKeeps ==
    ASSUME InboxInv, InboxTypeOK', NEW x \in poll.todo, TakeEffect(x)
    PROVE  InboxInv'
PROOF
<1>1. /\ UNCHANGED <<eventCursor, buffer, cursor, arrived, word, handled, dropped, behind>>
      /\ poll.pc = "answered" /\ IsFirst(x) /\ undone' = undone \ {x.id}
  BY DEF TakeEffect, bridgeVars
<1>2. /\ poll'.pc = "replying" /\ poll'.bot = poll.bot /\ poll'.base = poll.base /\ poll'.upto = poll.upto
      /\ poll'.todo = poll.todo /\ poll'.old = poll.old /\ poll'.was = contact[x.group].wants
  BY InboxFacts DEF TakeEffect, InboxTypeOK
<1>3. PICK h \in Groups : h = x.group
  BY Numbers
<1>4. /\ \A g \in Groups : g # h => contact'[g] = contact[g]
      /\ x.says \in Orders => contact'[h].wants = (x.says = "on")
      /\ x.says \notin Orders => contact' = contact
  BY <1>3, InboxFacts DEF TakeEffect, InboxTypeOK
<1>5. \A z : AtStake(z)' <=> AtStake(z)
  BY <1>1, SameStake
<1>6. BufferSound'
  <2>1. \A z \in buffer : Recognised(z)'
    BY <1>1, InboxFacts DEF BufferSound, Recognised
  <2> QED
    BY <1>1, <2>1, InboxFacts DEF BufferSound, InOrder
<1>7. PollSound'
  <2>1. \A z \in poll.todo : Recognised(z)'
    BY <1>1, InboxFacts DEF PollSound, Recognised
  <2>2. ASSUME NEW z \in poll'.todo, IsFirst(z)'
        PROVE  contact'[z.group].wants = (IF z.says \in Orders THEN z.says = "on" ELSE poll'.was)
    <3>1. z = x
      BY <1>1, <1>2, <2>2, OneIsFirst DEF IsFirst
    <3> QED
      BY <1>2, <1>3, <1>4, <3>1
  <2>3. InOrder(poll.todo)'
    BY <1>2, InboxFacts DEF PollSound, InOrder
  <2> QED
    BY <1>1, <1>2, <2>1, <2>2, <2>3, InboxFacts DEF PollSound, Reading, BotFor
<1>8. Trusted' <=> Trusted
  BY <1>1, <1>2 DEF Trusted, Reading, Starts
<1>9. HandledSound'
  <2>1. NothingSkipped'
    BY <1>1, <1>5, InboxFacts DEF HandledSound, NothingSkipped
  <2> QED
    BY <1>1, <1>2, <1>8, <2>1, InboxFacts DEF HandledSound, BotFor
<1>10. WordSound'
  <2>1. ASSUME NEW g \in Groups, Settled(g)
        PROVE  Settled(g)' \/ (g = h /\ x.says \in Orders)
    <3>1. g # h \/ x.says \notin Orders => word[g].id # x.id
      BY <1>3, WordFound
    <3> QED
      BY <1>1, <1>3, <1>4, <2>1, <3>1 DEF Settled
  <2>2. ASSUME x.says \in Orders
        PROVE  \/ Settled(h)'
               \/ \E y \in buffer : /\ y.id = word[h].id /\ AtStake(y)
                                    /\ y \in poll.todo \/ poll.upto < y.n \/ poll.old
    <3>1. CASE x.id = word[h].id
      BY <1>1, <1>3, <1>4, <2>2, <3>1, WordFound DEF Settled
    <3>2. CASE x.id # word[h].id
      <4>1. x.id < word[h].id /\ Followed(x)
        BY <1>3, <2>2, <3>2, InboxFacts, Numbers DEF PollSound, Recognised, WordSound
      <4>2. word[h].id \in dropped => Settled(h)'
        BY <1>1 DEF Settled
      <4> QED
        BY <1>3, <2>2, <4>1, <4>2 DEF Followed
    <3> QED
      BY <3>1, <3>2
  <2>3. ASSUME NEW g \in Groups
        PROVE  Settled(g)' \/ Waits(g)'
    <3>1. Waits(g) => Waits(g)'
      BY <1>1, <1>5 DEF Waits
    <3>2. g = h /\ x.says \in Orders => Settled(g)' \/ Waits(g)
      BY <2>2 DEF Waits
    <3> QED
      BY <2>1, <3>1, <3>2, InboxFacts DEF WordSound
  <2>4. ASSUME Trusted, NEW g \in Groups, BotOf[g] = poll.bot
        PROVE  Settled(g)' \/ OrderIsToCome(g)'
    <3>1. OrderIsToCome(g) => OrderIsToCome(g)'
      BY <1>1, <1>2 DEF OrderIsToCome
    <3>2. g = h /\ x.says \in Orders => Settled(g)' \/ OrderIsToCome(g)
      BY <2>2, <2>4 DEF OrderIsToCome, Trusted
    <3> QED
      BY <2>1, <2>4, <3>1, <3>2, InboxFacts DEF WordSound
  <2>5. ASSUME NEW z \in poll'.todo
        PROVE  Followed(z)'
    <3>1. Followed(z)
      BY <1>2, <2>5, InboxFacts DEF WordSound
    <3> QED
      BY <1>1, <1>2, <3>1 DEF Followed, AtStake, Unread, BotFor
  <2> QED
    BY <1>2, <1>8, <2>3, <2>4, <2>5 DEF WordSound
<1> QED
  BY <1>6, <1>7, <1>9, <1>10 DEF InboxInv

(* What a message leaves behind when it is handled, with or without a reply. *)
LEMMA HandledKeeps ==
    ASSUME InboxInv, InboxTypeOK', NEW x \in poll.todo, IsFirst(x), Reading,
           UNCHANGED <<eventCursor, buffer, cursor, arrived, word, dropped, behind>>,
           handled' = handled \cup {x.id}, poll'.pc = "answered",
           poll'.bot = poll.bot, poll'.base = poll.base, poll'.upto = poll.upto, poll'.old = poll.old,
           poll'.todo = poll.todo \ {x}
    PROVE  /\ BufferSound' /\ PollSound' /\ HandledSound'
           /\ \A z \in poll'.todo : Followed(z)'
           /\ Trusted' <=> Trusted
PROOF
<1>1. BufferSound'
  <2>1. \A z \in buffer : Recognised(z)'
    BY InboxFacts DEF BufferSound, Recognised
  <2> QED
    BY <2>1, InboxFacts DEF BufferSound, InOrder
<1>2. PollSound'
  <2>1. \A z \in poll'.todo : Recognised(z)'
    BY InboxFacts DEF PollSound, Recognised
  <2>2. InOrder(poll.todo)'
    BY InboxFacts DEF PollSound, InOrder
  <2> QED
    BY <2>1, <2>2, InboxFacts DEF PollSound, Reading, BotFor
<1>3. Trusted' <=> Trusted
  BY DEF Trusted, Reading, Starts
<1>4. HandledSound'
  <2>1. \A z \in buffer : AtStake(z)' <=> AtStake(z)
    BY SameStake
  <2> QED
    BY <1>3, <2>1, InboxFacts DEF HandledSound, NothingSkipped, BotFor
<1>5. ASSUME NEW z \in poll'.todo
      PROVE  Followed(z)'
  <2>1. PICK g \in Groups : g = z.group
    BY Numbers
  <2>2. Followed(z)
    BY InboxFacts DEF WordSound
  <2>3. ASSUME z.says \in Orders, z.id < word[g].id
        PROVE  word[g].id # x.id
    <3>1. x.n <= z.n /\ (z.id < x.id <=> z.n < x.n)
      BY InboxFacts DEF IsFirst, PollSound, InOrder
    <3> QED
      BY <2>3, <3>1, Numbers
  <2> QED
    BY <2>1, <2>2, <2>3 DEF Followed, AtStake, Unread, BotFor
<1> QED
  BY <1>1, <1>2, <1>3, <1>4, <1>5

LEMMA IgnoreKeeps ==
    ASSUME InboxInv, InboxTypeOK', NEW x \in poll.todo, Ignore(x)
    PROVE  InboxInv'
PROOF
<1>1. /\ UNCHANGED <<eventCursor, buffer, cursor, contact, arrived, word, dropped, behind, undone>>
      /\ poll.pc = "answered" /\ IsFirst(x) /\ x.says = "none" /\ handled' = handled \cup {x.id}
  BY DEF Ignore, bridgeVars
<1>2. /\ poll'.pc = "answered" /\ poll'.bot = poll.bot /\ poll'.base = poll.base /\ poll'.upto = poll.upto
      /\ poll'.todo = poll.todo \ {x} /\ poll'.old = poll.old
  BY <1>1, InboxFacts DEF Ignore, InboxTypeOK
<1>3. /\ BufferSound' /\ PollSound' /\ HandledSound'
      /\ \A z \in poll'.todo : Followed(z)'
      /\ Trusted' <=> Trusted
  BY <1>1, <1>2, HandledKeeps DEF Reading
<1>4. ASSUME NEW g \in Groups
      PROVE  Settled(g)' \/ Waits(g)'
  BY <1>1, InboxFacts DEF WordSound, Settled, Waits, AtStake, Unread, BotFor
<1>5. ASSUME Trusted, NEW g \in Groups, BotOf[g] = poll.bot
      PROVE  Settled(g)' \/ OrderIsToCome(g)'
  <2>1. Settled(g) => Settled(g)'
    BY <1>1 DEF Settled
  <2>2. word[g].id # x.id
    BY <1>1, WordFound DEF Orders
  <2>3. OrderIsToCome(g) => OrderIsToCome(g)'
    BY <1>1, <1>2, <2>2 DEF OrderIsToCome
  <2> QED
    BY <1>5, <2>1, <2>3, InboxFacts DEF WordSound
<1>6. WordSound'
  BY <1>2, <1>3, <1>4, <1>5 DEF WordSound
<1> QED
  BY <1>3, <1>6 DEF InboxInv

LEMMA ReplyKeeps ==
    ASSUME InboxInv, InboxTypeOK', NEW x \in poll.todo, Reply(x)
    PROVE  InboxInv'
PROOF
<1>1. /\ UNCHANGED <<eventCursor, buffer, cursor, arrived, word, dropped, behind>>
      /\ poll.pc = "replying" /\ IsFirst(x) /\ handled' = handled \cup {x.id}
      /\ undone' = IF Labelled(x).wants = contact[x.group].wants THEN undone ELSE undone \cup {x.id}
  BY DEF Reply, bridgeVars
<1>2. /\ poll'.pc = "answered" /\ poll'.bot = poll.bot /\ poll'.base = poll.base /\ poll'.upto = poll.upto
      /\ poll'.todo = poll.todo \ {x} /\ poll'.old = poll.old
  BY <1>1, InboxFacts DEF Reply, InboxTypeOK
<1>3. /\ BufferSound' /\ PollSound' /\ HandledSound'
      /\ \A z \in poll'.todo : Followed(z)'
      /\ Trusted' <=> Trusted
  BY <1>1, <1>2, HandledKeeps DEF Reading
<1>4. PICK h \in Groups : h = x.group
  BY Numbers
<1>5. /\ \A g \in Groups : g # h => contact'[g] = contact[g]
      /\ contact'[h] = Labelled(x)
      /\ undone \subseteq undone'
  BY <1>1, <1>4, InboxFacts DEF Reply, InboxTypeOK
<1>6. /\ x.says \in Orders => contact[h].wants = (x.says = "on")
      /\ contact'[h].wants # contact[h].wants => x.says \in Orders /\ x.id \in undone'
  <2>1. contact[h].wants = (IF x.says \in Orders THEN x.says = "on" ELSE poll.was)
    BY <1>1, <1>4, InboxFacts DEF PollSound
  <2>2. Labelled(x).wants = poll.was \/ Labelled(x).wants = contact[h].wants
    BY <1>4 DEF Labelled
  <2> QED
    BY <1>1, <1>4, <1>5, <2>1, <2>2
<1>7. ASSUME NEW g \in Groups, Settled(g)
      PROVE  Settled(g)' \/ (g = h /\ contact'[h].wants # contact[h].wants)
  BY <1>1, <1>5, <1>7 DEF Settled
<1>8. ASSUME contact'[h].wants # contact[h].wants
      PROVE  \/ Settled(h)'
             \/ \E y \in buffer : /\ y.id = word[h].id /\ y # x /\ AtStake(y)
                                  /\ y \in poll.todo \/ poll.upto < y.n \/ poll.old
  <2>1. CASE x.id = word[h].id
    BY <1>1, <1>6, <1>8, <2>1 DEF Settled
  <2>2. CASE x.id # word[h].id
    <3>1. x.id < word[h].id /\ Followed(x)
      BY <1>4, <1>6, <1>8, <2>2, InboxFacts, Numbers DEF PollSound, Recognised, WordSound
    <3>2. word[h].id \in dropped => Settled(h)'
      BY <1>1 DEF Settled
    <3> QED
      BY <1>4, <1>6, <1>8, <2>2, <3>1, <3>2 DEF Followed
  <2> QED
    BY <2>1, <2>2
<1>9. ASSUME NEW g \in Groups
      PROVE  Settled(g)' \/ Waits(g)'
  <2>1. Waits(g) => Waits(g)'
    BY <1>1 DEF Waits, AtStake, Unread, BotFor
  <2>2. g = h /\ contact'[h].wants # contact[h].wants => Settled(g)' \/ Waits(g)
    BY <1>8 DEF Waits
  <2> QED
    BY <1>7, <2>1, <2>2, InboxFacts DEF WordSound
<1>10. ASSUME Trusted, NEW g \in Groups, BotOf[g] = poll.bot
       PROVE  Settled(g)' \/ OrderIsToCome(g)'
  <2>1. CASE Settled(g) /\ ~(g = h /\ contact'[h].wants # contact[h].wants)
    BY <1>7, <2>1
  <2>2. CASE g = h /\ contact'[h].wants # contact[h].wants
    BY <1>1, <1>2, <1>8, <1>10, <2>2 DEF OrderIsToCome, Trusted
  <2>3. CASE ~Settled(g) /\ ~(g = h /\ contact'[h].wants # contact[h].wants)
    <3>1. PICK y \in buffer : y.id = word[g].id /\ (y \in poll.todo \/ poll.upto < y.n)
      BY <1>10, <2>3, InboxFacts DEF WordSound, OrderIsToCome
    <3>2. y # x
      <4>1. SUFFICES ASSUME y = x
                     PROVE  Settled(g)
        BY <2>3
      <4>2. g = h /\ x.says = word[g].says /\ x.says \in Orders
        BY <1>4, <3>1, <4>1, WordFound
      <4> QED
        BY <1>6, <4>2 DEF Settled
    <3> QED
      BY <1>1, <1>2, <3>1, <3>2 DEF OrderIsToCome
  <2> QED
    BY <2>1, <2>2, <2>3
<1>11. WordSound'
  BY <1>2, <1>3, <1>9, <1>10 DEF WordSound
<1> QED
  BY <1>3, <1>11 DEF InboxInv

LEMMA SaveCursorKeeps ==
    ASSUME InboxInv, InboxTypeOK', SaveCursor
    PROVE  InboxInv'
PROOF
<1>1. /\ UNCHANGED <<eventCursor, buffer, contact, arrived, word, handled, dropped, undone>>
      /\ poll.pc = "answered" /\ poll.todo = {} /\ poll' = RestingPoll /\ poll.bot \in Bots
  BY InboxFacts DEF SaveCursor, bridgeVars, PollSound
<1>2. /\ \A b \in Bots : b # poll.bot => cursor'[b] = cursor[b] /\ (b \in behind' <=> b \in behind)
      /\ cursor'[poll.bot] = poll.upto
      /\ poll.bot \notin behind' => ~poll.old /\ Starts
  BY <1>1, InboxFacts DEF SaveCursor, InboxTypeOK, Starts
<1>3. poll.bot \notin behind' => Trusted
  BY <1>1, <1>2 DEF Trusted, Reading
<1>4. BufferSound'
  <2>1. \A x \in buffer : Recognised(x)'
    BY <1>1, InboxFacts DEF BufferSound, Recognised
  <2>2. poll.bot \notin behind' => poll.upto <= eventCursor
    BY <1>3, InboxFacts DEF PollSound, Trusted
  <2> QED
    BY <1>1, <1>2, <2>1, <2>2, InboxFacts DEF BufferSound, InOrder
<1>5. PollSound'
  BY <1>1 DEF PollSound, RestingPoll, InOrder, Reading
<1>6. ASSUME NEW x \in buffer, BotFor(x) # poll.bot \/ poll.bot \in behind' \/ poll.upto < x.n
      PROVE  AtStake(x) => AtStake(x)'
  <2>1. CASE BotFor(x) = poll.bot
    BY <1>2, <1>6, <2>1 DEF AtStake, Unread, BotFor
  <2>2. CASE BotFor(x) # poll.bot
    <3>1. cursor'[BotFor(x)] = cursor[BotFor(x)] /\ (BotFor(x) \in behind' <=> BotFor(x) \in behind)
      BY <1>1, <1>2, <2>2, InboxFacts DEF SaveCursor, InboxTypeOK
    <3> QED
      BY <3>1 DEF AtStake, Unread, BotFor
  <2> QED
    BY <2>1, <2>2
<1>7. HandledSound'
  <2>1. ASSUME NEW x \in buffer
        PROVE  x.id \in handled \/ AtStake(x)'
    <3>1. x.id \in handled \/ AtStake(x)
      BY InboxFacts DEF HandledSound, NothingSkipped
    <3>2. CASE BotFor(x) = poll.bot /\ poll.bot \notin behind'
      <4>1. x.n <= poll.upto => x.id \in handled
        BY <1>1, <1>3, <3>2, InboxFacts DEF HandledSound
      <4>2. poll.upto < x.n => AtStake(x)'
        BY <1>2, <3>2 DEF AtStake, Unread, BotFor
      <4> QED
        BY <4>1, <4>2, Numbers
    <3> QED
      BY <1>6, <3>1, <3>2
  <2> QED
    BY <1>1, <2>1 DEF HandledSound, NothingSkipped, RestingPoll, Trusted, Reading
<1>8. WordSound'
  <2>1. ASSUME NEW g \in Groups
        PROVE  Settled(g)' \/ Waits(g)'
    <3>1. Settled(g) => Settled(g)'
      BY <1>1 DEF Settled
    <3>2. CASE BotOf[g] = poll.bot /\ poll.bot \notin behind'
      <4>1. Settled(g) \/ OrderIsToCome(g)
        BY <1>3, <3>2, InboxFacts DEF WordSound
      <4>2. ASSUME NEW x \in buffer, x.id = word[g].id, poll.upto < x.n
            PROVE  AtStake(x)'
        BY <1>2, <3>2, <4>2, WordFound DEF AtStake, Unread, BotFor
      <4> QED
        BY <1>1, <3>1, <4>1, <4>2 DEF OrderIsToCome, Waits
    <3>3. CASE ~(BotOf[g] = poll.bot /\ poll.bot \notin behind')
      <4>1. ASSUME NEW x \in buffer, x.id = word[g].id, AtStake(x)
            PROVE  AtStake(x)'
        BY <1>6, <3>3, <4>1, WordFound
      <4> QED
        BY <1>1, <3>1, <4>1, InboxFacts DEF WordSound, Waits
    <3> QED
      BY <3>2, <3>3
  <2> QED
    BY <1>1, <2>1 DEF WordSound, RestingPoll, Trusted, Reading
<1> QED
  BY <1>4, <1>5, <1>7, <1>8 DEF InboxInv

LEMMA InboxKeeps ==
    ASSUME InboxAssumption, InboxInv, InboxMove
    PROVE  InboxInv'
PROOF
<1>0. InboxTypeOK'
  BY InboxTypes
<1>1. ASSUME NEW g \in Groups, NEW says \in Texts, NEW named \in BOOLEAN, Arrive(g, says, named)
      PROVE  InboxInv'
  BY <1>0, <1>1, ArriveKeeps
<1>2. CASE NextRound \/ ScanStarts \/ ScanEnds
  BY <1>0, <1>2, CursorsDropKeeps DEF NextRound, ScanStarts, ScanEnds, inboundVars, bridgeVars
<1>3. ASSUME NEW b \in Bots, Ask(b)
      PROVE  InboxInv'
  BY <1>0, <1>3, AskKeeps
<1>4. CASE Answer
  BY <1>0, <1>4, AnswerKeeps
<1>5. ASSUME NEW x \in poll.todo, TakeEffect(x) \/ Ignore(x) \/ Reply(x)
      PROVE  InboxInv'
  BY <1>0, <1>5, TakeEffectKeeps, IgnoreKeeps, ReplyKeeps
<1>6. CASE SaveCursor
  BY <1>0, <1>6, SaveCursorKeeps
<1>7. CASE PollFails \/ ServiceRestarts
  BY <1>0, <1>7, PollGivenUpKeeps DEF PollFails, ServiceRestarts, bridgeVars
<1>8. CASE ScanBinds \/ ScanBindRaises
  BY <1>0, <1>8, CursorsDropKeeps DEF ScanBinds, ScanBindRaises, WithoutCursors, inboundVars, bridgeVars
<1>9. ASSUME NEW b \in Bots, ScanSaves(b) \/ RevokeBot(b)
      PROVE  InboxInv'
  BY <1>0, <1>9, CursorsDropKeeps DEF ScanSaves, RevokeBot, WithoutCursors, inboundVars, bridgeVars
<1>10. CASE BridgeRestarts
  BY <1>0, <1>10, RestartKeeps
<1> QED
  BY <1>1, <1>2, <1>3, <1>4, <1>5, <1>6, <1>7, <1>8, <1>9, <1>10 DEF InboxMove, InboxStep

LEMMA InboxStarts ==
    ASSUME InboxAssumption, InboxInit
    PROVE  InboxInv
PROOF
<1>1. InboxTypeOK
  BY DEF InboxInit, InboxTypeOK, InboxAssumption, RestingPoll, NoScan, Orders
<1>2. BufferSound /\ PollSound /\ HandledSound
  BY DEF InboxInit, BufferSound, PollSound, HandledSound, NothingSkipped, InOrder, RestingPoll, Reading, Trusted
<1>3. WordSound
  BY DEF InboxInit, WordSound, Settled, RestingPoll, Reading, Trusted
<1> QED
  BY <1>1, <1>2, <1>3 DEF InboxInv

(* The two properties of the inbox, from its invariant.                     *)
LEMMA InboxIsSound ==
    ASSUME InboxInv
    PROVE  InboxTypeOK /\ NothingSkipped /\ LastWordCounts
BY DEF InboxInv, HandledSound, WordSound, Settled, LastWordCounts

-----------------------------------------------------------------------------
(* The QQ sending.  The rows of its tables.                                 *)
QqJobRow == [status: {"ABSENT", "READY", "RUNNING", "SUCCEEDED", "FAILED"},
             left: 0..QqAttempts, owner: Senders \cup {Unset}]
SenderRow == [pc: {"idle", "begin", "check", "loop"}, due: SUBSET Groups,
              todo: SUBSET Groups, call: Calls \cup {Unset}, failed: BOOLEAN]
CallRow == [pc: {"free", "unsent", "sent"}, target: Groups \cup {Unset}]

LEMMA OutgoingFacts ==
    ASSUME OutgoingInv
    PROVE  /\ OutgoingTypeOK /\ CallsSound /\ SuccessReachesAll
           /\ \A h \in Senders : RowOK(h)
           /\ \A g \in Groups : OncePerTarget(g)
           /\ qqJob \in QqJobRow /\ sender \in [Senders -> SenderRow] /\ call \in [Calls -> CallRow]
           /\ outbox \in [Groups -> {"nothing", "id", "no id"}] /\ reached \in [Groups -> Nat]
           /\ risked \in SUBSET Groups /\ owed \in SUBSET Groups
           /\ tooOld \in BOOLEAN /\ switchedOff \in BOOLEAN /\ excused \in BOOLEAN
BY DEF OutgoingInv, OutgoingTypeOK, QqJobRow, SenderRow, CallRow

LEMMA RestingRows == RestingSender \in SenderRow /\ FreeCall \in CallRow
BY DEF RestingSender, FreeCall, SenderRow, CallRow

(* A handler whose call is over.                                            *)
LEMMA DoneRow ==
    ASSUME NEW row \in SenderRow, NEW g, NEW ok \in BOOLEAN
    PROVE  /\ Done(row, g, ok) \in SenderRow
           /\ Done(row, g, ok).pc = row.pc /\ Done(row, g, ok).due = row.due
           /\ Done(row, g, ok).todo = row.todo \ {g} /\ Done(row, g, ok).call = Unset
           /\ ~Done(row, g, ok).failed => ~row.failed /\ ok
BY DEF Done, SenderRow

LEMMA AnsweredRows ==
    ASSUME OutgoingInv, NEW calls \in SUBSET Calls, NEW ok \in BOOLEAN, AnswersTo(calls, ok)
    PROVE  /\ sender' \in [Senders -> SenderRow]
           /\ \A h \in Senders :
                 \/ sender[h].call \notin calls /\ sender'[h] = sender[h]
                 \/ /\ sender[h].call \in calls
                    /\ sender'[h] = Done(sender[h], call[sender[h].call].target, ok)
<1>1. \A h \in Senders : sender[h] \in SenderRow
  BY OutgoingFacts
<1>2. \A h \in Senders : Done(sender[h], call[sender[h].call].target, ok) \in SenderRow
  BY <1>1, DoneRow
<1> QED
  BY <1>1, <1>2 DEF AnswersTo

LEMMA JobRowAfter ==
    ASSUME OutgoingInv, QqAssumption, NEW h \in Senders, NEW ok \in BOOLEAN
    PROVE  /\ JobAfter(h, ok) \in QqJobRow
           /\ ~HoldsJob(h) => JobAfter(h, ok) = qqJob
           /\ JobAfter(h, ok).status = "SUCCEEDED" => (HoldsJob(h) /\ ok) \/ qqJob.status = "SUCCEEDED"
BY OutgoingFacts DEF JobAfter, HoldsJob, QqJobRow

LEMMA OutgoingTypes ==
    ASSUME QqAssumption, InboxTypeOK, OutgoingInv, SendingMove \/ BridgeDies
    PROVE  OutgoingTypeOK'
PROOF
<1>0. InboxTypeOK /\ DirectTargets \in SUBSET Groups
  BY DEF DirectTargets, QqAssumption
<1>1. CASE PrepareQq \/ GrowsOld \/ Switch \/ LeaseRunsOut
  <2>1. qqJob' \in QqJobRow
    <3>1. qqJob \in QqJobRow
      BY OutgoingFacts
    <3>2. CASE PrepareQq
      BY <3>2 DEF PrepareQq, QqJobRow, QqAssumption
    <3>3. CASE LeaseRunsOut
      BY <3>1, <3>3 DEF LeaseRunsOut, QqJobRow
    <3> QED
      BY <1>1, <3>1, <3>2, <3>3 DEF GrowsOld, Switch
  <2> QED
    BY <1>1, <2>1, OutgoingFacts DEF PrepareQq, GrowsOld, Switch, LeaseRunsOut, OutgoingTypeOK, QqJobRow
<1>2. ASSUME NEW h \in Senders,
             ClaimQq(h) \/ LookForTargets(h) \/ CheckAge(h) \/ EndSending(h) \/ SenderDies(h) \/ CallTimesOut(h)
      PROVE  OutgoingTypeOK'
  <2>1. sender[h] \in SenderRow /\ sender \in [Senders -> SenderRow] /\ qqJob \in QqJobRow
    BY OutgoingFacts
  <2>2. CASE ClaimQq(h)
    <3>1. qqJob' \in QqJobRow
      BY <2>1, <2>2 DEF ClaimQq, QqJobRow, QqAssumption
    <3>2. sender' \in [Senders -> SenderRow]
      BY <2>1, <2>2 DEF ClaimQq, SenderRow
    <3> QED
      BY <2>2, <3>1, <3>2, OutgoingFacts DEF ClaimQq, OutgoingTypeOK, QqJobRow, SenderRow
  <2>3. CASE LookForTargets(h) \/ CheckAge(h)
    <3>1. qqJob' \in QqJobRow /\ excused' \in BOOLEAN
      BY <2>3, JobRowAfter, OutgoingFacts DEF LookForTargets, CheckAge, EndsExcused
    <3>2. sender' \in [Senders -> SenderRow]
      <4>1. CASE EndsExcused(h)
        BY <2>1, <4>1, RestingRows DEF EndsExcused
      <4>2. CASE sender' = [sender EXCEPT ![h].pc = "check", ![h].due = DirectTargets, ![h].todo = DirectTargets]
        <5> DEFINE row == [sender[h] EXCEPT !.pc = "check", !.due = DirectTargets, !.todo = DirectTargets]
        <5>1. row \in SenderRow
          BY <1>0, <2>1 DEF SenderRow
        <5>2. sender' = [sender EXCEPT ![h] = row]
          BY <2>1, <4>2
        <5> QED
          BY <2>1, <5>1, <5>2
      <4>3. ASSUME NEW failed \in BOOLEAN, sender' = [sender EXCEPT ![h].pc = "loop", ![h].failed = failed]
            PROVE  sender' \in [Senders -> SenderRow]
        <5> DEFINE row == [sender[h] EXCEPT !.pc = "loop", !.failed = failed]
        <5>1. row \in SenderRow
          BY <2>1 DEF SenderRow
        <5>2. sender' = [sender EXCEPT ![h] = row]
          BY <2>1, <4>3
        <5> QED
          BY <2>1, <5>1, <5>2
      <4> QED
        BY <2>3, <4>1, <4>2, <4>3 DEF LookForTargets, CheckAge
    <3> QED
      BY <2>3, <3>1, <3>2, OutgoingFacts
         DEF LookForTargets, CheckAge, EndsExcused, OutgoingTypeOK, QqJobRow, SenderRow
  <2>4. CASE EndSending(h) \/ SenderDies(h)
    <3>1. qqJob' \in QqJobRow
      BY <2>1, <2>4, JobRowAfter DEF EndSending, SenderDies
    <3>2. sender' \in [Senders -> SenderRow] /\ owed' \in SUBSET Groups
      <4>1. sender' = [sender EXCEPT ![h] = RestingSender]
        BY <2>4 DEF EndSending, SenderDies
      <4>2. sender[h].due \in SUBSET Groups
        BY <2>1 DEF SenderRow
      <4>3. owed' \in {owed, sender[h].due}
        BY <2>4 DEF EndSending, SenderDies
      <4> QED
        BY <2>1, <4>1, <4>2, <4>3, RestingRows, OutgoingFacts
    <3> QED
      BY <2>4, <3>1, <3>2, OutgoingFacts DEF EndSending, SenderDies, OutgoingTypeOK, QqJobRow, SenderRow
  <2>5. CASE CallTimesOut(h)
    <3>1. sender' \in [Senders -> SenderRow]
      BY <2>1, <2>5, DoneRow DEF CallTimesOut
    <3> QED
      BY <2>5, <3>1, OutgoingFacts DEF CallTimesOut, OutgoingTypeOK, QqJobRow, SenderRow
  <2> QED
    BY <1>2, <2>2, <2>3, <2>4, <2>5
<1>3. ASSUME NEW h \in Senders, NEW g \in Groups, AnsweredFromOutbox(h, g)
      PROVE  OutgoingTypeOK'
  <2>1. sender' \in [Senders -> SenderRow]
    <3>1. sender[h] \in SenderRow /\ sender \in [Senders -> SenderRow]
      BY OutgoingFacts
    <3>2. Done(sender[h], g, outbox[g] = "id") \in SenderRow
      BY <3>1 DEF Done, SenderRow
    <3> QED
      BY <1>3, <3>1, <3>2 DEF AnsweredFromOutbox
  <2> QED
    BY <1>3, <2>1, OutgoingFacts DEF AnsweredFromOutbox, OutgoingTypeOK, SenderRow
<1>4. ASSUME NEW h \in Senders, NEW g \in Groups, NEW k \in Calls, PostText(h, g, k)
      PROVE  OutgoingTypeOK'
  <2>1. sender' \in [Senders -> SenderRow] /\ call' \in [Calls -> CallRow]
    <3>1. sender' \in [Senders -> SenderRow]
      <4>1. sender \in [Senders -> SenderRow]
        BY OutgoingFacts
      <4> DEFINE row == [sender[h] EXCEPT !.call = k]
      <4>2. row \in SenderRow
        BY <4>1 DEF SenderRow
      <4>3. sender' = [sender EXCEPT ![h] = row]
        BY <1>4, <4>1 DEF PostText
      <4> QED
        BY <4>1, <4>2, <4>3
    <3>2. call' \in [Calls -> CallRow]
      BY <1>4, OutgoingFacts DEF PostText, CallRow
    <3> QED
      BY <3>1, <3>2
  <2> QED
    BY <1>4, <2>1, OutgoingFacts DEF PostText, OutgoingTypeOK, SenderRow, CallRow
<1>5. ASSUME NEW k \in Calls, TextReaches(k)
      PROVE  OutgoingTypeOK'
  <2>1. call[k].target \in Groups
    BY <1>5, OutgoingFacts DEF TextReaches, CallsSound
  <2>2. call' \in [Calls -> CallRow] /\ reached' \in [Groups -> Nat]
    <3>1. call' \in [Calls -> CallRow]
      BY <1>5, OutgoingFacts DEF TextReaches, CallRow
    <3>2. reached' \in [Groups -> Nat]
      <4>1. reached \in [Groups -> Nat]
        BY OutgoingFacts
      <4>2. reached[call[k].target] + 1 \in Nat
        BY <2>1, <4>1
      <4>3. reached' = [reached EXCEPT ![call[k].target] = @ + 1]
        BY <1>5 DEF TextReaches
      <4> QED
        BY <4>1, <4>2, <4>3
    <3> QED
      BY <3>1, <3>2
  <2> QED
    BY <1>5, <2>2, OutgoingFacts DEF TextReaches, OutgoingTypeOK, CallRow
<1>6. ASSUME NEW k \in Calls, TextRefused(k)
      PROVE  OutgoingTypeOK'
  <2>1. sender' \in [Senders -> SenderRow]
    BY <1>6, AnsweredRows DEF TextRefused
  <2>2. call' \in [Calls -> CallRow]
    BY <1>6, RestingRows, OutgoingFacts DEF TextRefused
  <2> QED
    BY <1>6, <2>1, <2>2, OutgoingFacts DEF TextRefused, OutgoingTypeOK, SenderRow, CallRow
<1>7. ASSUME NEW k \in Calls, NEW result \in {"id", "no id"}, TextRecorded(k, result)
      PROVE  OutgoingTypeOK'
  <2>1. sender' \in [Senders -> SenderRow]
    BY <1>7, AnsweredRows DEF TextRecorded
  <2>2. call' \in [Calls -> CallRow] /\ outbox' \in [Groups -> {"nothing", "id", "no id"}]
    BY <1>7, RestingRows, OutgoingFacts DEF TextRecorded
  <2> QED
    BY <1>7, <2>1, <2>2, OutgoingFacts DEF TextRecorded, OutgoingTypeOK, SenderRow, CallRow
<1>8. CASE BridgeDies
  <2>1. sender' \in [Senders -> SenderRow]
    BY <1>8, AnsweredRows DEF BridgeDies
  <2>2. call' \in [Calls -> CallRow] /\ risked' \in SUBSET Groups
    BY <1>8, RestingRows, OutgoingFacts DEF BridgeDies
  <2> QED
    BY <1>8, <2>1, <2>2, OutgoingFacts DEF BridgeDies, OutgoingTypeOK, SenderRow, CallRow
<1> QED
  BY <1>1, <1>2, <1>3, <1>4, <1>5, <1>6, <1>7, <1>8 DEF SendingMove

(* A step of one handler, which leaves the calls and the bridge alone.      *)
LEMMA HandlerKeeps ==
    ASSUME OutgoingInv, OutgoingTypeOK', NEW h \in Senders,
           UNCHANGED <<call, outbox, reached, risked>>,
           \A i \in Senders : i # h => sender'[i] = sender[i],
           RowOK(h)', SuccessReachesAll'
    PROVE  OutgoingInv'
<1>1. ASSUME NEW i \in Senders
      PROVE  RowOK(i)'
  <2>1. CASE i = h
    BY <2>1
  <2>2. CASE i # h
    BY <2>2, OutgoingFacts DEF RowOK
  <2> QED
    BY <2>1, <2>2
<1>2. CallsSound'
  BY OutgoingFacts DEF CallsSound
<1>3. ASSUME NEW g \in Groups
      PROVE  OncePerTarget(g)'
  BY OutgoingFacts DEF OncePerTarget, OpenFor
<1> QED
  BY <1>1, <1>2, <1>3 DEF OutgoingInv

(* A step that leaves the job alone.                                        *)
LEMMA JobAloneKeeps ==
    ASSUME OutgoingInv, UNCHANGED <<qqJob, excused, owed>>, QqAssumption,
           \A g \in Groups : reached[g] <= reached'[g], OutgoingTypeOK'
    PROVE  SuccessReachesAll'
<1>1. \A g \in Configured \cup owed : g \in Groups /\ reached[g] \in Nat /\ reached'[g] \in Nat
  BY OutgoingFacts DEF QqAssumption, OutgoingTypeOK
<1>2. SUFFICES ASSUME qqJob.status = "SUCCEEDED", ~excused, NEW g \in Configured \cup owed
               PROVE  reached'[g] >= 1
  BY DEF SuccessReachesAll
<1>3. reached[g] >= 1
  BY <1>2, OutgoingFacts DEF SuccessReachesAll
<1> QED
  BY <1>1, <1>3

LEMMA RestKeepsRow ==
    ASSUME NEW h \in Senders, sender'[h] = RestingSender
    PROVE  RowOK(h)'
BY DEF RowOK, RestingSender

LEMMA ExcusedKeeps ==
    ASSUME QqAssumption, OutgoingInv, OutgoingTypeOK', NEW h \in Senders, EndsExcused(h),
           UNCHANGED <<call, outbox, reached, risked>>
    PROVE  OutgoingInv'
<1>1. /\ \A i \in Senders : i # h => sender'[i] = sender[i]
      /\ sender'[h] = RestingSender
  BY OutgoingFacts DEF EndsExcused
<1>2. SuccessReachesAll'
  <2>1. CASE HoldsJob(h)
    BY <2>1 DEF EndsExcused, SuccessReachesAll
  <2>2. CASE ~HoldsJob(h)
    <3>1. qqJob' = qqJob /\ owed' = owed /\ reached' = reached /\ (excused => excused')
      BY <2>2 DEF EndsExcused, JobAfter
    <3> QED
      BY <3>1, OutgoingFacts DEF SuccessReachesAll
  <2> QED
    BY <2>1, <2>2
<1> QED
  BY <1>1, <1>2, HandlerKeeps, RestKeepsRow

LEMMA JobMovesKeep ==
    ASSUME QqAssumption, OutgoingInv, OutgoingTypeOK', PrepareQq \/ GrowsOld \/ Switch \/ LeaseRunsOut
    PROVE  OutgoingInv'
<1>1. UNCHANGED <<sender, call, outbox, reached, risked, excused, owed>>
  BY DEF PrepareQq, GrowsOld, Switch, LeaseRunsOut
<1>2. qqJob'.status # "SUCCEEDED" \/ qqJob' = qqJob
  <2>1. qqJob \in QqJobRow
    BY OutgoingFacts
  <2>2. CASE PrepareQq
    BY <2>2 DEF PrepareQq
  <2>3. CASE LeaseRunsOut
    BY <2>1, <2>3 DEF LeaseRunsOut, QqJobRow
  <2> QED
    BY <2>2, <2>3 DEF GrowsOld, Switch
<1>3. SuccessReachesAll'
  BY <1>1, <1>2, OutgoingFacts DEF SuccessReachesAll
<1>4. CallsSound' /\ \A h \in Senders : RowOK(h)'
  BY <1>1, OutgoingFacts DEF CallsSound, RowOK
<1>5. \A g \in Groups : OncePerTarget(g)'
  BY <1>1, OutgoingFacts DEF OncePerTarget, OpenFor
<1> QED
  BY <1>3, <1>4, <1>5 DEF OutgoingInv

LEMMA HandlerMovesKeep ==
    ASSUME QqAssumption, OutgoingInv, OutgoingTypeOK', NEW h \in Senders,
           ClaimQq(h) \/ LookForTargets(h) \/ CheckAge(h) \/ EndSending(h) \/ SenderDies(h) \/ CallTimesOut(h)
    PROVE  OutgoingInv'
PROOF
<1>1. /\ sender \in [Senders -> SenderRow] /\ sender[h] \in SenderRow /\ RowOK(h)
      /\ UNCHANGED <<call, outbox, reached, risked>>
  BY OutgoingFacts DEF ClaimQq, LookForTargets, CheckAge, EndSending, SenderDies, CallTimesOut
<1>2. CASE ClaimQq(h)
  <2>1. /\ \A i \in Senders : i # h => sender'[i] = sender[i]
        /\ sender'[h].pc = "begin" /\ sender'[h].call = Unset
    BY <1>1, <1>2 DEF ClaimQq, SenderRow, RowOK
  <2>2. RowOK(h)'
    BY <2>1 DEF RowOK
  <2>3. SuccessReachesAll'
    BY <1>2 DEF ClaimQq, SuccessReachesAll
  <2> QED
    BY <1>1, <2>1, <2>2, <2>3, HandlerKeeps
<1>3. CASE LookForTargets(h)
  <2>1. CASE EndsExcused(h)
    BY <1>1, <2>1, ExcusedKeeps
  <2>2. CASE /\ sender' = [sender EXCEPT ![h].pc = "check", ![h].due = DirectTargets, ![h].todo = DirectTargets]
             /\ UNCHANGED <<qqJob, excused, owed>>
    <3> DEFINE row == [sender[h] EXCEPT !.pc = "check", !.due = DirectTargets, !.todo = DirectTargets]
    <3>1. sender' = [sender EXCEPT ![h] = row]
      BY <1>1, <2>2
    <3>2. /\ row.pc = "check" /\ row.due = DirectTargets /\ row.todo = DirectTargets
          /\ row.call = sender[h].call
      BY <1>1 DEF SenderRow
    <3>3. sender[h].call = Unset
      BY <1>1, <1>3 DEF RowOK, LookForTargets
    <3>4. Configured \subseteq DirectTargets
      BY DEF DirectTargets
    <3>5. sender'[h] = row /\ \A i \in Senders : i # h => sender'[i] = sender[i]
      BY <1>1, <3>1
    <3> HIDE DEF row
    <3>6. RowOK(h)'
      BY <3>2, <3>3, <3>4, <3>5 DEF RowOK
    <3>7. SuccessReachesAll'
      BY <1>1, <2>2, OutgoingFacts DEF SuccessReachesAll
    <3> QED
      BY <1>1, <3>5, <3>6, <3>7, HandlerKeeps
  <2> QED
    BY <1>3, <2>1, <2>2 DEF LookForTargets
<1>4. CASE CheckAge(h)
  <2>1. CASE EndsExcused(h)
    BY <1>1, <2>1, ExcusedKeeps
  <2>2. ASSUME NEW failed \in BOOLEAN, sender' = [sender EXCEPT ![h].pc = "loop", ![h].failed = failed],
               UNCHANGED <<qqJob, excused, owed>>
        PROVE  OutgoingInv'
    <3> DEFINE row == [sender[h] EXCEPT !.pc = "loop", !.failed = failed]
    <3>1. sender' = [sender EXCEPT ![h] = row]
      BY <1>1, <2>2
    <3>2. /\ row.pc = "loop" /\ row.due = sender[h].due /\ row.todo = sender[h].todo
          /\ row.call = sender[h].call
      BY <1>1 DEF SenderRow
    <3>3. sender[h].call = Unset /\ Configured \subseteq sender[h].due /\ sender[h].todo = sender[h].due
      BY <1>1, <1>4 DEF RowOK, CheckAge
    <3>4. sender'[h] = row /\ \A i \in Senders : i # h => sender'[i] = sender[i]
      BY <1>1, <3>1
    <3> HIDE DEF row
    <3>5. RowOK(h)'
      BY <3>2, <3>3, <3>4 DEF RowOK
    <3>6. SuccessReachesAll'
      BY <1>1, <2>2, OutgoingFacts DEF SuccessReachesAll
    <3> QED
      BY <1>1, <3>4, <3>5, <3>6, HandlerKeeps
  <2> QED
    BY <1>4, <2>1, <2>2 DEF CheckAge
<1>5. CASE EndSending(h)
  <2>1. sender'[h] = RestingSender /\ \A i \in Senders : i # h => sender'[i] = sender[i]
    BY <1>1, <1>5 DEF EndSending
  <2>2. SuccessReachesAll'
    <3>1. UNCHANGED <<excused, reached>>
      BY <1>5 DEF EndSending
    <3>2. CASE ~HoldsJob(h)
      <4>1. qqJob' = qqJob /\ owed' = owed
        BY <1>5, <3>2 DEF EndSending, JobAfter
      <4> QED
        BY <3>1, <4>1, OutgoingFacts DEF SuccessReachesAll
    <3>3. CASE HoldsJob(h)
      <4>1. owed' = sender[h].due /\ sender[h].pc = "loop" /\ sender[h].todo = {}
        BY <1>5, <3>3 DEF EndSending
      <4>2. qqJob'.status = "SUCCEEDED" => ~sender[h].failed
        BY <1>5, <3>3, OutgoingFacts DEF EndSending, JobAfter, HoldsJob, QqJobRow
      <4>3. ~sender[h].failed => \A g \in Configured \cup owed' : reached[g] >= 1
        BY <1>1, <4>1 DEF RowOK
      <4> QED
        BY <3>1, <4>2, <4>3 DEF SuccessReachesAll
    <3> QED
      BY <3>2, <3>3
  <2> QED
    BY <1>1, <2>1, <2>2, HandlerKeeps, RestKeepsRow
<1>6. CASE SenderDies(h)
  <2>1. sender'[h] = RestingSender /\ \A i \in Senders : i # h => sender'[i] = sender[i]
    BY <1>1, <1>6 DEF SenderDies
  <2>2. SuccessReachesAll'
    BY <1>6, OutgoingFacts DEF SenderDies, SuccessReachesAll
  <2> QED
    BY <1>1, <2>1, <2>2, HandlerKeeps, RestKeepsRow
<1>7. CASE CallTimesOut(h)
  <2>1. /\ sender'[h] = Done(sender[h], call[sender[h].call].target, FALSE)
        /\ \A i \in Senders : i # h => sender'[i] = sender[i]
    BY <1>1, <1>7 DEF CallTimesOut
  <2>2. /\ sender'[h].pc = sender[h].pc /\ sender'[h].due = sender[h].due /\ sender'[h].call = Unset
        /\ sender'[h].failed
    BY <1>1, <2>1 DEF Done, SenderRow
  <2>3. RowOK(h)'
    BY <1>1, <1>7, <2>2 DEF RowOK, CallTimesOut
  <2>4. SuccessReachesAll'
    BY <1>7, OutgoingFacts DEF CallTimesOut, SuccessReachesAll
  <2> QED
    BY <1>1, <2>1, <2>3, <2>4, HandlerKeeps
<1> QED
  BY <1>2, <1>3, <1>4, <1>5, <1>6, <1>7

(* A step of the bridge or of a call: the rows it answers, and the others.   *)
LEMMA RowsKeep ==
    ASSUME QqAssumption, OutgoingInv, NEW calls \in SUBSET Calls, NEW ok \in BOOLEAN, AnswersTo(calls, ok),
           \A g \in Groups : reached'[g] = reached[g],
           \A k \in Calls \ calls : call'[k] = call[k],
           ok => \A k \in calls : call[k].pc # "free" => reached[call[k].target] >= 1
    PROVE  \A h \in Senders : RowOK(h)'
<1> SUFFICES ASSUME NEW h \in Senders
             PROVE  RowOK(h)'
  OBVIOUS
<1>1. sender[h] \in SenderRow /\ RowOK(h)
  BY OutgoingFacts
<1>2. \A g \in sender[h].due : g \in Groups
  BY <1>1 DEF SenderRow
<1>3. CASE sender[h].call \notin calls /\ sender'[h] = sender[h]
  <2>1. sender[h].call # Unset => call'[sender[h].call] = call[sender[h].call]
    BY <1>1, <1>3 DEF SenderRow
  <2> QED
    BY <1>1, <1>2, <1>3, <2>1 DEF RowOK
<1>4. CASE sender[h].call \in calls /\ sender'[h] = Done(sender[h], call[sender[h].call].target, ok)
  <2>1. PICK g : g = call[sender[h].call].target
    OBVIOUS
  <2>2. /\ sender'[h].pc = sender[h].pc /\ sender'[h].due = sender[h].due /\ sender'[h].call = Unset
        /\ sender'[h].todo = sender[h].todo \ {g}
        /\ ~sender'[h].failed => ~sender[h].failed /\ ok
    BY <1>1, <1>4, <2>1, DoneRow
  <2>3. sender[h].call # Unset /\ ok => sender[h].pc = "loop" /\ reached[g] >= 1
    BY <1>1, <1>4, <2>1 DEF RowOK
  <2>4. CASE sender[h].call # Unset
    BY <1>1, <1>2, <2>2, <2>3, <2>4 DEF RowOK
  <2>5. CASE sender[h].call = Unset
    BY <1>4, <2>5 DEF QqAssumption
  <2> QED
    BY <2>4, <2>5
<1> QED
  BY <1>3, <1>4, AnsweredRows

(* The steps that change the calls.  What OncePerTarget says of the calls   *)
(* that are open for a target.                                              *)
LEMMA OpenCalls ==
    ASSUME OutgoingInv
    PROVE  /\ \A g \in Groups, k \in Calls : k \in OpenFor(g) <=> call[k].pc # "free" /\ call[k].target = g
           /\ \A g \in Groups : OpenFor(g) \subseteq Calls
           /\ \A k \in Calls : call[k].pc \in {"free", "unsent", "sent"}
BY OutgoingFacts DEF OpenFor, CallRow

LEMMA OutboxAnswerKeeps ==
    ASSUME QqAssumption, OutgoingInv, OutgoingTypeOK', NEW h \in Senders, NEW g \in Groups, AnsweredFromOutbox(h, g)
    PROVE  OutgoingInv'
PROOF
<1>1. /\ sender \in [Senders -> SenderRow] /\ sender[h] \in SenderRow /\ RowOK(h)
      /\ UNCHANGED <<qqJob, call, outbox, reached, risked, excused, owed>>
      /\ sender[h].pc = "loop" /\ sender[h].call = Unset /\ outbox[g] # "nothing"
  BY OutgoingFacts DEF AnsweredFromOutbox
<1>2. /\ sender'[h] = Done(sender[h], g, outbox[g] = "id")
      /\ \A i \in Senders : i # h => sender'[i] = sender[i]
  BY <1>1 DEF AnsweredFromOutbox
<1>3. /\ sender'[h].pc = "loop" /\ sender'[h].due = sender[h].due /\ sender'[h].call = Unset
      /\ sender'[h].todo = sender[h].todo \ {g}
      /\ ~sender'[h].failed => ~sender[h].failed
  BY <1>1, <1>2 DEF Done, SenderRow
<1>4. reached[g] >= 1
  BY <1>1, OutgoingFacts DEF CallsSound
<1>5. RowOK(h)'
  BY <1>1, <1>3, <1>4 DEF RowOK
<1>6. SuccessReachesAll'
  BY <1>1, OutgoingFacts DEF SuccessReachesAll
<1> QED
  BY <1>1, <1>2, <1>5, <1>6, HandlerKeeps

LEMMA PostKeeps ==
    ASSUME QqAssumption, OutgoingInv, OutgoingTypeOK',
           NEW h \in Senders, NEW g \in Groups, NEW k \in Calls, PostText(h, g, k)
    PROVE  OutgoingInv'
PROOF
<1>1. /\ sender \in [Senders -> SenderRow] /\ sender[h] \in SenderRow /\ call \in [Calls -> CallRow]
      /\ UNCHANGED <<qqJob, outbox, reached, excused, owed>>
      /\ sender[h].pc = "loop" /\ sender[h].call = Unset /\ g \in sender[h].todo
      /\ outbox[g] = "nothing" /\ call[k].pc = "free"
  BY OutgoingFacts DEF PostText
<1>2. /\ \A l \in Calls : l # k => call'[l] = call[l]
      /\ call'[k].pc = "unsent" /\ call'[k].target = g
  BY <1>1 DEF PostText
<1>3. \A i \in Senders : RowOK(i)'
  <2> SUFFICES ASSUME NEW i \in Senders
               PROVE  RowOK(i)'
    OBVIOUS
  <2>1. sender[i] \in SenderRow /\ RowOK(i)
    BY OutgoingFacts
  <2>2. CASE i = h
    <3>1. /\ sender'[h].pc = "loop" /\ sender'[h].due = sender[h].due /\ sender'[h].call = k
          /\ sender'[h].todo = sender[h].todo /\ sender'[h].failed = sender[h].failed
      BY <1>1 DEF PostText, SenderRow
    <3> QED
      BY <1>1, <1>2, <2>1, <2>2, <3>1 DEF RowOK
  <2>3. CASE i # h
    <3>1. sender'[i] = sender[i]
      BY <1>1, <2>3 DEF PostText
    <3>2. sender[i].call # Unset => sender[i].call \in Calls /\ sender[i].call # k
      BY <1>1, <2>1 DEF RowOK, SenderRow
    <3> QED
      BY <1>1, <1>2, <2>1, <3>1, <3>2 DEF RowOK
  <2> QED
    BY <2>2, <2>3
<1>4. CallsSound'
  <2>1. \A l \in Calls : call'[l].pc # "free" => call'[l].target \in Groups
    BY <1>2, OutgoingFacts DEF CallsSound
  <2>2. \A l \in Calls : call'[l].pc = "sent" => reached[call'[l].target] >= 1
    BY <1>2, OutgoingFacts DEF CallsSound
  <2> QED
    BY <1>1, <2>1, <2>2, OutgoingFacts DEF CallsSound
<1>5. ASSUME NEW t \in Groups
      PROVE  OncePerTarget(t)'
  <2>1. OncePerTarget(t) /\ (t \notin risked' => t \notin risked)
    BY OutgoingFacts DEF PostText
  <2>2. CASE t # g
    <3>1. OpenFor(t)' = OpenFor(t) /\ \A l \in OpenFor(t) : call'[l] = call[l]
      BY <1>1, <1>2, <2>2 DEF OpenFor
    <3> QED
      BY <1>1, <2>1, <3>1 DEF OncePerTarget
  <2>3. CASE t = g
    <3>1. ASSUME t \notin risked'
          PROVE  OpenFor(t) = {}
      BY <2>3, <3>1 DEF PostText
    <3>2. ASSUME OpenFor(t) = {}
          PROVE  OpenFor(t)' = {k}
      BY <1>2, <2>3, <3>2 DEF OpenFor
    <3>3. ASSUME t \notin risked'
          PROVE  reached[t] = 0
      BY <1>1, <2>1, <2>3, <3>1, <3>3 DEF OncePerTarget
    <3> QED
      BY <1>1, <1>2, <3>1, <3>2, <3>3 DEF OncePerTarget
  <2> QED
    BY <2>2, <2>3
<1>6. SuccessReachesAll'
  BY <1>1, OutgoingFacts DEF SuccessReachesAll
<1> QED
  BY <1>3, <1>4, <1>5, <1>6 DEF OutgoingInv

LEMMA ReachesKeeps ==
    ASSUME QqAssumption, OutgoingInv, OutgoingTypeOK', NEW k \in Calls, TextReaches(k)
    PROVE  OutgoingInv'
PROOF
<1>1. /\ call \in [Calls -> CallRow] /\ reached \in [Groups -> Nat]
      /\ UNCHANGED <<qqJob, sender, outbox, risked, excused, owed>>
      /\ call[k].pc = "unsent"
  BY OutgoingFacts DEF TextReaches
<1>2. PICK g \in Groups : g = call[k].target
  BY <1>1, OutgoingFacts DEF CallsSound
<1>3. /\ \A l \in Calls : l # k => call'[l] = call[l]
      /\ call'[k].pc = "sent" /\ call'[k].target = g
      /\ \A t \in Groups : reached[t] \in Nat /\ reached'[t] = IF t = g THEN reached[t] + 1 ELSE reached[t]
  BY <1>1, <1>2 DEF TextReaches, CallRow
<1>4. \A t \in Groups : reached[t] <= reached'[t]
  BY <1>3
<1>5. \A i \in Senders : RowOK(i)'
  <2> SUFFICES ASSUME NEW i \in Senders
               PROVE  RowOK(i)'
    OBVIOUS
  <2>1. sender[i] \in SenderRow /\ RowOK(i) /\ sender'[i] = sender[i]
    BY <1>1, OutgoingFacts
  <2>2. \A t \in sender[i].due : t \in Groups /\ (reached[t] >= 1 => reached'[t] >= 1)
    BY <1>3, <2>1 DEF SenderRow
  <2>3. sender[i].call # Unset => /\ call'[sender[i].call].pc # "free"
                                  /\ call'[sender[i].call].target = call[sender[i].call].target
    BY <1>2, <1>3, <2>1 DEF RowOK, SenderRow
  <2> QED
    BY <2>1, <2>2, <2>3 DEF RowOK
<1>6. CallsSound'
  <2>1. \A l \in Calls : call'[l].pc # "free" => call'[l].target \in Groups
    BY <1>3, OutgoingFacts DEF CallsSound
  <2>2. ASSUME NEW l \in Calls, call'[l].pc = "sent"
        PROVE  reached'[call'[l].target] >= 1
    <3>1. l # k => call[l].target \in Groups /\ reached[call[l].target] >= 1
      BY <1>3, <2>2, OutgoingFacts DEF CallsSound
    <3> QED
      BY <1>3, <3>1
  <2>3. ASSUME NEW t \in Groups, outbox[t] # "nothing"
        PROVE  reached'[t] >= 1
    <3>1. reached[t] >= 1
      BY <2>3, OutgoingFacts DEF CallsSound
    <3> QED
      BY <1>3, <3>1
  <2> QED
    BY <1>1, <2>1, <2>2, <2>3 DEF CallsSound
<1>7. ASSUME NEW t \in Groups
      PROVE  OncePerTarget(t)'
  <2>1. OncePerTarget(t)
    BY OutgoingFacts
  <2>2. OpenFor(t)' = OpenFor(t)
    <3>1. \A l \in Calls : (call'[l].pc # "free" <=> call[l].pc # "free") /\ call'[l].target = call[l].target
      BY <1>1, <1>2, <1>3
    <3> QED
      BY <3>1 DEF OpenFor
  <2>3. CASE t # g
    <3>1. \A l \in OpenFor(t) : call'[l] = call[l]
      BY <1>2, <1>3, <2>3 DEF OpenFor
    <3> QED
      BY <1>1, <1>3, <2>1, <2>2, <2>3, <3>1 DEF OncePerTarget
  <2>4. CASE t = g
    <3>1. k \in OpenFor(t)
      BY <1>1, <1>2, <2>4 DEF OpenFor
    <3>2. ASSUME t \notin risked
          PROVE  reached'[t] = 1 /\ \A l \in OpenFor(t) : l = k
      BY <1>1, <1>3, <2>1, <2>4, <3>1, <3>2 DEF OncePerTarget
    <3> QED
      BY <1>1, <1>3, <2>1, <2>2, <3>1, <3>2 DEF OncePerTarget
  <2> QED
    BY <2>3, <2>4
<1>8. SuccessReachesAll'
  BY <1>1, <1>4, JobAloneKeeps
<1> QED
  BY <1>5, <1>6, <1>7, <1>8 DEF OutgoingInv

LEMMA RefusedKeeps ==
    ASSUME QqAssumption, OutgoingInv, OutgoingTypeOK', NEW k \in Calls, TextRefused(k)
    PROVE  OutgoingInv'
PROOF
<1>1. /\ call \in [Calls -> CallRow]
      /\ UNCHANGED <<qqJob, outbox, reached, risked, excused, owed>>
      /\ call[k].pc = "unsent" /\ AnswersTo({k}, FALSE)
  BY OutgoingFacts DEF TextRefused
<1>2. /\ \A l \in Calls : l # k => call'[l] = call[l]
      /\ call'[k].pc = "free"
  BY <1>1 DEF TextRefused, FreeCall
<1>3. \A i \in Senders : RowOK(i)'
  BY <1>1, <1>2, RowsKeep
<1>4. CallsSound'
  BY <1>1, <1>2, OutgoingFacts DEF CallsSound
<1>5. ASSUME NEW t \in Groups
      PROVE  OncePerTarget(t)'
  <2>1. OncePerTarget(t)
    BY OutgoingFacts
  <2>2. OpenFor(t)' = OpenFor(t) \ {k} /\ \A l \in OpenFor(t)' : call'[l] = call[l]
    BY <1>2 DEF OpenFor
  <2>3. CASE k \in OpenFor(t)
    <3>1. t \notin risked => reached[t] = 0 /\ OpenFor(t)' = {}
      BY <1>1, <2>1, <2>2, <2>3 DEF OncePerTarget
    <3> QED
      BY <1>1, <3>1 DEF OncePerTarget
  <2>4. CASE k \notin OpenFor(t)
    BY <1>1, <2>1, <2>2, <2>4 DEF OncePerTarget
  <2> QED
    BY <2>3, <2>4
<1>6. SuccessReachesAll'
  BY <1>1, OutgoingFacts DEF SuccessReachesAll
<1> QED
  BY <1>3, <1>4, <1>5, <1>6 DEF OutgoingInv

LEMMA RecordedKeeps ==
    ASSUME QqAssumption, OutgoingInv, OutgoingTypeOK', NEW k \in Calls, NEW result \in {"id", "no id"},
           TextRecorded(k, result)
    PROVE  OutgoingInv'
PROOF
<1>1. /\ call \in [Calls -> CallRow] /\ outbox \in [Groups -> {"nothing", "id", "no id"}]
      /\ UNCHANGED <<qqJob, reached, risked, excused, owed>>
      /\ call[k].pc = "sent" /\ AnswersTo({k}, result = "id")
  BY OutgoingFacts DEF TextRecorded
<1>2. PICK g \in Groups : g = call[k].target /\ reached[g] >= 1
  BY <1>1, OutgoingFacts DEF CallsSound
<1>3. /\ \A l \in Calls : l # k => call'[l] = call[l]
      /\ call'[k].pc = "free"
      /\ \A t \in Groups : t # g => outbox'[t] = outbox[t]
      /\ outbox'[g] = result
  BY <1>1, <1>2 DEF TextRecorded, FreeCall
<1>4. \A i \in Senders : RowOK(i)'
  <2>1. CASE result = "id"
    <3>1. AnswersTo({k}, TRUE)
      BY <1>1, <2>1
    <3>2. \A l \in Calls \ {k} : call'[l] = call[l]
      BY <1>3
    <3>3. \A l \in {k} : call[l].pc # "free" => reached[call[l].target] >= 1
      BY <1>2
    <3>4. \A t \in Groups : reached'[t] = reached[t]
      BY <1>1
    <3> QED
      BY <3>1, <3>2, <3>3, <3>4, RowsKeep
  <2>2. CASE result # "id"
    <3>1. AnswersTo({k}, FALSE)
      BY <1>1, <2>2
    <3> QED
      BY <1>1, <1>2, <1>3, <3>1, RowsKeep
  <2> QED
    BY <2>1, <2>2
<1>5. CallsSound'
  <2>1. \A t \in Groups : outbox'[t] # "nothing" => reached[t] >= 1
    BY <1>2, <1>3, OutgoingFacts DEF CallsSound
  <2> QED
    BY <1>1, <1>3, <2>1, OutgoingFacts DEF CallsSound
<1>6. ASSUME NEW t \in Groups
      PROVE  OncePerTarget(t)'
  <2>1. OncePerTarget(t)
    BY OutgoingFacts
  <2>2. OpenFor(t)' = OpenFor(t) \ {k} /\ \A l \in OpenFor(t)' : call'[l] = call[l]
    BY <1>3 DEF OpenFor
  <2>3. CASE t = g
    <3>1. k \in OpenFor(t)
      BY <1>1, <1>2, <2>3 DEF OpenFor
    <3>2. t \notin risked => OpenFor(t)' = {}
      BY <2>1, <2>2, <3>1 DEF OncePerTarget
    <3> QED
      BY <1>1, <1>3, <2>1, <2>3, <3>2 DEF OncePerTarget
  <2>4. CASE t # g
    <3>1. k \notin OpenFor(t)
      BY <1>2, <2>4 DEF OpenFor
    <3>2. OpenFor(t)' = OpenFor(t) /\ outbox'[t] = outbox[t] /\ \A l \in OpenFor(t) : call'[l] = call[l]
      BY <1>3, <2>2, <2>4, <3>1
    <3>3. UNCHANGED <<reached, risked>>
      BY <1>1
    <3> QED
      BY <2>1, <3>2, <3>3 DEF OncePerTarget
  <2> QED
    BY <2>3, <2>4
<1>7. SuccessReachesAll'
  BY <1>1, OutgoingFacts DEF SuccessReachesAll
<1> QED
  BY <1>4, <1>5, <1>6, <1>7 DEF OutgoingInv

LEMMA BridgeDiesKeeps ==
    ASSUME QqAssumption, OutgoingInv, OutgoingTypeOK', BridgeDies
    PROVE  OutgoingInv'
PROOF
<1>1. /\ UNCHANGED <<qqJob, outbox, reached, excused, owed>>
      /\ AnswersTo(Calls, FALSE)
      /\ \A k \in Calls : call'[k].pc = "free"
      /\ risked' = risked \cup {g \in Groups : \E k \in OpenFor(g) : call[k].pc = "sent"}
  BY DEF BridgeDies, FreeCall
<1>2. \A i \in Senders : RowOK(i)'
  BY <1>1, RowsKeep
<1>3. CallsSound'
  BY <1>1, OutgoingFacts DEF CallsSound
<1>4. ASSUME NEW t \in Groups
      PROVE  OncePerTarget(t)'
  <2>1. OncePerTarget(t)
    BY OutgoingFacts
  <2>2. OpenFor(t)' = {}
    BY <1>1 DEF OpenFor
  <2>3. ASSUME t \notin risked'
        PROVE  t \notin risked /\ \A k \in OpenFor(t) : call[k].pc = "unsent"
    <3>1. \A k \in OpenFor(t) : call[k].pc # "sent"
      BY <1>1, <2>3
    <3> QED
      BY <1>1, <2>3, <3>1, OpenCalls
  <2> QED
    BY <1>1, <2>1, <2>2, <2>3 DEF OncePerTarget
<1>5. SuccessReachesAll'
  BY <1>1, OutgoingFacts DEF SuccessReachesAll
<1> QED
  BY <1>2, <1>3, <1>4, <1>5 DEF OutgoingInv

LEMMA OutgoingKeeps ==
    ASSUME QqAssumption, InboxTypeOK, OutgoingInv, SendingMove \/ BridgeDies
    PROVE  OutgoingInv'
PROOF
<1>1. OutgoingTypeOK'
  BY OutgoingTypes
<1>2. CASE PrepareQq \/ GrowsOld \/ Switch \/ LeaseRunsOut
  BY <1>1, <1>2, JobMovesKeep
<1>3. ASSUME NEW h \in Senders,
             ClaimQq(h) \/ LookForTargets(h) \/ CheckAge(h) \/ EndSending(h) \/ SenderDies(h) \/ CallTimesOut(h)
      PROVE  OutgoingInv'
  BY <1>1, <1>3, HandlerMovesKeep
<1>4. ASSUME NEW h \in Senders, NEW g \in Groups, AnsweredFromOutbox(h, g)
      PROVE  OutgoingInv'
  BY <1>1, <1>4, OutboxAnswerKeeps
<1>5. ASSUME NEW h \in Senders, NEW g \in Groups, NEW k \in Calls, PostText(h, g, k)
      PROVE  OutgoingInv'
  BY <1>1, <1>5, PostKeeps
<1>6. ASSUME NEW k \in Calls, TextReaches(k) \/ TextRefused(k)
      PROVE  OutgoingInv'
  BY <1>1, <1>6, ReachesKeeps, RefusedKeeps
<1>7. ASSUME NEW k \in Calls, NEW result \in {"id", "no id"}, TextRecorded(k, result)
      PROVE  OutgoingInv'
  BY <1>1, <1>7, RecordedKeeps
<1>8. CASE BridgeDies
  BY <1>1, <1>8, BridgeDiesKeeps
<1> QED
  BY <1>2, <1>3, <1>4, <1>5, <1>6, <1>7, <1>8 DEF SendingMove

(* A step of the sending leaves the inbox alone, but for the count of       *)
(* mishaps.                                                                 *)
LEMMA SendingKeepsInbox ==
    ASSUME QqAssumption, InboxInv, SendingMove
    PROVE  InboxInv'
PROOF
<1>1. UNCHANGED inboxState /\ qqMishaps' \in Nat
  <2>1. qqMishaps \in Nat
    BY DEF InboxInv, InboxTypeOK
  <2>2. SUFFICES UNCHANGED inboxVars \/ (UNCHANGED inboxState /\ QqMishap)
    BY <2>1 DEF QqMishap, inboxVars
  <2>3. CASE PrepareQq \/ GrowsOld \/ Switch \/ LeaseRunsOut
    BY <2>3 DEF PrepareQq, GrowsOld, Switch, LeaseRunsOut
  <2>4. ASSUME NEW h \in Senders,
               \/ ClaimQq(h) \/ LookForTargets(h) \/ CheckAge(h) \/ EndSending(h) \/ SenderDies(h) \/ CallTimesOut(h)
               \/ \E g \in Groups : AnsweredFromOutbox(h, g) \/ \E k \in Calls : PostText(h, g, k)
        PROVE  UNCHANGED inboxVars \/ (UNCHANGED inboxState /\ QqMishap)
    BY <2>4 DEF ClaimQq, LookForTargets, CheckAge, EndSending, SenderDies, CallTimesOut, AnsweredFromOutbox, PostText
  <2>5. ASSUME NEW k \in Calls,
               TextReaches(k) \/ TextRefused(k) \/ \E result \in {"id", "no id"} : TextRecorded(k, result)
        PROVE  UNCHANGED inboxVars \/ (UNCHANGED inboxState /\ QqMishap)
    BY <2>5 DEF TextReaches, TextRefused, TextRecorded
  <2> QED
    BY <2>3, <2>4, <2>5 DEF SendingMove
<1>2. InboxTypeOK'
  BY <1>1 DEF InboxInv, InboxTypeOK, inboxState, inboundVars, bridgeVars
<1> QED
  BY <1>1, <1>2, CursorsDropKeeps DEF QqAssumption, inboxState, inboundVars, bridgeVars

LEMMA QqStarts ==
    ASSUME QqAssumption, QqInit
    PROVE  QqInv
PROOF
<1>1. InboxInv
  BY InboxStarts DEF QqInit, QqAssumption
<1>2. OutgoingTypeOK
  <2>1. sender \in [Senders -> SenderRow] /\ call \in [Calls -> CallRow]
    BY RestingRows DEF QqInit, OutgoingInit
  <2>2. qqJob \in QqJobRow
    BY DEF QqInit, OutgoingInit, QqJobRow, QqAssumption
  <2> QED
    BY <2>1, <2>2 DEF QqInit, OutgoingInit, OutgoingTypeOK, SenderRow, CallRow, QqJobRow
<1>3. CallsSound /\ SuccessReachesAll /\ \A h \in Senders : RowOK(h)
  BY DEF QqInit, OutgoingInit, CallsSound, SuccessReachesAll, RowOK, RestingSender, FreeCall
<1>4. \A g \in Groups : OncePerTarget(g)
  BY DEF QqInit, OutgoingInit, OncePerTarget, OpenFor, FreeCall
<1> QED
  BY <1>1, <1>2, <1>3, <1>4 DEF QqInv, OutgoingInv

LEMMA OutgoingStays ==
    ASSUME OutgoingInv, UNCHANGED outgoingVars
    PROVE  OutgoingInv'
<1>1. OutgoingTypeOK'
  BY OutgoingFacts DEF OutgoingTypeOK, outgoingVars
<1>2. CallsSound' /\ SuccessReachesAll'
  BY OutgoingFacts DEF CallsSound, SuccessReachesAll, outgoingVars
<1>3. \A h \in Senders : RowOK(h)'
  BY OutgoingFacts DEF RowOK, outgoingVars
<1>4. \A g \in Groups : OncePerTarget(g)'
  BY OutgoingFacts DEF OncePerTarget, OpenFor, outgoingVars
<1> QED
  BY <1>1, <1>2, <1>3, <1>4 DEF OutgoingInv

LEMMA QqKeeps ==
    ASSUME QqAssumption, QqInv, [QqNext]_qqVars
    PROVE  QqInv'
PROOF
<1>1. CASE InboxStep /\ UNCHANGED outgoingVars
  <2>1. InboxInv'
    BY <1>1, InboxKeeps DEF QqInv, QqAssumption, InboxMove
  <2>2. OutgoingInv'
    BY <1>1, OutgoingStays DEF QqInv
  <2> QED
    BY <2>1, <2>2 DEF QqInv
<1>2. CASE SendingMove
  BY <1>2, SendingKeepsInbox, OutgoingKeeps DEF QqInv, InboxInv
<1>3. CASE BridgeDies
  <2>1. InboxInv'
    BY <1>3, InboxKeeps DEF QqInv, QqAssumption, InboxMove, BridgeDies
  <2> QED
    BY <1>3, <2>1, OutgoingKeeps DEF QqInv, InboxInv
<1>4. CASE UNCHANGED qqVars
  <2>1. UNCHANGED inboxVars /\ UNCHANGED outgoingVars
    BY <1>4 DEF qqVars
  <2>2. InboxTypeOK'
    BY <2>1 DEF QqInv, InboxInv, InboxTypeOK, inboxVars, inboxState, inboundVars, bridgeVars
  <2>3. InboxInv'
    BY <2>1, <2>2, CursorsDropKeeps DEF QqInv, QqAssumption, inboxVars, inboxState, inboundVars, bridgeVars
  <2>4. OutgoingInv'
    BY <2>1, OutgoingStays DEF QqInv
  <2> QED
    BY <2>3, <2>4 DEF QqInv
<1> QED
  BY <1>1, <1>2, <1>3, <1>4 DEF QqNext

LEMMA QqSound ==
    ASSUME QqInv
    PROVE  QqIsSound
<1>1. \A g \in Groups : g \notin risked => reached[g] <= 1
  BY OutgoingFacts DEF QqInv, OncePerTarget
<1> QED
  BY <1>1, InboxIsSound, OutgoingFacts DEF QqInv, QqIsSound, OnceUnlessRisked

(* With any number of bots, groups, messages, handlers, calls and mishaps:  *)
(* no message that the bridge holds is passed over, the last word of a      *)
(* group counts, a target gets a batch once unless calls overlapped or the  *)
(* bridge died with it, and a job that succeeded reached all it owed        *)
(* (run_inbound, _handle_message, send_decision_notification, the outbox).  *)
THEOREM QqAlwaysSound ==
    ASSUME QqAssumption
    PROVE  QqSpec => []QqIsSound
PROOF
<1>1. QqInit => QqInv
  BY QqStarts
<1>2. QqInv /\ [QqNext]_qqVars => QqInv'
  BY QqKeeps
<1>3. QqInv => QqIsSound
  BY QqSound
<1> QED
  BY <1>1, <1>2, <1>3, PTL DEF QqSpec
=============================================================================
