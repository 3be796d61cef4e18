------------------------------ MODULE Bindings ------------------------------
(***************************************************************************)
(* Who may be notified where: the WeChat accounts that users bind to their *)
(* own by scanning a code or by a pairing code sent in a chat, and unbind. *)
(*                                                                         *)
(* The credentials are files in a local directory (WeChatClawBotStore);    *)
(* the bindings are rows of the database (NotificationCenterService).  No  *)
(* transaction spans the two: WeChatUserQrBindingService and the route     *)
(* that deletes a binding write one, then the other.                       *)
(*                                                                         *)
(* An account stands for the one destination it reaches, the chat with the *)
(* WeChat user who scanned the code.                                       *)
(***************************************************************************)
EXTENDS Naturals, FiniteSets

CONSTANTS
    Users,           \* the site's users
    Accounts,        \* WeChat bot accounts
    NoOne,
    MaxMishaps       \* bound: failed transactions, crashes, lost answers and leases

BindingsAssumption ==
    /\ NoOne \notin Users \cup Accounts
    /\ MaxMishaps \in Nat

VARIABLES
    store,           \* owner_user_id of each account's credential file
    binding,         \* notification_bindings, by destination
    access,          \* what each user's entitlement and preference allow
    qr,              \* the QR login of each user
    code,            \* the users with a live pairing code
    revoking,        \* DELETE requests that have committed, by user
    crossed,         \* accounts revoked while the same user was binding them
    mishaps

bindingVars == <<store, binding, access, qr, code, revoking, crossed>>

NoBinding == [owner |-> NoOne, status |-> "NONE", qr |-> FALSE]
NoLogin == [pc |-> "none", account |-> NoOne, previous |-> {}]

BindingsTypeOK ==
    /\ store \in [Accounts -> Users \cup {NoOne}]
    /\ binding \in [Accounts -> [owner: Users \cup {NoOne},
                                 status: {"NONE", "ACTIVE", "DISABLED"}, qr: BOOLEAN]]
    /\ access \in [Users -> {"on", "paused", "none"}]
    /\ qr \in [Users -> [pc: {"none", "open", "saved", "bound"},
                         account: Accounts \cup {NoOne}, previous: SUBSET Accounts]]
    /\ code \subseteq Users
    /\ revoking \in [Users -> Accounts \cup {NoOne}]
    /\ crossed \subseteq Accounts
    /\ mishaps \in 0..MaxMishaps

BindingsInit ==
    /\ store = [a \in Accounts |-> NoOne]
    /\ binding = [a \in Accounts |-> NoBinding]
    /\ access = [u \in Users |-> "on"]
    /\ qr = [u \in Users |-> NoLogin]
    /\ code = {}
    /\ revoking = [u \in Users |-> NoOne]
    /\ crossed = {}
    /\ mishaps = 0

Mishap == mishaps < MaxMishaps /\ mishaps' = mishaps + 1
NoMishap == UNCHANGED mishaps

CredentialsOf(u) == {a \in Accounts : store[a] = u}

(* eligible_bindings and _binding_is_allowed_for_resource: the binding is   *)
(* active, its owner is entitled (and not disabled), and has not opted out. *)
PermittedBy(rows, rights, a) ==
    /\ rows[a].status = "ACTIVE"
    /\ rights[rows[a].owner] = "on"
Permitted(a) == PermittedBy(binding, access, a)

-----------------------------------------------------------------------------
(* Entitlements and preferences.                                            *)

(* The preference, set on the web page or by a command in the chat.         *)
SetPreference(u) ==
    /\ access[u] # "none"
    /\ access' = [access EXCEPT ![u] = IF @ = "on" THEN "paused" ELSE "on"]
    /\ UNCHANGED <<store, binding, qr, code, revoking, crossed>>
    /\ NoMishap

(* A refund, an expiry or an administrator ends the entitlement; a purchase *)
(* brings it back.  What the preference is then is any of the two.          *)
EntitlementChanges(u) ==
    /\ access' \in {[access EXCEPT ![u] = x] :
                        x \in IF access[u] = "none" THEN {"on", "paused"} ELSE {"none"}}
    /\ UNCHANGED <<store, binding, qr, code, revoking, crossed>>
    /\ NoMishap

-----------------------------------------------------------------------------
(* _upsert_verified_binding: a destination belongs for good to the user who *)
(* bound it first; anybody else is refused (NotificationBindingConflict).   *)
MayBind(u, a) == binding[a].owner \in {NoOne, u}

(* The QR login: start(), and poll() until WeChat has confirmed the scan.   *)
QrStart(u) ==
    /\ access[u] # "none"
    /\ qr[u].pc = "none"
    /\ qr' = [qr EXCEPT ![u].pc = "open"]
    /\ UNCHANGED <<store, binding, access, code, revoking, crossed>>
    /\ NoMishap

(* Cancelled by its user, expired, or ended by WeChat: it never had any     *)
(* effect on what is stored.                                                *)
QrEnds(u) ==
    /\ qr[u].pc = "open"
    /\ qr' = [qr EXCEPT ![u] = NoLogin]
    /\ UNCHANGED <<store, binding, access, code, revoking, crossed>>
    /\ NoMishap

(* _complete, under _account_lock, up to its first await: the credential is *)
(* written.  An account of another user fails the login.                    *)
LockFree == \A u \in Users : qr[u].pc \notin {"saved", "bound"}

QrSave(u, a) ==
    /\ qr[u].pc = "open"
    /\ LockFree
    /\ IF store[a] \in {NoOne, u}
       THEN /\ store' = [store EXCEPT ![a] = u]
            /\ qr' = [qr EXCEPT ![u] = [pc |-> "saved", account |-> a, previous |-> CredentialsOf(u)]]
       ELSE /\ qr' = [qr EXCEPT ![u] = NoLogin]
            /\ UNCHANGED store
    /\ UNCHANGED <<binding, access, code, revoking, crossed>>
    /\ NoMishap

(* bind_user_account commits: it disables the user's other active bindings. *)
Bound(u, a) ==
    [b \in Accounts |->
        IF b = a THEN [owner |-> u, status |-> "ACTIVE", qr |-> TRUE]
        ELSE IF binding[b].owner = u /\ binding[b].status = "ACTIVE"
        THEN [binding[b] EXCEPT !.status = "DISABLED"]
        ELSE binding[b]]

QrBind(u) ==
    /\ qr[u].pc = "saved"
    /\ MayBind(u, qr[u].account)
    /\ binding' = Bound(u, qr[u].account)
    /\ qr' = [qr EXCEPT ![u].pc = "bound"]
    /\ UNCHANGED <<store, access, code, revoking, crossed>>
    /\ NoMishap

(* It raises: the new credential is removed, then those the user had before *)
(* are written again.  A conflict ends the login; after any other failure   *)
(* its user may poll again.                                                 *)
SlipNotRestored(u) == [store EXCEPT ![qr[u].account] = NoOne]
Restored(u) ==
    [a \in Accounts |->
        IF a \in qr[u].previous THEN u ELSE IF a = qr[u].account THEN NoOne ELSE store[a]]

QrBindRaises(u) ==
    /\ qr[u].pc = "saved"
    /\ store' = Restored(u)
    /\ \/ /\ ~MayBind(u, qr[u].account) /\ NoMishap
          /\ qr' = [qr EXCEPT ![u] = NoLogin]
       \/ /\ MayBind(u, qr[u].account) /\ Mishap
          /\ qr' = [qr EXCEPT ![u] = [NoLogin EXCEPT !.pc = "open"]]
    /\ UNCHANGED <<binding, access, code, revoking, crossed>>

(* Back in _complete: the credentials it replaces are removed.              *)
QrFinish(u) ==
    /\ qr[u].pc = "bound"
    /\ store' = [a \in Accounts |->
                    IF a \in qr[u].previous \ {qr[u].account} THEN NoOne ELSE store[a]]
    /\ qr' = [qr EXCEPT ![u] = NoLogin]
    /\ UNCHANGED <<binding, access, code, revoking, crossed>>
    /\ NoMishap

-----------------------------------------------------------------------------
(* The pairing code: a new one consumes the user's older ones.              *)
CreateCode(u) ==
    /\ access[u] # "none"
    /\ u \notin code
    /\ code' = code \cup {u}
    /\ UNCHANGED <<store, binding, access, qr, revoking, crossed>>
    /\ NoMishap

(* "bind <code>" arrives in the chat of an account that is polled: the code *)
(* is spent and the destination bound, in one transaction, or neither.      *)
ConsumeCode(u, a) ==
    /\ u \in code
    /\ store[a] # NoOne
    /\ MayBind(u, a)
    /\ code' = code \ {u}
    /\ binding' = [binding EXCEPT ![a] = [owner |-> u, status |-> "ACTIVE", qr |-> FALSE]]
    /\ UNCHANGED <<store, access, qr, revoking, crossed>>
    /\ NoMishap

-----------------------------------------------------------------------------
(* DELETE of a binding: it is disabled in a transaction of its own, then    *)
(* the credential is revoked.                                               *)
Disable(u, a) ==
    /\ access[u] # "none"
    /\ binding[a].owner = u
    /\ revoking[u] = NoOne
    /\ binding' = [binding EXCEPT ![a].status = "DISABLED"]
    /\ revoking' = [revoking EXCEPT ![u] = a]
    /\ UNCHANGED <<store, access, qr, code, crossed>>
    /\ NoMishap

(* revoke() removes the credential if it is still that user's, whatever the *)
(* binding has become since.                                                *)
Binding(u, a) == qr[u].pc \in {"saved", "bound"} /\ qr[u].account = a

Revoke(u) ==
    LET a == revoking[u] IN
    /\ a # NoOne
    /\ revoking' = [revoking EXCEPT ![u] = NoOne]
    /\ IF store[a] = u
       THEN /\ store' = [store EXCEPT ![a] = NoOne]
            /\ crossed' = IF Binding(u, a) \/ binding[a].status = "ACTIVE"
                          THEN crossed \cup {a} ELSE crossed
       ELSE UNCHANGED <<store, crossed>>
    /\ UNCHANGED <<binding, access, qr, code>>
    /\ NoMishap

RevokeRaises(u) ==
    /\ revoking[u] # NoOne
    /\ revoking' = [revoking EXCEPT ![u] = NoOne]
    /\ Mishap
    /\ UNCHANGED <<store, binding, access, qr, code, crossed>>

(* The process dies: logins and requests are gone, files and rows stay.     *)
BindingsLost ==
    /\ qr' = [u \in Users |-> NoLogin]
    /\ revoking' = [u \in Users |-> NoOne]
    /\ UNCHANGED <<store, binding, access, code, crossed>>

BindingsStep(u) ==
    \/ SetPreference(u) \/ EntitlementChanges(u)
    \/ QrStart(u) \/ QrEnds(u) \/ QrBind(u) \/ QrBindRaises(u) \/ QrFinish(u)
    \/ CreateCode(u) \/ Revoke(u) \/ RevokeRaises(u)
    \/ \E a \in Accounts : QrSave(u, a) \/ ConsumeCode(u, a) \/ Disable(u, a)

-----------------------------------------------------------------------------
(* A login that fails strands nobody: an account that a user has bound by   *)
(* scanning it keeps its credential, whatever logins failed or crashed      *)
(* half-way, unless that user's own deletion of it crossed their login.     *)
FailedLoginStrandsNobody ==
    \A a \in Accounts : binding[a].status = "ACTIVE" /\ binding[a].qr =>
        store[a] = binding[a].owner \/ a \in crossed
=============================================================================
