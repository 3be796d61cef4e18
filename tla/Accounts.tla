------------------------------ MODULE Accounts ------------------------------
(***************************************************************************)
(* How a visitor becomes a user: codes that are mailed to an inbox, and    *)
(* identities that Google or Steam vouch for (EmailAuthService).           *)
(*                                                                         *)
(* A request for a code holds the lock of its inbox while the mail goes    *)
(* out between two transactions.  The callback of a provider holds no such *)
(* lock: when it finds no account it may meet another login that creates   *)
(* one, and then the unique keys of the two tables decide.                 *)
(*                                                                         *)
(* A login whose transaction fails leaves nothing behind, not even a       *)
(* counted attempt; it is no step here.                                    *)
(***************************************************************************)
EXTENDS Integers, Sequences, FiniteSets, FiniteSetsExt

CONSTANTS
    People,          \* user_accounts that there can be
    Inboxes,         \* normalised e-mail addresses
    GoogleIds, SteamIds,
    MaxTries,        \* max_attempts of a code
    MaxCodes,        \* bound: codes per inbox
    Nil

Subjects == GoogleIds \cup SteamIds

AccountsAssumption ==
    /\ MaxTries \in Nat \ {0} /\ MaxCodes \in Nat
    /\ Nil \notin People \cup Inboxes \cup Subjects
    /\ GoogleIds \cap SteamIds = {} /\ Inboxes \cap Subjects = {}

VARIABLES
    person,          \* user_accounts
    identity,        \* external_identities: whose account a subject is
    codes,           \* email_login_challenges of each inbox, oldest first
    cooling,         \* inboxes whose newest code is younger than the cooldown
    mailing,         \* the request that holds the lock of an inbox
    joining,         \* callbacks that found no account, and what they prove
    sessions         \* every auth_session: whose it is and what it was opened with

accountVars == <<person, identity, codes, cooling, mailing, joining, sessions>>

Code == [status: {"PENDING", "SENT", "FAILED", "PRUNED"}, open: BOOLEAN, fresh: BOOLEAN,
         mailed: BOOLEAN, tries: 0..MaxTries, logins: Nat]

LoginTypeOK ==
    /\ person \in [People -> [exists: BOOLEAN, enabled: BOOLEAN, email: Inboxes \cup {Nil}]]
    /\ identity \in [Subjects -> People \cup {Nil}]
    /\ codes \in [Inboxes -> Seq(Code)]
    /\ cooling \subseteq Inboxes
    /\ mailing \in [Inboxes -> {"no", "sending", "sent", "refused"}]
    /\ joining \in [Subjects -> {Nil} \cup [proven: Inboxes \cup {Nil}]]
    /\ sessions \subseteq [user: People, proof: Inboxes \cup Subjects, valid: BOOLEAN]

LoginInit ==
    /\ person = [u \in People |-> [exists |-> FALSE, enabled |-> TRUE, email |-> Nil]]
    /\ identity = [s \in Subjects |-> Nil]
    /\ codes = [e \in Inboxes |-> <<>>]
    /\ cooling = {}
    /\ mailing = [e \in Inboxes |-> "no"]
    /\ joining = [s \in Subjects |-> Nil]
    /\ sessions = {}

-----------------------------------------------------------------------------
(* Accounts and sessions.                                                   *)
HoldersOf(e) == {u \in People : person[u].email = e}
Unused == {u \in People : ~person[u].exists}

(* _issue_session.                                                          *)
Opened(u, proof) == sessions' = sessions \cup {[user |-> u, proof |-> proof, valid |-> TRUE]}

(* The session ends: logout() revokes it, or its thirty days are over.      *)
SessionEnds(x) ==
    /\ x.valid
    /\ sessions' = (sessions \ {x}) \cup {[x EXCEPT !.valid = FALSE]}
    /\ UNCHANGED <<person, identity, codes, cooling, mailing, joining>>

Disable(u) ==
    /\ person[u].exists /\ person[u].enabled
    /\ person' = [person EXCEPT ![u].enabled = FALSE]
    /\ UNCHANGED <<identity, codes, cooling, mailing, joining, sessions>>

-----------------------------------------------------------------------------
(* Codes.  request_login_code: the newest code decides whether the inbox    *)
(* has to wait, and is consumed; then the new one is stored.                *)
Newest(e) == LET kept == {i \in DOMAIN codes[e] : codes[e][i].status # "PRUNED"}
             IN  IF kept = {} THEN 0 ELSE Max(kept)

NewCode == [status |-> "PENDING", open |-> TRUE, fresh |-> TRUE, mailed |-> FALSE,
            tries |-> 0, logins |-> 0]

SlipOnlyFailed(e) ==
    [i \in DOMAIN codes[e] |-> IF i = Newest(e) /\ codes[e][i].status = "FAILED"
                               THEN [codes[e][i] EXCEPT !.open = FALSE] ELSE codes[e][i]]
Superseded(e) ==
    [i \in DOMAIN codes[e] |-> IF i = Newest(e)
                               THEN [codes[e][i] EXCEPT !.open = FALSE] ELSE codes[e][i]]

RequestCode(e) ==
    /\ mailing[e] = "no"
    /\ Len(codes[e]) < MaxCodes
    /\ e \in cooling => codes[e][Newest(e)].status = "FAILED"
    /\ codes' = [codes EXCEPT ![e] = Append(Superseded(e), NewCode)]
    /\ cooling' = cooling \cup {e}
    /\ mailing' = [mailing EXCEPT ![e] = "sending"]
    /\ UNCHANGED <<person, identity, joining, sessions>>

(* The sender: the mail arrives, with its answer or without, or does not.   *)
Mail(e) ==
    /\ mailing[e] = "sending"
    /\ \E arrives, answered \in BOOLEAN :
           /\ answered => arrives
           /\ codes' = [codes EXCEPT ![e][Len(codes[e])].mailed = arrives]
           /\ mailing' = [mailing EXCEPT ![e] = IF answered THEN "sent" ELSE "refused"]
    /\ UNCHANGED <<person, identity, cooling, joining, sessions>>

RecordMail(e) ==
    /\ mailing[e] \in {"sent", "refused"}
    /\ codes' = [codes EXCEPT ![e][Len(codes[e])] =
           IF mailing[e] = "sent" THEN [@ EXCEPT !.status = "SENT"]
           ELSE [@ EXCEPT !.status = "FAILED", !.open = FALSE]]
    /\ mailing' = [mailing EXCEPT ![e] = "no"]
    /\ UNCHANGED <<person, identity, cooling, joining, sessions>>

(* The process dies: the lock is free again, the code remains PENDING.      *)
ProcessDies ==
    /\ mailing # [e \in Inboxes |-> "no"]
    /\ mailing' = [e \in Inboxes |-> "no"]
    /\ joining' = [s \in Subjects |-> Nil]
    /\ UNCHANGED <<person, identity, codes, cooling, sessions>>

CooldownEnds(e) ==
    /\ e \in cooling
    /\ cooling' = cooling \ {e}
    /\ UNCHANGED <<person, identity, codes, mailing, joining, sessions>>

(* Ten minutes after its request a code expires, after the cooldown.        *)
CodeExpires(e) ==
    /\ e \notin cooling
    /\ \E i \in DOMAIN codes[e] : codes[e][i].fresh
    /\ codes' = [codes EXCEPT ![e] = [i \in DOMAIN @ |-> [@[i] EXCEPT !.fresh = FALSE]]]
    /\ UNCHANGED <<person, identity, cooling, mailing, joining, sessions>>

(* prune_auth_records: what expired a month ago.                            *)
Prune(e) ==
    /\ mailing[e] = "no" /\ e \notin cooling
    /\ Newest(e) # 0 /\ ~codes[e][Newest(e)].fresh
    /\ codes' = [codes EXCEPT ![e] =
           [i \in DOMAIN @ |-> [@[i] EXCEPT !.status = "PRUNED", !.open = FALSE]]]
    /\ UNCHANGED <<person, identity, cooling, mailing, joining, sessions>>

-----------------------------------------------------------------------------
(* verify_login_code looks at the newest code that was sent and is open.    *)
Usable(e) == {i \in DOMAIN codes[e] : codes[e][i].status = "SENT" /\ codes[e][i].open}

(* `typed` is the code of a mail the visitor has, or 0 for any other.       *)
Typed(e) == {0} \cup {i \in DOMAIN codes[e] : codes[e][i].mailed}

CodeIsSpent(e) ==
    /\ mailing[e] = "no" /\ Usable(e) # {}
    /\ LET i == Max(Usable(e)) IN
       /\ ~codes[e][i].fresh \/ codes[e][i].tries >= MaxTries
       /\ codes' = [codes EXCEPT ![e][i].open = FALSE]
    /\ UNCHANGED <<person, identity, cooling, mailing, joining, sessions>>

CodeIsWrong(e, typed) ==
    /\ mailing[e] = "no" /\ Usable(e) # {}
    /\ LET i == Max(Usable(e)) IN
       /\ codes[e][i].fresh /\ codes[e][i].tries < MaxTries
       /\ typed # i
       /\ codes' = [codes EXCEPT ![e][i].tries = @ + 1,
                                 ![e][i].open = codes[e][i].tries + 1 < MaxTries]
    /\ UNCHANGED <<person, identity, cooling, mailing, joining, sessions>>

(* The account of the inbox, or a new one; a disabled one burns the code.   *)
CodeOpens(e, typed) ==
    /\ mailing[e] = "no" /\ Usable(e) # {}
    /\ LET i == Max(Usable(e)) IN
       /\ codes[e][i].fresh /\ codes[e][i].tries < MaxTries
       /\ typed = i
       /\ \/ /\ \E u \in HoldersOf(e) : ~person[u].enabled
             /\ codes' = [codes EXCEPT ![e][i].tries = @ + 1, ![e][i].open = FALSE]
             /\ UNCHANGED <<person, sessions>>
          \/ \E u \in IF HoldersOf(e) # {} THEN HoldersOf(e) ELSE Unused :
                /\ person[u].enabled
                /\ person' = [person EXCEPT ![u].exists = TRUE, ![u].email = e]
                /\ codes' = [codes EXCEPT ![e][i].tries = @ + 1, ![e][i].open = FALSE,
                                          ![e][i].logins = @ + 1]
                /\ Opened(u, e)
    /\ UNCHANGED <<identity, cooling, mailing, joining>>

-----------------------------------------------------------------------------
(* What a callback proves besides its subject: Google an e-mail address, or *)
(* none when Google has not verified it; Steam nothing.                     *)
GoogleProves == Inboxes \cup {Nil}
SteamProves == {Nil}
Proofs(s) == IF s \in GoogleIds THEN GoogleProves ELSE SteamProves

(* login_external_identity of an account that is there: found by the        *)
(* subject, else by the proven address.  Its row is locked.                 *)
Found(s, proven) ==
    IF identity[s] # Nil THEN {identity[s]}
    ELSE IF proven # Nil THEN HoldersOf(proven) ELSE {}

AddressOf(u, proven) == IF person[u].email = Nil THEN proven ELSE person[u].email

Return(s, proven) ==
    \E u \in Found(s, proven) :
        /\ person[u].enabled
        /\ HoldersOf(AddressOf(u, proven)) \subseteq {u} \/ AddressOf(u, proven) = Nil
        /\ person' = [person EXCEPT ![u].email = AddressOf(u, proven)]
        /\ identity' = [identity EXCEPT ![s] = u]
        /\ Opened(u, s)
        /\ UNCHANGED <<codes, cooling, mailing, joining>>

(* It finds none, and somebody else may create one before it inserts its    *)
(* own: a second account of the address or of the subject is refused.       *)
FindNobody(s, proven) ==
    /\ Found(s, proven) = {}
    /\ joining[s] = Nil
    /\ joining' = [joining EXCEPT ![s] = [proven |-> proven]]
    /\ UNCHANGED <<person, identity, codes, cooling, mailing, sessions>>

Join(s) ==
    /\ joining[s] # Nil
    /\ joining' = [joining EXCEPT ![s] = Nil]
    /\ LET e == joining[s].proven IN
       IF identity[s] = Nil /\ (e = Nil \/ HoldersOf(e) = {})
       THEN \E u \in Unused :
              /\ person' = [person EXCEPT ![u].exists = TRUE, ![u].email = e]
              /\ identity' = [identity EXCEPT ![s] = u]
              /\ Opened(u, s)
       ELSE UNCHANGED <<person, identity, sessions>>
    /\ UNCHANGED <<codes, cooling, mailing>>

-----------------------------------------------------------------------------
LoginNext ==
    \/ \E e \in Inboxes :
          \/ RequestCode(e) \/ Mail(e) \/ RecordMail(e)
          \/ CooldownEnds(e) \/ CodeExpires(e) \/ Prune(e) \/ CodeIsSpent(e)
          \/ \E typed \in Typed(e) : CodeIsWrong(e, typed) \/ CodeOpens(e, typed)
    \/ \E s \in Subjects :
          Join(s) \/ \E proven \in Proofs(s) : Return(s, proven) \/ FindNobody(s, proven)
    \/ \E x \in sessions : SessionEnds(x)
    \/ \E u \in People : Disable(u)
    \/ ProcessDies

LoginSpec == LoginInit /\ [][LoginNext]_accountVars

-----------------------------------------------------------------------------
(* A code opens one session at most, after at most MaxTries attempts, and   *)
(* none once a newer code of its inbox was asked for, whatever became of    *)
(* the mails and whoever died in between.                                   *)
OnlyTheNewestCodeOpens ==
    \A e \in Inboxes : \A i \in DOMAIN codes[e] :
        /\ codes[e][i].logins <= 1 /\ (codes[e][i].logins = 1 => ~codes[e][i].open)
        /\ i < Len(codes[e]) => ~codes[e][i].open

(* Whoever proved an inbox by its code is, then and later, in the account   *)
(* that has the inbox, and in no other; and what a provider vouched for     *)
(* once stays with the account it led to.                                   *)
ProofsKeepTheirAccount ==
    /\ \A x \in sessions : IF x.proof \in Inboxes THEN HoldersOf(x.proof) = {x.user}
                                                  ELSE identity[x.proof] = x.user
    /\ \A e \in Inboxes : Cardinality(HoldersOf(e)) <= 1

(* Both, with the types.                                                    *)
CodesAreSound == LoginTypeOK /\ OnlyTheNewestCodeOpens /\ ProofsKeepTheirAccount
=============================================================================
