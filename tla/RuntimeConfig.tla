---------------------------- MODULE RuntimeConfig ----------------------------
(***************************************************************************)
(* The control plane in the database: the slots of the AI providers, their *)
(* secrets and the decision policy, edited by administrators while jobs    *)
(* run.  A slot that decides is an experiment; a job of the experiment     *)
(* freezes the configuration when it prepares its call and names it by the *)
(* slot, the slot's revision and the policy.                               *)
(*                                                                         *)
(* An administrator's PATCH is validated in transactions of its own and    *)
(* written in another one, so that two of them can pass the validation     *)
(* against the same rows.  A PATCH, a seed or a preparation that is        *)
(* refused changes nothing and is no step here.                            *)
(***************************************************************************)
EXTENDS Integers, FiniteSets

CONSTANTS
    Slots,           \* the slots of one provider, which share its API key
    Models,
    Tunings,         \* reasoning effort and timeout
    Lags,            \* live-data lag and number of prior decisions
    Admins,
    MasterKeys,      \* values that the master key of the process can have
    MaxRevision,     \* bound: revisions of a slot
    Unset

RuntimeConfigAssumption ==
    /\ MaxRevision \in Nat \ {0}
    /\ Unset \notin MasterKeys \cup Models \cup Slots
    /\ Cardinality(Models) >= Cardinality(Slots)

VARIABLES
    master,          \* the process: its master key
    inEnvironment,   \*   and whether its environment has the API key
    secret,          \* runtime_secrets: the master key the API key is encrypted under
    slot,            \* ai_provider_configs
    policy,          \* runtime_settings of the category ai_decision
    editing,         \* what each administrator's request has validated
    scheduled,       \* jobs waiting: the model of their experiment
    calls            \* every call that was prepared

configVars == <<master, inEnvironment, secret, slot, policy, editing, scheduled, calls>>

SlotRow == [enabled: BOOLEAN, decides: BOOLEAN, approved: BOOLEAN, model: Models,
        tuning: Tunings, revision: 1..MaxRevision]
Changes == [enabled: BOOLEAN, decides: BOOLEAN] \cup [model: Models] \cup [tuning: Tunings]
           \cup [approved: {TRUE}]

NoEdit == [slot |-> Unset, change |-> Unset, read |-> 0]

ConfigTypeOK ==
    /\ master \in MasterKeys \cup {Unset} /\ secret \in MasterKeys \cup {Unset}
    /\ inEnvironment \in BOOLEAN
    /\ slot \in [Slots -> SlotRow]
    /\ policy \in [decisions: BOOLEAN, lag: Lags]
    /\ editing \in [Admins -> [slot: Slots \cup {Unset}, change: Changes \cup {Unset},
                               read: 0..MaxRevision]]
    /\ scheduled \subseteq Models
    /\ calls \subseteq [slot: Slots, revision: 1..MaxRevision, policy: Lags,
                        model: Models, tuning: Tunings, approved: BOOLEAN]

(* _seed_environment_secrets: a key of the environment that the database    *)
(* has no secret for is stored there, when there is a master key.           *)
Seeded(stored, key, environment) ==
    IF stored = Unset /\ key # Unset /\ environment THEN key ELSE stored

(* _seed_ai_providers stores what the environment says of a slot, which     *)
(* nobody has validated: the base URL need not be an approved one.          *)
Seeds == [enabled: BOOLEAN, decides: BOOLEAN, approved: BOOLEAN, model: Models,
          tuning: Tunings, revision: {1}]

ConfigInit ==
    /\ master \in MasterKeys \cup {Unset}
    /\ inEnvironment \in BOOLEAN
    /\ secret = Seeded(Unset, master, inEnvironment)
    /\ slot \in [Slots -> Seeds]
    /\ \A s \in Slots : slot[s].enabled = inEnvironment
    /\ \A s, t \in Slots : slot[s].model = slot[t].model => s = t
    /\ policy \in [decisions: {TRUE}, lag: Lags]
    /\ editing = [a \in Admins |-> NoEdit]
    /\ scheduled = {}
    /\ calls = {}

(* The service starts again, perhaps in another environment.                *)
Restart(key, environment) ==
    /\ <<key, environment>> # <<master, inEnvironment>>
    /\ master' = key /\ inEnvironment' = environment
    /\ secret' = Seeded(secret, key, environment)
    /\ editing' = [a \in Admins |-> NoEdit]
    /\ UNCHANGED <<slot, policy, scheduled, calls>>

-----------------------------------------------------------------------------
(* Secrets.  What the control plane shows of the API key ...                *)
Decryptable == master # Unset /\ secret = master
Operational == IF secret = Unset \/ master = Unset THEN inEnvironment ELSE Decryptable

(* ... and whether a job can read it: decrypting with another key raises.   *)
Readable == IF master # Unset /\ secret # Unset THEN secret = master ELSE inEnvironment

ReplaceSecret ==
    /\ master # Unset
    /\ secret' = master
    /\ UNCHANGED <<master, inEnvironment, slot, policy, editing, scheduled, calls>>

-----------------------------------------------------------------------------
(* Administrators.                                                          *)
Patched(row, change) == [f \in DOMAIN row |-> IF f \in DOMAIN change THEN change[f] ELSE row[f]]

ModelIsFree(s, row) == \A t \in Slots \ {s} : slot[t].model # row.model

Validate(a, s, change) ==
    LET row == Patched(slot[s], change) IN
    /\ editing[a] = NoEdit
    /\ ModelIsFree(s, row)
    /\ row.approved
    /\ row.decides => row.enabled /\ Operational
    /\ editing' = [editing EXCEPT ![a] = [slot |-> s, change |-> change, read |-> 0]]
    /\ UNCHANGED <<master, inEnvironment, secret, slot, policy, scheduled, calls>>

(* upsert_ai_provider reads the row without a lock and writes the columns   *)
(* that change; the table allows one slot per model.                        *)
SelectRow(a) ==
    /\ editing[a] # NoEdit /\ editing[a].read = 0
    /\ editing' = [editing EXCEPT ![a].read = slot[editing[a].slot].revision]
    /\ UNCHANGED <<master, inEnvironment, secret, slot, policy, scheduled, calls>>

Upserted(s, edit) == [Patched(slot[s], edit.change) EXCEPT !.revision = edit.read + 1]

Upsert(a) ==
    LET edit == editing[a]
        s == edit.slot
    IN
    /\ edit # NoEdit /\ edit.read \in 1..(MaxRevision - 1)
    /\ slot' = IF ModelIsFree(s, Patched(slot[s], edit.change))
               THEN [slot EXCEPT ![s] = Upserted(s, edit)] ELSE slot
    /\ editing' = [editing EXCEPT ![a] = NoEdit]
    /\ UNCHANGED <<master, inEnvironment, secret, policy, scheduled, calls>>

SetPolicy(decisions, lag) ==
    /\ policy' = [decisions |-> decisions, lag |-> lag]
    /\ policy' # policy
    /\ UNCHANGED <<master, inEnvironment, secret, slot, editing, scheduled, calls>>

-----------------------------------------------------------------------------
(* active_runtime_ai_experiments: what the dispatcher and the sweep         *)
(* schedule jobs for.                                                       *)
SlipIgnoresSecret(s) ==
    policy.decisions /\ slot[s].enabled /\ slot[s].decides /\ slot[s].approved
Active(s) ==
    /\ policy.decisions /\ slot[s].enabled /\ slot[s].decides /\ slot[s].approved
    /\ Operational

Schedule ==
    /\ \E s \in Slots : Active(s) /\ slot[s].model \notin scheduled
    /\ scheduled' = scheduled \cup {slot[s].model : s \in {t \in Slots : Active(t)}}
    /\ UNCHANGED <<master, inEnvironment, secret, slot, policy, editing, calls>>

(* PREPARE finds the slot by its model and freezes it; the switch of the    *)
(* policy is not looked at any more.                                        *)
CanPrepare(s) ==
    /\ slot[s].approved
    /\ slot[s].enabled /\ slot[s].decides
    /\ Readable

Version(s) == [slot |-> s, revision |-> slot[s].revision, policy |-> policy.lag]

Frozen(s) ==
    [slot |-> Version(s).slot, revision |-> Version(s).revision, policy |-> Version(s).policy,
     model |-> slot[s].model, tuning |-> slot[s].tuning, approved |-> slot[s].approved]

FreezeCall(s) ==
    /\ slot[s].model \in scheduled
    /\ CanPrepare(s)
    /\ scheduled' = scheduled \ {slot[s].model}
    /\ calls' = calls \cup {Frozen(s)}
    /\ UNCHANGED <<master, inEnvironment, secret, slot, policy, editing>>

(* The job of an experiment that was disabled or superseded runs out of     *)
(* attempts.                                                                *)
GiveUp(m) ==
    /\ m \in scheduled
    /\ ~\E s \in Slots : slot[s].model = m /\ CanPrepare(s)
    /\ scheduled' = scheduled \ {m}
    /\ UNCHANGED <<master, inEnvironment, secret, slot, policy, editing, calls>>

-----------------------------------------------------------------------------
ConfigNext ==
    \/ \E key \in MasterKeys \cup {Unset}, environment \in BOOLEAN : Restart(key, environment)
    \/ ReplaceSecret
    \/ \E a \in Admins :
          SelectRow(a) \/ Upsert(a) \/ \E s \in Slots, change \in Changes : Validate(a, s, change)
    \/ \E decisions \in BOOLEAN, lag \in Lags : SetPolicy(decisions, lag)
    \/ Schedule
    \/ \E s \in Slots : FreezeCall(s)
    \/ \E m \in Models : GiveUp(m)

ConfigSpec == ConfigInit /\ [][ConfigNext]_configVars

-----------------------------------------------------------------------------
(* What is scheduled can run: the control plane and the job judge a slot    *)
(* and its API key by code of their own, and whatever the environment, the  *)
(* master key and the administrators did, what the one calls active the     *)
(* other can prepare.                                                       *)
ActiveCanPrepare == \A s \in Slots : Active(s) => CanPrepare(s)

(* Portfolios and records are kept per version of the configuration: two    *)
(* calls of one version ran with the same settings, whoever edited the      *)
(* slots, swapped their models or restarted the service in between ...      *)
VersionNamesSettings ==
    \A c, d \in calls :
        c.slot = d.slot /\ c.revision = d.revision /\ c.policy = d.policy => c = d

(* ... as long as no two transactions read the same revision and both write *)
(* the next one, which the row without a lock does not prevent.             *)
OneUpsertAtATime ==
    \A a, b \in Admins : editing[a].read # 0 /\ editing[b].read # 0 => a = b

(* All of it, with the types.                                               *)
SettingsAreSound == ConfigTypeOK /\ ActiveCanPrepare /\ VersionNamesSettings
=============================================================================
