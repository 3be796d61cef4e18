------------------------------- MODULE Drafts --------------------------------
(***************************************************************************)
(* The draft of one live map: what the bootstraps of DLTV and the evidence *)
(* about positions make of it, and what a decision gets to see of it.      *)
(*                                                                         *)
(* DltvBootstrapWorker (one slot) runs bootstraps and repairs of legacy    *)
(* drafts one after the other; each archives the payload, resolves the     *)
(* positions and appends a draft unless it has nothing to add.  Rows are   *)
(* only ever appended and stamped; a decision at a time loads what is      *)
(* stamped no later.  What else it loads is LiveState.tla.                 *)
(*                                                                         *)
(* Every action that stamps something takes one unit of time.              *)
(***************************************************************************)
EXTENDS Integers, Sequences, FiniteSets

CONSTANTS
    MaxTime,       \* bound on the clock
    MaxMoves,      \* bound on the changes of what the providers know
    MaxMishaps      \* bound on the runs and builds that fail

ASSUME DraftsAssumption == MaxTime \in Nat /\ MaxMoves \in Nat /\ MaxMishaps \in Nat

VARIABLES
    time,          \* the clock
    dltv,          \* what DLTV would answer: [radiant, told, full]
    stratz,        \* STRATZ has the roles of the match
    history,       \* so has the history of the players, beyond doubt
    active,        \* an observation of the map is younger than active_window
    archive,       \* the DLTV_BOOTSTRAP raw events, in the order of their commit
    drafts,        \* draft_snapshots with their slots and curves, in the same order
    run,           \* the bootstrap or repair whose transaction is open: its stamp and begin
    confirmed,     \* the DRAFT_CONFIRMED events, by the content they are keyed by
    curveJobs,     \* per draft, the BUILD_DRAFT_CURVE jobs of event and sweep
    moves, mishaps

draftVars == <<time, dltv, stratz, history, active, archive, drafts, run, confirmed,
               curveJobs, moves, mishaps>>

Team == {"A", "B"}
Other(t) == IF t = "A" THEN "B" ELSE "A"

(* A payload: the team whose players are listed as radiant, whether         *)
(* is_radiant tells so, whether all ten picks are there.                    *)
Payload == [radiant: Team, told: BOOLEAN, full: BOOLEAN]

(* The slots of a draft: whose players are radiant, and where the positions *)
(* come from.  An incomplete draft has no slots.                            *)
Partial == [radiant |-> "none", source |-> "DRAFT_PARTIAL"]
Blocked == [radiant |-> "none", source |-> "DRAFT_POSITION_UNRESOLVED"]
From(source, payload) == [radiant |-> payload.radiant, source |-> source]

Verified == {"STRATZ_CURRENT_MATCH", "HISTORICAL_ROLE_ASSIGNMENT"}
Legacy(content) == content.source = "DLTV_SLOT"
Complete(content) == Legacy(content) \/ content.source \in Verified

NoRun == [kind |-> "none", payload |-> [radiant |-> "A", told |-> FALSE, full |-> FALSE],
          at |-> 0, since |-> 0]
NoJobs == [event |-> "none", sweep |-> "none"]

-----------------------------------------------------------------------------
(* A map that is new, or one whose draft an earlier release stored in the   *)
(* order of the provider, alone or after a verified one, with its curve.    *)
Archived(payload) == [at |-> 1, payload |-> payload]
Draft(at, content) == [at |-> at, content |-> content, curve |-> 0]
Old(at, content) == [at |-> at, content |-> content, curve |-> 1]

DraftInit ==
    /\ dltv \in {p \in Payload : p.radiant = "A"}
    /\ stratz \in BOOLEAN /\ history = FALSE /\ active \in BOOLEAN
    /\ run = NoRun /\ moves = 0 /\ mishaps = 0
    /\ \/ /\ time = 0 /\ archive = <<>> /\ drafts = <<>> /\ curveJobs = <<>>
          /\ confirmed = {}
       \/ /\ dltv.full /\ archive = <<Archived(dltv)>>
          /\ LET old == From("DLTV_SLOT", dltv)
                 new == From("STRATZ_CURRENT_MATCH", dltv)
             IN  \/ /\ time = 1 /\ drafts = <<Old(1, old)>>
                    /\ curveJobs = <<NoJobs>> /\ confirmed = {old}
                 \/ /\ time = 2 /\ drafts = <<Old(1, new), Old(2, old)>>
                    /\ curveJobs = <<NoJobs, NoJobs>> /\ confirmed = {new, old}

Mishap == mishaps < MaxMishaps /\ mishaps' = mishaps + 1
NoMishap == mishaps' = mishaps

(* DLTV corrects itself, STRATZ answers or not, history is synchronised,    *)
(* the stream of the map dries up or comes back.  Once the picks are full   *)
(* DLTV does not move the players to the other side.                        *)
Moves ==
    /\ moves < MaxMoves /\ moves' = moves + 1
    /\ \/ /\ dltv' \in Payload \ {dltv}
          /\ dltv.full => dltv'.full /\ dltv'.radiant = dltv.radiant
          /\ UNCHANGED <<stratz, history, active>>
       \/ stratz' = ~stratz /\ UNCHANGED <<dltv, history, active>>
       \/ history' = TRUE /\ ~history /\ UNCHANGED <<dltv, stratz, active>>
       \/ active' = ~active /\ UNCHANGED <<dltv, stratz, history>>
    /\ UNCHANGED <<time, archive, drafts, run, confirmed, curveJobs, mishaps>>

-----------------------------------------------------------------------------
NewestOf(rows, at) ==
    LET seen == {i \in DOMAIN rows : rows[i].at <= at}
    IN  {i \in seen : \A j \in seen : rows[j].at <= rows[i].at}

Latest == NewestOf(drafts, time)
LatestContent == drafts[CHOOSE i \in Latest : TRUE].content

(* schedule_incomplete_draft_refreshes: a map whose latest draft is a       *)
(* legacy one and whose stream is silent is repaired from the archive; any  *)
(* other whose latest draft is missing, incomplete or legacy is fetched     *)
(* again.                                                                   *)
ToRepair == Latest # {} /\ Legacy(LatestContent) /\ ~active
ToRefresh ==
    /\ ~ToRepair
    /\ IF Latest = {} THEN active
       ELSE ~Complete(LatestContent) \/ Legacy(LatestContent)

Begin(kind, payload) ==
    /\ run = NoRun /\ time < MaxTime
    /\ time' = time + 1
    /\ run' = [kind |-> kind, payload |-> payload, at |-> time', since |-> time']
    /\ UNCHANGED <<dltv, stratz, history, active, archive, drafts, confirmed, curveJobs,
                   moves, mishaps>>

(* DltvBootstrapCoordinator.bootstrap gets its answer; discoveries,         *)
(* reconnects and the end of the map call for one too.                      *)
Fetch == Begin("bootstrap", dltv)

(* rebuild_draft_from_stored_payload replays the newest archived payload,   *)
(* and is stamped with the time of the repair.                              *)
SlipOriginalTime ==
    /\ ToRepair /\ archive # <<>> /\ run = NoRun /\ time < MaxTime
    /\ time' = time + 1
    /\ run' = [kind |-> "repair", payload |-> archive[Len(archive)].payload,
               at |-> archive[Len(archive)].at, since |-> time']
    /\ UNCHANGED <<dltv, stratz, history, active, archive, drafts, confirmed, curveJobs,
                   moves, mishaps>>
Repair == ToRepair /\ archive # <<>> /\ Begin("repair", archive[Len(archive)].payload)

(* DraftRoleAssignmentService.resolve: the draft, and how old its evidence  *)
(* may be; the answer of STRATZ comes after the payload.                    *)
Resolved(payload, answered) ==
    IF ~payload.full THEN [content |-> Partial, cutoff |-> run.at]
    ELSE IF stratz
         THEN [content |-> From("STRATZ_CURRENT_MATCH", payload), cutoff |-> answered]
    ELSE IF history
         THEN [content |-> From("HISTORICAL_ROLE_ASSIGNMENT", payload), cutoff |-> run.at]
    ELSE [content |-> Blocked, cutoff |-> run.at]

(* _process_payload adds nothing when the latest draft is verified and this *)
(* one is incomplete, or when its content is there already; but a repair    *)
(* appends it again when it has to displace a legacy draft.                 *)
SlipPartialWins(content) ==
    \/ \A i \in DOMAIN drafts : drafts[i].content # content
    \/ run.kind = "repair" /\ Legacy(LatestContent) /\ LatestContent # content
Adds(content) ==
    /\ ~(Latest # {} /\ LatestContent.source \in Verified /\ ~Complete(content))
    /\ \/ \A i \in DOMAIN drafts : drafts[i].content # content
       \/ run.kind = "repair" /\ Legacy(LatestContent) /\ LatestContent # content

(* DRAFT_CONFIRMED is keyed by the content: a draft appended again has no   *)
(* event of its own, and no job by it.                                      *)
Process ==
    LET answered == time + 1
        resolved == Resolved(run.payload, answered)
        content == resolved.content
        fresh == Complete(content) /\ content \notin confirmed
    IN  /\ run # NoRun
        /\ time' = answered
        /\ archive' = IF run.kind = "repair" THEN archive
                      ELSE Append(archive, [at |-> run.at, payload |-> run.payload])
        /\ IF Adds(content)
           THEN /\ drafts' = Append(drafts, Draft(IF resolved.cutoff > run.at
                                                  THEN resolved.cutoff ELSE run.at, content))
                /\ confirmed' = IF fresh THEN confirmed \cup {content} ELSE confirmed
                /\ curveJobs' = Append(curveJobs,
                       [NoJobs EXCEPT !.event = IF fresh THEN "pending" ELSE "none"])
           ELSE UNCHANGED <<drafts, confirmed, curveJobs>>
        /\ run' = NoRun
        /\ UNCHANGED <<dltv, stratz, history, active, moves>>
        /\ NoMishap

(* The transaction fails and rolls back.                                    *)
RunFails ==
    /\ run # NoRun /\ Mishap
    /\ run' = NoRun
    /\ UNCHANGED <<time, dltv, stratz, history, active, archive, drafts, confirmed,
                   curveJobs, moves>>

-----------------------------------------------------------------------------
(* RoshService.build under either job: one curve per draft and model.       *)
Build(i, job) ==
    /\ curveJobs[i][job] = "pending" /\ time < MaxTime
    /\ time' = time + 1
    /\ drafts' = [drafts EXCEPT ![i].curve = IF @ = 0 THEN time' ELSE @]
    /\ curveJobs' = [curveJobs EXCEPT ![i][job] = "done"]
    /\ UNCHANGED <<dltv, stratz, history, active, archive, run, confirmed, moves>>
    /\ NoMishap

(* STRATZ has no statistics until the job has used up its attempts.         *)
BuildFails(i, job) ==
    /\ curveJobs[i][job] = "pending" /\ Mishap
    /\ curveJobs' = [curveJobs EXCEPT ![i][job] = "dead"]
    /\ UNCHANGED <<time, dltv, stratz, history, active, archive, drafts, run, confirmed, moves>>

(* _reconcile_drafts: every complete draft without a curve gets the job of  *)
(* its own key, or has it reopened.                                         *)
SlipNeverReopens ==
    {i \in DOMAIN drafts : /\ Complete(drafts[i].content) /\ drafts[i].curve = 0
                           /\ curveJobs[i].sweep = "none"}
Curveless ==
    {i \in DOMAIN drafts : /\ Complete(drafts[i].content) /\ drafts[i].curve = 0
                           /\ curveJobs[i].sweep \in {"none", "dead"}}

Sweep ==
    /\ Curveless # {}
    /\ curveJobs' = [i \in DOMAIN drafts |->
           IF i \in Curveless THEN [curveJobs[i] EXCEPT !.sweep = "pending"] ELSE curveJobs[i]]
    /\ UNCHANGED <<time, dltv, stratz, history, active, archive, drafts, run, confirmed,
                   moves, mishaps>>

-----------------------------------------------------------------------------
BuildSome == \E i \in DOMAIN drafts, job \in {"event", "sweep"} : Build(i, job)

DraftNext ==
    \/ Moves \/ Fetch \/ Repair \/ Process \/ RunFails \/ Sweep \/ BuildSome
    \/ \E i \in DOMAIN drafts, job \in {"event", "sweep"} : BuildFails(i, job)

DraftSpec == DraftInit /\ [][DraftNext]_draftVars

(* The refresh and the reconciliation are periodic; every run ends and the  *)
(* draft worker keeps claiming jobs.                                        *)
DraftFairSpec ==
    /\ DraftSpec
    /\ WF_draftVars(Repair \/ (ToRefresh /\ Fetch))
    /\ WF_draftVars(Process)
    /\ WF_draftVars(BuildSome)
    /\ WF_draftVars(Sweep)

-----------------------------------------------------------------------------
(* What SnapshotBuilder loads for a decision at a time.  project_map_sides: *)
(* the sides of the newest payload, once the teams are mapped, which the    *)
(* first bootstrap does.                                                    *)
Evidence(at) ==
    LET newest == NewestOf(archive, at)
    IN  IF newest = {} THEN "none"
        ELSE LET p == archive[CHOOSE i \in newest : TRUE].payload
             IN  IF p.told THEN p.radiant ELSE "none"

(* _load_draft with its curve.                                              *)
NoContent == [radiant |-> "none", source |-> "none"]
LoadedDraft(at) ==
    LET newest == NewestOf(drafts, at)
    IN  IF newest = {} THEN [content |-> NoContent, ready |-> FALSE]
        ELSE LET d == drafts[CHOOSE i \in newest : TRUE]
             IN  [content |-> d.content, ready |-> Complete(d.content) /\ d.curve \in 1 .. at]

(* _align_history_to_series: the players of the slots begin as those of     *)
(* Team A on the radiant side and change places when the evidence says so;  *)
(* without evidence nobody's players are shown.                             *)
SlipProviderOrder(at) ==
    IF Evidence(at) = "none" \/ LoadedDraft(at).content.radiant = "none" THEN "none" ELSE "A"
ShownAsRadiant(at) ==
    IF LoadedDraft(at).content.radiant = "none" THEN "none" ELSE Evidence(at)

Seen(at) == [draft |-> LoadedDraft(at), sides |-> Evidence(at), roster |-> ShownAsRadiant(at)]

(* The transaction of a run is open from its stamp to its commit; a         *)
(* decision in between may still miss it.                                   *)
Decidable(at) == run = NoRun \/ at < run.since

(* Snapshots are rebuilt and replayed for decision times of the past, and a *)
(* repair is stamped with its own time so that it "only feeds decisions     *)
(* made after the repair": nothing that is fetched, repaired, resolved or   *)
(* calculated later changes what a decision sees that was due before, once  *)
(* no run that began earlier is open.                                       *)
DecisionIsTimeless ==
    [][\A at \in 0 .. time : Decidable(at) => Seen(at)' = Seen(at)]_draftVars

(* A draft with verified positions is not lost to a later, poorer payload:  *)
(* unless an earlier release ran again and stored its own after it, the     *)
(* next decision finds verified positions too.                              *)
VerifiedStays ==
    run = NoRun /\ (\E i \in DOMAIN drafts :
                      /\ drafts[i].content.source \in Verified
                      /\ \A j \in DOMAIN drafts :
                             Legacy(drafts[j].content) => drafts[j].at < drafts[i].at) =>
        LoadedDraft(time).content.source \in Verified

(* SnapshotBuilder promises that Team A and B "never map to Radiant/Dire by *)
(* provider order": the players that a decision shows as a team's are that  *)
(* team's, although slots and sides are loaded from different rows.         *)
PlayersAreTheirTeams ==
    run = NoRun /\ ShownAsRadiant(time) # "none" =>
        ShownAsRadiant(time) = LoadedDraft(time).content.radiant

DraftIsWhole == VerifiedStays /\ PlayersAreTheirTeams

(* With all picks and evidence for the positions at hand, a silent map does *)
(* not stay without a verified draft and its curve: whatever failed on the  *)
(* way, also for a draft whose confirmation was recorded before, and one    *)
(* that an earlier release stored.                                          *)
Settled == dltv.full /\ (stratz \/ history) /\ ~active /\ drafts # <<>>
DraftGetsReady ==
    []<>(\/ ~Settled \/ time >= MaxTime
         \/ LoadedDraft(time).ready /\ LoadedDraft(time).content.source \in Verified)
=============================================================================
