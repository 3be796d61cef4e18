----------------------------- MODULE MCEvidence -----------------------------
(* The job runner with two slots, and what its jobs and the collectors hold *)
(* ready for a decision: Drafts, LiveState and Trends.  A behaviour is one  *)
(* of the module that `part` names while the others stand still.            *)
EXTENDS MCJobRunner, LiveState, Drafts

VARIABLES part,
          instant, odds, live, limit

trendVars == <<instant, odds, live, limit>>

T == INSTANCE Trends WITH
    Quotes <- {[leg |-> "a", price |-> 100], [leg |-> "a", price |-> 110],
               [leg |-> "b", price |-> 100], [leg |-> "b", price |-> 102]},
    Plays <- {[kills |-> 0, lead |-> 200], [kills |-> 1, lead |-> -9999],
              [kills |-> -9999, lead |-> -900]},
    Limits <- {[odds |-> 4, live |-> 0, clock |-> 4, late |-> {0}],
               [odds |-> 0, live |-> 4, clock |-> 3, late |-> {0, 1}],
               [odds |-> 3, live |-> 2, clock |-> 3, late |-> {0}]},
    Window <- 1, Margin <- 0, Safe <- 0, Caution <- 1, MinSamples <- 1,
    Horizon <- 1, TailPoints <- 1

ASSUME T!TrendsAssumption

-----------------------------------------------------------------------------
(* A bootstrap is run for a map that is new, whose payload has changed, or  *)
(* that the refresh asks for.                                               *)
FetchBringsNews ==
    run = NoRun /\ run'.kind = "bootstrap" =>
        IF archive = <<>> \/ drafts = <<>> THEN archive = <<>> ELSE
        \/ archive[Len(archive)].payload # dltv
        \/ ~Complete(LatestContent) \/ Legacy(LatestContent)

(* Only the stream of a map with a legacy draft dries up or comes back.     *)
OnlyLegacyGoesSilent ==
    active' # active => \E i \in DOMAIN drafts : Legacy(drafts[i].content)

DraftBounds == FetchBringsNews /\ OnlyLegacyGoesSilent

-----------------------------------------------------------------------------
SumInit ==
    /\ part \in {"jobs", "draft", "live", "trends"}
    /\ Init /\ DraftInit /\ LiveInit /\ T!Init
    /\ part # "draft" => dltv.full /\ dltv.told /\ stratz /\ active /\ time = 0
    /\ part # "trends" => limit.odds = 4

OfJobs(A) == part = "jobs" /\ A /\ UNCHANGED <<part, draftVars, liveVars, trendVars>>
OfDraft(A) == part = "draft" /\ A /\ UNCHANGED <<part, vars, liveVars, trendVars>>
OfLive(A) == part = "live" /\ A /\ UNCHANGED <<part, vars, draftVars, trendVars>>
OfTrends(A) == part = "trends" /\ A /\ UNCHANGED <<part, vars, draftVars, liveVars>>

SumNext ==
    \/ OfJobs(Next) \/ OfDraft(DraftNext /\ DraftBounds)
    \/ OfLive(LiveNext /\ QuietBootstrap) \/ OfTrends(T!Next)

sumVars == <<part, vars, draftVars, liveVars, trendVars>>

(* The fairness of JobRunner and of Drafts.                                 *)
SumFairness ==
    /\ WF_sumVars(OfJobs(Boot)) /\ WF_sumVars(OfJobs(RestartRun))
    /\ WF_sumVars(OfJobs(server = "stopping" /\ ProcessEnds))
    /\ \A l \in Loops : WF_sumVars(OfJobs(LoopProgress(l)))
    /\ \A j \in Jobs : /\ WF_sumVars(OfJobs(Reclaim(j))) /\ WF_sumVars(OfJobs(RetryDue(j)))
                       /\ WF_sumVars(OfJobs(LeaseExpires(j)))
    /\ WF_sumVars(OfDraft((Repair \/ (ToRefresh /\ Fetch)) /\ DraftBounds))
    /\ WF_sumVars(OfDraft(Process)) /\ WF_sumVars(OfDraft(BuildSome))
    /\ WF_sumVars(OfDraft(Sweep))

SumSpec == SumInit /\ [][SumNext]_sumVars /\ SumFairness

-----------------------------------------------------------------------------
(* The properties of the parts.                                             *)
EvidenceIsEarned == part = "trends" => T!SyncIsEarned /\ T!TrendsAreTrue

(* The trends alone.                                                        *)
TrendSpec == part = "trends" /\ SumInit /\ [][OfTrends(T!Next)]_sumVars
CurrentPriceSurvives == T!CurrentPriceSurvives
=============================================================================
