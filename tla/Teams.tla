-------------------------------- MODULE Teams --------------------------------
(* Which team a provider's team id stands for, followed through one match   *)
(* that Radiant wins (app/identity/resolver.py, app/history/identity.py,    *)
(* app/history/repository.py).  Discovery knows teams by name.  The         *)
(* providers of history know them by number: an unknown number becomes a    *)
(* placeholder team ("OPENDOTA team 5"), and what was stored under it moves *)
(* to the team of that name as soon as a catalog or the match itself tells. *)
(* Until then two providers that agree seem to disagree on the winner.      *)
EXTENDS Naturals, FiniteSets

CONSTANTS Radiant, Dire, None

Real == {Radiant, Dire}
Sources == {"stratz", "opendota"}
Providers == Sources \cup {"dltv"}

(* Canonical teams: by name, or the placeholder of a provider's number.     *)
Named(r) == <<"team", r>>
Placeholder(p, r) == <<p, r>>
NamedPair == {Named(r) : r \in Real}

Team == NamedPair \cup (Sources \X Real)

(* HistoricalMapRecord of one provider; MapResultEvidenceRecord and         *)
(* MapResultRecord                                                          *)
Fact == [sides: [Real -> Team \cup {None}], winner: Team \cup {None},
         mapped: BOOLEAN, conflict: BOOLEAN]
Verdict == [winner: Team \cup {None}, conflict: BOOLEAN]

TeamsAssumption ==
    /\ Radiant # Dire /\ None \notin Real \cup Team
    /\ \A known \in (SUBSET Team) \cup Fact \cup Verdict : known # None

VARIABLES
    teams,     \* CanonicalTeam
    mapping,   \* ProviderTeamMapping, per provider and real team
    series,    \* the two teams of the match's series, or None
    facts,     \* HistoricalMapRecord of the match, per provider, or None
    evidence,  \* MapResultEvidenceRecord, per provider, or None
    result     \* MapResultRecord, or None

vars == <<teams, mapping, series, facts, evidence, result>>

Init ==
    /\ teams = {} /\ mapping = [p \in Providers |-> [r \in Real |-> None]]
    /\ series = None /\ result = None
    /\ facts = [p \in Sources |-> None] /\ evidence = [p \in Sources |-> None]

Known(f) == {p \in Sources : f[p] # None}
Others(p) == Sources \ {p}

-----------------------------------------------------------------------------
(* IdentityResolver                                                         *)

(* _resolve_team by name: the mapping, else the team of that alias, else a  *)
(* new team.  Names are distinct here, so a name finds at most one team.    *)
Discover(r) ==
    /\ teams' = teams \cup {Named(r)}
    /\ UNCHANGED <<mapping, series, facts, evidence, result>>

(* resolve_dltv_bootstrap: the match gets its map under the Liquipedia      *)
(* series of the two teams, unless its Valve id already has one whose teams *)
(* are others: then the transaction is undone.                              *)
Bootstrap ==
    /\ series \in {None, NamedPair}
    /\ teams' = teams \cup NamedPair
    /\ mapping' = [mapping EXCEPT !["dltv"] = [r \in Real |-> Named(r)]]
    /\ series' = NamedPair
    /\ UNCHANGED <<facts, evidence, result>>

-----------------------------------------------------------------------------
(* HistoricalRepository.persist_bundle                                      *)

(* _team_id of the teams the bundle names: an unknown number gets its       *)
(* placeholder.                                                             *)
TeamsWith(p, given) == teams \cup {Placeholder(p, r) : r \in {s \in given : mapping[p][s] = None}}
MappingWith(p, given) ==
    [mapping EXCEPT ![p] = [r \in Real |->
        IF r \in given /\ @[r] = None THEN Placeholder(p, r) ELSE @[r]]]

(* _canonical_map: the map of that Valve id, else one in a new series.      *)
SeriesWith(p, given) ==
    IF series = None /\ given = Real THEN {MappingWith(p, given)[p][r] : r \in Real} ELSE series

(* The fact of the provider: what it held before stays, gaps are filled; a  *)
(* winner other than before is a conflict.                                  *)
Filled(old, new) == IF old # None THEN old ELSE new

FactWith(p, given) ==
    LET ids == [r \in Real |-> IF r \in given THEN MappingWith(p, given)[p][r] ELSE None]
        old == IF facts[p] = None
               THEN [sides |-> [r \in Real |-> None], winner |-> None,
                     mapped |-> FALSE, conflict |-> FALSE]
               ELSE facts[p]
    IN  [sides    |-> [r \in Real |-> Filled(old.sides[r], ids[r])],
         winner   |-> Filled(old.winner, ids[Radiant]),
         mapped   |-> old.mapped \/ SeriesWith(p, given) # None,
         conflict |-> \/ old.conflict
                      \/ None \notin {old.winner, ids[Radiant]} /\ old.winner # ids[Radiant]]

(* _flag_cross_provider_conflict                                            *)
Flagged(f, p) ==
    LET against == {q \in Others(p) \cap Known(f) :
                       None \notin {f[p].winner, f[q].winner} /\ f[p].winner # f[q].winner}
    IN  [q \in Sources |-> IF against # {} /\ q \in against \cup {p}
                           THEN [f[q] EXCEPT !.conflict = TRUE] ELSE f[q]]

FactsWith(p, given) == Flagged([facts EXCEPT ![p] = FactWith(p, given)], p)

(* HistoricalSyncService.sync_team: the match is in the list of a team the  *)
(* provider knows, and was not stored from that provider yet.               *)
Sync(p, given) ==
    /\ facts[p] = None
    /\ teams' = TeamsWith(p, given) /\ mapping' = MappingWith(p, given)
    /\ series' = SeriesWith(p, given) /\ facts' = FactsWith(p, given)
    /\ UNCHANGED <<evidence, result>>

-----------------------------------------------------------------------------
(* HistoricalTeamResolver                                                   *)

(* _restore_converged_match_results: every provider's fact agrees with the  *)
(* series, so the conflicts they seemed to have are lifted.                 *)
Converged(f, pair) ==
    /\ Known(f) = Sources
    /\ \A p \in Sources : f[p].mapped /\ None \notin {f[p].winner, f[p].sides[Radiant], f[p].sides[Dire]}
    /\ \A p \in Sources : f[p].winner = f["stratz"].winner /\ f[p].winner \in pair
    /\ \A p \in Sources : {f[p].sides[r] : r \in Real} = pair

Lifted(facts1) ==
    [p \in Sources |-> IF facts1[p] = None THEN None ELSE [facts1[p] EXCEPT !.conflict = FALSE]]

(* _merge_placeholder_team: everything stored under a placeholder moves to  *)
(* the named team, and the placeholder goes.                                *)
MovedTeam(t, merged) == IF t \in merged THEN Named(t[2]) ELSE t

SlipMovedFact(f, merged) ==
    IF f = None THEN None
    ELSE [f EXCEPT !.sides = [r \in Real |-> MovedTeam(@[r], merged)]]

MovedFact(f, merged) ==
    IF f = None THEN None
    ELSE [f EXCEPT !.sides = [r \in Real |-> MovedTeam(@[r], merged)],
                   !.winner = MovedTeam(@, merged)]
MovedWinner(row, merged) ==
    IF row = None THEN None ELSE [row EXCEPT !.winner = MovedTeam(@, merged)]

(* The pairs of a provider and a team are told apart by name now: mappings  *)
(* are made, or corrected and what they stood for merged; the conflicts of  *)
(* a match that this touched are lifted if its facts, and then the winners  *)
(* in evidence, agree.                                                      *)
Identify(pairs) ==
    LET merged == {q \in pairs : mapping[q[1]][q[2]] = q}
        facts1 == [p \in Sources |-> MovedFact(facts[p], merged)]
        evidence1 == [p \in Sources |-> MovedWinner(evidence[p], merged)]
        series1 == IF series = None THEN None ELSE {MovedTeam(t, merged) : t \in series}
        restored == facts1 # facts /\ series # None /\ Converged(facts1, series1)
        winner == facts1["stratz"].winner
        agreed == restored /\ Known(evidence1) # {}
                  /\ \A p \in Known(evidence1) : evidence1[p].winner = winner
    IN  /\ teams' = teams \ merged
        /\ mapping' = [p \in Providers |-> [r \in Real |->
                          IF <<p, r>> \in pairs THEN Named(r) ELSE mapping[p][r]]]
        /\ series' = series1
        /\ facts' = IF restored THEN Lifted(facts1) ELSE facts1
        /\ evidence' = IF agreed THEN Lifted(evidence1) ELSE evidence1
        /\ result' = IF agreed /\ result # None THEN [winner |-> winner, conflict |-> FALSE]
                     ELSE MovedWinner(result, merged)

Unmapped(p, r) == mapping[p][r] \in {None, Placeholder(p, r)}

(* refresh_opendota_catalog: the catalog lists some teams by name.          *)
Catalog(listed) ==
    LET found == {r \in listed : Named(r) \in teams /\ Unmapped("opendota", r)}
    IN  found # {} /\ Identify({<<"opendota", r>> : r \in found})

(* refresh_stratz_identities: STRATZ numbers teams as OpenDota does; a      *)
(* number it already has a mapping for is left alone.                       *)
StratzIdentities ==
    LET found == {r \in Real : mapping["opendota"][r] = Named(r) /\ mapping["stratz"][r] = None}
    IN  found # {} /\ Identify({<<"stratz", r>> : r \in found})

(* resolve_observed_match_teams: the provider's answer names both teams.    *)
ObserveNames(p) ==
    LET found == {r \in Real : Unmapped(p, r) /\ Named(r) \in series}
    IN  series # None /\ found # {} /\ Identify({<<p, r>> : r \in found})

(* repair_match_placeholders: one side is a team of the series, so the      *)
(* placeholder on the other side must be the other team.                    *)
Repairable(p) ==
    LET sides == {facts[p].sides[r] : r \in Real} \ {None}
    IN  {r \in Real : /\ Cardinality(sides \cap series) = 1
                      /\ sides \ series = {Placeholder(p, r)}
                      /\ series \ sides = {Named(r)}}

Repair ==
    LET found == {q \in Known(facts) \X Real : q[2] \in Repairable(q[1])}
    IN  series # None /\ found # {} /\ Identify(found)

-----------------------------------------------------------------------------
(* SettlementService.settle of a fact the transaction has just stored, or   *)
(* of one that was stored before.                                           *)
Settle(p, f) ==
    LET rows == [evidence EXCEPT ![p] = [winner |-> f[p].winner, conflict |-> f[p].conflict]]
        winners == {rows[q].winner : q \in Known(rows)}
        conflict == Cardinality(winners) > 1 \/ \E q \in Known(rows) : rows[q].conflict
    IN  /\ evidence' = [q \in Sources |-> IF rows[q] = None THEN None
                                          ELSE [rows[q] EXCEPT !.conflict = conflict]]
        /\ result' = [winner |-> IF conflict THEN None ELSE f[p].winner, conflict |-> conflict]

(* resolve_postmatch, once _postmatch_response has found that the teams of  *)
(* the answer are those of the series.                                      *)
Report(p) ==
    /\ series # None /\ {mapping[p][r] : r \in Real} = series
    /\ teams' = TeamsWith(p, Real) /\ mapping' = MappingWith(p, Real)
    /\ series' = SeriesWith(p, Real) /\ facts' = FactsWith(p, Real)
    /\ Settle(p, facts')

(* settle_map of a map that has no result yet: its first fact decides.      *)
SettleStored(p) ==
    /\ result = None /\ facts[p] # None /\ facts[p].mapped /\ facts[p].winner # None
    /\ Settle(p, facts)
    /\ UNCHANGED <<teams, mapping, series, facts>>

Next ==
    \/ \E r \in Real : Discover(r)
    \/ Bootstrap
    \/ \E p \in Sources : \E given \in SUBSET Real : Sync(p, given)
    \/ \E listed \in SUBSET Real : Catalog(listed)
    \/ StratzIdentities
    \/ \E p \in Sources : ObserveNames(p) \/ Report(p) \/ SettleStored(p)
    \/ Repair

Spec == Init /\ [][Next]_vars

-----------------------------------------------------------------------------
TypeOK ==
    /\ teams \subseteq Team /\ mapping \in [Providers -> [Real -> Team \cup {None}]]
    /\ series \in (SUBSET Team) \cup {None} /\ result \in Verdict \cup {None}
    /\ facts \in [Sources -> Fact \cup {None}]
    /\ evidence \in [Sources -> Verdict \cup {None}]

(* A merge leaves nothing behind: whatever is stored names a team that      *)
(* exists, of the real team it is about (_merge_placeholder_team).          *)
Stored ==
    UNION ({{<<r, mapping[p][r]>> : r \in Real} : p \in Providers}
           \cup {{<<r, facts[p].sides[r]>> : r \in Real} : p \in Known(facts)}
           \cup {{<<Radiant, facts[p].winner>>} : p \in Known(facts)}
           \cup {{<<Radiant, evidence[p].winner>>} : p \in Known(evidence)}
           \cup {IF result = None THEN {} ELSE {<<Radiant, result.winner>>}}
           \cup {IF series = None THEN {} ELSE {<<t[2], t>> : t \in series}})

MergedWhole == \A s \in Stored : s[2] # None => s[2] \in teams /\ s[2][2] = s[1]

(* The providers agree on the winner here.  Once none of them speaks of a   *)
(* placeholder any more, the facts, and the result if every provider that   *)
(* gave evidence agrees, are no longer in conflict                          *)
(* (_restore_converged_match_results).                                      *)
AllNamed == \A s \in Stored : s[2] = None \/ s[2] \in NamedPair

ConflictIsReal ==
    AllNamed /\ series # None =>
        /\ \A p \in Known(facts) : ~facts[p].conflict
        /\ result # None => ~result.conflict /\ result.winner = Named(Radiant)
=============================================================================
