----------------------------- MODULE MCCommerce -----------------------------
(* Commerce and History in one run: a behaviour is one of the module that   *)
(* `part` names while the others stand still.                               *)
EXTENDS Commerce, History, TLC

VARIABLE part

-----------------------------------------------------------------------------
(* Two pass purchases, by two accounts or by the same one; u2 may be invited *)
(* by u1, and u3 by either of them, so that u2 can be invited and an inviter.*)
CONSTANTS u1, u2, u3, p1, p2, event, series

MCTargets  == { event, series }
MCEventOf  == [ t \in MCTargets |-> event ]
MCCodes    == u1 :> {} @@ u2 :> { u1 } @@ u3 :> { u1, u2 }
MCRequests == p1 :> { << u2, event >> } @@ p2 :> { << u2, event >>, << u3, series >> }

(* Bound.  An hour passes for a reservation only when it stands in the way  *)
(* of another checkout.                                                     *)
InTheWay(p) == \E q \in Purchases \ { p } :
    /\ checkout[q] = "asked" /\ row[q].user = row[p].user /\ row[q].target = row[p].target
HoursThatMatter == \A p \in Purchases :
    row[p].status = "PENDING" /\ row'[p].status = "LAPSED" => InTheWay(p)

(* Bound.  The clock starts with the first payment: nothing before has a time. *)
TimeThatMatters == now' # now => \E p \in Purchases : occurred[p]["completed"] # Never

(* Bound.  What fails is a step of the first purchase, which may come before *)
(* the second, after it or between its steps.                                *)
FaultsOfTheFirst == faults' # faults => row'[p2] = row[p2] /\ checkout'[p2] = checkout[p2]
                                        /\ delivery'[p2] = delivery[p2]

-----------------------------------------------------------------------------
(* One series of x and y; a map of theirs, which the providers may disagree *)
(* about, and one of x and another team, whose winner may come late.        *)
Says(winner, advanced) == [ winner |-> winner, advanced |-> advanced ]

MCPlaying == << { "x", "y" }, { "x", "z" } >>
MCPairings == { { "x", "y" } }
MCAnswers == [ stratz   |-> << { Says("radiant", TRUE) }, {} >>,
               opendota |-> << { Says("dire", FALSE), Says("radiant", FALSE) },
                               { Says("?", FALSE), Says("dire", TRUE) } >> ]

ASSUME FactsAssumption == HistoryAssumption

(* Bound.  The postmatch job asks about the second map.                     *)
OneAsked == asked'.of \in { 0, 2 }

-----------------------------------------------------------------------------
SumInit == part \in { "commerce", "history" } /\ Init /\ HistoryInit

SumNext ==
    /\ part' = part
    /\ \/ part = "commerce" /\ Next /\ HoursThatMatter /\ TimeThatMatters /\ FaultsOfTheFirst
                             /\ UNCHANGED historyVars
       \/ part = "history" /\ HistoryNext /\ OneAsked /\ UNCHANGED vars

SumSpec == SumInit /\ [][SumNext]_<< part, vars, historyVars >>
=============================================================================
