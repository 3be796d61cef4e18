--------------------------- MODULE MCAiDecisions ----------------------------
(* AiDecisions for TLC.                                                     *)
EXTENDS AiDecisions, TLC

CONSTANTS e1, e2, m1, m2
MCExperiments == {e1, e2}
MCOneExperiment == {e1}
MCMaps == {m1, m2}
MCOneMap == {m1}
MCSnapshots == 1..2
MCSameMap == [s \in MCSnapshots |-> m1]
MCTwoMaps == [s \in MCSnapshots |-> IF s = 1 THEN m1 ELSE m2]
MCNoWinners == {}
MCOdds == [s \in MCSnapshots |-> 150]
MCBuy(side, halves) == [action |-> side, halves |-> halves, timely |-> TRUE]
MCOneAnswer == {MCBuy("BUY_A", 2)}
(* With a bankroll of two cents: a bet of one, and one on the other side of *)
(* all there is and the half cent of tolerance.                             *)
MCAnswers == {MCBuy("BUY_A", 2), MCBuy("BUY_B", 5)}
=============================================================================
