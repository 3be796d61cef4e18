------------------------------ MODULE Portfolio ------------------------------
(***************************************************************************)
(* The event-level shadow bankroll: TournamentPortfolioService             *)
(* (app/evaluation/portfolio.py) and its tables.  One account per          *)
(* experiment, one position per BUY decision.  The operators compute the   *)
(* new tables; the transactions that apply them are those of AiDecisions.  *)
(*                                                                         *)
(* Money is in cents, as Numeric(14, 2) keeps it; the stake a model asks   *)
(* for is a float, so it is given in half cents, the finest amount that    *)
(* _money and the tolerance of validate_ai_decision tell apart.  Odds are  *)
(* in hundredths.  The risk figures (peak, drawdown) are left out.         *)
(***************************************************************************)
EXTENDS Integers, Sequences, FiniteSets, FiniteSetsExt

CONSTANTS
    Snapshots,       \* decision snapshots of one event: numbers in decision_at order
    Maps,
    MapOf,           \* canonical_map_id of each snapshot
    Experiments,     \* the (provider, model) lanes; one account each
    Executable,      \* snapshots with eligible quality and market, and odds
    Odds,            \* decision-time odds of each snapshot, in hundredths
    InitialBankroll

ASSUME PortfolioAssumption ==
    /\ Snapshots \subseteq Nat /\ IsFiniteSet(Snapshots)
    /\ MapOf \in [Snapshots -> Maps]
    /\ Executable \subseteq Snapshots
    /\ Odds \in [Snapshots -> Nat]
    /\ \A s \in Snapshots : Odds[s] > 100
    /\ InitialBankroll \in Nat \ {0}

VARIABLES
    account,         \* ai_tournament_portfolios, by experiment
    position         \* ai_tournament_positions, by decision

portfolioVars == <<account, position>>

Decisions == Snapshots \X Experiments
Sides == {"A", "B"}
Outcomes == Sides \cup {"VOID"}        \* VOID: provider conflict or no valid winner

Account == [status: {"ABSENT", "ACTIVE", "BANKRUPT"}, cash: Nat, locked: Nat, pnl: Int]
Position == [status: {"ABSENT", "OPEN", "REJECTED", "WON", "LOST", "VOID"},
             side: Sides \cup {"NONE"}, stake: Nat, cash_before: Nat,
             reason: {"NONE", "MAP_ALREADY_SETTLED", "NOT_EXECUTABLE", "INSUFFICIENT_CASH"}]

NoAccount == [status |-> "ABSENT", cash |-> 0, locked |-> 0, pnl |-> 0]
NoPosition == [status |-> "ABSENT", side |-> "NONE", stake |-> 0, cash_before |-> 0,
               reason |-> "NONE"]

PortfolioTypeOK ==
    /\ account \in [Experiments -> Account]
    /\ position \in [Decisions -> Position]

PortfolioInit ==
    /\ account = [e \in Experiments |-> NoAccount]
    /\ position = [d \in Decisions |-> NoPosition]

-----------------------------------------------------------------------------
(* _money of an amount in half cents, and of an amount in hundredths of a   *)
(* cent: both round half up.                                                *)
Cents(halves) == (halves + 1) \div 2
Rounded(hundredths) == (hundredths + 50) \div 100

(* _ensure_account: the first caller creates and funds the account.         *)
Funded(a) ==
    IF a.status = "ABSENT"
    THEN [status |-> "ACTIVE", cash |-> InitialBankroll, locked |-> 0, pnl |-> 0]
    ELSE a

(* record_decision_position, the row it inserts: `outcome` is the map's     *)
(* result as this transaction reads it, `late` that the result was usable   *)
(* before the decision was.                                                 *)
NewPosition(s, side, halves, cash, outcome, late) ==
    LET stake == Cents(halves)
        reason == CASE outcome # "NONE" /\ late -> "MAP_ALREADY_SETTLED"
                    [] s \notin Executable -> "NOT_EXECUTABLE"
                    [] stake > cash -> "INSUFFICIENT_CASH"
                    [] OTHER -> "NONE"
    IN  [status |-> IF reason = "NONE" THEN "OPEN" ELSE "REJECTED", side |-> side,
         stake |-> stake, cash_before |-> cash, reason |-> reason]

(* The account after BET_PLACED.                                            *)
SlipReserve(a, p) == [a EXCEPT !.cash = @ - p.stake]
Reserved(a, p) == [a EXCEPT !.cash = @ - p.stake, !.locked = @ + p.stake]

SlipAnyBet(pos, m) == {d \in Decisions : MapOf[d[1]] = m /\ pos[d].side # "NONE"}
OpenOn(pos, m) == {d \in Decisions : MapOf[d[1]] = m /\ pos[d].status = "OPEN"}
OpenAccounts(pos, m) == {d[2] : d \in OpenOn(pos, m)}

Payout(d, p, outcome) ==
    CASE outcome = "VOID" -> p.stake
      [] p.side = outcome -> Rounded(p.stake * Odds[d[1]])
      [] OTHER -> 0

Verdict(p, outcome) ==
    CASE outcome = "VOID" -> "VOID"
      [] p.side = outcome -> "WON"
      [] OTHER -> "LOST"

(* settle_map for the accounts it found: every position that is open when   *)
(* the account is locked is settled, and the account credited for it.       *)
SettledPositions(pos, m, outcome, found) ==
    [d \in Decisions |->
        IF d \in OpenOn(pos, m) /\ d[2] \in found
        THEN [pos[d] EXCEPT !.status = Verdict(pos[d], outcome)]
        ELSE pos[d]]

SumOver(f, S) == MapThenSumSet(LAMBDA x : f[x], S)
Stakes(pos, e) == [s \in Snapshots |-> pos[<<s, e>>].stake]
Payouts(pos, e, outcome) == [s \in Snapshots |-> Payout(<<s, e>>, pos[<<s, e>>], outcome)]

SettledAccounts(acc, pos, m, outcome, found) ==
    [e \in Experiments |->
        LET mine == {s \in Snapshots : <<s, e>> \in OpenOn(pos, m)}
            paid == SumOver(Payouts(pos, e, outcome), mine)
            staked == SumOver(Stakes(pos, e), mine)
            cash == acc[e].cash + paid
            locked == acc[e].locked - staked
        IN  IF e \in found /\ mine # {}
            THEN [status |-> IF cash <= 0 /\ locked <= 0 THEN "BANKRUPT" ELSE "ACTIVE",
                  cash |-> cash, locked |-> locked, pnl |-> acc[e].pnl + paid - staked]
            ELSE acc[e]]

-----------------------------------------------------------------------------
(* Every account balances against its positions: what it was funded with    *)
(* and has won or lost is in cash or locked, what is locked is the stakes   *)
(* of its open positions, and it is bankrupt exactly when both are gone.    *)
AccountsBalance ==
    \A e \in Experiments : account[e].status # "ABSENT" =>
        LET open == {s \in Snapshots : position[<<s, e>>].status = "OPEN"}
        IN  /\ account[e].cash + account[e].locked = InitialBankroll + account[e].pnl
            /\ account[e].locked = SumOver(Stakes(position, e), open)
            /\ account[e].status = "BANKRUPT" <=> account[e].cash + account[e].locked = 0

(* The bankroll a model was shown is still there when its stake is placed:  *)
(* a stake is refused for lack of cash only when it asked for half a cent   *)
(* more than the account had, which validate_ai_decision lets through.      *)
StakesWereCovered ==
    \A d \in Decisions : position[d].reason = "INSUFFICIENT_CASH" =>
        position[d].stake = position[d].cash_before + 1
=============================================================================
