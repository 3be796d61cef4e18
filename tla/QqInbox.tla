------------------------------- MODULE QqInbox -------------------------------
(***************************************************************************)
(* What people tell the QQ bots in their groups: the event buffer of the   *)
(* bridge process (tools/qq_bot_bridge.mjs), the loop that polls it        *)
(* (QQBotService.run_inbound), the contacts and cursors on disk            *)
(* (QQBotStore), and the QR login of a user that adds and removes bots.    *)
(*                                                                         *)
(* The buffer is lost when the bridge restarts, and its numbering then     *)
(* goes on from the highest cursor on disk.  A batch that fails is read    *)
(* again from its start, orders that took effect included.                 *)
(***************************************************************************)
EXTENDS Integers, FiniteSets

CONSTANTS
    Bots,            \* the bot accounts, by app id
    SharedBots,      \* of them, the one that the environment configures
    Groups,
    BotOf,           \* the bot that a group talks to
    MaxEvents,       \* MAX_EVENTS of the bridge
    Unset,           \* no bot, no call
    MaxMessages,     \* bound: messages that arrive
    MaxQqMishaps     \* bound: failed polls, restarts, failed sends

InboxAssumption ==
    /\ SharedBots \subseteq Bots /\ Unset \notin Bots
    /\ BotOf \in [Groups -> Bots]
    /\ MaxEvents \in Nat \ {0}

VARIABLES
    eventCursor,     \* of the bridge: the number of its newest event
    buffer,          \* of the bridge: the events it holds
    cursor,          \* event_cursor on disk, by bot; 0 without a file
    listed,          \* the accounts on disk
    round,           \* the accounts that run_inbound has yet to poll
    poll,            \* the poll under way
    contact,         \* contacts on disk; a group starts out not subscribed
    scan,            \* the QR login of the user
    arrived,         \* messages so far; each keeps its place as its id
    word,            \* the newest order of each group
    handled,         \* ids of the messages that _handle_message finished
    dropped,         \* ids that left the buffer before a cursor covered them
    behind,          \* bots whose cursor was saved across a bridge restart
    undone,          \* orders that the save of a label took back
    qqMishaps

bridgeVars == <<eventCursor, buffer, arrived, word, dropped>>
inboundVars == <<bridgeVars, round, poll, contact, handled, behind, undone>>
inboxState == <<inboundVars, cursor, listed, scan>>
inboxVars == <<inboxState, qqMishaps>>

(* An order to subscribe or to unsubscribe; any other text that is answered; *)
(* and a text that is neither (not from an allowed group, or not mentioned). *)
Orders == {"on", "off"}
Texts == Orders \cup {"ask", "none"}
Message == [id: Nat, n: Nat, group: Groups, says: Texts, named: BOOLEAN]

RestingPoll == [pc |-> "idle", bot |-> Unset, base |-> 0, upto |-> 0, todo |-> {},
                was |-> FALSE, old |-> FALSE]
NoScan == [pc |-> "none", bot |-> Unset, previous |-> {}]

InboxTypeOK ==
    /\ eventCursor \in Nat /\ arrived \in Nat /\ qqMishaps \in Nat
    /\ buffer \in SUBSET Message
    /\ cursor \in [Bots -> Nat]
    /\ listed \in SUBSET Bots /\ round \in SUBSET Bots /\ behind \in SUBSET Bots
    /\ poll \in [pc: {"idle", "asked", "answered", "replying"}, bot: Bots \cup {Unset},
                 base: Nat, upto: Nat, todo: SUBSET Message, was: BOOLEAN, old: BOOLEAN]
    /\ contact \in [Groups -> [wants: BOOLEAN, label: BOOLEAN]]
    /\ scan \in [pc: {"none", "open", "saved"}, bot: Bots \cup {Unset}, previous: SUBSET Bots]
    /\ word \in [Groups -> [id: Nat, says: Orders]]
    /\ handled \in SUBSET Nat /\ dropped \in SUBSET Nat /\ undone \in SUBSET Nat

InboxInit ==
    /\ eventCursor = 0 /\ buffer = {} /\ arrived = 0 /\ qqMishaps = 0
    /\ cursor = [b \in Bots |-> 0]
    /\ listed = SharedBots /\ round = {} /\ behind = {}
    /\ poll = RestingPoll /\ scan = NoScan
    /\ contact = [g \in Groups |-> [wants |-> FALSE, label |-> FALSE]]
    /\ word = [g \in Groups |-> [id |-> 0, says |-> "off"]]
    /\ handled = {} /\ dropped = {} /\ undone = {}

QqMishap == qqMishaps < MaxQqMishaps /\ qqMishaps' = qqMishaps + 1

-----------------------------------------------------------------------------
(* The bridge.  What it holds is at stake until a cursor covers it.         *)
BotFor(x) == BotOf[x.group]
Unread(x) == cursor[BotFor(x)] < x.n
AtStake(x) == Unread(x) \/ BotFor(x) \in behind

Loses(gone) == dropped' = dropped \cup {x.id : x \in {y \in gone : AtStake(y)}}

(* A full buffer shifts its oldest event out.                               *)
Shifted == {x \in buffer : Cardinality(buffer) >= MaxEvents /\ \A y \in buffer : x.n <= y.n}

Arrive(g, says, named) ==
    /\ arrived < MaxMessages
    /\ BotOf[g] \in listed
    /\ arrived' = arrived + 1
    /\ eventCursor' = eventCursor + 1
    /\ buffer' = (buffer \ Shifted) \cup
           {[id |-> arrived + 1, n |-> eventCursor + 1, group |-> g, says |-> says, named |-> named]}
    /\ Loses(Shifted)
    /\ word' = IF says \in Orders THEN [word EXCEPT ![g] = [id |-> arrived + 1, says |-> says]]
               ELSE word
    /\ UNCHANGED <<cursor, listed, round, poll, contact, scan, handled, behind, undone, qqMishaps>>

(* loadInitialEventCursor: the highest cursor that is stored.               *)
SlipCountsFromZero == {0}
StoredCursors == {0} \cup {cursor[b] : b \in Bots}

(* The bridge exits and QQBotBridgeRunner starts another.  A request that   *)
(* waits for it fails; a batch that was read before is handled to its end.  *)
BridgeRestarts ==
    /\ QqMishap
    /\ buffer' = {}
    /\ Loses(buffer)
    /\ \E c \in StoredCursors :
          /\ \A d \in StoredCursors : d <= c
          /\ eventCursor' = c
          /\ poll' = IF poll.pc \in {"idle", "asked"} THEN RestingPoll
                     ELSE [poll EXCEPT !.old = poll.old \/ c < poll.upto]
    /\ UNCHANGED <<cursor, listed, round, contact, scan, arrived, word, handled, behind, undone>>

-----------------------------------------------------------------------------
(* run_inbound: one round over the accounts, as they were when it began.    *)
NextRound ==
    /\ round = {} /\ poll.pc = "idle" /\ listed # {}
    /\ round' = listed
    /\ UNCHANGED <<bridgeVars, cursor, listed, poll, contact, scan, handled, behind, undone, qqMishaps>>

Ask(b) ==
    /\ poll.pc = "idle" /\ b \in round
    /\ round' = round \ {b}
    /\ poll' = [RestingPoll EXCEPT !.pc = "asked", !.bot = b, !.base = cursor[b]]
    /\ UNCHANGED <<bridgeVars, cursor, listed, contact, scan, handled, behind, undone, qqMishaps>>

(* A bridge that has not got as far as the cursor is read from its origin.  *)
ReadFor(b, base) == {x \in buffer : BotFor(x) = b /\ x.n > base}

Answer ==
    /\ poll.pc = "asked"
    /\ poll' = IF eventCursor < poll.base THEN [poll EXCEPT !.base = 0]
               ELSE [poll EXCEPT !.pc = "answered", !.upto = eventCursor,
                                 !.todo = ReadFor(poll.bot, poll.base)]
    /\ UNCHANGED <<bridgeVars, cursor, listed, round, contact, scan, handled, behind, undone, qqMishaps>>

IsFirst(x) == x \in poll.todo /\ \A y \in poll.todo : x.n <= y.n

(* _handle_message up to the reply.  An order is on disk before it is       *)
(* confirmed, and the contact that was read stays in hand.                  *)
TakeEffect(x) ==
    /\ poll.pc = "answered" /\ IsFirst(x) /\ x.says # "none"
    /\ contact' = IF x.says \in Orders THEN [contact EXCEPT ![x.group].wants = (x.says = "on")]
                  ELSE contact
    /\ poll' = [poll EXCEPT !.pc = "replying", !.was = contact[x.group].wants]
    /\ undone' = undone \ {x.id}
    /\ UNCHANGED <<bridgeVars, cursor, listed, round, scan, handled, behind, qqMishaps>>

Ignore(x) ==
    /\ poll.pc = "answered" /\ IsFirst(x) /\ x.says = "none"
    /\ poll' = [poll EXCEPT !.todo = poll.todo \ {x}]
    /\ handled' = handled \cup {x.id}
    /\ UNCHANGED <<bridgeVars, cursor, listed, round, contact, scan, behind, undone, qqMishaps>>

(* The reply is out.  A contact without a label is saved once more with the *)
(* sender's name, as it was read before the order.                          *)
Labelled(x) ==
    IF x.named /\ ~contact[x.group].label THEN [wants |-> poll.was, label |-> TRUE]
    ELSE contact[x.group]

Reply(x) ==
    /\ poll.pc = "replying" /\ IsFirst(x)
    /\ contact' = [contact EXCEPT ![x.group] = Labelled(x)]
    /\ undone' = IF Labelled(x).wants = contact[x.group].wants THEN undone ELSE undone \cup {x.id}
    /\ poll' = [poll EXCEPT !.pc = "answered", !.todo = poll.todo \ {x}]
    /\ handled' = handled \cup {x.id}
    /\ UNCHANGED <<bridgeVars, cursor, listed, round, scan, behind, qqMishaps>>

(* The batch is handled: its end is the cursor, whatever bridge runs now.   *)
SaveCursor ==
    /\ poll.pc = "answered" /\ poll.todo = {}
    /\ cursor' = [cursor EXCEPT ![poll.bot] = poll.upto]
    /\ behind' = IF poll.old THEN behind \cup {poll.bot}
                 ELSE IF poll.base = 0 THEN behind \ {poll.bot} ELSE behind
    /\ poll' = RestingPoll
    /\ UNCHANGED <<bridgeVars, listed, round, contact, scan, handled, undone, qqMishaps>>

(* The request, a reply or the handling raises: the cursor stays.           *)
PollFails ==
    /\ QqMishap
    /\ poll.pc # "idle"
    /\ poll' = RestingPoll
    /\ UNCHANGED <<bridgeVars, cursor, listed, round, contact, scan, handled, behind, undone>>

(* The service stops and starts again: a login and a round are forgotten.   *)
ServiceRestarts ==
    /\ QqMishap
    /\ poll' = RestingPoll /\ round' = {} /\ scan' = NoScan
    /\ listed' = IF listed = {} THEN SharedBots ELSE listed
    /\ UNCHANGED <<bridgeVars, cursor, contact, handled, behind, undone>>

-----------------------------------------------------------------------------
(* The QR login of a user, who owns the bots that are not shared.           *)
UserBots == listed \ SharedBots
WithoutCursors(bots) == [b \in Bots |-> IF b \in bots THEN 0 ELSE cursor[b]]

ScanStarts ==
    /\ scan.pc = "none"
    /\ scan' = [NoScan EXCEPT !.pc = "open"]
    /\ UNCHANGED <<inboundVars, cursor, listed, qqMishaps>>

(* It expires, is cancelled, or has no usable account: nothing is kept.     *)
ScanEnds ==
    /\ scan.pc = "open"
    /\ scan' = NoScan
    /\ UNCHANGED <<inboundVars, cursor, listed, qqMishaps>>

(* The credential is on disk before the binding is committed.               *)
ScanSaves(b) ==
    /\ scan.pc = "open" /\ b \notin SharedBots
    /\ scan' = [pc |-> "saved", bot |-> b, previous |-> UserBots]
    /\ listed' = listed \cup {b}
    /\ UNCHANGED <<inboundVars, cursor, qqMishaps>>

ScanBinds ==
    /\ scan.pc = "saved"
    /\ LET replaced == scan.previous \ {scan.bot}
       IN  listed' = listed \ replaced /\ cursor' = WithoutCursors(replaced)
    /\ scan' = NoScan
    /\ UNCHANGED <<inboundVars, qqMishaps>>

ScanBindRaises ==
    /\ QqMishap
    /\ scan.pc = "saved"
    /\ listed' = (listed \ {scan.bot}) \cup scan.previous
    /\ cursor' = WithoutCursors({scan.bot})
    /\ scan' = NoScan
    /\ UNCHANGED inboundVars

RevokeBot(b) ==
    /\ b \in UserBots
    /\ listed' = listed \ {b}
    /\ cursor' = WithoutCursors({b})
    /\ UNCHANGED <<inboundVars, scan, qqMishaps>>

-----------------------------------------------------------------------------
InboxStep ==
    \/ \E g \in Groups, says \in Texts, named \in BOOLEAN : Arrive(g, says, named)
    \/ NextRound \/ (\E b \in Bots : Ask(b)) \/ Answer
    \/ \E x \in poll.todo : TakeEffect(x) \/ Ignore(x) \/ Reply(x)
    \/ SaveCursor \/ PollFails \/ ServiceRestarts
    \/ ScanStarts \/ ScanEnds \/ ScanBinds \/ ScanBindRaises
    \/ \E b \in Bots : ScanSaves(b) \/ RevokeBot(b)

-----------------------------------------------------------------------------
(* No message in the buffer is passed over: it is handled, or the cursor of *)
(* its bot is before it and the next poll reads it.  Excepted are the bots  *)
(* whose cursor was saved for a batch of a bridge that is gone              *)
(* (run_inbound, loadInitialEventCursor, remove_account).                   *)
NothingSkipped == \A x \in buffer : x.id \in handled \/ AtStake(x)

(* A group's subscription is what its newest order says, unless that order  *)
(* is still to be read, was lost with the buffer, or was taken back by the  *)
(* save of a label; however often a batch is repeated, older orders do not  *)
(* win (_handle_message, set_contact_subscribed).                           *)
Waits(g) == \E x \in buffer : x.id = word[g].id /\ AtStake(x)

LastWordCounts ==
    \A g \in Groups :
        \/ word[g].id = 0
        \/ contact[g].wants = (word[g].says = "on")
        \/ word[g].id \in dropped \cup undone
        \/ Waits(g)
=============================================================================
