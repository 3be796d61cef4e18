---------------------------- MODULE JobContract -----------------------------
(***************************************************************************)
(* What durable jobs promise whoever enqueues one, without workers, leases *)
(* or attempts: an accepted job stays accepted, it is reported succeeded   *)
(* only after its work was carried out in full at least once, success is   *)
(* final, and a failure is final until someone asks again.                 *)
(***************************************************************************)
EXTENDS Naturals

CONSTANT Jobs
VARIABLES view, done

Init == view = [j \in Jobs |-> "none"] /\ done = {}

Move(j, from, to) ==
    /\ view[j] = from
    /\ view' = [view EXCEPT ![j] = to]
    /\ UNCHANGED done

Accept(j) == Move(j, "none", "open")
GiveUp(j) == Move(j, "open", "failed")
AskAgain(j) == Move(j, "failed", "open")
Report(j) == j \in done /\ Move(j, "open", "succeeded")

(* The work itself may be carried out more than once, and even late.        *)
CarryOut(j) ==
    /\ view[j] # "none"
    /\ done' = done \cup {j}
    /\ UNCHANGED view

Next == \E j \in Jobs :
    Accept(j) \/ GiveUp(j) \/ AskAgain(j) \/ Report(j) \/ CarryOut(j)

Spec == Init /\ [][Next]_<<view, done>>
=============================================================================
