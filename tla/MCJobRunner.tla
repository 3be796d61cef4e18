---------------------------- MODULE MCJobRunner -----------------------------
(* JobRunner for TLC.  Every run after the first costs a fault, so          *)
(* MaxRuns = MaxFaults + 1 leaves no process that cannot restart.           *)
EXTENDS JobRunner, TLC

CONSTANTS j1, j2, MCPids
MCJobs == {j1, j2}
MCOneJob == {j1}
MCSymmetry == Permutations(MCJobs)
MCOneSlot == {0}
MCTwoSlots == {0, 1}
MCWorkerIds == (1..MCPids) \X {0, 1}
=============================================================================
