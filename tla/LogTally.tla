------------------------------ MODULE LogTally ------------------------------
(***************************************************************************)
(* What the log analyser of hw11 promises, without threads, channel or     *)
(* hash maps: every block of the log files is counted at most once, a      *)
(* report is printed only when every block is counted, and a block that    *)
(* was lost with a failing thread is never counted again, so that no       *)
(* report can follow.                                                      *)
(***************************************************************************)
CONSTANT Blocks          \* the blocks the log files are split into

VARIABLES
    counted,             \* blocks the totals stand for
    lost,                \* blocks whose contribution is gone
    status               \* "running", "reported" or "failed"

vars == <<counted, lost, status>>

Init ==
    /\ counted = {}
    /\ lost = {}
    /\ status = "running"

\* A block not seen yet is parsed and its lines enter the totals.
Count(b) ==
    /\ b \notin counted \cup lost
    /\ counted' = counted \cup {b}
    /\ UNCHANGED <<lost, status>>

\* A thread fails and takes what it counted, and the block in its hands,
\* with it.
Lose(S) ==
    /\ status # "reported"
    /\ S \cap lost = {}
    /\ counted' = counted \ S
    /\ lost' = lost \cup S
    /\ UNCHANGED status

\* The totals are printed.
Report ==
    /\ status = "running"
    /\ counted = Blocks
    /\ status' = "reported"
    /\ UNCHANGED <<counted, lost>>

\* The analysis gives up.
Fail ==
    /\ status = "running"
    /\ status' = "failed"
    /\ UNCHANGED <<counted, lost>>

Next ==
    \/ \E b \in Blocks : Count(b)
    \/ \E S \in SUBSET Blocks : Lose(S)
    \/ Report
    \/ Fail

Spec == Init /\ [][Next]_vars
=============================================================================
