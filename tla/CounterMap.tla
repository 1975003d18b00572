----------------------------- MODULE CounterMap -----------------------------
(***************************************************************************)
(* What the callers of the open hash map want of it: a number per key, to  *)
(* which amounts are added.  An addition that is not made is reported.     *)
(***************************************************************************)
EXTENDS Naturals

CONSTANTS Keys, Amounts

VARIABLES
    asked,           \* asked[k]: the amounts callers wanted to add to key k
    counts,          \* counts[k]: the amounts that were added
    failed           \* a caller was told of a failure

vars == <<asked, counts, failed>>

Init ==
    /\ asked = [k \in Keys |-> 0]
    /\ counts = [k \in Keys |-> 0]
    /\ failed = FALSE

\* The amount is added; growing the map may fail at the same time.
Add(k, d) ==
    /\ asked' = [asked EXCEPT ![k] = @ + d]
    /\ counts' = [counts EXCEPT ![k] = @ + d]
    /\ failed' \in {failed, TRUE}

\* The amount is not added, and the caller knows.
Refuse(k, d) ==
    /\ asked' = [asked EXCEPT ![k] = @ + d]
    /\ failed' = TRUE
    /\ UNCHANGED counts

Next == \E k \in Keys, d \in Amounts : Add(k, d) \/ Refuse(k, d)

Spec == Init /\ [][Next]_vars
=============================================================================
