------------------------------ MODULE LoggerMC ------------------------------
(***************************************************************************)
(* Two fuzzers, as in bin/main.c, and two sinks, the fewest whose contents *)
(* can disagree; one more name on the command line reaches both limits.    *)
(***************************************************************************)
EXTENDS Logger, TLC

FuzzerSymmetry == Permutations(Fuzzers)
=============================================================================
