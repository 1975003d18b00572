----------------------------- MODULE LogPoolMC ------------------------------
(***************************************************************************)
(* LogPool on three log files, the second one empty, with one or two       *)
(* workers and every fault.                                                *)
(***************************************************************************)
EXTENDS LogPool

MCBlocks == <<3, 0, 2>>
=============================================================================
