---------------------------- MODULE BlockSplitMC ----------------------------
(***************************************************************************)
(* BlockSplit on every file of up to MaxFile bytes.                        *)
(***************************************************************************)
EXTENDS BlockSplit

CONSTANT MaxFile

MCFiles == UNION {[1..n -> Bytes] : n \in 0..MaxFile}
=============================================================================
