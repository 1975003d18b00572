--------------------------- MODULE OpenHashmapMC ----------------------------
(***************************************************************************)
(* OpenHashmap with four keys in a table of three buckets, which grows to  *)
(* four and to six: the hash values collide, are neighbours or wrap round  *)
(* in each of the three sizes.                                             *)
(***************************************************************************)
EXTENDS OpenHashmap, TLC

MCHashes == [Keys -> {0, 2, 5}]

\* No definition prefers a key, and every permutation of a hash function is one.
MCSymmetry == Permutations(Keys)
=============================================================================
