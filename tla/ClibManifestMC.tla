-------------------------- MODULE ClibManifestMC --------------------------
(* A repository of three versions for TLC. *)
EXTENDS ClibManifest

Kit == <<"kit">>
V1 == <<"v1">>
XV1 == <<"x", "v1">>
Manifest(v, f) == [author |-> <<"acme">>, repo |-> Kit, version |-> v, file |-> f]
MCPublished ==
  {Manifest(Master, "clib.json"), Manifest(V1, "package.json"), Manifest(XV1, "clib.json")}

\* The master and the tag x_v1 declare v1, and v1 names its package kit_x:
\* acme_kit_x_v1.json is the file of kit_x@v1 and of kit@x_v1.
MCDeclared(c) == IF c.version = V1 THEN None ELSE V1
MCNameIn(c) == IF c.version = V1 THEN <<"kit", "x">> ELSE Kit

Slug_(v) == [author |-> <<"acme">>, repo |-> Kit, version |-> v]
MCThreads == {1, 2}
MCCalls == << <<Slug_(Master), Slug_(V1)>>, <<Slug_(XV1)>> >>
=============================================================================
