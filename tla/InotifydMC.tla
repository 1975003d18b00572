----------------------------- MODULE InotifydMC -----------------------------
(* Model values and contents of the configuration file for TLC. *)
EXTENDS Inotifyd

MCPaths == {"f", "g"}
MCSocks == {"s"}

\* Two files, each of which may be removed or come to bear the other's path, and
\* a link to g that may be made once a path is free.
MCFiles == {"file1", "file2"}
MCLinks == {"link"}
MCLinkTo == [l \in MCLinks |-> "g"]
MCNames == {[p \in MCPaths |-> IF p = "f" THEN "file1" ELSE "file2"]}

\* A configuration, another file, a file that ends after its first line.
MCTexts == {[file |-> "f", sock |-> "s"], [file |-> "g", sock |-> "s"],
            [file |-> "f", sock |-> "eof"]}
=============================================================================
