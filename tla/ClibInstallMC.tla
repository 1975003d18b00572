--------------------------- MODULE ClibInstallMC ---------------------------
(* A registry of three packages and command lines for TLC. *)
EXTENDS ClibCommands

MCPackages == {"lib", "tool", "many"}
Package(sources, makefile, dependencies) ==
  [sources |-> sources, makefile |-> makefile, configure |-> FALSE, install |-> FALSE,
   dependencies |-> dependencies, development |-> <<>>]

\* "lib" needs "tool", which is an executable and needs "lib"; "many" has more
\* sources than there are slots.
MCDescribe ==
  "lib" :> [Package(1, TRUE, <<"tool">>) EXCEPT !.configure = TRUE]
  @@ "tool" :> [Package(-1, FALSE, <<"lib">>) EXCEPT !.install = TRUE]
  @@ "many" :> [Package(3, FALSE, <<>>) EXCEPT !.development = <<"lib">>]

Plain == [cmd |-> "install", force |-> FALSE, skipCache |-> FALSE, global |-> FALSE,
          dev |-> FALSE, save |-> FALSE, args |-> <<>>, manifests |-> {"package.json"},
          dependencies |-> <<"lib">>, development |-> <<>>, faults |-> {}]

MCSetups ==
  {[Plain EXCEPT !.faults = {"get"}],
   [Plain EXCEPT !.manifests = {"clib.json", "package.json"}, !.faults = {"disk", "thread"}],
   [Plain EXCEPT !.development = <<"tool">>, !.dev = TRUE, !.faults = {"lookup"}],
   [Plain EXCEPT !.args = <<"many">>, !.dev = TRUE, !.save = TRUE, !.faults = {"lookup"}],
   [Plain EXCEPT !.args = <<"many">>, !.skipCache = TRUE, !.faults = {"thread"}],
   [Plain EXCEPT !.args = <<"lib", "tool">>, !.faults = {"command", "lookup"}],
   [Plain EXCEPT !.manifests = {"clib.json"}, !.args = <<File, "lib">>, !.faults = {"lookup"}],
   [Plain EXCEPT !.cmd = "update", !.args = <<Here>>],
   [Plain EXCEPT !.cmd = "update"],
   [Plain EXCEPT !.cmd = "update", !.args = <<"many">>],
   [Plain EXCEPT !.cmd = "upgrade", !.args = <<"tool">>, !.faults = {"command", "get"}],
   [Plain EXCEPT !.cmd = "upgrade", !.args = <<"tool">>, !.force = TRUE, !.faults = {"lookup"}]}
=============================================================================
