---------------------------- MODULE ClibBuildMC ----------------------------
(* Graphs of dependencies and command lines for TLC. *)
EXTENDS ClibConfigure

MCPackages == {"cwd", "a", "b", "c"}

\* Nobody depends on anything, the working directory and every copy have a
\* clib.json, all have a makefile and are published.
Plain ==
  [tool |-> "build", args |-> <<>>,
   dependencies |-> [p \in MCPackages |-> <<>>],
   development |-> [p \in MCPackages |-> <<>>],
   manifests |-> [p \in MCPackages |-> {"clib.json"}], here |-> {"clib.json"},
   makes |-> MCPackages, flags |-> {"a"}, prefix |-> [p \in MCPackages |-> None],
   published |-> MCPackages, dev |-> FALSE, wantFlags |-> FALSE, flaky |-> FALSE,
   starved |-> FALSE, optPrefix |-> None]

\* The working directory needs a and b, which both need c, and c needs a: with
\* prefixes of their own, and one of the root package.
Diamond ==
  [Plain EXCEPT !.dependencies = [@ EXCEPT !["cwd"] = <<"a", "b">>, !["a"] = <<"c">>,
                                           !["b"] = <<"c">>, !["c"] = <<"a">>],
                !.prefix = [@ EXCEPT !["cwd"] = "cwd", !["a"] = "a", !["c"] = "c"]]
\* a and b need each other, one copy has only a package.json.
Cycle ==
  [Plain EXCEPT !.args = << <<"slug", "a">>, <<"slug", "c">> >>,
                !.dependencies = [@ EXCEPT !["a"] = <<"b", "c">>, !["b"] = <<"a">>],
                !.manifests = [@ EXCEPT !["b"] = {"package.json"}],
                !.prefix = [@ EXCEPT !["a"] = "a", !["b"] = "b"]]
\* Three dependencies make a second batch; one is for development.
Wide ==
  [Plain EXCEPT !.dependencies = [@ EXCEPT !["cwd"] = <<"a", "b", "c">>],
                !.development = [@ EXCEPT !["cwd"] = <<"b">>],
                !.dev = TRUE, !.makes = {"a"}, !.optPrefix = "c",
                !.prefix = [@ EXCEPT !["a"] = "a"]]

\* main goes from a to c while the thread of b is left running and needs c.
Late ==
  [Plain EXCEPT !.args = << <<"in", "a">>, <<"slug", "c">> >>,
                !.dependencies = [@ EXCEPT !["a"] = <<"b", "cwd">>, !["b"] = <<"c">>],
                !.published = @ \ {"cwd"}]

\* a by its path, the file of b that stands for the one of the working
\* directory, which has none of that name, and a path to nothing.
Spelled ==
  [Plain EXCEPT !.args = << <<"path", "a">>, <<"package.json", "b">>, <<"gone", "b">> >>,
                !.dependencies = [@ EXCEPT !["a"] = <<"b">>, !["b"] = <<"cwd">>,
                                           !["cwd"] = <<"a">>]]
\* The same files by several names, the working directory and its copy too.
Renamed ==
  [Spelled EXCEPT !.args = << <<"clib.json", "a">>, <<"dot", "cwd">>, <<"rel", "b">>, <<"in", "b">> >>]

Flaky(s) == [s EXCEPT !.flaky = TRUE]
Alone(s) == [s EXCEPT !.args = << <<"slug", "a">> >>]
\* c has no copy and nobody knows it.
Unpublished(s) == [s EXCEPT !.published = @ \ {"c"}, !.manifests = [@ EXCEPT !["c"] = {}]]
Starved(s) == [s EXCEPT !.starved = TRUE]
Flags(s) == [s EXCEPT !.wantFlags = TRUE]

MCSetups ==
  LET Graphs == {Diamond, Cycle, Wide, Late, Unpublished(Alone(Cycle)), Unpublished(Wide),
                 Flaky(Wide), Flaky(Diamond), Starved(Wide), Starved(Spelled),
                 Starved(Cycle), Renamed, Starved(Renamed)}
  IN Graphs \cup {[s EXCEPT !.tool = "configure"] : s \in Graphs \cup {Flags(Cycle)}}
=============================================================================
