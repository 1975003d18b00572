--------------------------- MODULE ClibConfigure ---------------------------
(***************************************************************************)
(* `clib configure` of src/hw8/clib/src/clib-configure.c, next to          *)
(* `clib build`: the same walk through the packages with a hash of its     *)
(* own, a configure script where the other runs make, and --flags, which   *)
(* prints the flags of a package in place of configuring it.  The name of  *)
(* a dependency is read without a test: where `clib build` gives up on an  *)
(* unknown dependency, this program crashes.                               *)
(***************************************************************************)
EXTENDS ClibBuild

ConfigureInit == \E s \in Setups : s.tool = "configure" /\ Started(s)
Init == BuildInit \/ ConfigureInit

ConfigureBegin(t) == Begin(t)
ConfigureEnter(t) == CrashOnPath(t) \/ Enter(t)

\* With --flags the flags of a package that has some come first.
Configured(p) == IF setup.wantFlags /\ p \in setup.flags THEN "flags" ELSE Chosen(p)
ConfigureRead(t) == Load(t, Configured(Of(t)))
PrintFlags(t) == thr[t].pc = "flags" /\ Mark(t, "t")

ConfigurePrefix(t) == SetPrefix(t)
Configure(t) == Make(t)
ConfigureDone(t) == Made(t) \/ Skip(t)

ConfigureDependency(t) == StartDependency(t)
ConfigureDevelopment(t) == StartDevelopment(t)
\* dependency->name with dependency NULL, in both lists.
CrashOnUnknown(t) ==
  /\ Unknown(t)
  /\ exit' = Crashed /\ failed' = TRUE
  /\ UNCHANGED <<setup, built, root, env, thr, cursor, cut, lost>>
ConfigureJoin(t) == Join(t) \/ JoinStray(t)
ConfigureListEnd(t) == EndList(t)

ConfigureTarget == NextTarget
ConfigureExit == Exit

ConfigureStep(t) ==
  \/ ConfigureBegin(t) \/ ConfigureEnter(t) \/ ConfigureRead(t) \/ PrintFlags(t)
  \/ ConfigurePrefix(t) \/ Configure(t) \/ ConfigureDone(t)
  \/ ConfigureDependency(t) \/ ConfigureDevelopment(t) \/ CrashOnUnknown(t)
  \/ ConfigureJoin(t) \/ ConfigureListEnd(t)

ConfigureNext ==
  exit = Running /\ ((\E t \in DOMAIN thr : ConfigureStep(t)) \/ ConfigureTarget \/ ConfigureExit)

Next ==
  \/ setup.tool = "build" /\ BuildNext
  \/ setup.tool = "configure" /\ ConfigureNext

\* The threads are runnable or wait for one another: some thread runs.
Spec == Init /\ [][Next]_vars /\ WF_vars(Next)
=============================================================================
