---------------------------- MODULE ClibCommands ----------------------------
(***************************************************************************)
(* The mains of `clib install`, `clib update` and `clib upgrade`, which    *)
(* call clib_package_install (ClibInstall): src/hw8/clib/src/              *)
(* clib-install.c, clib-update.c and clib-upgrade.c.  The process may be   *)
(* killed at any time; then, or when it ended, it is run again with the    *)
(* disk and the cache as they are.                                         *)
(*                                                                         *)
(* clib update is clib install with fixed options, but for --save; clib    *)
(* upgrade installs one package, to a temporary directory.                 *)
(***************************************************************************)
EXTENDS ClibInstall

\* The process ends, and its threads with it.
Exit(rc) ==
  /\ exit' = [how |-> "returned", rc |-> rc]
  /\ fetch' = <<>>
  /\ damaged' = damaged \cup Arriving
  /\ UNCHANGED <<stack, visited, results, disk, refs>>
KeepProcess == UNCHANGED <<exit, fetch, damaged, visited, results, disk, refs>>

\* Without arguments, and for "." and a manifest named, the dependencies of a
\* manifest are installed; of two the second is tried when the first failed.
IsLocal ==
  setup.args = <<>> \/ (Top.items # <<>> /\ Head(Top.items) \in {Here, File})
Tried == IF setup.args # <<>> /\ Head(Top.items) = File THEN 1 ELSE Len(Manifests)

\* The result of an argument is only tested for -1, which this never is.
LocalReturns(rc) ==
  IF setup.args = <<>> THEN Exit(rc)
  ELSE Become([Top EXCEPT !.pc = "enter", !.items = Tail(@), !.n = 1]) /\ KeepProcess
LocalManifest ==
  /\ At("main", "enter") /\ IsLocal
  /\ Manifests[Top.n] \in setup.manifests
  /\ Invoke(List(setup.dependencies, "deps"), "local")
  /\ KeepFetch /\ KeepRest /\ UNCHANGED <<visited, results, saved>>
LocalFailed ==
  /\ \/ At("main", "enter") /\ IsLocal /\ Manifests[Top.n] \notin setup.manifests
     \/ (At("main", "local") \/ At("main", "localDev")) /\ Top.rc = -1
  /\ IF Top.n < Tried
     THEN Become([Top EXCEPT !.n = @ + 1, !.pc = "enter"]) /\ KeepProcess
     ELSE LocalReturns(1)
  /\ KeepRest /\ UNCHANGED <<freed, saved>>
LocalInstalled ==
  /\ At("main", "local") /\ Top.rc # -1
  /\ IF Options.dev
     THEN /\ Invoke(List(setup.development, "deps"), "localDev")
          /\ UNCHANGED <<fetch, visited, results, disk, refs, damaged>>
     ELSE LocalReturns(0)
  /\ KeepRest /\ UNCHANGED <<freed, saved>>
LocalDone ==
  /\ At("main", "localDev") /\ Top.rc # -1
  /\ LocalReturns(0) /\ KeepRest /\ UNCHANGED <<freed, saved>>
Local == LocalManifest \/ LocalFailed \/ LocalInstalled \/ LocalDone

\* With arguments install_package takes each of them.
ArgumentNext ==
  /\ At("main", "enter") /\ Top.items # <<>> /\ ~IsLocal
  /\ Install(Head(Top.items), "deps", "argument")
  /\ KeepRest /\ UNCHANGED <<visited, results, saved>>
ArgumentUnknown ==
  /\ At("main", "enter") /\ Top.items # <<>> /\ ~IsLocal /\ Faulty("lookup")
  /\ Exit(1) /\ KeepRest /\ UNCHANGED <<freed, saved>>
HasDevelopment == Options.dev /\ Describe[Head(Top.items)].development # <<>>
ArgumentDevelopment ==
  /\ At("main", "argument") /\ Top.rc = 0 /\ HasDevelopment
  /\ Invoke(List(Describe[Head(Top.items)].development, "deps"), "argumentDev")
  /\ KeepFetch /\ KeepRest /\ UNCHANGED <<visited, results, saved>>
ArgumentInstalled ==
  /\ At("main", "argumentDev") \/ (At("main", "argument") /\ ~HasDevelopment)
  /\ Top.rc = 0
  /\ Free({Top.call})
  /\ saved' = IF Options.save THEN saved \cup {Head(Top.items)} ELSE saved
  /\ Become([Top EXCEPT !.pc = "enter", !.items = Tail(@)])
  /\ KeepProcess /\ KeepRest
ArgumentFailed ==
  /\ At("main", "argument") \/ At("main", "argumentDev")
  /\ Top.rc # 0
  /\ Free({Top.call})
  /\ IF Top.rc = -1 THEN Exit(1)
     ELSE Become([Top EXCEPT !.pc = "enter", !.items = Tail(@)]) /\ KeepProcess
  /\ KeepRest /\ UNCHANGED saved
Argument ==
  \/ ArgumentNext \/ ArgumentUnknown \/ ArgumentDevelopment
  \/ ArgumentInstalled \/ ArgumentFailed
ArgumentsDone ==
  /\ At("main", "enter") /\ setup.args # <<>> /\ Top.items = <<>>
  /\ Exit(0) /\ KeepRest /\ UNCHANGED <<freed, saved>>

\* clib upgrade installs the one package it is for and returns the result.
UpgradePackage ==
  \/ /\ At("main", "enter")
     /\ Install(Head(Top.items), "tmp", "upgraded")
     /\ KeepRest /\ UNCHANGED <<visited, results, saved>>
  \/ /\ At("main", "enter") /\ Faulty("lookup")
     /\ Exit(-1) /\ KeepRest /\ UNCHANGED <<freed, saved>>
  \/ /\ At("main", "upgraded")
     /\ Free({Top.call}) /\ Exit(Top.rc) /\ KeepRest /\ UNCHANGED saved

InstallLocal == setup.cmd = "install" /\ Local
InstallPackage == setup.cmd = "install" /\ Argument
InstallPackages == setup.cmd = "install" /\ ArgumentsDone
UpdateLocal == setup.cmd = "update" /\ Local
UpdatePackage == setup.cmd = "update" /\ Argument
UpdatePackages == setup.cmd = "update" /\ ArgumentsDone
Upgrade == setup.cmd = "upgrade" /\ UpgradePackage

MainStep ==
  \/ InstallLocal \/ InstallPackage \/ InstallPackages
  \/ UpdateLocal \/ UpdatePackage \/ UpdatePackages \/ Upgrade

\* 30 days pass for a cached package.
Expire(p) ==
  /\ Cached(p)
  /\ cache' = [cache EXCEPT ![p].old = TRUE]
  /\ KeepFetch /\ UNCHANGED <<setup, installVars, runs>>

\* The program is run again: after its end, or after it was killed, which
\* leaves cut what was being written.
Rerun ==
  /\ runs < MaxRuns /\ runs' = runs + 1
  /\ damaged' = damaged \cup Arriving
                \cup {p \in {Top.pkg} : At("package", "copied") \/ At("package", "saving")}
  /\ refs' = <<>> /\ freed' = {} /\ fetch' = <<>>
  /\ stack' = <<Main>> /\ visited' = {} /\ results' = <<>> /\ saved' = {}
  /\ exit' = Running
  /\ UNCHANGED <<setup, disk, cache>>

\* The threads do not stop before the process does.
ThreadStep ==
  /\ exit = Running
  /\ \E t \in DOMAIN fetch : FetchStep(t)
  /\ KeepRest /\ UNCHANGED installVars
Work == PackageStep \/ ListStep \/ MainStep \/ ThreadStep
Next == Work \/ (\E p \in Packages : Expire(p)) \/ Rerun

Spec == Init /\ [][Next]_vars /\ WF_vars(Work)

-----------------------------------------------------------------------------
\* What the command line or ./ names, and all it needs: what lies in every set
\* that holds the one and is closed under dependencies.
Asked == IF setup.args = <<>> THEN {Here} ELSE Range(setup.args)
Named(a) ==
  IF a \in {Here, File}
  THEN Range(setup.dependencies) \cup (IF Options.dev THEN Range(setup.development) ELSE {})
  ELSE {a} \cup (IF Options.dev THEN Range(Describe[a].development) ELSE {})
Closed(S) == \A p \in S : Range(Describe[p].dependencies) \subseteq S
Needed ==
  {p \in Packages :
     \A S \in SUBSET Packages : (\A a \in Asked : Named(a) \subseteq S) /\ Closed(S) => p \in S}

\* More sources than slots: one thread of each full batch is not joined.
Overfull(p) == Describe[p].sources > Concurrency

\* A package in the cache has all its sources, unless fetching or copying one
\* failed or was cut by the end of the process, or there were more of them
\* than slots for their threads: what goes into other projects for 30 days is
\* what the registry has (clib-package.c:1465-1553, clib-cache.c:149-158).
CacheWhole ==
  \A p \in Packages : cache[p].cached =>
    \/ \A f \in 1..Describe[p].sources : cache[p].files[f] = "whole"
    \/ p \in damaged \/ Overfull(p) \/ (Options.force /\ Faulty("thread"))
    \/ At("package", "saving") /\ Top.pkg = p

\* A thread that still runs when the call that made it has returned, and has
\* freed the directory name the thread was given, or when the package it
\* counts down is freed, is the one of the slot past the batch; unless a later
\* thread could not be started (clib-package.c:1470-1515, 1588-1603, 1647).
LateThreadIsOverflow ==
  \A t \in DOMAIN fetch :
    (t[1] \in DOMAIN results \/ t[1] \in freed) /\ fetch[t].pc # "ended" =>
      fetch[t].slot = Concurrency \/ (Faulty("thread") /\ results[t[1]] = -1)

\* When the program ends with 0 all that is needed was gone through, and saved
\* when asked to, unless installing a package failed with a positive result,
\* which ends no loop; a package that could not be installed for another
\* reason is reported, unless ./ has both manifests: then its dependencies
\* count as visited the second time; and unless "." or a manifest was named,
\* whose failure is no -1 (clib-package.c:373-389, clib-install.c:164-185,
\* 344-351).
ZeroMeansInstalled ==
  exit = [how |-> "returned", rc |-> 0] =>
    \/ /\ setup.faults # {}
       /\ \/ setup.args = <<>> /\ setup.manifests = Range(Manifests)
          \/ Range(setup.args) \cap {Here, File} # {}
    \/ /\ \A c \in DOMAIN results : results[c] # -1
       /\ \/ \E c \in DOMAIN results : results[c] > 0
          \/ Needed \subseteq visited /\ (Options.save => Range(setup.args) \ {Here, File} \subseteq saved)

\* The calls nest no deeper than there are packages, cyclic dependencies or
\* not, unless all is forced: then a cycle has no end
\* (clib-package.c:1308-1323, 1385-1393).
NestingBounded ==
  \/ Options.force
  \/ Cardinality({i \in 1..Len(stack) : stack[i].kind = "package" /\ stack[i].pc # "enter"})
       <= Cardinality(Packages)

\* Every run comes to its end: the threads joined end, the loops over slots,
\* lists and manifests too, cyclic dependencies included.
Ends == <>[](exit # Running)
=============================================================================
