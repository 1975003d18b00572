---------------------------- MODULE ClibInstall ----------------------------
(***************************************************************************)
(* clib_package_install, install_packages and                              *)
(* clib_package_install_executable of                                      *)
(* src/hw8/clib/src/common/clib-package.c, which call one another down the *)
(* graph of dependencies, and the cache of packages of clib-cache.c.  The  *)
(* files are fetched by the threads of ClibFetch, which run beside all     *)
(* this; ClibCommands has the mains of the three programs that call it.    *)
(*                                                                         *)
(* The stack holds main, calls of clib_package_install ("package") and of  *)
(* install_packages ("list"); the last one runs.  Exit codes and results   *)
(* are 0, -1 or 1, which stands for every positive one.                    *)
(***************************************************************************)
EXTENDS ClibFetch, FiniteSetsExt

CONSTANTS
  StackLimit,   \* bound: calls the stack has room for
  MaxRuns       \* bound: how often the program is run

ASSUME ClibInstallAssumption == {StackLimit, MaxRuns} \subseteq Nat \ {0}

VARIABLES
  stack,    \* the calls in progress
  visited,  \* visited_packages
  results,  \* what the calls of clib_package_install returned
  cache,    \* the package cache: the files of a package, old when expired
  saved,    \* packages written to the manifest by --save
  exit,     \* how the run ended ("no": it runs) and its code
  runs

installVars == <<stack, visited, results, saved, exit>>
vars == <<setup, fetchVars, installVars, cache, runs>>

Manifests == <<"clib.json", "package.json">>
NoEntry == [cached |-> FALSE, files |-> NoFiles, old |-> FALSE]
Running == [how |-> "no", rc |-> 0]

Call(kind, pkg, items, dir, c) ==
  [kind |-> kind, pc |-> "enter", pkg |-> pkg, items |-> items, dir |-> dir,
   call |-> c, n |-> 1, i |-> 0, read |-> 0, rc |-> 0, done |-> {}]
Nobody == CHOOSE p \in Packages : TRUE      \* the package field of other calls
Main == Call("main", Nobody, setup.args, "deps", 0)
List(items, dir) == Call("list", Nobody, items, dir, 0)

Init ==
  /\ setup \in Setups
  /\ disk = <<>> /\ refs = <<>> /\ freed = {} /\ fetch = <<>> /\ damaged = {}
  /\ stack = <<Main>> /\ visited = {} /\ results = <<>> /\ saved = {}
  /\ cache = [p \in Packages |-> NoEntry]
  /\ exit = Running /\ runs = 1

Top == stack[Len(stack)]
At(kind, pc) == exit = Running /\ Top.kind = kind /\ Top.pc = pc
Become(f) == stack' = [stack EXCEPT ![Len(stack)] = f]
Goto(pc) == Become([Top EXCEPT !.pc = pc])
Info == Describe[Top.pkg]
Place == <<Top.dir, Top.pkg>>

Overflow == exit' = [how |-> "overflow", rc |-> 1] /\ UNCHANGED stack

\* A call is made, to come back at pc; without room the process crashes.
Invoke(f, pc) ==
  IF Len(stack) < StackLimit
  THEN stack' = Append([stack EXCEPT ![Len(stack)].pc = pc], f) /\ UNCHANGED exit
  ELSE Overflow
Return(rc) == stack' = [Front(stack) EXCEPT ![Len(stack) - 1].rc = rc]

\* The registry gives a new package object for p, which a call installs; the
\* object has the number of that call.
Install(p, dir, pc) ==
  /\ IF Len(stack) < StackLimit
     THEN /\ stack' = Append([stack EXCEPT ![Len(stack)].pc = pc,
                                           ![Len(stack)].call = Len(refs) + 1],
                             Call("package", p, <<>>, dir, Len(refs) + 1))
          /\ UNCHANGED exit
     ELSE Overflow
  /\ refs' = Append(refs, 0)
  /\ UNCHANGED <<disk, freed, fetch, damaged>>
\* clib_package_free leaves an object with references as it is.
Free(objects) == freed' = freed \cup {c \in objects : refs[c] = 0}
KeepFetch == UNCHANGED fetchVars
KeepRest == UNCHANGED <<setup, cache, runs>>

\* clib_package_install returns and frees pkg_dir.
Leave(rc) ==
  /\ Return(rc)
  /\ results' = [c \in DOMAIN results \cup {Top.call} |->
                   IF c = Top.call THEN rc ELSE results[c]]
  /\ UNCHANGED <<visited, saved, exit>>

\* A mutant: no name is found in the hash.
NeverVisited == FALSE

\* A name visited before is not installed again, unless forced.
Visited == ~Options.force /\ Top.pkg \in visited
AlreadyVisited ==
  /\ At("package", "enter") /\ Visited
  /\ Leave(0) /\ KeepFetch /\ KeepRest

\* The directory and the manifest are written and the name is visited, all
\* before anything is fetched.
Enter ==
  /\ At("package", "enter") /\ ~Visited
  /\ visited' = visited \cup {Top.pkg}
  /\ Goto(IF Options.global THEN "configure" ELSE IF Info.makefile THEN "makefile" ELSE "cache")
  /\ KeepFetch /\ KeepRest /\ UNCHANGED <<results, saved, exit>>
EnterFails ==
  /\ At("package", "enter") /\ ~Visited
  /\ Faulty("disk") /\ ~Options.global
  /\ Leave(-1) /\ KeepFetch /\ KeepRest

\* Before a thread is made pkg->refs is read.
CountThread(pc, next) ==
  /\ At("package", pc)
  /\ Become([Top EXCEPT !.pc = next, !.read = refs[Top.call]])
  /\ KeepFetch /\ KeepRest /\ UNCHANGED <<visited, results, saved, exit>>

\* The makefile is fetched by a thread and waited for; that it could not be
\* fetched is a warning.
CountMakefile == CountThread("makefile", "startMakefile")
FetchMakefile ==
  /\ At("package", "startMakefile")
  /\ \/ /\ Start(Top.call, Makefile, Place, -1, Top.read)
        /\ Goto("joinMakefile") /\ UNCHANGED <<visited, results, saved, exit>>
     \/ StartFails(Top.call, Top.read) /\ Leave(1)
  /\ KeepRest
JoinMakefile ==
  /\ At("package", "joinMakefile")
  /\ JoinThread(<<Top.call, Makefile>>)
  /\ Goto("cache")
  /\ KeepRest /\ UNCHANGED <<visited, results, saved, exit>>

\* The cached files are copied over what is there: a copy being written is
\* cut.
Cached(p) == cache[p].cached /\ ~cache[p].old
Cut(files) == [f \in Names |-> IF files[f] = "absent" THEN "absent" ELSE "cut"]
Overlay(under, over) == [f \in Names |-> IF over[f] = "absent" THEN under[f] ELSE over[f]]
NoSources ==
  /\ At("package", "cache") /\ Info.sources = -1
  /\ Goto("configure")
  /\ KeepFetch /\ KeepRest /\ UNCHANGED <<visited, results, saved, exit>>
CopyFromCache ==
  /\ At("package", "cache") /\ Info.sources # -1
  /\ Cached(Top.pkg) /\ ~Options.skipCache
  /\ disk' = Write(Place, Overlay(OnDisk(Place), Cut(cache[Top.pkg].files)))
  /\ Goto("copied")
  /\ KeepRest /\ UNCHANGED <<refs, freed, fetch, damaged, visited, results, saved, exit>>
LoadedFromCache ==
  /\ At("package", "copied")
  /\ disk' = Write(Place, Overlay(OnDisk(Place), cache[Top.pkg].files))
  /\ Goto("configure")
  /\ KeepRest /\ UNCHANGED <<refs, freed, fetch, damaged, visited, results, saved, exit>>
\* Nothing in the cache, or deleted from it, or expired.
NotFromCache ==
  /\ At("package", "cache") /\ Info.sources # -1
  /\ Options.skipCache \/ ~Cached(Top.pkg)
  /\ cache' = IF Cached(Top.pkg) THEN [cache EXCEPT ![Top.pkg] = NoEntry] ELSE cache
  /\ Goto("download")
  /\ KeepFetch /\ UNCHANGED <<setup, runs, visited, results, saved, exit>>

\* Where the loop goes with the thread in slot i of fetchs: when the slots up
\* to opts.concurrency are in use, those below it are joined.
AfterStart(i) == IF i < Concurrency THEN [Top EXCEPT !.pc = "download", !.n = @ + 1, !.i = i + 1]
                 ELSE [Top EXCEPT !.pc = "batch", !.n = @ + 1]

CountSource == Top.n <= Info.sources /\ CountThread("download", "start")
FetchSource ==
  /\ At("package", "start")
  /\ \/ /\ Start(Top.call, Top.n, Place, Top.i, Top.read)
        /\ Become(AfterStart(Top.i)) /\ UNCHANGED <<visited, results, saved, exit>>
     \/ StartFails(Top.call, Top.read) /\ Leave(-1)
  /\ KeepRest
SourcesStarted ==
  /\ At("package", "download") /\ Top.n > Info.sources
  /\ Goto("last")
  /\ KeepFetch /\ KeepRest /\ UNCHANGED <<visited, results, saved, exit>>

\* A mutant: the first slot is left alone.
LowestSlot == 1

\* A mutant: the loops go one slot too far down.
OneTooFar == -1

\* The loops count i down to 0: slot opts.concurrency is never below i.
JoinedDownTo == 0

\* The thread in the slot below i is joined; its status is not looked at.
JoinSource ==
  /\ \E pc \in {"batch", "last"} : At("package", pc)
  /\ Top.i > JoinedDownTo
  /\ \E t \in DOMAIN fetch :
       t[1] = Top.call /\ fetch[t].slot = Top.i - 1 /\ JoinThread(t)
  /\ Become([Top EXCEPT !.i = @ - 1])
  /\ KeepRest /\ UNCHANGED <<visited, results, saved, exit>>
BatchJoined ==
  /\ At("package", "batch") /\ Top.i <= JoinedDownTo
  /\ Become([Top EXCEPT !.pc = "download", !.i = 0])
  /\ KeepFetch /\ KeepRest /\ UNCHANGED <<visited, results, saved, exit>>

\* What is in the cache is removed and the copy written there as it is now.
SaveToCache ==
  /\ At("package", "last") /\ Top.i <= JoinedDownTo
  /\ cache' = [cache EXCEPT ![Top.pkg] =
                 [cached |-> TRUE, files |-> Cut(OnDisk(Place)), old |-> FALSE]]
  /\ Goto("saving")
  /\ KeepFetch /\ UNCHANGED <<setup, runs, visited, results, saved, exit>>
SavedToCache ==
  /\ At("package", "saving")
  /\ cache' = [cache EXCEPT ![Top.pkg].files = OnDisk(Place)]
  /\ Goto("configure")
  /\ KeepFetch /\ UNCHANGED <<setup, runs, visited, results, saved, exit>>

\* A command run by system() may fail.
Command(ok) ==
  /\ \/ Goto(ok) /\ UNCHANGED <<visited, results, saved, exit>>
     \/ Faulty("command") /\ Leave(1)
  /\ KeepFetch /\ KeepRest
Pass(ok) == Goto(ok) /\ KeepFetch /\ KeepRest /\ UNCHANGED <<visited, results, saved, exit>>

\* A global install has no directory to run configure in.
Configure ==
  LET next == IF Info.install THEN "tarball" ELSE "dependencies"
  IN /\ At("package", "configure")
     /\ IF ~Info.configure THEN Pass(next)
        ELSE IF Options.global THEN Leave(1) /\ KeepFetch /\ KeepRest
        ELSE Command(next)

\* clib_package_install_executable: the sources come as a tarball, to a
\* directory of their own with its own dependencies,
GetTarball ==
  /\ At("package", "tarball")
  /\ \/ Command("unpacked")
     \/ Faulty("get") /\ Leave(-1) /\ KeepFetch /\ KeepRest
ExecutableDependencies ==
  /\ At("package", "unpacked")
  /\ IF Info.dependencies = <<>> THEN Goto("run") /\ UNCHANGED exit
     ELSE Invoke(List(Info.dependencies, Top.pkg), "executable")
  /\ KeepFetch /\ KeepRest /\ UNCHANGED <<visited, results, saved>>
ExecutableReady ==
  /\ At("package", "executable")
  /\ IF Top.rc = -1 THEN Leave(-1) /\ KeepFetch /\ KeepRest ELSE Pass("run")
\* and the install command is run there, with the makefile copied to it.
RunInstall == At("package", "run") /\ Command("dependencies")

\* At last the dependencies, into the same directory as the package.
InstallDependencies ==
  /\ At("package", "dependencies")
  /\ IF Info.dependencies = <<>> THEN Leave(0)
     ELSE Invoke(List(Info.dependencies, Top.dir), "return") /\ UNCHANGED <<visited, results, saved>>
  /\ KeepFetch /\ KeepRest
DependenciesDone ==
  /\ At("package", "return")
  /\ Leave(Top.rc) /\ KeepFetch /\ KeepRest

PackageStep ==
  \/ AlreadyVisited \/ Enter \/ EnterFails
  \/ CountMakefile \/ FetchMakefile \/ JoinMakefile
  \/ NoSources \/ CopyFromCache \/ LoadedFromCache \/ NotFromCache
  \/ CountSource \/ FetchSource \/ SourcesStarted \/ JoinSource \/ BatchJoined
  \/ SaveToCache \/ SavedToCache
  \/ Configure \/ GetTarball \/ ExecutableDependencies \/ ExecutableReady \/ RunInstall
  \/ InstallDependencies \/ DependenciesDone

\* install_packages ends with the list or at the first package that gave -1
\* or is not known, and frees the others.
ListReturns(rc) ==
  /\ Return(rc) /\ Free(Top.done)
  /\ KeepRest /\ UNCHANGED <<disk, refs, fetch, damaged, visited, results, saved, exit>>
ListNext ==
  /\ At("list", "enter") /\ Top.items # <<>>
  /\ Install(Head(Top.items), Top.dir, "installed")
  /\ KeepRest /\ UNCHANGED <<visited, results, saved>>
ListUnknown ==
  /\ At("list", "enter") /\ Top.items # <<>>
  /\ Faulty("lookup") /\ ListReturns(-1)
ListEnd == At("list", "enter") /\ Top.items = <<>> /\ ListReturns(0)
\* A mutant: the loop does not look at the result.
GoesOn(rc) == FALSE

\* A positive result does not end the loop.
EndsList(rc) == rc = -1

ListInstalled ==
  /\ At("list", "installed") /\ ~EndsList(Top.rc)
  /\ Become([Top EXCEPT !.pc = "enter", !.items = Tail(@), !.done = @ \cup {Top.call}])
  /\ KeepFetch /\ KeepRest /\ UNCHANGED <<visited, results, saved, exit>>
ListFailed == At("list", "installed") /\ EndsList(Top.rc) /\ ListReturns(-1)

ListStep == ListNext \/ ListUnknown \/ ListEnd \/ ListInstalled \/ ListFailed
=============================================================================
