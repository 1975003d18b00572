----------------------------- MODULE ClibBuild -----------------------------
(***************************************************************************)
(* `clib build` of src/hw8/clib/src/clib-build.c: a package is made and    *)
(* then its dependencies, each by a thread of its own, in batches of       *)
(* opts.concurrency.  A hash shared by the threads holds the manifests     *)
(* already seen; what is under its mutex is one step here, what is outside *)
(* is a step of its own.  `clib configure` walks the packages in the same  *)
(* way: ClibConfigure extends this module with what it does differently.   *)
(*                                                                         *)
(* A directory is <<"in", p>>, the installed copy of package p by its      *)
(* absolute path, <<"here", Cwd>>, the working directory, or a word of the *)
(* command line, which main passes as it is when its directory would not   *)
(* build: the slug of p, a path to the copy of p that begins with a dot or *)
(* does not, the dot, a manifest file, a path to nothing.  The same files  *)
(* have several names, and the hash tells them apart by the name.  The     *)
(* registry is asked for the manifest of a slug and for the name of each   *)
(* dependency; it knows the published packages and, in a flaky setup, may  *)
(* fail to answer.  In a starved setup a thread may not be created.        *)
(***************************************************************************)
EXTENDS Naturals, Sequences, SequencesExt, FiniteSets

CONSTANTS
  Packages,     \* packages, Cwd among them
  Cwd,          \* the package in the working directory
  Concurrency,  \* opts.concurrency
  None,         \* no prefix, no root package
  Setups        \* what a run finds on the disk and the command line

Manifests == <<"clib.json", "package.json">>
Words == {<<"dot", Cwd>>}
         \cup ({"in", "rel", "path", "slug", "gone"} \cup Range(Manifests)) \X Packages

ASSUME ClibBuildAssumption ==
  /\ Cwd \in Packages /\ None \notin Packages
  /\ Concurrency \in Nat \ {0}
  /\ \A s \in Setups :
       /\ s.tool \in {"build", "configure"}
       /\ s.args \in Seq(Words)                    \* none: the working directory
       /\ s.dependencies \in [Packages -> Seq(Packages)]
       /\ s.development \in [Packages -> Seq(Packages)]
       /\ s.manifests \in [Packages -> SUBSET Range(Manifests)]   \* of the copies
       /\ s.here \subseteq Range(Manifests)         \* of the working directory
       /\ s.makes \subseteq Packages               \* have a makefile or configure
       /\ s.flags \subseteq Packages               \* have flags to print
       /\ s.prefix \in [Packages -> Packages \cup {None}]
       /\ s.published \subseteq Packages
       /\ {s.dev, s.wantFlags, s.flaky, s.starved} \subseteq BOOLEAN
       /\ s.optPrefix \in Packages \cup {None}

VARIABLES
  setup,   \* the setup of this run, opts included
  built,   \* the hash built (configured): manifest path -> "t" or "f"
  root,    \* root_package
  env,     \* PREFIX in the environment of the process
  thr,     \* the threads, named by the path of thread starts: main is <<>>
  cursor,  \* main: the argument it is at and whether it tries its word
  cut,     \* threads whose wrap lies in a frame that returned
  failed,  \* a package was given up on unread, or the registry gave no name
  lost,    \* the packages a thread could not be created for
  exit     \* how the process ended ("no": it runs), its code, the number built

vars == <<setup, built, root, env, thr, cursor, cut, failed, lost, exit>>

ENOMEM == 12
EAGAIN == 11
Running == [how |-> "no", rc |-> 0, built |-> 0]
Crashed == [Running EXCEPT !.how = "crashed"]
Undefined == [Running EXCEPT !.how = "undefined"]

Package(dir) == dir[2]
Installed(p) == <<"in", p>>
OnDisk(dir) ==
  CASE dir[1] \in {"in", "rel", "path"} -> setup.manifests[Package(dir)]
    [] dir[1] \in {"here", "dot"} -> setup.here
    [] OTHER -> {}
Path(t) == <<thr[t].dir, Manifests[thr[t].m]>>
Of(t) == Package(thr[t].dir)

\* build_package(dir) begins: the frame of a thread or of main.  It tries the
\* manifests from m to last; strays are the slots of the batch whose thread
\* could not be created, rc is what the last call gave.
Frame(dir, pc) ==
  [dir |-> dir, pc |-> pc, m |-> 1, last |-> Len(Manifests), list |-> "dependencies",
   k |-> 1, batch |-> {}, strays |-> 0, spawned |-> 0, env |-> None, made |-> {}, rc |-> 0]

\* The directory main takes a word for.  A name is looked for in opts.dir, a
\* word with a dot is made absolute, of a file only its own name is kept: it is
\* read in the working directory, wherever it lies.
IsFile(word) == word[1] \in Range(Manifests)
Directory(word) ==
  CASE word[1] \in {"slug", "path"} -> Installed(Package(word))
    [] word[1] = "dot" -> <<"here", Cwd>>
    [] IsFile(word) -> <<"dot", Cwd>>
    [] OTHER -> word

\* main is at its i-th argument, as a directory or, after a failure, as the word.
Target(at) ==
  IF setup.args = <<>> THEN <<"here", Cwd>>
  ELSE IF at.slug THEN setup.args[at.i] ELSE Directory(setup.args[at.i])
OfFile(at) == setup.args # <<>> /\ IsFile(setup.args[at.i])
Tried(at) ==
  IF OfFile(at) THEN {m \in DOMAIN Manifests : Manifests[m] = setup.args[at.i][1]}
  ELSE DOMAIN Manifests
MainFrame(at) ==
  [Frame(Target(at), "enter") EXCEPT
     !.m = CHOOSE m \in Tried(at) : \A n \in Tried(at) : m <= n,
     !.last = CHOOSE m \in Tried(at) : \A n \in Tried(at) : n <= m]

\* The process has started with setup s: main is in its first target.
Started(s) ==
  /\ setup = s
  /\ built = <<>> /\ root = None /\ env = setup.optPrefix
  /\ cursor = [i |-> 1, slug |-> FALSE]
  /\ thr = [t \in {<<>>} |-> MainFrame([i |-> 1, slug |-> FALSE])]
  /\ cut = {} /\ failed = FALSE /\ lost = {} /\ exit = Running
BuildInit == \E s \in Setups : s.tool = "build" /\ Started(s)

\* build_package tries the next manifest name after a failure.
Returned(r, code) ==
  IF code # 0 /\ r.m < r.last
  THEN [r EXCEPT !.m = @ + 1, !.pc = "enter", !.rc = code, !.batch = {}, !.strays = 0,
                 !.list = "dependencies", !.k = 1]
  ELSE [r EXCEPT !.pc = "done", !.rc = code, !.batch = {}, !.strays = 0]

\* The started thread reads wrap->dir, which lies on the stack of its parent.
\* Once that frame returned it may hold anything: what it held, the directory
\* of another dependency, no address.
BeginElsewhere(t) ==
  /\ thr[t].pc = "start" /\ t \in cut
  /\ \/ /\ \E p \in Packages : thr' = [thr EXCEPT ![t] = Frame(Installed(p), "enter")]
        /\ UNCHANGED exit
     \/ exit' = Crashed /\ UNCHANGED thr
  /\ UNCHANGED <<setup, built, root, env, cursor, cut, failed, lost>>
Begin(t) ==
  \/ /\ thr[t].pc = "start"
     /\ thr' = [thr EXCEPT ![t].pc = "enter"]
     /\ UNCHANGED <<setup, built, root, env, cursor, cut, failed, lost, exit>>
  \/ BeginElsewhere(t)

\* realpath gave NULL for a path to nothing, and path_join measures it.
CrashOnPath(t) ==
  /\ thr[t].pc = "enter" /\ thr[t].dir[1] = "gone"
  /\ exit' = Crashed
  /\ UNCHANGED <<setup, built, root, env, thr, cursor, cut, failed, lost>>

\* A mutant: the hash is not asked.
NeverSeen(t) == FALSE

\* hash_has(built, path)
Seen(t) == Path(t) \in DOMAIN built

\* Under the mutex: load the root package, return if the path was seen.
Enter(t) ==
  /\ thr[t].pc = "enter" /\ thr[t].dir[1] # "gone"
  /\ root' = IF root = None /\ setup.here # {} THEN Cwd ELSE root
  /\ thr' = [thr EXCEPT ![t] = IF Seen(t)
                               THEN Returned(@, 0) ELSE [@ EXCEPT !.pc = "read"]]
  /\ UNCHANGED <<setup, built, env, cursor, cut, failed, lost, exit>>

\* Where a package goes once it was read.
Chosen(p) == IF p \in setup.makes THEN "prefix" ELSE "skip"

\* The package comes from the manifest on the disk.  Without one the registry
\* is asked for the directory as a slug, which a path never is.
Slug(t) == thr[t].dir[1] = "slug"
Load(t, next) ==
  /\ thr[t].pc = "read"
  /\ \/ /\ \/ Manifests[thr[t].m] \in OnDisk(thr[t].dir)
           \/ Slug(t) /\ Of(t) \in setup.published
        /\ thr' = [thr EXCEPT ![t].pc = next]
        /\ UNCHANGED failed
     \/ /\ Manifests[thr[t].m] \notin OnDisk(thr[t].dir)
        /\ Slug(t) => Of(t) \notin setup.published \/ setup.flaky
        /\ thr' = [thr EXCEPT ![t] = Returned(@, ENOMEM)]
        /\ failed' = (failed \/ (thr[t].m = thr[t].last /\ thr[t].rc # EAGAIN))
  /\ UNCHANGED <<setup, built, root, env, cursor, cut, lost, exit>>
Read(t) == Load(t, Chosen(Of(t)))

\* A mutant: the package's own prefix comes first.
OwnPrefix(p) ==
  IF setup.prefix[p] # None THEN setup.prefix[p]
  ELSE IF root # None /\ setup.prefix[root] # None THEN setup.prefix[root]
  ELSE IF setup.optPrefix # None THEN setup.optPrefix
  ELSE env

\* setenv PREFIX: the root package's, the option's, the package's, or what
\* the environment holds.
Prefix(p) ==
  IF root # None /\ setup.prefix[root] # None THEN setup.prefix[root]
  ELSE IF setup.optPrefix # None THEN setup.optPrefix
  ELSE IF setup.prefix[p] # None THEN setup.prefix[p]
  ELSE env
SetPrefix(t) ==
  /\ thr[t].pc = "prefix"
  /\ env' = Prefix(Of(t))
  /\ thr' = [thr EXCEPT ![t].pc = "make"]
  /\ UNCHANGED <<setup, built, root, cursor, cut, failed, lost, exit>>

\* system() starts make, which inherits the environment of this moment.
Make(t) ==
  /\ thr[t].pc = "make"
  /\ thr' = [thr EXCEPT ![t].pc = "making", ![t].env = env,
                        ![t].made = @ \cup {Path(t)}]
  /\ UNCHANGED <<setup, built, root, env, cursor, cut, failed, lost, exit>>

\* The path is marked before the dependencies are started.
Mark(t, how) ==
  /\ built' = [p \in DOMAIN built \cup {Path(t)} |->
                 IF p = Path(t) THEN how ELSE built[p]]
  /\ thr' = [thr EXCEPT ![t].pc = "list", ![t].rc = 0]
  /\ UNCHANGED <<setup, root, env, cursor, cut, failed, lost, exit>>
\* Whatever make returned, rc becomes the result of taking the mutex.
Made(t) == thr[t].pc = "making" /\ Mark(t, "t")
Skip(t) == thr[t].pc = "skip" /\ Mark(t, "f")

Dependencies(t) == setup[thr[t].list][Of(t)]
Ended(t) == thr[t].k > Len(Dependencies(t))
Slots(t) == Cardinality(thr[t].batch) + thr[t].strays
Listed(t, list) ==
  thr[t].pc = "list" /\ thr[t].list = list /\ ~Ended(t) /\ Slots(t) < Concurrency

\* The registry names the dependency, and a thread is started on its copy.
StartThread(t, list) ==
  LET p == Dependencies(t)[thr[t].k]
      c == Append(t, thr[t].spawned + 1)
  IN /\ Listed(t, list)
     /\ p \in setup.published
     /\ thr' = [x \in DOMAIN thr \cup {c} |->
                  IF x = c THEN Frame(Installed(p), "start")
                  ELSE IF x = t
                  THEN [thr[t] EXCEPT !.k = @ + 1, !.spawned = @ + 1, !.batch = @ \cup {c},
                                      !.rc = 0]
                  ELSE thr[x]]
     /\ UNCHANGED <<setup, built, root, env, cursor, cut, failed, lost, exit>>

\* pthread_create gives EAGAIN: nothing tests it, the slot of the batch counts
\* as filled, and the next create overwrites rc.
ThreadFails(t, list) ==
  LET p == Dependencies(t)[thr[t].k]
  IN /\ Listed(t, list)
     /\ p \in setup.published /\ setup.starved
     /\ thr' = [thr EXCEPT ![t].k = @ + 1, ![t].strays = @ + 1, ![t].rc = EAGAIN]
     /\ lost' = lost \cup {p}
     /\ UNCHANGED <<setup, built, root, env, cursor, cut, failed, exit>>
StartDependency(t) == StartThread(t, "dependencies") \/ ThreadFails(t, "dependencies")
StartDevelopment(t) == StartThread(t, "development") \/ ThreadFails(t, "development")

Unknown(t) ==
  /\ Listed(t, thr[t].list)
  /\ Dependencies(t)[thr[t].k] \notin setup.published \/ setup.flaky

\* No name for a dependency: the function returns, and the threads of the
\* batch run on with their wraps in its frame.
LeaveDependencies(t) ==
  /\ Unknown(t) /\ thr[t].list = "dependencies"
  /\ cut' = cut \cup thr[t].batch
  /\ thr' = [thr EXCEPT ![t] = Returned(@, ENOMEM)]
  /\ failed' = TRUE
  /\ UNCHANGED <<setup, built, root, env, cursor, lost, exit>>

\* In the loop over development the name is read through a NULL pointer.
CrashInDevelopment(t) ==
  /\ Unknown(t) /\ thr[t].list = "development"
  /\ exit' = Crashed /\ failed' = TRUE
  /\ UNCHANGED <<setup, built, root, env, thr, cursor, cut, lost>>

\* A mutant: a batch the end of the list left unfilled is not waited for.
FullBatch(t) == Slots(t) = Concurrency

\* When the threads of the batch are waited for.
Waits(t) == Slots(t) = Concurrency \/ Ended(t)

\* A mutant: only the first thread of the batch is joined.
FirstDone(t) == \E c \in thr[t].batch : thr[c].pc = "done"

\* pthread_join returned for each of them.
AllDone(t) == \A c \in thr[t].batch : thr[c].pc = "done"

\* A slot whose thread was not created holds no id, or one joined before.  What
\* pthread_join does of it is not defined: it may return at once.
Join(t) ==
  /\ thr[t].pc = "list" /\ Slots(t) > 0
  /\ Waits(t) /\ AllDone(t)
  /\ thr' = [thr EXCEPT ![t].batch = {}, ![t].strays = 0]
  /\ UNCHANGED <<setup, built, root, env, cursor, cut, failed, lost, exit>>

\* Or it crashes, waits for ever, or takes the end of another thread from who
\* joins that one: nothing more is said of such a process.
JoinStray(t) ==
  /\ thr[t].pc = "list" /\ thr[t].strays > 0 /\ Waits(t)
  /\ exit' = Undefined
  /\ UNCHANGED <<setup, built, root, env, thr, cursor, cut, failed, lost>>

\* After the dependencies come, with --dev, those for development.  rc is
\* what the last pthread_create returned: what the threads found is lost.
EndList(t) ==
  /\ thr[t].pc = "list" /\ Ended(t) /\ Slots(t) = 0
  /\ thr' = [thr EXCEPT ![t] =
               IF @.list = "dependencies" /\ setup.dev
               THEN [@ EXCEPT !.list = "development", !.k = 1]
               ELSE Returned(@, @.rc)]
  /\ UNCHANGED <<setup, built, root, env, cursor, cut, failed, lost, exit>>

\* main goes to its next argument, or tries the word of one that would not
\* build and is no file.
Retries == thr[<<>>].rc # 0 /\ ~cursor.slug /\ setup.args # <<>> /\ ~OfFile(cursor)
NextTarget ==
  LET at == IF Retries THEN [cursor EXCEPT !.slug = TRUE]
            ELSE [i |-> cursor.i + 1, slug |-> FALSE]
  IN /\ thr[<<>>].pc = "done"
     /\ at.i <= Len(setup.args)
     /\ cursor' = at
     /\ thr' = [thr EXCEPT ![<<>>] =
                  [MainFrame(at) EXCEPT !.spawned = thr[<<>>].spawned,
                                        !.made = thr[<<>>].made]]
     /\ UNCHANGED <<setup, built, root, env, cut, failed, lost, exit>>

\* main counts the paths marked "t" and ends the process, with the result of
\* its last argument.
Exit ==
  /\ thr[<<>>].pc = "done"
  /\ cursor.i >= Len(setup.args) /\ ~Retries
  /\ exit' = [how |-> "returned", rc |-> thr[<<>>].rc,
              built |-> Cardinality({p \in DOMAIN built : built[p] = "t"})]
  /\ UNCHANGED <<setup, built, root, env, thr, cursor, cut, failed, lost>>

BuildStep(t) ==
  \/ Begin(t) \/ CrashOnPath(t) \/ Enter(t) \/ Read(t) \/ SetPrefix(t) \/ Make(t) \/ Made(t) \/ Skip(t)
  \/ StartDependency(t) \/ LeaveDependencies(t)
  \/ StartDevelopment(t) \/ CrashInDevelopment(t)
  \/ Join(t) \/ JoinStray(t) \/ EndList(t)

BuildNext == exit = Running /\ ((\E t \in DOMAIN thr : BuildStep(t)) \/ NextTarget \/ Exit)

-----------------------------------------------------------------------------
\* t is started, directly or not, by s.
Above(s, t) == s # t /\ IsPrefix(s, t)

\* t or a thread above it was left running by a frame that returned.
LeftBehind(t) == \E i \in 1..Len(t) : SubSeq(t, 1, i) \in cut

\* What main was asked for, and all that this needs, with --dev also for
\* development: the packages in every set that holds what the directories named
\* need and what its own packages need.  What lies behind a thread that could
\* not be created is left out.
Named ==
  IF setup.args = <<>> THEN {<<"here", Cwd>>}
  ELSE {Directory(setup.args[i]) : i \in DOMAIN setup.args}
Needs(p) ==
  Range(setup.dependencies[p]) \cup IF setup.dev THEN Range(setup.development[p]) ELSE {}
Wanted ==
  {p \in Packages :
     \A S \in SUBSET Packages :
       (\A q \in S \cup {Package(d) : d \in Named} : Needs(q) \ lost \subseteq S) => p \in S}
GoneThrough(dir) == \E m \in Range(Manifests) : <<dir, m>> \in DOMAIN built

\* No thread makes again what a thread above it made: along one path of
\* starts a package is made once, so that a cycle of dependencies ends.  Only
\* main may make at its next argument what a thread left running makes at the
\* same time (clib-build.c:185, 302-316, 364-391, 746-805).
NeverMakesItsAncestor ==
  \A s, t \in DOMAIN thr :
    Above(s, t) /\ (s = <<>> => ~LeftBehind(t)) => thr[s].made \cap thr[t].made = {}

\* When the process returns and no package was given up on, every directory
\* named was gone through and so was all they need, although a thread leaves to
\* another one what that one has marked first, and no thread is left running.
\* A thread that could not be created is the one way to miss a package without
\* any notice: that package and what only it needs may be left out, and the
\* result, which the next create overwrites, may be 0 all the same
\* (clib-build.c:185-190, 326-396, 425-442, 746-805).
CompleteAtExit ==
  exit.how = "returned" /\ ~failed =>
    /\ exit.rc = 0 \/ lost # {}
    /\ \A d \in Named : GoneThrough(d)
    /\ \A p \in Wanted : GoneThrough(Installed(p))
    /\ \A t \in DOMAIN thr : thr[t].pc = "done"

\* The threads share one environment: a make runs with the prefix of the root
\* package or, when that has none, with that of the command line, whatever
\* the packages made at the same time ask for (clib-build.c:244-262).
PrefixOfRoot ==
  LET chosen == IF setup.here # {} /\ setup.prefix[Cwd] # None
                THEN setup.prefix[Cwd] ELSE setup.optPrefix
  IN \A t \in DOMAIN thr :
       thr[t].pc = "making" /\ chosen # None => thr[t].env = chosen

\* The process ends, cycles of dependencies included, or it joins a thread that
\* could not be created, after which nothing is known (clib-build.c:361-391).
Terminates == <>(exit # Running)
=============================================================================
