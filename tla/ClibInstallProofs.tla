------------------------- MODULE ClibInstallProofs -------------------------
(***************************************************************************)
(* Proofs about ClibCommands, for any registry, command line, faults,      *)
(* number of slots and bounds.                                             *)
(*                                                                         *)
(* The steps of the program are first sorted by what they do to the stack  *)
(* of calls ("shapes"); the invariants are then shown shape by shape.      *)
(***************************************************************************)
EXTENDS ClibCommands, SequenceTheorems, FiniteSetTheorems, TLAPS

Dirs == {"deps", "tmp"} \cup Packages
Places == Dirs \X Packages
Files == [Names -> {"absent", "cut", "whole"}]
Entries == [cached : BOOLEAN, files : Files, old : BOOLEAN]
Arguments == Packages \cup {Here, File}
Codes == {-1, 0, 1}

PackagePlaces ==
  {"enter", "makefile", "startMakefile", "joinMakefile", "cache", "copied", "download",
   "start", "batch", "last", "saving", "configure", "tarball", "unpacked", "executable",
   "run", "dependencies", "return"}
ListPlaces == {"enter", "installed"}
MainPlaces == {"enter", "local", "localDev", "argument", "argumentDev", "upgraded"}
Spots == PackagePlaces \cup ListPlaces \cup MainPlaces

FrameType ==
  [kind : {"main", "package", "list"}, pc : Spots, pkg : Packages \cup {Nobody},
   items : Seq(Arguments), dir : Dirs, call : Nat, n : Nat \ {0}, i : Nat, read : Int,
   rc : Codes, done : SUBSET Nat]
ThreadType ==
  [place : Places, slot : -1..Concurrency,
   pc : {"look", "open", "get", "count", "end", "ended"}, read : Int]

StackType == stack \in Seq(FrameType) /\ stack # <<>>
CallsType ==
  /\ setup \in Setups
  /\ refs \in Seq(Int)
  /\ visited \subseteq Packages /\ saved \subseteq Packages
  /\ DOMAIN results \subseteq 1..Len(refs) /\ \A c \in DOMAIN results : results[c] \in Codes
  /\ freed \subseteq DOMAIN results
  /\ exit \in [how : {"no", "returned", "overflow"}, rc : Codes]
  /\ runs \in Nat
DataType ==
  /\ DOMAIN disk \subseteq Places /\ \A x \in DOMAIN disk : disk[x] \in Files
  /\ DOMAIN fetch \subseteq (1..Len(refs)) \X Names
  /\ \A t \in DOMAIN fetch :
       fetch[t] \in ThreadType /\ (fetch[t].slot = -1 <=> t[2] = Makefile)
  /\ damaged \subseteq Packages
  /\ cache \in [Packages -> Entries]
TypeOK == StackType /\ CallsType /\ DataType

Looping == {"download", "start", "batch", "last"}
Early == {"enter", "makefile", "startMakefile", "joinMakefile", "cache", "copied"}

IsPackage(k) == stack[k].kind = "package"
Entered(k) == IsPackage(k) /\ stack[k].pc # "enter"

\* Where a call waits for one it made.
AwaitsPackage(f) ==
  \/ f.kind = "list" /\ f.pc = "installed"
  \/ f.kind = "main" /\ f.pc \in {"argument", "upgraded"}
AwaitsList(f) ==
  \/ f.kind = "package" /\ f.pc \in {"executable", "return"}
  \/ f.kind = "main" /\ f.pc \in {"local", "localDev", "argumentDev"}

PackageInv(f) ==
  /\ f.pkg \in Packages /\ f.pc \in PackagePlaces
  /\ f.pc = "start" => f.n <= Describe[f.pkg].sources
  /\ f.pc = "last" => f.n > Describe[f.pkg].sources
  /\ f.pc \in Looping => f.i <= Concurrency /\ f.i < f.n
  /\ f.pc \in Early => f.i = 0 /\ f.n = 1
\* with n package objects, of which those in returned were installed or given up.
FrameOK(f, n, returned, s) ==
  /\ f.kind = "package" =>
       PackageInv(f) /\ f.call \in 1..n /\ f.call \notin returned
  /\ f.kind = "list" =>
       /\ f.items \in Seq(Packages) /\ f.done \subseteq returned
       /\ f.pc \in ListPlaces
       /\ f.pc = "installed" => f.items # <<>>
  /\ f.kind = "main" =>
       /\ f.pc \in MainPlaces
       /\ f.pc \in {"argument", "upgraded", "argumentDev"} =>
            f.items # <<>> /\ Head(f.items) \in Packages
       /\ f.pc = "argumentDev" => f.call \in returned
       /\ s.cmd = "upgrade" => f.items = s.args /\ f.pc \in {"enter", "upgraded"}
       /\ f.pc \in {"local", "localDev"} =>
            s.args = <<>> \/ (f.items # <<>> /\ Head(f.items) \in {Here, File})
       /\ f.n \in 1..2
       /\ f.n = 2 => s.args = <<>> \/ (f.items # <<>> /\ Head(f.items) = Here)
FrameInv(f) == FrameOK(f, Len(refs), DOMAIN results, setup)
Below(f, b) ==
  /\ f.kind = "package" => AwaitsPackage(b) /\ b.call = f.call /\ f.pkg = Head(b.items)
  /\ f.kind = "list" => AwaitsList(b)
StackInv ==
  /\ \A k \in 1..Len(stack) : stack[k].kind = "main" <=> k = 1
  /\ \A k \in 1..Len(stack) : FrameInv(stack[k])
  /\ \A k \in 2..Len(stack) : Below(stack[k], stack[k - 1])
  /\ \A j, k \in 1..Len(stack) :
       IsPackage(j) /\ IsPackage(k) /\ j < k => stack[j].call < stack[k].call
  /\ AwaitsPackage(Top) => Top.call \in DOMAIN results /\ results[Top.call] = Top.rc

\* Unless all is forced, the calls that got past the hash have names of their
\* own.
NestInv ==
  ~Options.force =>
    /\ \A k \in 1..Len(stack) : Entered(k) => stack[k].pkg \in visited
    /\ \A j, k \in 1..Len(stack) :
         Entered(j) /\ Entered(k) /\ stack[j].pkg = stack[k].pkg => j = k

\* A thread in a slot below i, or the one for the makefile, is waited for.
Awaited(t) ==
  /\ Top.kind = "package" /\ Top.call = t[1]
  /\ \/ Top.pc = "joinMakefile" /\ fetch[t].slot = -1
     \/ Top.pc \in Looping /\ fetch[t].slot \in 0..(Top.i - 1)
Abandoned(c) == Faulty("thread") /\ c \in DOMAIN results /\ results[c] = -1
SlotInv ==
  /\ \A t \in DOMAIN fetch :
       fetch[t].slot = Concurrency \/ Awaited(t) \/ Abandoned(t[1])
  /\ \A t, u \in DOMAIN fetch :
       t[1] = u[1] /\ fetch[t].slot = fetch[u].slot => fetch[t].slot = Concurrency \/ t = u
  /\ \A t \in DOMAIN fetch : fetch[t].slot = Concurrency => Overfull(fetch[t].place[2])

\* A thread writes where the call that made it installs.
ThreadInv ==
  \A k \in 1..Len(stack) : IsPackage(k) => \A t \in DOMAIN fetch :
    t[1] = stack[k].call => fetch[t].place = <<stack[k].dir, stack[k].pkg>> /\ t[2] < stack[k].n

\* Unless all is forced, the threads of one package have one call.
OwnInv ==
  ~Options.force =>
    /\ \A t \in DOMAIN fetch : fetch[t].place[2] \in visited
    /\ \A t, u \in DOMAIN fetch : fetch[t].place[2] = fetch[u].place[2] => t[1] = u[1]
    /\ \A k \in 1..Len(stack) : Entered(k) => \A t \in DOMAIN fetch :
         fetch[t].place[2] = stack[k].pkg => t[1] = stack[k].call

Excused(p) == p \in damaged \/ Overfull(p) \/ (Options.force /\ Faulty("thread"))

\* A file that is cut is being written.
DiskInv ==
  \A x \in Places : ~Excused(x[2]) => \A f \in 1..Describe[x[2]].sources :
    OnDisk(x)[f] = "cut" =>
      \/ \E t \in DOMAIN fetch : fetch[t].place = x /\ t[2] = f /\ fetch[t].pc = "get"
      \/ At("package", "copied") /\ Place = x

\* What was started and is not whole is on its way, and there is none when the
\* files go to the cache.
Comes(f) ==
  <<Top.call, f>> \in DOMAIN fetch /\ fetch[<<Top.call, f>>].pc \in {"look", "open", "get"}
LoadInv ==
  Top.kind = "package" /\ ~Excused(Top.pkg) =>
    /\ Top.pc \in Looping =>
         \A f \in 1..Describe[Top.pkg].sources :
           f < Top.n => Comes(f) \/ OnDisk(Place)[f] = "whole"
    /\ Top.pc = "saving" => \A f \in 1..Describe[Top.pkg].sources : OnDisk(Place)[f] = "whole"
    /\ Top.pc = "copied" => cache[Top.pkg].cached

IInv == TypeOK /\ StackInv /\ NestInv /\ SlotInv /\ ThreadInv /\ OwnInv /\ DiskInv /\ LoadInv
        /\ CacheWhole
-----------------------------------------------------------------------------
LEMMA Constants ==
    /\ Concurrency \in Nat /\ MaxFiles \in Nat /\ Names = 0..MaxFiles /\ Makefile = 0
    /\ Here \notin Packages /\ File \notin Packages
    /\ \A p \in Packages : Describe[p].sources \in -1..MaxFiles
    /\ \A p \in Packages : Describe[p].dependencies \in Seq(Packages)
    /\ \A p \in Packages : Describe[p].development \in Seq(Packages)
BY ClibFetchAssumption DEF Names, Makefile

LEMMA Setup ==
  ASSUME setup \in Setups
  PROVE  /\ setup.cmd \in {"install", "update", "upgrade"}
         /\ {Options.force, Options.skipCache, Options.global, Options.dev, Options.save} \subseteq BOOLEAN
         /\ setup.args \in Seq(Arguments)
         /\ setup.dependencies \in Seq(Packages) /\ setup.development \in Seq(Packages)
         /\ setup.cmd = "upgrade" => setup.args # <<>> /\ Head(setup.args) \in Packages
<1>1. setup.cmd \in {"install", "update", "upgrade"}
  BY ClibFetchAssumption
<1>2. {setup.force, setup.skipCache, setup.global, setup.dev, setup.save} \subseteq BOOLEAN
  BY ClibFetchAssumption
<1>3. {Options.force, Options.skipCache, Options.global, Options.dev, Options.save} \subseteq BOOLEAN
  <2>1. Options \in {InstallOptions, UpdateOptions, UpgradeOptions}
    BY <1>1 DEF Options
  <2>2. CASE Options = InstallOptions
    BY <1>2, <2>2 DEF InstallOptions
  <2>3. CASE Options = UpdateOptions
    BY <1>2, <2>3 DEF UpdateOptions
  <2>4. CASE Options = UpgradeOptions
    BY <1>2, <2>4 DEF UpgradeOptions
  <2> QED
    BY <2>1, <2>2, <2>3, <2>4
<1>4. setup.args \in Seq(Arguments)
  BY ClibFetchAssumption DEF Arguments
<1>5. setup.dependencies \in Seq(Packages) /\ setup.development \in Seq(Packages)
  BY ClibFetchAssumption
<1>6. setup.cmd = "upgrade" => setup.args # <<>> /\ Head(setup.args) \in Packages
  <2>1. setup.cmd = "upgrade" => Len(setup.args) = 1 /\ Head(setup.args) \in Packages
    BY ClibFetchAssumption
  <2> QED
    BY <2>1, <1>4
<1> QED
  BY <1>1, <1>3, <1>4, <1>5, <1>6

\* What happens to the stack: its last frame becomes f; that frame waits at pc
\* for the call f; the call returns rc.
Same(m) == \A k \in 1..m : stack'[k] = stack[k]
Moves(f) ==
  stack' \in Seq(FrameType) /\ Len(stack') = Len(stack) /\ Same(Len(stack) - 1) /\ Top' = f
Calls(pc, c, f) ==
  /\ stack' \in Seq(FrameType) /\ Len(stack') = Len(stack) + 1 /\ Same(Len(stack) - 1)
  /\ stack'[Len(stack)] = [Top EXCEPT !.pc = pc, !.call = c] /\ Top' = f
Returns(rc) ==
  /\ stack' \in Seq(FrameType) /\ Len(stack') = Len(stack) - 1 /\ Same(Len(stack) - 2)
  /\ Top' = [stack[Len(stack) - 1] EXCEPT !.rc = rc]

LEMMA StackTop ==
  ASSUME StackType
  PROVE  /\ Len(stack) \in Nat \ {0} /\ Top \in FrameType
         /\ \A k \in 1..Len(stack) : stack[k] \in FrameType
BY DEF StackType, Top

LEMMA BecomeMoves ==
  ASSUME StackType, NEW f \in FrameType, Become(f)
  PROVE  Moves(f)
<1>1. Len(stack) \in Nat \ {0} /\ stack \in Seq(FrameType)
  BY DEF StackType
<1>2. stack' \in Seq(FrameType) /\ Len(stack') = Len(stack)
  BY <1>1 DEF Become
<1>3. stack'[Len(stack)] = f /\ Same(Len(stack) - 1)
  BY <1>1 DEF Become, Same
<1> QED
  BY <1>2, <1>3 DEF Moves, Top

LEMMA AppendCalls ==
  ASSUME StackType, NEW f \in FrameType, NEW b \in FrameType,
         stack' = Append([stack EXCEPT ![Len(stack)] = b], f)
  PROVE  /\ stack' \in Seq(FrameType) /\ Len(stack') = Len(stack) + 1
         /\ Same(Len(stack) - 1) /\ stack'[Len(stack)] = b /\ Top' = f
<1>1. Len(stack) \in Nat \ {0} /\ stack \in Seq(FrameType)
  BY DEF StackType
<1> DEFINE s == [stack EXCEPT ![Len(stack)] = b]
<1>2. s \in Seq(FrameType) /\ Len(s) = Len(stack)
  BY <1>1
<1>3. s[Len(stack)] = b /\ \A k \in 1..(Len(stack) - 1) : s[k] = stack[k]
  BY <1>1
<1>4. stack' = Append(s, f)
  OBVIOUS
<1> HIDE DEF s
<1>5. /\ Append(s, f) \in Seq(FrameType) /\ Len(Append(s, f)) = Len(s) + 1
      /\ Append(s, f)[Len(s) + 1] = f
      /\ \A k \in 1..Len(s) : Append(s, f)[k] = s[k]
  BY <1>2, AppendProperties
<1>6. \A k \in 1..Len(stack) : stack'[k] = s[k]
  BY <1>2, <1>4, <1>5
<1>7. stack'[Len(stack)] = b /\ Same(Len(stack) - 1)
  BY <1>1, <1>3, <1>6 DEF Same
<1> QED
  BY <1>2, <1>4, <1>5, <1>7 DEF Top

LEMMA ReturnReturns ==
  ASSUME StackType, Len(stack) > 1, NEW rc \in Codes, Return(rc)
  PROVE  Returns(rc)
<1>1. Len(stack) \in Nat \ {0} /\ stack \in Seq(FrameType)
  BY DEF StackType
<1> DEFINE s == Front(stack)
<1>2. s \in Seq(FrameType) /\ Len(s) = Len(stack) - 1 /\ \A k \in 1..(Len(stack) - 1) : s[k] = stack[k]
  BY <1>1 DEF Front
<1>3. stack' = [s EXCEPT ![Len(stack) - 1].rc = rc]
  BY DEF Return
<1> HIDE DEF s
<1>4. Len(stack) - 1 \in DOMAIN s /\ s[Len(stack) - 1] = stack[Len(stack) - 1]
  BY <1>1, <1>2
<1> DEFINE f == [stack[Len(stack) - 1] EXCEPT !.rc = rc]
<1>5. stack[Len(stack) - 1] \in FrameType
  BY <1>2, <1>4
<1>6. f \in FrameType
  BY <1>5 DEF FrameType
<1>7. stack' = [s EXCEPT ![Len(stack) - 1] = f]
  BY <1>3, <1>4
<1> HIDE DEF f
<1>8. stack' \in Seq(FrameType) /\ Len(stack') = Len(stack) - 1 /\ stack'[Len(stack) - 1] = f
  BY <1>1, <1>2, <1>4, <1>6, <1>7
<1>9. Same(Len(stack) - 2)
  BY <1>1, <1>2, <1>4, <1>7 DEF Same
<1> QED
  BY <1>8, <1>9 DEF Returns, Top, f

\* The shapes of the steps of clib_package_install: it goes on in its frame,
\* gets past the hash, returns, or calls install_packages.
Kept == UNCHANGED <<setup, saved, freed, runs>>
RefsKept == refs' \in Seq(Int) /\ Len(refs') = Len(refs)
PackageGoesOn(f) ==
  /\ Top.kind = "package" /\ Top.pc \notin {"enter", "return"}
  /\ Top.pc = "executable" => Top.rc # -1
  /\ Moves(f) /\ f.kind = "package"
  /\ f.pkg = Top.pkg /\ f.dir = Top.dir /\ f.call = Top.call /\ f.rc = Top.rc /\ f.n >= Top.n
  /\ PackageInv(f) /\ f.pc \notin {"enter", "executable", "return"}
  /\ Kept /\ RefsKept /\ UNCHANGED <<visited, results, exit>>
PackageEnters(pc) ==
  /\ Top.kind = "package" /\ Top.pc = "enter" /\ ~Visited
  /\ pc \in {"configure", "makefile", "cache"} /\ Moves([Top EXCEPT !.pc = pc])
  /\ visited' = visited \cup {Top.pkg}
  /\ Kept /\ UNCHANGED <<refs, results, exit>>
PackageReturns(rc) ==
  /\ Top.kind = "package" /\ Returns(rc)
  /\ results' = [c \in DOMAIN results \cup {Top.call} |-> IF c = Top.call THEN rc ELSE results[c]]
  /\ rc = -1 => setup.faults # {} \/ (Top.pc \in {"executable", "return"} /\ Top.rc = -1)
  /\ rc = 0 => \/ Top.pc = "enter" /\ Top.pkg \in visited
               \/ Top.pc = "dependencies" /\ Info.dependencies = <<>>
               \/ Top.pc = "return" /\ Top.rc = 0
  /\ Top.pc = "return" => rc = Top.rc
  /\ Top.pc = "executable" => rc = -1 /\ Top.rc = -1
  /\ Kept /\ RefsKept /\ UNCHANGED <<visited, exit>>
PackageCalls(pc, dir) ==
  /\ Top.kind = "package"
  /\ \/ pc = "executable" /\ Top.pc = "unpacked"
     \/ pc = "return" /\ Top.pc = "dependencies"
  /\ Calls(pc, Top.call, List(Info.dependencies, dir))
  /\ Kept /\ UNCHANGED <<refs, visited, results, exit>>
Overflows ==
  /\ exit' = [how |-> "overflow", rc |-> 1]
  /\ Top.pc \in {"unpacked", "dependencies", "enter", "local", "argument"}
  /\ Kept /\ UNCHANGED <<stack, visited, results>>
  /\ refs' = refs \/ refs' = Append(refs, 0)
PackageShape ==
  \/ \E f \in FrameType : PackageGoesOn(f)
  \/ \E pc : PackageEnters(pc)
  \/ \E rc \in Codes : PackageReturns(rc)
  \/ \E pc, dir : dir \in Dirs /\ PackageCalls(pc, dir)
  \/ Overflows

LEMMA PackageTop ==
  ASSUME TypeOK, StackInv, Top.kind = "package"
  PROVE  /\ Top \in FrameType /\ PackageInv(Top) /\ Top.pkg \in Packages
         /\ Len(stack) \in Nat /\ Len(stack) > 1
         /\ Top.call \in 1..Len(refs) /\ Top.call \notin DOMAIN results
         /\ Describe[Top.pkg].sources \in -1..MaxFiles
         /\ Describe[Top.pkg].dependencies \in Seq(Packages)
         /\ Describe[Top.pkg].development \in Seq(Packages)
<1>1. Len(stack) \in Nat \ {0} /\ Top \in FrameType
  BY StackTop DEF TypeOK
<1>2. FrameInv(Top) /\ (Top.kind = "main" <=> Len(stack) = 1)
  BY <1>1 DEF StackInv, Top
<1>3. PackageInv(Top) /\ Top.call \in 1..Len(refs) /\ Top.call \notin DOMAIN results
  BY <1>2 DEF FrameInv, FrameOK
<1>4. Len(stack) # 1
  BY <1>2
<1>5. Len(stack) > 1
  <2>1. \A m \in Nat \ {0} : m # 1 => m > 1
    OBVIOUS
  <2> QED
    BY <1>1, <1>4, <2>1
<1>6. Top.pkg \in Packages
  BY <1>3 DEF PackageInv
<1> QED
  BY <1>1, <1>3, <1>5, <1>6, Constants

LEMMA Proceeds ==
  ASSUME TypeOK, StackInv, Top.kind = "package", Top.pc \notin {"enter", "return"},
         (Top.pc = "executable" => Top.rc # -1),
         NEW f \in FrameType, Become(f),
         f.kind = "package", f.pkg = Top.pkg, f.dir = Top.dir, f.call = Top.call,
         f.rc = Top.rc, f.n >= Top.n, PackageInv(f), f.pc \notin {"enter", "executable", "return"},
         RefsKept, Kept, UNCHANGED <<visited, results, exit>>
  PROVE  PackageGoesOn(f)
<1>1. Moves(f)
  BY BecomeMoves DEF TypeOK
<1> QED
  BY <1>1 DEF PackageGoesOn

LEMMA GoesTo ==
  ASSUME TypeOK, StackInv, Top.kind = "package", Top.pc \notin {"enter", "return"},
         Top.pc = "executable" => Top.rc # -1,
         NEW pc \in PackagePlaces \ {"enter", "executable", "return", "start"}, Goto(pc),
         pc = "last" => Top.n > Info.sources,
         pc \in Looping => Top.i <= Concurrency /\ Top.i < Top.n,
         pc \in Early => Top.i = 0 /\ Top.n = 1,
         RefsKept, Kept, UNCHANGED <<visited, results, exit>>
  PROVE  PackageGoesOn([Top EXCEPT !.pc = pc])
<1> DEFINE f == [Top EXCEPT !.pc = pc]
<1>1. Top \in FrameType /\ PackageInv(Top)
  BY PackageTop
<1>2. pc \in Spots
  BY DEF Spots
<1>3. /\ f \in FrameType /\ f.pc = pc /\ f.kind = Top.kind /\ f.pkg = Top.pkg
      /\ f.dir = Top.dir /\ f.call = Top.call /\ f.rc = Top.rc /\ f.n = Top.n /\ f.i = Top.i
  BY <1>1, <1>2 DEF FrameType
<1>4. f.n >= Top.n
  BY <1>1, <1>3 DEF FrameType
<1>5. PackageInv(f)
  BY <1>1, <1>3 DEF PackageInv, Info
<1>6. Become(f)
  BY DEF Goto
<1> HIDE DEF f
<1>7. PackageGoesOn(f)
  BY <1>3, <1>4, <1>5, <1>6, Proceeds
<1> QED
  BY <1>7 DEF f

LEMMA Leaves ==
  ASSUME TypeOK, StackInv, Top.kind = "package", NEW rc \in Codes, Leave(rc),
         rc = -1 => setup.faults # {} \/ (Top.pc \in {"executable", "return"} /\ Top.rc = -1),
         rc = 0 => \/ Top.pc = "enter" /\ Top.pkg \in visited
                   \/ Top.pc = "dependencies" /\ Info.dependencies = <<>>
                   \/ Top.pc = "return" /\ Top.rc = 0,
         Top.pc = "return" => rc = Top.rc,
         Top.pc = "executable" => rc = -1 /\ Top.rc = -1,
         RefsKept, UNCHANGED <<setup, freed, runs>>
  PROVE  PackageReturns(rc)
<1>1. Returns(rc)
  BY PackageTop, ReturnReturns DEF Leave, TypeOK
<1> QED
  BY <1>1 DEF PackageReturns, Leave, Kept

LEMMA CountShape ==
  ASSUME TypeOK, StackInv, NEW pc \in {"makefile", "download"},
         NEW next \in {"startMakefile", "start"}, CountThread(pc, next),
         next = "startMakefile" <=> pc = "makefile", next = "start" => Top.n <= Info.sources
  PROVE  PackageGoesOn([Top EXCEPT !.pc = next, !.read = refs[Top.call]])
<1> DEFINE f == [Top EXCEPT !.pc = next, !.read = refs[Top.call]]
<1>1. Top.kind = "package" /\ Top.pc = pc
  BY DEF CountThread, At
<1>2. Top \in FrameType /\ PackageInv(Top) /\ Top.call \in 1..Len(refs)
  BY <1>1, PackageTop
<1>3. refs[Top.call] \in Int /\ refs \in Seq(Int)
  BY <1>2 DEF TypeOK, CallsType
<1>4. next \in Spots
  BY DEF Spots, PackagePlaces
<1>5. /\ f \in FrameType /\ f.pc = next /\ f.kind = Top.kind /\ f.pkg = Top.pkg
      /\ f.dir = Top.dir /\ f.call = Top.call /\ f.rc = Top.rc /\ f.n = Top.n /\ f.i = Top.i
  BY <1>2, <1>3, <1>4 DEF FrameType
<1>6. f.n >= Top.n
  BY <1>2, <1>5 DEF FrameType
<1>7. PackageInv(f)
  BY <1>1, <1>2, <1>5 DEF PackageInv, Info, PackagePlaces, Looping, Early
<1>8. Become(f) /\ RefsKept /\ Kept /\ UNCHANGED <<visited, results, exit>>
  BY <1>3 DEF CountThread, KeepFetch, KeepRest, fetchVars, RefsKept, Kept
<1> HIDE DEF f
<1>9. PackageGoesOn(f)
  BY <1>1, <1>5, <1>6, <1>7, <1>8, Proceeds
<1> QED
  BY <1>9 DEF f

LEMMA StartShape ==
  ASSUME TypeOK, StackInv, At("package", "start"), Become(AfterStart(Top.i)),
         RefsKept, Kept, UNCHANGED <<visited, results, exit>>
  PROVE  PackageGoesOn(AfterStart(Top.i))
<1> DEFINE f == AfterStart(Top.i)
<1>1. Top.kind = "package" /\ Top.pc = "start"
  BY DEF At
<1>2. Top \in FrameType /\ PackageInv(Top)
  BY <1>1, PackageTop
<1>3. {"download", "batch"} \subseteq Spots \cap PackagePlaces
  BY DEF Spots, PackagePlaces
<1>4. Top.n \in Nat \ {0} /\ Top.i \in Nat /\ Top.i <= Concurrency /\ Top.i < Top.n /\ Concurrency \in Nat
  BY <1>1, <1>2, Constants DEF FrameType, PackageInv, Looping
<1>5. /\ f \in FrameType /\ f.kind = Top.kind /\ f.pkg = Top.pkg
      /\ f.dir = Top.dir /\ f.call = Top.call /\ f.rc = Top.rc /\ f.n = Top.n + 1
      /\ f.pc \in {"download", "batch"}
      /\ f.i \in {Top.i, Top.i + 1} /\ f.i <= Concurrency
  <2>1. CASE Top.i < Concurrency
    <3>1. f = [Top EXCEPT !.pc = "download", !.n = Top.n + 1, !.i = Top.i + 1]
      BY <1>2, <2>1 DEF AfterStart, FrameType
    <3>2. Top.n + 1 \in Nat \ {0} /\ Top.i + 1 \in Nat /\ Top.i + 1 <= Concurrency
      BY <1>4, <2>1
    <3> QED
      BY <1>2, <1>3, <3>1, <3>2 DEF FrameType
  <2>2. CASE ~(Top.i < Concurrency)
    <3>1. f = [Top EXCEPT !.pc = "batch", !.n = Top.n + 1]
      BY <1>2, <2>2 DEF AfterStart, FrameType
    <3>2. Top.n + 1 \in Nat \ {0}
      BY <1>4
    <3> QED
      BY <1>2, <1>3, <1>4, <3>1, <3>2 DEF FrameType
  <2> QED
    BY <2>1, <2>2
<1> HIDE DEF f
<1>6. f.n >= Top.n /\ f.i < f.n
  BY <1>4, <1>5
<1>7. PackageInv(f)
  BY <1>2, <1>3, <1>5, <1>6 DEF PackageInv, Looping, Early
<1>8. Become(f)
  BY DEF f
<1>9. PackageGoesOn(f)
  BY <1>1, <1>5, <1>6, <1>7, <1>8, Proceeds
<1> QED
  BY <1>9 DEF f

LEMMA JoinShape ==
  ASSUME TypeOK, StackInv, Top.kind = "package", Top.pc \in {"batch", "last"},
         NEW f \in FrameType, Become(f),
         f.kind = Top.kind, f.pkg = Top.pkg, f.dir = Top.dir, f.call = Top.call, f.rc = Top.rc,
         f.n = Top.n, f.i <= Top.i, f.pc \in {Top.pc, "download"},
         RefsKept, Kept, UNCHANGED <<visited, results, exit>>
  PROVE  PackageGoesOn(f)
<1>1. Top \in FrameType /\ PackageInv(Top)
  BY PackageTop
<1>2. f.pc \in PackagePlaces /\ f.pc \notin {"start", "enter", "executable", "return"} /\ f.pc \notin Early
  BY DEF PackagePlaces, Early
<1>3. /\ Top.n \in Nat \ {0} /\ Top.i \in Nat /\ Top.i <= Concurrency /\ Top.i < Top.n
      /\ Concurrency \in Nat /\ f.i \in Nat
  BY <1>1, Constants DEF FrameType, PackageInv, Looping
<1>4. f.n >= Top.n /\ f.i < f.n /\ f.i <= Concurrency
  BY <1>3
<1>5. PackageInv(f)
  BY <1>1, <1>2, <1>4 DEF PackageInv
<1> QED
  BY <1>2, <1>4, <1>5, Proceeds

LEMMA FrameUpdates ==
  ASSUME NEW f \in FrameType
  PROVE  /\ \A pc \in Spots : [f EXCEPT !.pc = pc] \in FrameType
         /\ \A pc \in Spots, c \in Nat : [f EXCEPT !.pc = pc, !.call = c] \in FrameType
BY DEF FrameType

LEMMA NewFrames ==
  ASSUME NEW dir \in Dirs
  PROVE  /\ \A ps \in Seq(Packages) : List(ps, dir) \in FrameType
         /\ \A p \in Packages, c \in Nat : Call("package", p, <<>>, dir, c) \in FrameType
<1>1. "enter" \in Spots /\ \A ps \in Seq(Packages) : ps \in Seq(Arguments)
  BY DEF Spots, ListPlaces, Arguments
<1>2. \A p \in Packages \cup {Nobody}, ps \in Seq(Arguments), c \in Nat,
         kind \in {"main", "package", "list"} : Call(kind, p, ps, dir, c) \in FrameType
  BY <1>1 DEF Call, FrameType, Codes
<1>3. <<>> \in Seq(Arguments)
  OBVIOUS
<1> QED
  BY <1>1, <1>2, <1>3 DEF List

LEMMA InvokeCalls ==
  ASSUME TypeOK, NEW ps \in Seq(Packages), NEW dir \in Dirs, NEW pc \in Spots,
         Invoke(List(ps, dir), pc)
  PROVE  \/ Calls(pc, Top.call, List(ps, dir)) /\ exit' = exit
         \/ exit' = [how |-> "overflow", rc |-> 1] /\ stack' = stack
<1>1. Top \in FrameType /\ Len(stack) \in Nat \ {0} /\ stack \in Seq(FrameType)
  BY StackTop DEF TypeOK, StackType
<1>2. CASE Len(stack) < StackLimit
  <2>1. stack' = Append([stack EXCEPT ![Len(stack)].pc = pc], List(ps, dir)) /\ exit' = exit
    BY <1>2 DEF Invoke
  <2>2. [stack EXCEPT ![Len(stack)].pc = pc] = [stack EXCEPT ![Len(stack)] = [Top EXCEPT !.pc = pc]]
    BY <1>1 DEF Top
  <2>3. [Top EXCEPT !.pc = pc] \in FrameType /\ List(ps, dir) \in FrameType
    BY <1>1, FrameUpdates, NewFrames
  <2>4. [Top EXCEPT !.pc = pc] = [Top EXCEPT !.pc = pc, !.call = Top.call]
    BY <1>1 DEF FrameType
  <2> QED
    BY <2>1, <2>2, <2>3, <2>4, AppendCalls DEF Calls, TypeOK
<1>3. CASE ~(Len(stack) < StackLimit)
  BY <1>3 DEF Invoke, Overflow
<1> QED
  BY <1>2, <1>3

LEMMA PackageShapes ==
  ASSUME TypeOK, StackInv, PackageStep
  PROVE  PackageShape
<1> USE DEF At
<1>1. /\ {"configure", "cache", "copied", "download", "last", "saving", "tarball", "unpacked",
          "run", "dependencies", "joinMakefile"} \subseteq PackagePlaces \ {"enter", "executable", "return", "start"}
      /\ {"executable", "return"} \subseteq Spots
  BY DEF PackagePlaces, Spots
<1>2. ASSUME KeepFetch, KeepRest PROVE RefsKept /\ UNCHANGED <<setup, freed, runs>>
  BY <1>2 DEF KeepFetch, KeepRest, fetchVars, RefsKept, TypeOK, CallsType
<1>3. ASSUME KeepFetch, KeepRest, UNCHANGED <<visited, results, saved, exit>>
      PROVE  RefsKept /\ Kept /\ UNCHANGED <<visited, results, exit>>
  BY <1>2, <1>3 DEF Kept
<1>4. ASSUME Top.kind = "package", Faulty("thread"), refs' = [refs EXCEPT ![Top.call] = Top.read + 1]
      PROVE  RefsKept
  BY <1>4, PackageTop DEF RefsKept, TypeOK, CallsType, FrameType
<1>5. ASSUME Top.kind = "package", refs' = [refs EXCEPT ![Top.call] = Top.read + 1]
      PROVE  RefsKept
  <2>1. refs \in Seq(Int) /\ Top.read \in Int /\ Top.call \in 1..Len(refs)
    BY <1>5, PackageTop DEF TypeOK, CallsType, FrameType
  <2> QED
    BY <1>5, <2>1 DEF RefsKept
<1>6. \A what : Faulty(what) => setup.faults # {}
  BY DEF Faulty
<1>7. /\ \A f : PackageGoesOn(f) /\ f \in FrameType => PackageShape
      /\ \A rc \in Codes : PackageReturns(rc) => PackageShape
  BY DEF PackageShape
<1>8. {0, 1, -1} \subseteq Codes /\ -1 # 0 /\ -1 # 1
  BY DEF Codes
<1>9. ASSUME NEW pc \in Spots, PackageGoesOn([Top EXCEPT !.pc = pc]), Top.kind = "package" PROVE PackageShape
  <2>1. [Top EXCEPT !.pc = pc] \in FrameType
    <3>1. Top \in FrameType
      BY <1>9, PackageTop
    <3> QED
      BY <3>1, FrameUpdates
  <2> QED
    BY <1>7, <1>9, <2>1
\* Command(ok) at a place of the package
<1>10. ASSUME Top.kind = "package", Top.pc \notin {"enter", "return", "executable"},
              NEW ok \in {"unpacked", "dependencies", "tarball"}, Command(ok)
       PROVE  PackageShape
  <2>1. ok \in PackagePlaces \ {"enter", "executable", "return", "start"} /\ ok \in Spots
        /\ ok # "last" /\ ok \notin Looping /\ ok \notin Early
    BY <1>1 DEF Looping, Early, Spots
  <2>2. CASE Goto(ok) /\ UNCHANGED <<visited, results, saved, exit>>
    BY <1>3, <1>9, <1>10, <2>1, <2>2, GoesTo DEF Command
  <2>3. CASE Faulty("command") /\ Leave(1)
    BY <1>2, <1>7, <1>8, <1>10, <2>3, Leaves DEF Command
  <2> QED
    BY <1>10, <2>2, <2>3 DEF Command
<1>11. ASSUME Top.kind = "package", Top.pc \notin {"enter", "return"},
              Top.pc = "executable" => Top.rc # -1,
              NEW ok \in {"dependencies", "tarball", "run", "configure"}, Pass(ok)
       PROVE  PackageShape
  <2>1. ok \in PackagePlaces \ {"enter", "executable", "return", "start"} /\ ok \in Spots
        /\ ok # "last" /\ ok \notin Looping /\ ok \notin Early
    BY <1>1 DEF Looping, Early, Spots
  <2> QED
    BY <1>3, <1>9, <1>11, <2>1, GoesTo DEF Pass
<1>12. CASE AlreadyVisited
  BY <1>2, <1>7, <1>8, <1>12, Leaves DEF AlreadyVisited, Visited
<1>13. CASE Enter
  <2> DEFINE pc == IF Options.global THEN "configure" ELSE IF Info.makefile THEN "makefile" ELSE "cache"
  <2>1. pc \in {"configure", "makefile", "cache"} /\ pc \in Spots
    BY DEF Spots, PackagePlaces
  <2>2. Goto(pc) /\ Top.kind = "package" /\ Top.pc = "enter"
    BY <1>13 DEF Enter
  <2> HIDE DEF pc
  <2>3. Moves([Top EXCEPT !.pc = pc])
    <3>1. [Top EXCEPT !.pc = pc] \in FrameType
      <4>1. Top \in FrameType
        BY <2>2, PackageTop
      <4> QED
        BY <2>1, <4>1, FrameUpdates
    <3> QED
      BY <2>2, <3>1, BecomeMoves DEF Goto, TypeOK
  <2>4. PackageEnters(pc)
    BY <1>13, <2>1, <2>2, <2>3 DEF Enter, PackageEnters, Kept, KeepFetch, KeepRest, fetchVars
  <2> QED
    BY <2>4 DEF PackageShape
<1>14. CASE EnterFails
  BY <1>2, <1>6, <1>7, <1>8, <1>14, Leaves DEF EnterFails
<1>15. CASE CountMakefile
  <2>1. PackageGoesOn([Top EXCEPT !.pc = "startMakefile", !.read = refs[Top.call]])
    BY <1>15, CountShape DEF CountMakefile
  <2>2. [Top EXCEPT !.pc = "startMakefile", !.read = refs[Top.call]] \in FrameType
    <3>1. Top.kind = "package" /\ "startMakefile" \in Spots
      BY <1>15 DEF CountMakefile, CountThread, Spots, PackagePlaces
    <3>2. Top \in FrameType /\ refs[Top.call] \in Int
      BY <3>1, PackageTop DEF TypeOK, CallsType
    <3> QED
      BY <3>1, <3>2 DEF FrameType
  <2> QED
    BY <1>7, <2>1, <2>2
<1>16. CASE FetchMakefile
  <2>1. Top.kind = "package" /\ Top.pc = "startMakefile"
    BY <1>16 DEF FetchMakefile
  <2>2. RefsKept /\ UNCHANGED <<setup, freed, runs>>
    BY <1>5, <1>16, <2>1 DEF FetchMakefile, Start, StartFails, KeepRest
  <2>3. Top.i = 0 /\ Top.n = 1
    BY <2>1, PackageTop DEF PackageInv, Early
  <2>4. CASE Goto("joinMakefile") /\ UNCHANGED <<visited, results, saved, exit>>
    BY <1>1, <1>9, <2>1, <2>2, <2>3, <2>4, GoesTo DEF Kept, Looping, Spots
  <2>5. CASE Leave(1)
    BY <1>7, <1>8, <2>1, <2>2, <2>5, Leaves
  <2> QED
    BY <1>16, <2>4, <2>5 DEF FetchMakefile
<1>17. CASE JoinMakefile
  <2>1. Top.kind = "package" /\ Top.pc = "joinMakefile"
    BY <1>17 DEF JoinMakefile
  <2>2. RefsKept /\ Kept /\ UNCHANGED <<visited, results, exit>>
    BY <1>17, <2>1 DEF JoinMakefile, JoinThread, KeepRest, RefsKept, Kept, TypeOK, CallsType
  <2>3. Top.i = 0 /\ Top.n = 1
    BY <2>1, PackageTop DEF PackageInv, Early
  <2>4. Goto("cache")
    BY <1>17 DEF JoinMakefile
  <2> QED
    BY <1>1, <1>9, <2>1, <2>2, <2>3, <2>4, GoesTo DEF Looping, Spots
<1>18. CASE NoSources
  BY <1>11, <1>18 DEF NoSources, Pass
<1>19. CASE CopyFromCache
  <2>1. Top.kind = "package" /\ Top.pc = "cache"
    BY <1>19 DEF CopyFromCache
  <2>2. RefsKept /\ Kept /\ UNCHANGED <<visited, results, exit>>
    BY <1>19, <2>1 DEF CopyFromCache, KeepRest, RefsKept, Kept, TypeOK, CallsType
  <2>3. Top.i = 0 /\ Top.n = 1
    BY <2>1, PackageTop DEF PackageInv, Early
  <2>4. Goto("copied")
    BY <1>19 DEF CopyFromCache
  <2> QED
    BY <1>1, <1>9, <2>1, <2>2, <2>3, <2>4, GoesTo DEF Looping, Spots
<1>20. CASE LoadedFromCache
  <2>1. Top.kind = "package" /\ Top.pc = "copied"
    BY <1>20 DEF LoadedFromCache
  <2>2. RefsKept /\ Kept /\ UNCHANGED <<visited, results, exit>>
    BY <1>20, <2>1 DEF LoadedFromCache, KeepRest, RefsKept, Kept, TypeOK, CallsType
  <2>4. Goto("configure")
    BY <1>20 DEF LoadedFromCache
  <2> QED
    BY <1>1, <1>9, <2>1, <2>2, <2>4, GoesTo DEF Looping, Early, Spots
<1>21. CASE NotFromCache
  <2>1. Top.kind = "package" /\ Top.pc = "cache"
    BY <1>21 DEF NotFromCache
  <2>2. RefsKept /\ Kept /\ UNCHANGED <<visited, results, exit>>
    BY <1>21, <2>1 DEF NotFromCache, KeepFetch, fetchVars, RefsKept, Kept, TypeOK, CallsType
  <2>3. Top.i = 0 /\ Top.n = 1 /\ Top.i <= Concurrency /\ Top.i < Top.n
    <3>1. Top.i = 0 /\ Top.n = 1
      BY <2>1, PackageTop DEF PackageInv, Early
    <3> QED
      BY <3>1, Constants
  <2>4. Goto("download")
    BY <1>21 DEF NotFromCache
  <2> QED
    BY <1>1, <1>9, <2>1, <2>2, <2>3, <2>4, GoesTo DEF Early, Spots
<1>22. CASE CountSource
  <2>1. PackageGoesOn([Top EXCEPT !.pc = "start", !.read = refs[Top.call]])
    BY <1>22, CountShape DEF CountSource
  <2>2. [Top EXCEPT !.pc = "start", !.read = refs[Top.call]] \in FrameType
    <3>1. Top.kind = "package" /\ "start" \in Spots
      BY <1>22 DEF CountSource, CountThread, Spots, PackagePlaces
    <3>2. Top \in FrameType /\ refs[Top.call] \in Int
      BY <3>1, PackageTop DEF TypeOK, CallsType
    <3> QED
      BY <3>1, <3>2 DEF FrameType
  <2> QED
    BY <1>7, <2>1, <2>2
<1>23. CASE FetchSource
  <2>1. Top.kind = "package" /\ Top.pc = "start" /\ At("package", "start")
    BY <1>23 DEF FetchSource
  <2>2. RefsKept /\ UNCHANGED <<setup, freed, runs>>
    BY <1>5, <1>23, <2>1 DEF FetchSource, Start, StartFails, KeepRest
  <2>3. CASE Become(AfterStart(Top.i)) /\ UNCHANGED <<visited, results, saved, exit>>
    <3>1. PackageGoesOn(AfterStart(Top.i))
      BY <2>1, <2>2, <2>3, StartShape DEF Kept
    <3>2. AfterStart(Top.i) \in FrameType
      BY <3>1, StackTop, <2>1, PackageTop DEF PackageGoesOn, Moves, Top
    <3> QED
      BY <1>7, <3>1, <3>2
  <2>4. CASE StartFails(Top.call, Top.read) /\ Leave(-1)
    BY <1>6, <1>7, <1>8, <2>1, <2>2, <2>4, Leaves DEF StartFails
  <2> QED
    BY <1>23, <2>3, <2>4 DEF FetchSource
<1>24. CASE SourcesStarted
  <2>1. Top.kind = "package" /\ Top.pc = "download" /\ Top.n > Info.sources /\ Goto("last")
    BY <1>24 DEF SourcesStarted
  <2>2. RefsKept /\ Kept /\ UNCHANGED <<visited, results, exit>>
    BY <1>3, <1>24 DEF SourcesStarted
  <2>3. Top.i <= Concurrency /\ Top.i < Top.n
    BY <2>1, PackageTop DEF PackageInv, Looping
  <2> QED
    BY <1>1, <1>9, <2>1, <2>2, <2>3, GoesTo DEF Early, Spots
<1>25. CASE JoinSource
  <2>1. Top.kind = "package" /\ Top.pc \in {"batch", "last"} /\ Top.i > 0
    BY <1>25 DEF JoinSource, JoinedDownTo
  <2>2. RefsKept /\ Kept /\ UNCHANGED <<visited, results, exit>>
    BY <1>25 DEF JoinSource, JoinThread, KeepRest, RefsKept, Kept, TypeOK, CallsType
  <2>3. Top \in FrameType /\ Top.i \in Nat
    BY <2>1, PackageTop DEF FrameType
  <2>4. Top.i - 1 \in Nat /\ Top.i - 1 <= Top.i
    BY <2>1, <2>3
  <2> DEFINE f == [Top EXCEPT !.i = Top.i - 1]
  <2>5. /\ f \in FrameType /\ f.kind = Top.kind /\ f.pkg = Top.pkg /\ f.dir = Top.dir
        /\ f.call = Top.call /\ f.rc = Top.rc /\ f.n = Top.n /\ f.i = Top.i - 1 /\ f.pc = Top.pc
    BY <2>3, <2>4 DEF FrameType
  <2>6. Become(f)
    BY <1>25, <2>3 DEF JoinSource, FrameType
  <2> HIDE DEF f
  <2>7. PackageGoesOn(f)
    BY <2>1, <2>2, <2>4, <2>5, <2>6, JoinShape
  <2> QED
    BY <1>7, <2>5, <2>7
<1>26. CASE BatchJoined
  <2>1. Top.kind = "package" /\ Top.pc = "batch"
    BY <1>26 DEF BatchJoined
  <2>2. RefsKept /\ Kept /\ UNCHANGED <<visited, results, exit>>
    BY <1>3, <1>26 DEF BatchJoined
  <2>3. Top \in FrameType /\ Top.i \in Nat /\ 0 <= Top.i
    BY <2>1, PackageTop DEF FrameType
  <2> DEFINE f == [Top EXCEPT !.pc = "download", !.i = 0]
  <2>4. "download" \in Spots
    BY DEF Spots, PackagePlaces
  <2>5. /\ f \in FrameType /\ f.kind = Top.kind /\ f.pkg = Top.pkg /\ f.dir = Top.dir
        /\ f.call = Top.call /\ f.rc = Top.rc /\ f.n = Top.n /\ f.i = 0 /\ f.pc = "download"
    BY <2>3, <2>4 DEF FrameType
  <2>6. Become(f)
    BY <1>26 DEF BatchJoined
  <2> HIDE DEF f
  <2>7. PackageGoesOn(f)
    BY <2>1, <2>2, <2>3, <2>5, <2>6, JoinShape
  <2> QED
    BY <1>7, <2>5, <2>7
<1>27. CASE SaveToCache
  <2>1. Top.kind = "package" /\ Top.pc = "last" /\ Goto("saving")
    BY <1>27 DEF SaveToCache
  <2>2. RefsKept /\ Kept /\ UNCHANGED <<visited, results, exit>>
    BY <1>27 DEF SaveToCache, KeepFetch, fetchVars, RefsKept, Kept, TypeOK, CallsType
  <2> QED
    BY <1>1, <1>9, <2>1, <2>2, GoesTo DEF Looping, Early, Spots
<1>28. CASE SavedToCache
  <2>1. Top.kind = "package" /\ Top.pc = "saving" /\ Goto("configure")
    BY <1>28 DEF SavedToCache
  <2>2. RefsKept /\ Kept /\ UNCHANGED <<visited, results, exit>>
    BY <1>28 DEF SavedToCache, KeepFetch, fetchVars, RefsKept, Kept, TypeOK, CallsType
  <2> QED
    BY <1>1, <1>9, <2>1, <2>2, GoesTo DEF Looping, Early, Spots
<1>29. CASE Configure
  <2> DEFINE next == IF Info.install THEN "tarball" ELSE "dependencies"
  <2>1. next \in {"tarball", "dependencies"}
    OBVIOUS
  <2>2. Top.kind = "package" /\ Top.pc = "configure"
    BY <1>29 DEF Configure
  <2>3. Pass(next) \/ (Leave(1) /\ KeepFetch /\ KeepRest) \/ Command(next)
    BY <1>29 DEF Configure
  <2> HIDE DEF next
  <2>4. CASE Pass(next)
    BY <1>11, <2>1, <2>2, <2>4
  <2>5. CASE Leave(1) /\ KeepFetch /\ KeepRest
    BY <1>2, <1>7, <1>8, <2>2, <2>5, Leaves
  <2>6. CASE Command(next)
    BY <1>10, <2>1, <2>2, <2>6
  <2> QED
    BY <2>3, <2>4, <2>5, <2>6
<1>30. CASE GetTarball
  <2>1. Top.kind = "package" /\ Top.pc = "tarball"
    BY <1>30 DEF GetTarball
  <2>2. CASE Command("unpacked")
    BY <1>10, <2>1, <2>2
  <2>3. CASE Faulty("get") /\ Leave(-1) /\ KeepFetch /\ KeepRest
    BY <1>2, <1>6, <1>7, <1>8, <2>1, <2>3, Leaves
  <2> QED
    BY <1>30, <2>2, <2>3 DEF GetTarball
<1>31. CASE ExecutableDependencies
  <2>1. Top.kind = "package" /\ Top.pc = "unpacked" /\ RefsKept /\ Kept
        /\ UNCHANGED <<visited, results>>
    BY <1>2, <1>31 DEF ExecutableDependencies, Kept
  <2>2. CASE Info.dependencies = <<>>
    BY <1>11, <1>31, <2>1, <2>2 DEF ExecutableDependencies, Pass
  <2>3. CASE Invoke(List(Info.dependencies, Top.pkg), "executable")
    <3>1. Info.dependencies \in Seq(Packages) /\ Top.pkg \in Dirs /\ "executable" \in Spots
      BY <1>1, <2>1, PackageTop DEF Info, Dirs
    <3>2. CASE Calls("executable", Top.call, List(Info.dependencies, Top.pkg)) /\ exit' = exit
      BY <1>31, <2>1, <3>1, <3>2 DEF PackageShape, PackageCalls, ExecutableDependencies, KeepFetch, fetchVars
    <3>3. CASE exit' = [how |-> "overflow", rc |-> 1] /\ stack' = stack
      BY <1>31, <2>1, <3>3 DEF PackageShape, Overflows, ExecutableDependencies, KeepFetch, fetchVars
    <3> QED
      BY <2>3, <3>1, <3>2, <3>3, InvokeCalls
  <2> QED
    BY <1>31, <2>2, <2>3 DEF ExecutableDependencies
<1>32. CASE ExecutableReady
  <2>1. Top.kind = "package" /\ Top.pc = "executable"
    BY <1>32 DEF ExecutableReady
  <2>2. CASE Top.rc = -1
    BY <1>2, <1>7, <1>8, <1>32, <2>1, <2>2, Leaves DEF ExecutableReady
  <2>3. CASE Top.rc # -1
    BY <1>11, <1>32, <2>1, <2>3 DEF ExecutableReady
  <2> QED
    BY <2>2, <2>3
<1>33. CASE RunInstall
  BY <1>10, <1>33 DEF RunInstall
<1>34. CASE InstallDependencies
  <2>1. Top.kind = "package" /\ Top.pc = "dependencies" /\ RefsKept /\ UNCHANGED <<setup, freed, runs>>
    BY <1>2, <1>34 DEF InstallDependencies
  <2>2. CASE Info.dependencies = <<>>
    BY <1>7, <1>8, <1>34, <2>1, <2>2, Leaves DEF InstallDependencies
  <2>3. CASE Invoke(List(Info.dependencies, Top.dir), "return") /\ UNCHANGED <<visited, results, saved>>
    <3>1. Info.dependencies \in Seq(Packages) /\ Top.dir \in Dirs /\ "return" \in Spots
      BY <1>1, <2>1, PackageTop DEF Info, FrameType
    <3>2. CASE Calls("return", Top.call, List(Info.dependencies, Top.dir)) /\ exit' = exit
      BY <1>34, <2>1, <2>3, <3>1, <3>2 DEF PackageShape, PackageCalls, InstallDependencies, KeepFetch, fetchVars, Kept
    <3>3. CASE exit' = [how |-> "overflow", rc |-> 1] /\ stack' = stack
      BY <1>34, <2>1, <2>3, <3>3 DEF PackageShape, Overflows, InstallDependencies, KeepFetch, fetchVars, Kept
    <3> QED
      BY <2>3, <3>1, <3>2, <3>3, InvokeCalls
  <2> QED
    BY <1>34, <2>2, <2>3 DEF InstallDependencies
<1>35. CASE DependenciesDone
  <2>1. Top.kind = "package" /\ Top.pc = "return"
    BY <1>35 DEF DependenciesDone
  <2>2. Top.rc \in Codes
    BY <2>1, PackageTop DEF FrameType
  <2>3. Leave(Top.rc) /\ RefsKept /\ UNCHANGED <<setup, freed, runs>>
    BY <1>2, <1>35 DEF DependenciesDone
  <2> QED
    BY <1>7, <2>1, <2>2, <2>3, Leaves
<1> QED
  BY <1>12, <1>13, <1>14, <1>15, <1>16, <1>17, <1>18, <1>19, <1>20, <1>21, <1>22, <1>23,
     <1>24, <1>25, <1>26, <1>27, <1>28, <1>29, <1>30, <1>31, <1>32, <1>33, <1>34, <1>35
     DEF PackageStep

\* The shapes of the steps of install_packages and of the mains.
PackageCalled(pc, dir) ==
  /\ Top.items # <<>> /\ Head(Top.items) \in Packages /\ dir \in Dirs
  /\ \/ Top.kind = "list" /\ Top.pc = "enter" /\ pc = "installed"
     \/ Top.kind = "main" /\ Top.pc = "enter" /\ pc = "argument" /\ setup.cmd # "upgrade"
     \/ Top.kind = "main" /\ Top.pc = "enter" /\ pc = "upgraded" /\ setup.cmd = "upgrade"
  /\ Calls(pc, Len(refs) + 1, Call("package", Head(Top.items), <<>>, dir, Len(refs) + 1))
  /\ refs' = Append(refs, 0) /\ Kept /\ UNCHANGED <<visited, results, exit>>
ListEnds(rc) ==
  /\ Top.kind = "list" /\ Returns(rc)
  /\ \/ rc = 0 /\ Top.pc = "enter" /\ Top.items = <<>>
     \/ rc = -1 /\ Top.pc = "enter" /\ setup.faults # {}
     \/ rc = -1 /\ Top.pc = "installed" /\ Top.rc = -1
  /\ freed' \subseteq freed \cup Top.done
  /\ UNCHANGED <<setup, refs, visited, results, saved, exit, runs>>
ListPasses ==
  /\ Top.kind = "list" /\ Top.pc = "installed" /\ Top.rc # -1
  /\ Moves([Top EXCEPT !.pc = "enter", !.items = Tail(@), !.done = @ \cup {Top.call}])
  /\ Kept /\ UNCHANGED <<refs, visited, results, exit>>
ListShape ==
  \/ \E pc, dir : PackageCalled(pc, dir)
  \/ \E rc \in Codes : ListEnds(rc)
  \/ ListPasses
  \/ Overflows

NewList(pc) ==
  CASE pc = "local" -> setup.dependencies
    [] pc = "localDev" -> setup.development
    [] OTHER -> Describe[Head(Top.items)].development
MainCalls(pc) ==
  /\ Top.kind = "main" /\ setup.cmd # "upgrade"
  /\ \/ /\ pc = "local" /\ Top.pc = "enter" /\ IsLocal
        /\ Manifests[Top.n] \in setup.manifests
     \/ pc = "localDev" /\ Top.pc = "local" /\ Top.rc # -1 /\ Options.dev
     \/ pc = "argumentDev" /\ Top.pc = "argument" /\ Top.rc = 0 /\ HasDevelopment
  /\ Calls(pc, Top.call, List(NewList(pc), "deps")) /\ NewList(pc) \in Seq(Packages)
  /\ Kept /\ UNCHANGED <<refs, visited, results, exit>>
TakesSecond(f) ==
  /\ f.items = Top.items /\ Top.n = 1 /\ f.n = 2
  /\ setup.args = <<>> \/ (Top.items # <<>> /\ Head(Top.items) = Here)
  /\ \/ Top.pc = "enter" /\ Manifests[1] \notin setup.manifests
     \/ Top.pc \in {"local", "localDev"} /\ Top.rc = -1
  /\ UNCHANGED <<saved, freed>>
LocalEnds(f) ==
  /\ setup.args # <<>> /\ Top.items # <<>> /\ Head(Top.items) \in {Here, File}
  /\ f.items = Tail(Top.items) /\ f.n = 1
  /\ \/ Top.pc = "enter" /\ Manifests[Top.n] \notin setup.manifests /\ Top.n >= Tried
     \/ Top.pc \in {"local", "localDev"} /\ Top.rc = -1 /\ Top.n >= Tried
     \/ Top.pc = "local" /\ Top.rc # -1 /\ ~Options.dev
     \/ Top.pc = "localDev" /\ Top.rc # -1
  /\ UNCHANGED <<saved, freed>>
ArgumentEnds(f) ==
  /\ Top.items # <<>> /\ Head(Top.items) \in Packages
  /\ f.items = Tail(Top.items) /\ f.n = Top.n
  /\ Top.pc \in {"argument", "argumentDev"} /\ Top.rc # -1
  /\ freed' \subseteq freed \cup {Top.call}
  /\ Top.rc = 0 => /\ Top.pc = "argument" => ~HasDevelopment
                   /\ saved' = IF Options.save THEN saved \cup {Head(Top.items)} ELSE saved
  /\ Top.rc # 0 => saved' = saved
MainPasses(f) ==
  /\ Top.kind = "main" /\ setup.cmd # "upgrade"
  /\ Moves(f) /\ f.kind = "main" /\ f.pc = "enter"
  /\ TakesSecond(f) \/ LocalEnds(f) \/ ArgumentEnds(f)
  /\ UNCHANGED <<setup, refs, visited, results, exit, runs>>
\* main comes to its end with 0.
Finished ==
  \/ setup.args # <<>> /\ Top.pc = "enter" /\ Top.items = <<>>
  \/ setup.args = <<>> /\ Top.pc = "local" /\ Top.rc # -1 /\ ~Options.dev
  \/ setup.args = <<>> /\ Top.pc = "localDev" /\ Top.rc # -1
  \/ setup.cmd = "upgrade" /\ Top.pc = "upgraded" /\ Top.rc = 0
MainExits ==
  /\ Top.kind = "main"
  /\ \E rc \in Codes : exit' = [how |-> "returned", rc |-> rc]
  /\ fetch' = <<>> /\ damaged' = damaged \cup Arriving
  /\ Top.pc \in {"argument", "argumentDev", "upgraded"} \/ freed' = freed
  /\ freed' \subseteq freed \cup {Top.call}
  /\ UNCHANGED <<setup, disk, refs, stack, visited, results, saved, cache, runs>>
MainShape ==
  \/ \E pc, dir : PackageCalled(pc, dir)
  \/ \E pc : MainCalls(pc)
  \/ \E f \in FrameType : MainPasses(f)
  \/ MainExits /\ (exit'.rc = 0 => Finished)
  \/ Overflows

LEMMA OtherTop ==
  ASSUME TypeOK, StackInv, Top.kind \in {"list", "main"}
  PROVE  /\ Top \in FrameType /\ FrameInv(Top) /\ Len(stack) \in Nat \ {0}
         /\ Top.kind = "main" <=> Len(stack) = 1
         /\ Top.kind = "list" => Len(stack) > 1
         /\ Top.items # <<>> => Head(Top.items) \in Arguments /\ Tail(Top.items) \in Seq(Arguments)
<1>1. Len(stack) \in Nat \ {0} /\ Top \in FrameType
  BY StackTop DEF TypeOK
<1>2. FrameInv(Top) /\ (Top.kind = "main" <=> Len(stack) = 1)
  <2>1. Top = stack[Len(stack)] /\ Len(stack) \in 1..Len(stack)
    BY <1>1 DEF Top
  <2> QED
    BY <2>1 DEF StackInv
<1>3. Top.kind = "list" => Len(stack) > 1
  <2>1. \A m \in Nat \ {0} : m # 1 => m > 1
    OBVIOUS
  <2> QED
    BY <1>1, <1>2, <2>1
<1>4. Top.items # <<>> => Head(Top.items) \in Arguments /\ Tail(Top.items) \in Seq(Arguments)
  <2>1. Top.items \in Seq(Arguments)
    BY <1>1 DEF FrameType
  <2> QED
    BY <2>1
<1> QED
  BY <1>1, <1>2, <1>3, <1>4

LEMMA InstallCalls ==
  ASSUME TypeOK, NEW p \in Packages, NEW dir \in Dirs, NEW pc \in Spots, Install(p, dir, pc)
  PROVE  \/ /\ Calls(pc, Len(refs) + 1, Call("package", p, <<>>, dir, Len(refs) + 1))
            /\ exit' = exit
         \/ exit' = [how |-> "overflow", rc |-> 1] /\ stack' = stack
<1>1. Top \in FrameType /\ Len(stack) \in Nat \ {0} /\ stack \in Seq(FrameType)
  BY StackTop DEF TypeOK, StackType
<1> DEFINE c == Len(refs) + 1
           f == Call("package", p, <<>>, dir, c)
           b == [Top EXCEPT !.pc = pc, !.call = c]
<1>2. c \in Nat
  BY DEF TypeOK, CallsType
<1>3. CASE Len(stack) < StackLimit
  <2>1. /\ stack' = Append([stack EXCEPT ![Len(stack)].pc = pc, ![Len(stack)].call = c], f)
        /\ exit' = exit
    BY <1>3 DEF Install
  <2> HIDE DEF c
  <2>2. [stack EXCEPT ![Len(stack)].pc = pc, ![Len(stack)].call = c] = [stack EXCEPT ![Len(stack)] = b]
    BY <1>1 DEF Top, FrameType
  <2>3. b \in FrameType
    BY <1>1, <1>2 DEF FrameType
  <2>6. f \in FrameType
    BY <1>2, NewFrames
  <2> HIDE DEF b, f
  <2>4. stack' = Append([stack EXCEPT ![Len(stack)] = b], f)
    BY <2>1, <2>2
  <2>5. /\ stack' \in Seq(FrameType) /\ Len(stack') = Len(stack) + 1
        /\ Same(Len(stack) - 1) /\ stack'[Len(stack)] = b /\ Top' = f
    BY <2>3, <2>4, <2>6, AppendCalls DEF TypeOK
  <2> QED
    BY <2>1, <2>5 DEF Calls, b, f, c
<1>4. CASE ~(Len(stack) < StackLimit)
  BY <1>4 DEF Install, Overflow
<1> QED
  BY <1>3, <1>4

LEMMA ListShapes ==
  ASSUME TypeOK, StackInv, ListStep
  PROVE  ListShape
<1> USE DEF At
<1>1. Top.kind = "list"
  BY DEF ListStep, ListNext, ListUnknown, ListEnd, ListInstalled, ListFailed
<1>2. Top \in FrameType /\ FrameInv(Top) /\ Len(stack) > 1
  BY <1>1, OtherTop
<1>3. Top.items \in Seq(Packages) /\ Top.done \subseteq DOMAIN results
  BY <1>1, <1>2 DEF FrameInv, FrameOK
<1>4. ASSUME NEW rc \in {0, -1}, ListReturns(rc),
             \/ rc = 0 /\ Top.pc = "enter" /\ Top.items = <<>>
             \/ rc = -1 /\ Top.pc = "enter" /\ setup.faults # {}
             \/ rc = -1 /\ Top.pc = "installed" /\ Top.rc = -1
      PROVE  ListShape
  <2>1. rc \in Codes
    BY DEF Codes
  <2>2. Returns(rc)
    BY <1>2, <1>4, <2>1, ReturnReturns DEF ListReturns, TypeOK
  <2>3. freed' \subseteq freed \cup Top.done
    BY <1>4 DEF ListReturns, Free
  <2>4. ListEnds(rc)
    BY <1>1, <1>4, <2>2, <2>3 DEF ListReturns, ListEnds, KeepRest
  <2> QED
    BY <2>1, <2>4 DEF ListShape
<1>5. CASE ListNext
  <2>1. Top.items # <<>> /\ Top.pc = "enter" /\ Install(Head(Top.items), Top.dir, "installed")
    BY <1>5 DEF ListNext
  <2>2. Head(Top.items) \in Packages /\ Top.dir \in Dirs /\ "installed" \in Spots
    BY <1>2, <1>3, <2>1 DEF FrameType, Spots, ListPlaces
  <2>3. Kept /\ refs' = Append(refs, 0) /\ UNCHANGED <<visited, results>>
    BY <1>5, <2>1 DEF ListNext, Install, KeepRest, Kept
  <2>4. CASE exit' = [how |-> "overflow", rc |-> 1] /\ stack' = stack
    BY <2>1, <2>3, <2>4 DEF ListShape, Overflows
  <2>5. CASE /\ Calls("installed", Len(refs) + 1, Call("package", Head(Top.items), <<>>, Top.dir, Len(refs) + 1))
             /\ exit' = exit
    <3>1. PackageCalled("installed", Top.dir)
      BY <1>1, <2>1, <2>2, <2>3, <2>5 DEF PackageCalled
    <3> QED
      BY <3>1 DEF ListShape
  <2> QED
    BY <2>1, <2>2, <2>4, <2>5, InstallCalls
<1>6. CASE ListUnknown
  BY <1>4, <1>6 DEF ListUnknown, Faulty
<1>7. CASE ListEnd
  BY <1>4, <1>7 DEF ListEnd
<1>8. CASE ListInstalled
  <2> DEFINE f == [Top EXCEPT !.pc = "enter", !.items = Tail(@), !.done = @ \cup {Top.call}]
  <2>1. Top.pc = "installed" /\ Top.rc # -1 /\ Become(f)
    BY <1>8 DEF ListInstalled, EndsList
  <2>2. f \in FrameType
    <3>1. Top.items # <<>> /\ Top.items \in Seq(Arguments)
      BY <1>1, <1>2, <2>1 DEF FrameInv, FrameOK, FrameType
    <3>2. Tail(Top.items) \in Seq(Arguments) /\ "enter" \in Spots
      BY <3>1 DEF Spots, ListPlaces
    <3> QED
      BY <1>2, <3>2 DEF FrameType
  <2> HIDE DEF f
  <2>3. Moves(f)
    BY <2>1, <2>2, BecomeMoves DEF TypeOK
  <2>4. ListPasses
    BY <1>1, <1>8, <2>1, <2>3 DEF ListInstalled, ListPasses, KeepFetch, fetchVars, KeepRest, Kept, f
  <2> QED
    BY <2>4 DEF ListShape
<1>9. CASE ListFailed
  BY <1>4, <1>9 DEF ListFailed, EndsList
<1> QED
  BY <1>5, <1>6, <1>7, <1>8, <1>9 DEF ListStep

LEMMA ListCalled ==
  ASSUME TypeOK, StackInv, Top.kind = "main", setup.cmd # "upgrade",
         NEW pc \in {"local", "localDev", "argumentDev"}, NEW ps \in Seq(Packages),
         Invoke(List(ps, "deps"), pc), ps = NewList(pc),
         \/ pc = "local" /\ Top.pc = "enter" /\ IsLocal /\ Manifests[Top.n] \in setup.manifests
         \/ pc = "localDev" /\ Top.pc = "local" /\ Top.rc # -1 /\ Options.dev
         \/ pc = "argumentDev" /\ Top.pc = "argument" /\ Top.rc = 0 /\ HasDevelopment,
         Kept, UNCHANGED <<refs, visited, results>>
  PROVE  MainShape
<1>1. pc \in Spots /\ "deps" \in Dirs
  BY DEF Spots, MainPlaces, Dirs
<1>2. CASE Calls(pc, Top.call, List(ps, "deps")) /\ exit' = exit
  <2>1. MainCalls(pc)
    BY <1>2 DEF MainCalls
  <2> QED
    BY <2>1 DEF MainShape
<1>3. CASE exit' = [how |-> "overflow", rc |-> 1] /\ stack' = stack
  BY <1>3 DEF MainShape, Overflows
<1> QED
  BY <1>1, <1>2, <1>3, InvokeCalls

LEMMA Exits ==
  ASSUME TypeOK, StackInv, Top.kind = "main", NEW rc \in Codes, Exit(rc), KeepRest, saved' = saved,
         rc = 0 => Finished,
         freed' = freed \/ (Free({Top.call}) /\ Top.pc \in {"argument", "argumentDev", "upgraded"})
  PROVE  MainShape
<1>1. freed' \subseteq freed \cup {Top.call}
  BY DEF Free
<1>2. MainExits /\ (exit'.rc = 0 => Finished)
  BY <1>1 DEF MainExits, Exit, KeepRest
<1> QED
  BY <1>2 DEF MainShape

LEMMA MainShapes ==
  ASSUME TypeOK, StackInv, MainStep
  PROVE  MainShape
<1> USE DEF At
<1>1. Top.kind = "main" /\ (setup.cmd = "upgrade" \/ (setup.cmd # "upgrade" /\ (Local \/ Argument \/ ArgumentsDone)))
  BY DEF MainStep, InstallLocal, InstallPackage, InstallPackages, UpdateLocal, UpdatePackage,
         UpdatePackages, Upgrade, UpgradePackage, Local, LocalManifest, LocalFailed, LocalInstalled,
         LocalDone, Argument, ArgumentNext, ArgumentUnknown, ArgumentDevelopment, ArgumentInstalled,
         ArgumentFailed, ArgumentsDone
<1>2. Top \in FrameType /\ FrameInv(Top)
  BY <1>1, OtherTop
<1>3. /\ Top.items # <<>> => Head(Top.items) \in Arguments /\ Tail(Top.items) \in Seq(Arguments)
      /\ setup.dependencies \in Seq(Packages) /\ setup.development \in Seq(Packages)
      /\ \A p \in Packages : Describe[p].development \in Seq(Packages)
  BY <1>1, OtherTop, Setup, Constants DEF TypeOK, CallsType
<1>4. {0, 1, -1} \subseteq Codes
  BY DEF Codes
<1>5. {"argument", "upgraded", "enter"} \subseteq Spots /\ {"deps", "tmp"} \subseteq Dirs
  BY DEF Spots, MainPlaces, Dirs
<1>6. ASSUME NEW pc \in Spots, NEW dir \in Dirs, Top.pc = "enter", Top.items # <<>>,
             Head(Top.items) \in Packages, Install(Head(Top.items), dir, pc),
             \/ pc = "argument" /\ setup.cmd # "upgrade"
             \/ pc = "upgraded" /\ setup.cmd = "upgrade",
             KeepRest, UNCHANGED <<visited, results, saved>>
      PROVE  MainShape
  <2>1. Kept /\ refs' = Append(refs, 0) /\ UNCHANGED <<visited, results>>
    BY <1>6 DEF Install, KeepRest, Kept
  <2>2. CASE exit' = [how |-> "overflow", rc |-> 1] /\ stack' = stack
    BY <1>6, <2>1, <2>2 DEF MainShape, Overflows
  <2>3. CASE /\ Calls(pc, Len(refs) + 1, Call("package", Head(Top.items), <<>>, dir, Len(refs) + 1))
             /\ exit' = exit
    <3>1. PackageCalled(pc, dir)
      BY <1>1, <1>6, <2>1, <2>3 DEF PackageCalled
    <3> QED
      BY <3>1 DEF MainShape
  <2> QED
    BY <1>6, <2>2, <2>3, InstallCalls
<1>7. ASSUME NEW f \in FrameType, Become(f), f.kind = "main", f.pc = "enter", setup.cmd # "upgrade",
             TakesSecond(f) \/ LocalEnds(f) \/ ArgumentEnds(f),
             UNCHANGED <<setup, refs, visited, results, exit, runs>>
      PROVE  MainShape
  <2>1. Moves(f)
    BY <1>7, BecomeMoves DEF TypeOK
  <2>2. MainPasses(f)
    BY <1>1, <1>7, <2>1 DEF MainPasses
  <2> QED
    BY <2>2 DEF MainShape
\* The end of an argument that is no package.
<1>8. ASSUME NEW rc \in {0, 1}, LocalReturns(rc), KeepRest, UNCHANGED <<freed, saved>>, setup.cmd # "upgrade",
             setup.args = <<>> \/ (Top.items # <<>> /\ Head(Top.items) \in {Here, File}),
             \/ Top.pc = "enter" /\ Manifests[Top.n] \notin setup.manifests /\ Top.n >= Tried
             \/ Top.pc \in {"local", "localDev"} /\ Top.rc = -1 /\ Top.n >= Tried
             \/ Top.pc = "local" /\ Top.rc # -1 /\ ~Options.dev
             \/ Top.pc = "localDev" /\ Top.rc # -1,
             rc = 0 => Top.pc \in {"local", "localDev"} /\ Top.rc # -1 /\ (Top.pc = "local" => ~Options.dev)
      PROVE  MainShape
  <2>1. CASE setup.args = <<>>
    <3>1. rc = 0 => Finished
      BY <1>8, <2>1 DEF Finished
    <3> QED
      BY <1>1, <1>4, <1>8, <2>1, <3>1, Exits DEF LocalReturns
  <2>2. CASE setup.args # <<>>
    <3> DEFINE f == [Top EXCEPT !.pc = "enter", !.items = Tail(@), !.n = 1]
    <3>1. Become(f) /\ KeepProcess
      BY <1>8, <2>2 DEF LocalReturns
    <3>2. f \in FrameType /\ f.kind = "main" /\ f.pc = "enter" /\ f.items = Tail(Top.items) /\ f.n = 1
      <4>1. f = [Top EXCEPT !.pc = "enter", !.items = Tail(Top.items), !.n = 1]
        BY <1>2 DEF FrameType
      <4>2. Tail(Top.items) \in Seq(Arguments) /\ "enter" \in Spots /\ 1 \in Nat \ {0}
        BY <1>3, <1>5, <1>8, <2>2
      <4> HIDE DEF f
      <4> QED
        BY <1>1, <1>2, <4>1, <4>2 DEF FrameType
    <3> HIDE DEF f
    <3>3. LocalEnds(f)
      BY <1>8, <2>2, <3>2 DEF LocalEnds
    <3> QED
      BY <1>7, <1>8, <3>1, <3>2, <3>3 DEF KeepProcess, KeepRest
  <2> QED
    BY <2>1, <2>2
<1>9. ASSUME setup.cmd # "upgrade", LocalManifest PROVE MainShape
  <2>1. NewList("local") = setup.dependencies
    BY DEF NewList
  <2> QED
    BY <1>1, <1>3, <1>9, <2>1, ListCalled DEF LocalManifest, KeepFetch, fetchVars, KeepRest, Kept
<1>10. ASSUME setup.cmd # "upgrade", LocalFailed PROVE MainShape
  <2>1. setup.args = <<>> \/ (Top.items # <<>> /\ Head(Top.items) \in {Here, File})
    BY <1>1, <1>2, <1>10 DEF LocalFailed, IsLocal, FrameInv, FrameOK
  <2>2. \/ Top.pc = "enter" /\ Manifests[Top.n] \notin setup.manifests
        \/ Top.pc \in {"local", "localDev"} /\ Top.rc = -1
    BY <1>10 DEF LocalFailed
  <2>3. Top.n \in 1..2 /\ Len(Manifests) = 2 /\ Tried \in 1..2
    BY <1>1, <1>2 DEF FrameInv, FrameOK, Manifests, Tried
  <2>4. CASE Top.n < Tried
    <3> DEFINE f == [Top EXCEPT !.n = @ + 1, !.pc = "enter"]
    <3>1. Become(f) /\ KeepProcess
      BY <1>10, <2>4 DEF LocalFailed
    <3>2. Top.n = 1 /\ Tried = 2
      BY <2>3, <2>4
    <3>3. f \in FrameType /\ f.kind = "main" /\ f.pc = "enter" /\ f.items = Top.items /\ f.n = 2
      <4>1. f = [Top EXCEPT !.n = 2, !.pc = "enter"]
        BY <1>2, <3>2 DEF FrameType
      <4>2. "enter" \in Spots /\ 2 \in Nat \ {0}
        BY <1>5
      <4> HIDE DEF f
      <4> QED
        BY <1>1, <1>2, <4>1, <4>2 DEF FrameType
    <3>4. setup.args # <<>> => Head(Top.items) # File
      BY <3>2 DEF Tried
    <3> HIDE DEF f
    <3>5. TakesSecond(f)
      BY <1>10, <2>1, <2>2, <3>2, <3>3, <3>4 DEF TakesSecond, LocalFailed
    <3> QED
      BY <1>7, <1>10, <3>1, <3>3, <3>5 DEF KeepProcess, KeepRest, LocalFailed
  <2>5. CASE ~(Top.n < Tried)
    <3>1. Top.n >= Tried
      BY <2>3, <2>5
    <3> QED
      BY <1>8, <1>10, <2>1, <2>2, <2>5, <3>1 DEF LocalFailed
  <2> QED
    BY <2>4, <2>5
<1>11. ASSUME setup.cmd # "upgrade", LocalInstalled PROVE MainShape
  <2>1. setup.args = <<>> \/ (Top.items # <<>> /\ Head(Top.items) \in {Here, File})
    BY <1>1, <1>2, <1>11 DEF LocalInstalled, FrameInv, FrameOK
  <2>2. CASE Options.dev
    <3>1. NewList("localDev") = setup.development
      BY DEF NewList
    <3> QED
      BY <1>1, <1>3, <1>11, <2>2, <3>1, ListCalled DEF LocalInstalled, KeepRest, Kept
  <2>3. CASE ~Options.dev
    BY <1>8, <1>11, <2>1, <2>3 DEF LocalInstalled
  <2> QED
    BY <2>2, <2>3
<1>12. ASSUME setup.cmd # "upgrade", LocalDone PROVE MainShape
  BY <1>1, <1>2, <1>8, <1>12 DEF LocalDone, FrameInv, FrameOK
<1>13. ASSUME setup.cmd # "upgrade", ArgumentNext PROVE MainShape
  <2>1. Top.items # <<>> /\ Head(Top.items) \in Packages
    BY <1>3, <1>13 DEF ArgumentNext, IsLocal, Arguments
  <2> QED
    BY <1>5, <1>6, <1>13, <2>1 DEF ArgumentNext
<1>14. ASSUME ArgumentUnknown PROVE MainShape
  BY <1>1, <1>4, <1>14, Exits DEF ArgumentUnknown
<1>15. ASSUME setup.cmd # "upgrade", ArgumentDevelopment PROVE MainShape
  <2>1. NewList("argumentDev") = Describe[Head(Top.items)].development
    BY DEF NewList
  <2>2. Head(Top.items) \in Packages
    BY <1>1, <1>2, <1>15 DEF ArgumentDevelopment, FrameInv, FrameOK
  <2> QED
    BY <1>1, <1>3, <1>15, <2>1, <2>2, ListCalled
       DEF ArgumentDevelopment, KeepFetch, fetchVars, KeepRest, Kept
<1>16. ASSUME Top.pc \in {"argument", "argumentDev"}
       PROVE  LET f == [Top EXCEPT !.pc = "enter", !.items = Tail(@)]
              IN /\ f \in FrameType /\ f.kind = "main" /\ f.pc = "enter"
                 /\ f.items = Tail(Top.items) /\ f.n = Top.n
                 /\ Top.items # <<>> /\ Head(Top.items) \in Packages
  <2>1. Top.items # <<>> /\ Head(Top.items) \in Packages
    BY <1>1, <1>2, <1>16 DEF FrameInv, FrameOK
  <2> QED
    BY <1>1, <1>2, <1>3, <1>5, <2>1 DEF FrameType
<1>17. ASSUME setup.cmd # "upgrade", ArgumentInstalled PROVE MainShape
  <2> DEFINE f == [Top EXCEPT !.pc = "enter", !.items = Tail(@)]
  <2>1. Top.pc \in {"argument", "argumentDev"} /\ Top.rc = 0 /\ (Top.pc = "argument" => ~HasDevelopment)
    BY <1>17 DEF ArgumentInstalled
  <2>2. /\ f \in FrameType /\ f.kind = "main" /\ f.pc = "enter"
        /\ f.items = Tail(Top.items) /\ f.n = Top.n
        /\ Top.items # <<>> /\ Head(Top.items) \in Packages
    BY <1>16, <2>1
  <2>3. Become(f)
    BY <1>17 DEF ArgumentInstalled
  <2> HIDE DEF f
  <2>4. ArgumentEnds(f)
    BY <1>17, <2>1, <2>2 DEF ArgumentInstalled, ArgumentEnds, Free
  <2> QED
    BY <1>7, <1>17, <2>2, <2>3, <2>4 DEF ArgumentInstalled, KeepProcess, KeepRest
<1>18. ASSUME setup.cmd # "upgrade", ArgumentFailed PROVE MainShape
  <2>1. Top.pc \in {"argument", "argumentDev"} /\ Top.rc # 0
    BY <1>18 DEF ArgumentFailed
  <2>2. CASE Top.rc = -1
    BY <1>1, <1>4, <1>18, <2>1, <2>2, Exits DEF ArgumentFailed
  <2>3. CASE Top.rc # -1
    <3> DEFINE f == [Top EXCEPT !.pc = "enter", !.items = Tail(@)]
    <3>2. /\ f \in FrameType /\ f.kind = "main" /\ f.pc = "enter"
          /\ f.items = Tail(Top.items) /\ f.n = Top.n
          /\ Top.items # <<>> /\ Head(Top.items) \in Packages
      BY <1>16, <2>1
    <3>3. Become(f) /\ KeepProcess /\ saved' = saved
      BY <1>18, <2>3 DEF ArgumentFailed
    <3> HIDE DEF f
    <3>4. ArgumentEnds(f)
      BY <1>18, <2>1, <2>3, <3>2, <3>3 DEF ArgumentFailed, ArgumentEnds, Free
    <3> QED
      BY <1>7, <1>18, <3>2, <3>3, <3>4 DEF ArgumentFailed, KeepProcess, KeepRest
  <2> QED
    BY <2>2, <2>3
<1>19. ASSUME ArgumentsDone PROVE MainShape
  BY <1>1, <1>4, <1>19, Exits DEF ArgumentsDone, Finished
<1>20. CASE setup.cmd = "upgrade"
  <2>1. UpgradePackage
    BY <1>20 DEF MainStep, InstallLocal, InstallPackage, InstallPackages, UpdateLocal,
                 UpdatePackage, UpdatePackages, Upgrade
  <2>2. Top.items # <<>> /\ Head(Top.items) \in Packages
    BY <1>1, <1>2, <1>20, Setup DEF FrameInv, FrameOK, TypeOK, CallsType
  <2>3. CASE Top.pc = "enter" /\ Install(Head(Top.items), "tmp", "upgraded") /\ KeepRest
             /\ UNCHANGED <<visited, results, saved>>
    BY <1>5, <1>6, <1>20, <2>2, <2>3
  <2>4. CASE Exit(-1) /\ KeepRest /\ UNCHANGED <<freed, saved>>
    BY <1>1, <1>4, <2>4, Exits
  <2>5. CASE Top.pc = "upgraded" /\ Free({Top.call}) /\ Exit(Top.rc) /\ KeepRest /\ UNCHANGED saved
    <3>1. Top.rc \in Codes /\ (Top.rc = 0 => Finished)
      BY <1>2, <1>20, <2>5 DEF FrameType, Finished
    <3> QED
      BY <1>1, <2>5, <3>1, Exits
  <2> QED
    BY <2>1, <2>3, <2>4, <2>5 DEF UpgradePackage
<1> QED
  BY <1>1, <1>9, <1>10, <1>11, <1>12, <1>13, <1>14, <1>15, <1>17, <1>18, <1>19, <1>20
     DEF Local, Argument

-----------------------------------------------------------------------------
\* What a frame is in is not disturbed by what the others do.
LEMMA FrameStays ==
  ASSUME NEW f, NEW n \in Nat, NEW m \in Nat, n <= m, NEW R, NEW S, R \subseteq S, NEW s,
         FrameOK(f, n, R, s), f.kind = "package" => f.call \notin S
  PROVE  FrameOK(f, m, S, s)
BY DEF FrameOK, PackageInv

\* The invariant of the stack from what it says of its frames: a frame below
\* the last two is as before.
LEMMA MovedStack ==
  ASSUME TypeOK, StackInv, NEW f \in FrameType, Moves(f),
         setup' = setup, results' = results, Len(refs') \in Nat, Len(refs) <= Len(refs'),
         f.kind = Top.kind, f.call = Top.call, f.pkg = Top.pkg, FrameOK(f, Len(refs'), DOMAIN results', setup'), ~AwaitsPackage(f)
  PROVE  StackInv'
<1>1. PICK m \in Nat : m = Len(stack) /\ m # 0
  BY StackTop DEF TypeOK
<1>2. /\ Len(stack') = m /\ stack'[m] = f /\ Top = stack[m] /\ Top' = f
      /\ \A k \in 1..(m - 1) : stack'[k] = stack[k]
  BY <1>1 DEF Moves, Same, Top
<1>3. \A k \in 1..m : k = m \/ k \in 1..(m - 1)
  BY <1>1
<1>4. \A k \in 1..m : /\ stack'[k].kind = stack[k].kind /\ stack'[k].call = stack[k].call
                      /\ stack'[k].pkg = stack[k].pkg
  BY <1>2, <1>3
<1>5. \A k \in 1..m : stack[k].kind = "main" <=> k = 1
  BY <1>1 DEF StackInv
<1>6. \A k \in 1..m : FrameOK(stack'[k], Len(refs'), DOMAIN results', setup')
  <2>1. Len(refs) \in Nat
    BY DEF TypeOK, CallsType
  <2>2. \A k \in 1..(m - 1) : FrameOK(stack[k], Len(refs'), DOMAIN results', setup')
    <3>1. \A k \in 1..(m - 1) : FrameOK(stack[k], Len(refs), DOMAIN results, setup)
      BY <1>1 DEF StackInv, FrameInv
    <3>2. \A k \in 1..(m - 1) : stack[k].kind = "package" => stack[k].call \notin DOMAIN results
      BY <3>1 DEF FrameOK
    <3> QED
      BY <2>1, <3>1, <3>2, FrameStays
  <2> QED
    BY <1>2, <1>3, <2>2
<1>7. \A k \in 2..m : Below(stack'[k], stack'[k - 1])
  <2>1. \A k \in 2..m : Below(stack[k], stack[k - 1]) /\ k - 1 \in 1..(m - 1)
    BY <1>1 DEF StackInv
  <2>2. \A k \in 2..m : /\ stack'[k].kind = stack[k].kind /\ stack'[k].call = stack[k].call
                        /\ stack'[k].pkg = stack[k].pkg /\ stack'[k - 1] = stack[k - 1]
    BY <1>1, <1>2, <1>4, <2>1
  <2> QED
    BY <2>1, <2>2 DEF Below
<1>8. \A j, k \in 1..m : IsPackage(j)' /\ IsPackage(k)' /\ j < k => stack'[j].call < stack'[k].call
  BY <1>1, <1>4 DEF StackInv, IsPackage
<1> QED
  BY <1>2, <1>4, <1>5, <1>6, <1>7, <1>8 DEF StackInv, FrameInv

\* The frames b, which waits at a call, and f, the call, are what they should.
Fits(b, f) ==
  /\ b \in FrameType /\ f \in FrameType
  /\ b.kind = Top.kind /\ b.pkg = Top.pkg /\ (Top.kind = "package" => b.call = Top.call)
  /\ FrameOK(b, Len(refs'), DOMAIN results', setup')
  /\ FrameOK(f, Len(refs'), DOMAIN results', setup')
  /\ f.kind \in {"list", "package"} /\ f.pc = "enter"
  /\ Below(f, b) /\ (f.kind = "package" => f.call = Len(refs) + 1)
  /\ setup' = setup /\ results' = results /\ Len(refs') \in Nat /\ Len(refs) <= Len(refs')

LEMMA CalledStack ==
  ASSUME TypeOK, StackInv, NEW pc, NEW c, NEW f, NEW b, Calls(pc, c, f),
         b = [Top EXCEPT !.pc = pc, !.call = c], Fits(b, f)
  PROVE  StackInv'
<1> USE DEF Fits
<1>1. PICK m \in Nat : m = Len(stack) /\ m # 0
  BY StackTop DEF TypeOK
<1>2. /\ Len(stack') = m + 1 /\ stack'[m] = b /\ stack'[m + 1] = f /\ Top = stack[m] /\ Top' = f
      /\ \A k \in 1..(m - 1) : stack'[k] = stack[k]
  BY <1>1 DEF Calls, Same, Top
<1>3. \A k \in 1..(m + 1) : k = m \/ k = m + 1 \/ k \in 1..(m - 1)
  BY <1>1
<1>4. /\ b.kind = Top.kind /\ b.pkg = Top.pkg /\ (Top.kind = "package" => b.call = Top.call)
      /\ Top \in FrameType
  BY StackTop DEF FrameType, TypeOK
<1>5. /\ \A k \in 1..m : stack'[k].kind = stack[k].kind /\ stack'[k].pkg = stack[k].pkg
      /\ \A k \in 1..m : stack[k].kind = "package" => stack'[k].call = stack[k].call
  <2>1. \A k \in 1..m : k = m \/ k \in 1..(m - 1)
    BY <1>1
  <2>2. stack'[m].kind = stack[m].kind /\ stack'[m].pkg = stack[m].pkg
        /\ (stack[m].kind = "package" => stack'[m].call = stack[m].call)
    BY <1>2, <1>4
  <2> QED
    BY <1>2, <2>1, <2>2
<1>6. \A k \in 1..(m + 1) : stack'[k].kind = "main" <=> k = 1
  <2>1. \A k \in 1..m : stack'[k].kind = "main" <=> k = 1
    BY <1>1, <1>5 DEF StackInv
  <2> QED
    BY <1>1, <1>2, <1>3, <2>1
<1>7. \A k \in 1..(m + 1) : FrameOK(stack'[k], Len(refs'), DOMAIN results', setup')
  <2>1. Len(refs) \in Nat
    BY DEF TypeOK, CallsType
  <2>2. \A k \in 1..(m - 1) : FrameOK(stack[k], Len(refs'), DOMAIN results', setup')
    <3>1. \A k \in 1..(m - 1) : FrameOK(stack[k], Len(refs), DOMAIN results, setup)
      BY <1>1 DEF StackInv, FrameInv
    <3>2. \A k \in 1..(m - 1) : stack[k].kind = "package" => stack[k].call \notin DOMAIN results
      BY <3>1 DEF FrameOK
    <3> QED
      BY <2>1, <3>1, <3>2, FrameStays
  <2> QED
    BY <1>2, <1>3, <2>2
<1>8. \A k \in 2..(m + 1) : Below(stack'[k], stack'[k - 1])
  <2>1. \A k \in 2..m : Below(stack[k], stack[k - 1]) /\ k - 1 \in 1..(m - 1)
    BY <1>1 DEF StackInv
  <2>2. \A k \in 2..m : /\ stack'[k].kind = stack[k].kind /\ stack'[k].pkg = stack[k].pkg
                        /\ stack[k].kind = "package" => stack'[k].call = stack[k].call
                        /\ stack'[k - 1] = stack[k - 1]
    BY <1>1, <1>2, <1>5, <2>1
  <2>3. \A k \in 2..m : Below(stack'[k], stack'[k - 1])
    BY <2>1, <2>2 DEF Below
  <2>4. \A k \in 2..(m + 1) : k \in 2..m \/ (k = m + 1 /\ k - 1 = m)
    BY <1>1
  <2> QED
    BY <1>2, <2>3, <2>4
<1>9. \A j, k \in 1..(m + 1) :
        stack'[j].kind = "package" /\ stack'[k].kind = "package" /\ j < k => stack'[j].call < stack'[k].call
  <2>1. \A k \in 1..m : stack[k].kind = "package" => stack[k].call \in 1..Len(refs)
    BY <1>1 DEF StackInv, FrameInv, FrameOK
  <2>2. \A k \in 1..m : stack'[k].kind = "package" => stack'[k].call \in 1..Len(refs)
    BY <1>5, <2>1
  <2>3. f.kind = "package" => \A n \in 1..Len(refs) : n < f.call
    BY DEF TypeOK, CallsType
  <2>4. \A j, k \in 1..m :
          stack'[j].kind = "package" /\ stack'[k].kind = "package" /\ j < k => stack'[j].call < stack'[k].call
    BY <1>1, <1>5 DEF StackInv, IsPackage
  <2>5. \A j, k \in 1..(m + 1) : j < k => j \in 1..m /\ (k \in 1..m \/ k = m + 1)
    BY <1>1
  <2> QED
    BY <1>2, <2>2, <2>3, <2>4, <2>5
<1>10. ~AwaitsPackage(f)
  BY DEF AwaitsPackage
<1> QED
  BY <1>2, <1>6, <1>7, <1>8, <1>9, <1>10 DEF StackInv, FrameInv, IsPackage

LEMMA ReturnedStack ==
  ASSUME TypeOK, StackInv, NEW rc \in Codes, Returns(rc), setup' = setup, Len(refs') = Len(refs),
         \/ Top.kind = "list" /\ results' = results
         \/ /\ Top.kind = "package"
            /\ results' = [x \in DOMAIN results \cup {Top.call} |->
                             IF x = Top.call THEN rc ELSE results[x]]
  PROVE  StackInv'
<1>1. PICK m \in Nat : m = Len(stack) /\ m # 0
  BY StackTop DEF TypeOK
<1>2. PICK b \in FrameType : b = stack[m - 1]
  <2>1. Len(stack) > 1
    BY PackageTop, OtherTop
  <2>2. m - 1 \in 1..Len(stack)
    BY <1>1, <2>1
  <2> QED
    BY <2>2, StackTop DEF TypeOK
<1> DEFINE g == [b EXCEPT !.rc = rc]
<1>3. /\ Len(stack') = m - 1 /\ stack'[m - 1] = g /\ Top = stack[m] /\ Top' = g
      /\ \A k \in 1..(m - 2) : stack'[k] = stack[k]
      /\ m > 1
  <2>1. m > 1
    BY <1>1, PackageTop, OtherTop
  <2> QED
    BY <1>1, <1>2, <2>1 DEF Returns, Same, Top
<1>4. /\ g \in FrameType /\ g.kind = b.kind /\ g.pkg = b.pkg /\ g.call = b.call /\ g.pc = b.pc
      /\ g.items = b.items /\ g.n = b.n /\ g.i = b.i /\ g.done = b.done /\ g.rc = rc /\ g.dir = b.dir
  BY <1>2 DEF FrameType
<1> HIDE DEF g
<1>5. \A k \in 1..(m - 1) : k = m - 1 \/ k \in 1..(m - 2)
  BY <1>1
<1>6. \A k \in 1..(m - 1) : /\ stack'[k].kind = stack[k].kind /\ stack'[k].pkg = stack[k].pkg
                            /\ stack'[k].call = stack[k].call /\ stack'[k].pc = stack[k].pc
                            /\ stack'[k].items = stack[k].items
  BY <1>1, <1>2, <1>3, <1>4, <1>5
<1>7. \A k \in 1..(m - 1) : stack'[k].kind = "main" <=> k = 1
  BY <1>1, <1>6 DEF StackInv
<1>8. \A k \in 1..(m - 1) : FrameOK(stack'[k], Len(refs'), DOMAIN results', setup')
  <2>1. Len(refs) \in Nat
    BY DEF TypeOK, CallsType
  <2>2. \A k \in 1..(m - 1) : FrameOK(stack[k], Len(refs), DOMAIN results, setup)
    BY <1>1 DEF StackInv, FrameInv
  <2>3. \A k \in 1..(m - 1) : stack[k].kind = "package" => stack[k].call \notin DOMAIN results'
    <3>1. \A k \in 1..(m - 1) : stack[k].kind = "package" => stack[k].call \notin DOMAIN results
      BY <2>2 DEF FrameOK
    <3>2. \A k \in 1..(m - 1) : stack[k].kind = "package" /\ Top.kind = "package" => stack[k].call # Top.call
      <4>1. \A k \in 1..(m - 1) : k \in 1..m /\ m \in 1..m /\ k < m
        BY <1>1
      <4>2. \A k \in 1..(m - 1) : stack[k].kind = "package" /\ Top.kind = "package" => stack[k].call < Top.call
        BY <1>1, <1>3, <4>1 DEF StackInv, IsPackage
      <4>3. Top.call \in Nat
        BY StackTop DEF TypeOK, FrameType
      <4> QED
        BY <4>2, <4>3
    <3> QED
      BY <3>1, <3>2
  <2>4. DOMAIN results \subseteq DOMAIN results'
    OBVIOUS
  <2>5. \A k \in 1..(m - 1) : FrameOK(stack[k], Len(refs'), DOMAIN results', setup')
    BY <2>1, <2>2, <2>3, <2>4, FrameStays
  <2>6. FrameOK(g, Len(refs'), DOMAIN results', setup')
    <3>1. FrameOK(b, Len(refs'), DOMAIN results', setup')
      BY <1>2, <1>3, <2>5
    <3> QED
      BY <1>4, <3>1 DEF FrameOK, PackageInv
  <2> QED
    BY <1>3, <1>5, <2>5, <2>6
<1>9. \A k \in 2..(m - 1) : Below(stack'[k], stack'[k - 1])
  <2>1. \A k \in 2..(m - 1) : Below(stack[k], stack[k - 1]) /\ k - 1 \in 1..(m - 1) /\ k \in 1..(m - 1)
    BY <1>1 DEF StackInv
  <2> QED
    BY <1>6, <2>1 DEF Below, AwaitsPackage, AwaitsList
<1>10. \A j, k \in 1..(m - 1) :
        stack'[j].kind = "package" /\ stack'[k].kind = "package" /\ j < k => stack'[j].call < stack'[k].call
  BY <1>1, <1>6 DEF StackInv, IsPackage
<1>11. AwaitsPackage(g) => g.call \in DOMAIN results' /\ results'[g.call] = g.rc
  <2>1. Below(Top, b)
    <3>1. m \in 2..Len(stack)
      BY <1>1, <1>3
    <3> QED
      BY <1>2, <1>3, <3>1 DEF StackInv
  <2>2. AwaitsPackage(b) => ~AwaitsList(b)
    BY DEF AwaitsPackage, AwaitsList
  <2>3. AwaitsPackage(g) => AwaitsPackage(b)
    BY <1>4 DEF AwaitsPackage
  <2>4. AwaitsPackage(g) => Top.kind = "package" /\ b.call = Top.call
    BY <2>1, <2>2, <2>3 DEF Below
  <2> QED
    BY <1>4, <2>4
<1> QED
  BY <1>3, <1>7, <1>8, <1>9, <1>10, <1>11 DEF StackInv, FrameInv, IsPackage

\* The steps sorted, the stack keeps its invariant: one lemma for each of the
\* three kinds of call.
LEMMA RefsGrow ==
  ASSUME refs \in Seq(Int), RefsKept \/ refs' = refs \/ refs' = Append(refs, 0)
  PROVE  /\ Len(refs) \in Nat /\ Len(refs') \in Nat /\ Len(refs) <= Len(refs')
         /\ refs' \in Seq(Int)
<1>1. CASE RefsKept
  BY <1>1 DEF RefsKept
<1>2. CASE refs' = refs
  BY <1>2
<1>3. CASE refs' = Append(refs, 0)
  BY <1>3
<1> QED
  BY <1>1, <1>2, <1>3

LEMMA SameStack ==
  ASSUME TypeOK, StackInv, UNCHANGED <<stack, results, setup>>,
         Len(refs') \in Nat, Len(refs) <= Len(refs')
  PROVE  StackInv'
<1>1. \A k \in 1..Len(stack) : FrameOK(stack[k], Len(refs'), DOMAIN results', setup')
  <2>1. \A k \in 1..Len(stack) : FrameOK(stack[k], Len(refs), DOMAIN results, setup)
    BY DEF StackInv, FrameInv
  <2>2. \A k \in 1..Len(stack) : stack[k].kind = "package" => stack[k].call \notin DOMAIN results
    BY <2>1 DEF FrameOK
  <2>3. Len(refs) \in Nat
    BY DEF TypeOK, CallsType
  <2> QED
    BY <2>1, <2>2, <2>3, FrameStays
<1> QED
  BY <1>1 DEF StackInv, FrameInv, Top, IsPackage

LEMMA StackOfPackage ==
  ASSUME TypeOK, StackInv, PackageShape
  PROVE  StackInv'
<1>1. Len(refs) \in Nat /\ Len(refs') \in Nat /\ Len(refs) <= Len(refs') /\ setup' = setup
  <2>1. RefsKept \/ refs' = refs \/ refs' = Append(refs, 0)
    BY DEF PackageShape, PackageGoesOn, PackageEnters, PackageReturns, PackageCalls, Overflows
  <2>2. Len(refs) \in Nat /\ Len(refs') \in Nat /\ Len(refs) <= Len(refs')
    BY <2>1, RefsGrow DEF TypeOK, CallsType
  <2>3. setup' = setup
    BY DEF PackageShape, PackageGoesOn, PackageEnters, PackageReturns, PackageCalls, Overflows, Kept
  <2> QED
    BY <2>2, <2>3
<1>2. ASSUME NEW f \in FrameType, PackageGoesOn(f) PROVE StackInv'
  <2>1. FrameOK(f, Len(refs'), DOMAIN results', setup')
    <3>1. f.call \in 1..Len(refs') /\ f.call \notin DOMAIN results'
      BY <1>2, PackageTop DEF PackageGoesOn, RefsKept
    <3> QED
      BY <1>2, <3>1 DEF FrameOK, PackageGoesOn
  <2>2. ~AwaitsPackage(f)
    BY <1>2 DEF PackageGoesOn, AwaitsPackage
  <2> QED
    BY <1>1, <1>2, <2>1, <2>2, MovedStack DEF PackageGoesOn
<1>3. ASSUME NEW pc, PackageEnters(pc) PROVE StackInv'
  <2> DEFINE f == [Top EXCEPT !.pc = pc]
  <2>1. Top \in FrameType /\ PackageInv(Top) /\ Top.kind = "package"
        /\ Top.call \in 1..Len(refs) /\ Top.call \notin DOMAIN results
    BY <1>3, PackageTop DEF PackageEnters
  <2>2. pc \in Spots /\ pc \in {"configure", "makefile", "cache"} /\ pc \in PackagePlaces
    BY <1>3 DEF PackageEnters, Spots, PackagePlaces
  <2>3. /\ f \in FrameType /\ f.kind = Top.kind /\ f.pkg = Top.pkg /\ f.call = Top.call
        /\ f.pc = pc /\ f.i = Top.i /\ f.n = Top.n
    BY <2>1, <2>2 DEF FrameType
  <2>4. Top.i = 0 /\ Top.n = 1
    BY <1>3, <2>1 DEF PackageEnters, PackageInv, Early
  <2>5. PackageInv(f)
    BY <2>1, <2>2, <2>3, <2>4 DEF PackageInv, Looping
  <2>6. Moves(f) /\ refs' = refs /\ results' = results
    BY <1>3 DEF PackageEnters
  <2> HIDE DEF f
  <2>7. FrameOK(f, Len(refs'), DOMAIN results', setup')
    BY <2>1, <2>3, <2>5, <2>6 DEF FrameOK
  <2>8. ~AwaitsPackage(f)
    BY <2>1, <2>3 DEF AwaitsPackage
  <2> QED
    BY <1>1, <2>3, <2>6, <2>7, <2>8, MovedStack
<1>4. ASSUME NEW rc \in Codes, PackageReturns(rc) PROVE StackInv'
  BY <1>1, <1>4, ReturnedStack DEF PackageReturns, RefsKept
<1>5. ASSUME NEW pc, NEW dir \in Dirs, PackageCalls(pc, dir) PROVE StackInv'
  <2> DEFINE b == [Top EXCEPT !.pc = pc, !.call = Top.call]
             f == List(Info.dependencies, dir)
  <2>1. Top \in FrameType /\ PackageInv(Top) /\ Top.kind = "package"
        /\ Top.call \in 1..Len(refs) /\ Top.call \notin DOMAIN results /\ Info.dependencies \in Seq(Packages)
    BY <1>5, PackageTop DEF PackageCalls, Info
  <2>2. pc \in Spots /\ pc \in {"executable", "return"} /\ pc \in PackagePlaces
    BY <1>5 DEF PackageCalls, Spots, PackagePlaces
  <2>3. /\ b \in FrameType /\ b.kind = Top.kind /\ b.pkg = Top.pkg /\ b.call = Top.call
        /\ b.pc = pc /\ b.i = Top.i /\ b.n = Top.n
    BY <2>1, <2>2 DEF FrameType
  <2>4. f \in FrameType
    BY <2>1, NewFrames
  <2>5. f.kind = "list" /\ f.pc = "enter" /\ f.items \in Seq(Packages) /\ f.done = {}
    BY <2>1 DEF List, Call
  <2>6. Calls(pc, Top.call, f) /\ refs' = refs /\ results' = results
    BY <1>5 DEF PackageCalls
  <2>7. b = [Top EXCEPT !.pc = pc, !.call = Top.call]
    OBVIOUS
  <2> HIDE DEF b, f
  <2>8. PackageInv(b)
    BY <2>1, <2>2, <2>3 DEF PackageInv, Looping, Early
  <2>9. FrameOK(b, Len(refs'), DOMAIN results', setup') /\ FrameOK(f, Len(refs'), DOMAIN results', setup')
    BY <2>1, <2>3, <2>5, <2>6, <2>8 DEF FrameOK, ListPlaces
  <2>10. Below(f, b)
    BY <2>1, <2>2, <2>3, <2>5 DEF Below, AwaitsList
  <2> QED
    <3>1. Fits(b, f)
      BY <1>1, <2>3, <2>4, <2>5, <2>6, <2>9, <2>10 DEF Fits
    <3> QED
      BY <2>6, <2>7, <3>1, CalledStack, Zenon
<1>6. CASE Overflows
  BY <1>1, <1>6, SameStack DEF Overflows
<1> QED
  BY <1>2, <1>3, <1>4, <1>5, <1>6 DEF PackageShape

LEMMA StackOfCalled ==
  ASSUME TypeOK, StackInv, NEW pc, NEW dir, PackageCalled(pc, dir)
  PROVE  StackInv'
<1> DEFINE c == Len(refs) + 1
           b == [Top EXCEPT !.pc = pc, !.call = c]
           f == Call("package", Head(Top.items), <<>>, dir, c)
<1>1. /\ Top \in FrameType /\ FrameInv(Top) /\ Top.kind \in {"list", "main"}
      /\ Head(Top.items) \in Packages /\ dir \in Dirs /\ Top.items # <<>>
  BY OtherTop DEF PackageCalled
<1>2. pc \in Spots /\ pc \in {"installed", "argument", "upgraded"}
  BY DEF PackageCalled, Spots, ListPlaces, MainPlaces
<1>3. c \in Nat /\ Len(refs) \in Nat /\ Len(refs') = c /\ Len(refs') \in Nat /\ Len(refs) <= Len(refs')
  BY DEF PackageCalled, TypeOK, CallsType
<1>4. c \in 1..Len(refs') /\ c \notin DOMAIN results
  BY <1>3 DEF TypeOK, CallsType
<1>5. setup' = setup /\ results' = results /\ Calls(pc, c, f)
  BY DEF PackageCalled, Kept
<1> HIDE DEF c
<1>6. /\ b \in FrameType /\ b.kind = Top.kind /\ b.pkg = Top.pkg /\ b.call = c
      /\ b.pc = pc /\ b.i = Top.i /\ b.n = Top.n /\ b.items = Top.items /\ b.done = Top.done
  BY <1>1, <1>2, <1>3 DEF FrameType
<1>7. f \in FrameType
  BY <1>1, <1>3, NewFrames
<1>8. /\ f.kind = "package" /\ f.pc = "enter" /\ f.call = c /\ f.pkg = Head(Top.items)
      /\ f.i = 0 /\ f.n = 1
  BY DEF Call
<1>9. b = [Top EXCEPT !.pc = pc, !.call = c]
  OBVIOUS
<1> HIDE DEF b, f
<1>10. PackageInv(f)
  BY <1>1, <1>8 DEF PackageInv, PackagePlaces, Looping
<1>11. FrameOK(f, Len(refs'), DOMAIN results', setup')
  BY <1>4, <1>5, <1>8, <1>10 DEF FrameOK
<1>12. FrameOK(b, Len(refs'), DOMAIN results', setup')
  <2>1. FrameOK(Top, Len(refs), DOMAIN results, setup)
    BY <1>1 DEF FrameInv
  <2>2. CASE Top.kind = "list"
    <3>1. pc = "installed"
      BY <2>2 DEF PackageCalled
    <3> QED
      BY <1>1, <1>5, <1>6, <2>1, <2>2, <3>1 DEF FrameOK, ListPlaces
  <2>3. CASE Top.kind = "main"
    <3>1. /\ pc \in {"argument", "upgraded"} /\ (setup.cmd = "upgrade" => pc = "upgraded")
      BY <2>3 DEF PackageCalled
    <3> QED
      BY <1>1, <1>5, <1>6, <2>1, <2>3, <3>1 DEF FrameOK, MainPlaces
  <2> QED
    BY <1>1, <2>2, <2>3
<1>13. Below(f, b)
  <2>1. AwaitsPackage(b)
    BY <1>1, <1>6 DEF PackageCalled, AwaitsPackage
  <2> QED
    BY <1>6, <1>8, <2>1 DEF Below
<1>14. f.kind \in {"list", "package"} /\ (f.kind = "package" => f.call = Len(refs) + 1)
       /\ (Top.kind = "package" => c = Top.call)
  BY <1>1, <1>8 DEF c
<1> QED
  <2>1. Fits(b, f)
    BY <1>3, <1>5, <1>6, <1>7, <1>8, <1>11, <1>12, <1>13, <1>14 DEF Fits
  <2> QED
    BY <1>5, <1>9, <2>1, CalledStack, Zenon

LEMMA StackOfList ==
  ASSUME TypeOK, StackInv, ListShape
  PROVE  StackInv'
<1>1. ASSUME NEW pc, NEW dir, PackageCalled(pc, dir) PROVE StackInv'
  BY <1>1, StackOfCalled
<1>2. ASSUME NEW rc \in Codes, ListEnds(rc) PROVE StackInv'
  BY <1>2, ReturnedStack DEF ListEnds
<1>3. CASE ListPasses
  <2> DEFINE f == [Top EXCEPT !.pc = "enter", !.items = Tail(@), !.done = @ \cup {Top.call}]
  <2>1. /\ Top \in FrameType /\ FrameInv(Top) /\ Top.kind = "list" /\ Top.pc = "installed"
        /\ setup' = setup /\ refs' = refs /\ results' = results /\ Moves(f)
    BY <1>3, OtherTop DEF ListPasses, Kept
  <2>2. Top.items # <<>> /\ Top.items \in Seq(Packages) /\ Top.done \subseteq DOMAIN results
    BY <2>1 DEF FrameInv, FrameOK
  <2>3. Top.call \in DOMAIN results
    BY <2>1 DEF StackInv, AwaitsPackage
  <2>4. Tail(Top.items) \in Seq(Packages) /\ Tail(Top.items) \in Seq(Arguments)
    BY <2>2 DEF Arguments
  <2>5. "enter" \in Spots
    BY DEF Spots, ListPlaces
  <2>6. /\ f \in FrameType /\ f.kind = "list" /\ f.pc = "enter" /\ f.items = Tail(Top.items)
        /\ f.done = Top.done \cup {Top.call} /\ f.call = Top.call /\ f.pkg = Top.pkg
    BY <2>1, <2>4, <2>5 DEF FrameType
  <2> HIDE DEF f
  <2>7. FrameOK(f, Len(refs'), DOMAIN results', setup')
    BY <2>1, <2>2, <2>3, <2>4, <2>6 DEF FrameOK, ListPlaces
  <2>8. ~AwaitsPackage(f) /\ Len(refs') \in Nat /\ Len(refs) <= Len(refs')
    BY <2>1, <2>6 DEF AwaitsPackage, TypeOK, CallsType
  <2> QED
    BY <2>1, <2>6, <2>7, <2>8, MovedStack
<1>4. CASE Overflows
  BY <1>4, RefsGrow, SameStack DEF Overflows, Kept, TypeOK, CallsType
<1> QED
  BY <1>1, <1>2, <1>3, <1>4 DEF ListShape

LEMMA StackOfMain ==
  ASSUME TypeOK, StackInv, MainShape
  PROVE  StackInv'
<1>1. ASSUME NEW pc, NEW dir, PackageCalled(pc, dir) PROVE StackInv'
  BY <1>1, StackOfCalled
<1>2. ASSUME NEW pc, MainCalls(pc) PROVE StackInv'
  <2> DEFINE b == [Top EXCEPT !.pc = pc, !.call = Top.call]
             f == List(NewList(pc), "deps")
  <2>1. /\ Top \in FrameType /\ FrameInv(Top) /\ Top.kind = "main" /\ NewList(pc) \in Seq(Packages)
        /\ setup' = setup /\ refs' = refs /\ results' = results /\ Calls(pc, Top.call, f)
    BY <1>2, OtherTop DEF MainCalls, Kept
  <2>2. pc \in Spots /\ pc \in {"local", "localDev", "argumentDev"} /\ "deps" \in Dirs
    BY <1>2 DEF MainCalls, Spots, MainPlaces, Dirs
  <2>3. /\ b \in FrameType /\ b.kind = Top.kind /\ b.pkg = Top.pkg /\ b.call = Top.call
        /\ b.pc = pc /\ b.i = Top.i /\ b.n = Top.n /\ b.items = Top.items
    BY <2>1, <2>2 DEF FrameType
  <2>4. f \in FrameType
    BY <2>1, <2>2, NewFrames
  <2>5. f.kind = "list" /\ f.pc = "enter" /\ f.items \in Seq(Packages) /\ f.done = {}
    BY <2>1 DEF List, Call
  <2>6. b = [Top EXCEPT !.pc = pc, !.call = Top.call]
    OBVIOUS
  <2> HIDE DEF b, f
  <2>7. FrameOK(f, Len(refs'), DOMAIN results', setup')
    BY <2>5 DEF FrameOK, ListPlaces
  <2>8. FrameOK(b, Len(refs'), DOMAIN results', setup')
    <3>1. FrameOK(Top, Len(refs), DOMAIN results, setup)
      BY <2>1 DEF FrameInv
    <3>2. setup.cmd # "upgrade"
      BY <1>2 DEF MainCalls
    <3>3. CASE pc = "local"
      BY <1>2, <2>1, <2>3, <3>1, <3>2, <3>3 DEF FrameOK, MainPlaces, MainCalls, IsLocal
    <3>4. CASE pc = "localDev"
      <4>1. Top.pc = "local"
        BY <1>2, <3>4 DEF MainCalls
      <4> QED
        BY <2>1, <2>3, <3>1, <3>2, <3>4, <4>1 DEF FrameOK, MainPlaces
    <3>5. CASE pc = "argumentDev"
      <4>1. Top.pc = "argument"
        BY <1>2, <3>5 DEF MainCalls
      <4>2. Top.call \in DOMAIN results
        BY <2>1, <4>1 DEF StackInv, AwaitsPackage
      <4> QED
        BY <2>1, <2>3, <3>1, <3>2, <3>5, <4>1, <4>2 DEF FrameOK, MainPlaces
    <3> QED
      BY <2>2, <3>3, <3>4, <3>5
  <2>9. Below(f, b) /\ f.kind \in {"list", "package"} /\ (f.kind = "package" => f.call = Len(refs) + 1)
        /\ (Top.kind = "package" => Top.call = Top.call)
    BY <2>1, <2>2, <2>3, <2>5 DEF Below, AwaitsList
  <2>10. Len(refs') \in Nat /\ Len(refs) <= Len(refs')
    BY <2>1 DEF TypeOK, CallsType
  <2> QED
    <3>1. Fits(b, f)
      BY <2>1, <2>3, <2>4, <2>5, <2>7, <2>8, <2>9, <2>10 DEF Fits
    <3> QED
      BY <2>1, <2>6, <3>1, CalledStack, Zenon
<1>3. ASSUME NEW f \in FrameType, MainPasses(f) PROVE StackInv'
  <2>1. /\ Top \in FrameType /\ FrameInv(Top) /\ Top.kind = "main" /\ Len(stack) = 1
        /\ setup' = setup /\ refs' = refs /\ results' = results /\ Moves(f)
        /\ f.kind = "main" /\ f.pc = "enter" /\ setup.cmd # "upgrade"
    BY <1>3, OtherTop DEF MainPasses
  <2>2. FrameOK(Top, Len(refs), DOMAIN results, setup)
    BY <2>1 DEF FrameInv
  <2>3. f.n \in 1..2 /\ (f.n = 2 => setup.args = <<>> \/ (f.items # <<>> /\ Head(f.items) = Here))
    <3>1. CASE TakesSecond(f)
      BY <3>1 DEF TakesSecond
    <3>2. CASE LocalEnds(f)
      BY <3>2 DEF LocalEnds
    <3>3. CASE ArgumentEnds(f)
      <4>1. Head(Top.items) # Here
        BY <3>3, Constants DEF ArgumentEnds
      <4> QED
        BY <2>1, <2>2, <3>3, <4>1 DEF ArgumentEnds, FrameOK
    <3> QED
      BY <1>3, <3>1, <3>2, <3>3 DEF MainPasses
  <2>4. FrameOK(f, Len(refs'), DOMAIN results', setup')
    BY <2>1, <2>3 DEF FrameOK, MainPlaces
  <2>5. ~AwaitsPackage(f) /\ Len(refs') \in Nat /\ Len(refs) <= Len(refs')
    BY <2>1 DEF AwaitsPackage, TypeOK, CallsType
  <2>6. Len(stack') = 1 /\ Top' = f /\ stack' \in Seq(FrameType)
    BY <2>1 DEF Moves
  <2>7. stack'[1] = f
    BY <2>6 DEF Top
  <2> QED
    BY <2>1, <2>4, <2>5, <2>6, <2>7 DEF StackInv, FrameInv, IsPackage
<1>4. CASE MainExits
  BY <1>4, SameStack DEF MainExits, TypeOK, CallsType
<1>5. CASE Overflows
  BY <1>5, RefsGrow, SameStack DEF Overflows, Kept, TypeOK, CallsType
<1> QED
  BY <1>1, <1>2, <1>3, <1>4, <1>5 DEF MainShape

LEMMA StackTyped ==
  ASSUME TypeOK, StackInv, PackageShape \/ ListShape \/ MainShape
  PROVE  StackType'
<1>1. stack \in Seq(FrameType) /\ Len(stack) \in Nat \ {0}
  BY StackTop DEF TypeOK, StackType
<1>2. ASSUME NEW f, Moves(f) PROVE StackType'
  <2>1. stack' \in Seq(FrameType) /\ Len(stack') = Len(stack)
    BY <1>2 DEF Moves
  <2> QED
    BY <1>1, <2>1 DEF StackType
<1>3. ASSUME NEW pc, NEW c, NEW f, Calls(pc, c, f) PROVE StackType'
  <2>1. stack' \in Seq(FrameType) /\ Len(stack') = Len(stack) + 1
    BY <1>3 DEF Calls
  <2> QED
    BY <1>1, <2>1 DEF StackType
<1>4. ASSUME NEW rc, Returns(rc), Len(stack) > 1 PROVE StackType'
  <2>1. stack' \in Seq(FrameType) /\ Len(stack') = Len(stack) - 1
    BY <1>4 DEF Returns
  <2> QED
    BY <1>1, <1>4, <2>1 DEF StackType
<1>5. ASSUME stack' = stack PROVE StackType'
  BY <1>5 DEF TypeOK, StackType
<1>6. CASE PackageShape
  <2>1. ASSUME NEW f \in FrameType, PackageGoesOn(f) PROVE StackType'
    BY <1>2, <2>1 DEF PackageGoesOn
  <2>2. ASSUME NEW pc, PackageEnters(pc) PROVE StackType'
    BY <1>2, <2>2 DEF PackageEnters
  <2>3. ASSUME NEW rc \in Codes, PackageReturns(rc) PROVE StackType'
    BY <1>4, <2>3, PackageTop DEF PackageReturns
  <2>4. ASSUME NEW pc, NEW dir, PackageCalls(pc, dir) PROVE StackType'
    BY <1>3, <2>4 DEF PackageCalls
  <2> QED
    BY <1>5, <1>6, <2>1, <2>2, <2>3, <2>4 DEF PackageShape, Overflows
<1>7. ASSUME NEW pc, NEW dir, PackageCalled(pc, dir) PROVE StackType'
  BY <1>3, <1>7 DEF PackageCalled
<1>8. CASE ListShape
  <2>1. ASSUME NEW rc \in Codes, ListEnds(rc) PROVE StackType'
    BY <1>4, <2>1, OtherTop DEF ListEnds
  <2>2. CASE ListPasses
    BY <1>2, <2>2 DEF ListPasses
  <2> QED
    BY <1>5, <1>7, <1>8, <2>1, <2>2 DEF ListShape, Overflows
<1>9. CASE MainShape
  <2>1. ASSUME NEW pc, MainCalls(pc) PROVE StackType'
    BY <1>3, <2>1 DEF MainCalls
  <2>2. ASSUME NEW f, MainPasses(f) PROVE StackType'
    BY <1>2, <2>2 DEF MainPasses
  <2> QED
    BY <1>5, <1>7, <1>9, <2>1, <2>2 DEF MainShape, MainExits, Overflows
<1> QED
  BY <1>6, <1>8, <1>9

LEMMA CallsTyped ==
  ASSUME TypeOK, StackInv, PackageShape \/ ListShape \/ MainShape
  PROVE  CallsType'
<1>1. /\ setup \in Setups /\ refs \in Seq(Int) /\ visited \subseteq Packages /\ saved \subseteq Packages
      /\ DOMAIN results \subseteq 1..Len(refs) /\ \A c \in DOMAIN results : results[c] \in Codes
      /\ freed \subseteq DOMAIN results
      /\ exit \in [how : {"no", "returned", "overflow"}, rc : Codes] /\ runs \in Nat
  BY DEF TypeOK, CallsType
<1>2. \A rc \in Codes : [how |-> "returned", rc |-> rc] \in [how : {"no", "returned", "overflow"}, rc : Codes]
  OBVIOUS
<1>3. [how |-> "overflow", rc |-> 1] \in [how : {"no", "returned", "overflow"}, rc : Codes]
  BY DEF Codes
<1>4. ASSUME UNCHANGED <<setup, runs, results>>, refs' \in Seq(Int), Len(refs) \in Nat, Len(refs') \in Nat,
             Len(refs) <= Len(refs'), visited' \subseteq Packages, saved' \subseteq Packages,
             freed' \subseteq DOMAIN results,
             exit' \in [how : {"no", "returned", "overflow"}, rc : Codes]
      PROVE  CallsType'
  BY <1>1, <1>4 DEF CallsType
<1>5. CASE Overflows
  BY <1>1, <1>3, <1>4, <1>5, RefsGrow DEF Overflows, Kept
<1>6. CASE PackageShape
  <2>1. ASSUME NEW f \in FrameType, PackageGoesOn(f) PROVE CallsType'
    BY <1>1, <1>4, <2>1, RefsGrow DEF PackageGoesOn, Kept
  <2>2. ASSUME NEW pc, PackageEnters(pc) PROVE CallsType'
    BY <1>1, <1>4, <2>2, RefsGrow, PackageTop DEF PackageEnters, Kept
  <2>3. ASSUME NEW rc \in Codes, PackageReturns(rc) PROVE CallsType'
    <3>1. Top.call \in 1..Len(refs) /\ Len(refs') = Len(refs) /\ refs' \in Seq(Int)
      BY <2>3, PackageTop DEF PackageReturns, RefsKept
    <3>2. /\ DOMAIN results' = DOMAIN results \cup {Top.call}
          /\ \A c \in DOMAIN results' : results'[c] \in Codes
      BY <1>1, <2>3 DEF PackageReturns
    <3> QED
      BY <1>1, <2>3, <3>1, <3>2 DEF PackageReturns, Kept, CallsType
  <2>4. ASSUME NEW pc, NEW dir, PackageCalls(pc, dir) PROVE CallsType'
    BY <1>1, <1>4, <2>4, RefsGrow DEF PackageCalls, Kept
  <2> QED
    BY <1>5, <1>6, <2>1, <2>2, <2>3, <2>4 DEF PackageShape
<1>7. ASSUME NEW pc, NEW dir, PackageCalled(pc, dir) PROVE CallsType'
  BY <1>1, <1>4, <1>7, RefsGrow DEF PackageCalled, Kept
<1>8. CASE ListShape
  <2>1. ASSUME NEW rc \in Codes, ListEnds(rc) PROVE CallsType'
    <3>1. Top.done \subseteq DOMAIN results
      BY <2>1, OtherTop DEF ListEnds, FrameInv, FrameOK
    <3> QED
      BY <1>1, <1>4, <2>1, <3>1, RefsGrow DEF ListEnds
  <2>2. CASE ListPasses
    BY <1>1, <1>4, <2>2, RefsGrow DEF ListPasses, Kept
  <2> QED
    BY <1>5, <1>7, <1>8, <2>1, <2>2 DEF ListShape
<1>9. CASE MainShape
  <2>1. ASSUME NEW pc, MainCalls(pc) PROVE CallsType'
    BY <1>1, <1>4, <2>1, RefsGrow DEF MainCalls, Kept
  <2>2. ASSUME Top.kind = "main", Top.pc \in {"argument", "argumentDev", "upgraded"}
        PROVE  Top.call \in DOMAIN results
    BY <2>2, OtherTop DEF StackInv, AwaitsPackage, FrameInv, FrameOK
  <2>3. ASSUME NEW f, MainPasses(f) PROVE CallsType'
    <3>1. UNCHANGED <<setup, refs, visited, results, exit, runs>> /\ Top.kind = "main"
      BY <2>3 DEF MainPasses
    <3>2. freed' \subseteq DOMAIN results /\ saved' \subseteq Packages
      <4>1. CASE TakesSecond(f)
        BY <1>1, <4>1 DEF TakesSecond
      <4>2. CASE LocalEnds(f)
        BY <1>1, <4>2 DEF LocalEnds
      <4>3. CASE ArgumentEnds(f)
        <5>1. freed' \subseteq freed \cup {Top.call} /\ Top.call \in DOMAIN results
          BY <2>2, <3>1, <4>3 DEF ArgumentEnds
        <5>2. saved' \subseteq saved \cup {Head(Top.items)} /\ Head(Top.items) \in Packages
          BY <4>3 DEF ArgumentEnds
        <5> QED
          BY <1>1, <5>1, <5>2
      <4> QED
        BY <2>3, <4>1, <4>2, <4>3 DEF MainPasses
    <3> QED
      BY <1>1, <1>4, <3>1, <3>2, RefsGrow
  <2>4. CASE MainExits
    <3>1. freed' \subseteq DOMAIN results
      BY <1>1, <2>2, <2>4 DEF MainExits
    <3> QED
      BY <1>1, <1>2, <1>4, <2>4, <3>1, RefsGrow DEF MainExits
  <2> QED
    BY <1>5, <1>7, <1>9, <2>1, <2>3, <2>4 DEF MainShape
<1> QED
  BY <1>6, <1>8, <1>9

LEMMA OptionsStay ==
  ASSUME setup' = setup
  PROVE  Options' = Options /\ (\A what : Faulty(what)' <=> Faulty(what))
BY DEF Options, InstallOptions, UpdateOptions, UpgradeOptions, Faulty

\* Where the frame of a call of clib_package_install comes from.
Came(k) ==
  \/ /\ k \in 1..Len(stack) /\ stack[k].kind = "package"
     /\ stack'[k].pkg = stack[k].pkg /\ stack'[k].dir = stack[k].dir
     /\ stack'[k].call = stack[k].call /\ stack'[k].n >= stack[k].n
     /\ stack'[k].pc # "enter" =>
          \/ stack[k].pc # "enter"
          \/ k = Len(stack) /\ ~Visited /\ visited' = visited \cup {stack[k].pkg}
  \/ k = Len(stack) + 1 /\ stack'[k].pc = "enter" /\ stack'[k].call = Len(refs) + 1

LEMMA Frames ==
  ASSUME TypeOK, StackInv, PackageShape \/ ListShape \/ MainShape
  PROVE  /\ visited \subseteq visited' /\ setup' = setup
         /\ \A k \in 1..Len(stack') : stack'[k].kind = "package" => Came(k)
<1>1. PICK m \in Nat : m = Len(stack) /\ m # 0
  BY StackTop DEF TypeOK
<1>2. Top = stack[m] /\ Top \in FrameType /\ \A k \in 1..m : stack[k] \in FrameType
  BY <1>1, StackTop DEF TypeOK, Top
<1>3. \A k \in 1..m : k = m \/ k \in 1..(m - 1)
  BY <1>1
<1>4. visited \subseteq visited' /\ setup' = setup
  BY DEF PackageShape, PackageGoesOn, PackageEnters, PackageReturns, PackageCalls, Overflows, Kept,
         ListShape, ListEnds, ListPasses, PackageCalled, MainShape, MainCalls, MainPasses, MainExits
<1>5. \A k \in 1..m : stack[k].kind = "package" /\ stack'[k] = stack[k] => Came(k)
  <2>1. \A k \in 1..m : stack[k].n >= stack[k].n
    BY <1>2 DEF FrameType
  <2> QED
    BY <1>1, <2>1 DEF Came
<1>6. ASSUME NEW f \in FrameType, Moves(f),
             f.kind = "package" =>
               /\ Top.kind = "package" /\ f.pkg = Top.pkg /\ f.dir = Top.dir /\ f.call = Top.call
               /\ f.n >= Top.n
               /\ f.pc # "enter" => Top.pc # "enter" \/ (~Visited /\ visited' = visited \cup {Top.pkg})
      PROVE  \A k \in 1..Len(stack') : stack'[k].kind = "package" => Came(k)
  <2>1. Len(stack') = m /\ stack'[m] = f /\ \A k \in 1..(m - 1) : stack'[k] = stack[k]
    BY <1>1, <1>6 DEF Moves, Same, Top
  <2>2. stack'[m].kind = "package" => Came(m)
    BY <1>1, <1>2, <1>6, <2>1 DEF Came
  <2>3. \A k \in 1..(m - 1) : k \in 1..m
    BY <1>1
  <2>4. \A k \in 1..(m - 1) : stack'[k].kind = "package" => Came(k)
    BY <1>5, <2>1, <2>3
  <2> QED
    BY <1>3, <2>1, <2>2, <2>4
<1>7. ASSUME NEW pc, NEW c, NEW f, Calls(pc, c, f),
             f.kind = "package" => f.pc = "enter" /\ f.call = Len(refs) + 1,
             Top.kind = "package" => c = Top.call /\ Top.pc # "enter"
      PROVE  \A k \in 1..Len(stack') : stack'[k].kind = "package" => Came(k)
  <2>1. /\ Len(stack') = m + 1 /\ stack'[m] = [Top EXCEPT !.pc = pc, !.call = c] /\ stack'[m + 1] = f
        /\ \A k \in 1..(m - 1) : stack'[k] = stack[k]
    BY <1>1, <1>7 DEF Calls, Same, Top
  <2>2. /\ stack'[m].kind = Top.kind /\ stack'[m].pkg = Top.pkg /\ stack'[m].dir = Top.dir
        /\ stack'[m].call = c /\ stack'[m].n = Top.n /\ Top.n >= Top.n
    BY <1>2, <2>1 DEF FrameType
  <2>3. stack'[m].kind = "package" => Came(m)
    BY <1>1, <1>2, <1>7, <2>2 DEF Came
  <2>4. stack'[m + 1].kind = "package" => Came(m + 1)
    BY <1>1, <1>7, <2>1 DEF Came
  <2>5. \A k \in 1..(m - 1) : k \in 1..m
    BY <1>1
  <2>6. \A k \in 1..(m - 1) : stack'[k].kind = "package" => Came(k)
    BY <1>5, <2>1, <2>5
  <2>7. \A k \in 1..(m + 1) : k \in 1..(m - 1) \/ k = m \/ k = m + 1
    BY <1>1
  <2> QED
    BY <2>1, <2>3, <2>4, <2>6, <2>7
<1>8. ASSUME NEW rc, Returns(rc), m > 1
      PROVE  \A k \in 1..Len(stack') : stack'[k].kind = "package" => Came(k)
  <2>1. /\ Len(stack') = m - 1 /\ stack'[m - 1] = [stack[m - 1] EXCEPT !.rc = rc]
        /\ \A k \in 1..(m - 2) : stack'[k] = stack[k]
    BY <1>1, <1>8 DEF Returns, Same, Top
  <2>2. m - 1 \in 1..m
    BY <1>1, <1>8
  <2>3. /\ stack'[m - 1].kind = stack[m - 1].kind /\ stack'[m - 1].pkg = stack[m - 1].pkg
        /\ stack'[m - 1].dir = stack[m - 1].dir /\ stack'[m - 1].call = stack[m - 1].call
        /\ stack'[m - 1].n = stack[m - 1].n /\ stack'[m - 1].pc = stack[m - 1].pc
        /\ stack[m - 1].n >= stack[m - 1].n
    BY <1>2, <2>1, <2>2 DEF FrameType
  <2>4. stack'[m - 1].kind = "package" => Came(m - 1)
    BY <1>1, <2>2, <2>3 DEF Came
  <2>5. \A k \in 1..(m - 2) : k \in 1..m
    BY <1>1
  <2>6. \A k \in 1..(m - 2) : stack'[k].kind = "package" => Came(k)
    BY <1>5, <2>1, <2>5
  <2>7. \A k \in 1..(m - 1) : k \in 1..(m - 2) \/ k = m - 1
    BY <1>1
  <2> QED
    BY <2>1, <2>4, <2>6, <2>7
<1>9. ASSUME stack' = stack PROVE \A k \in 1..Len(stack') : stack'[k].kind = "package" => Came(k)
  BY <1>1, <1>5, <1>9
<1> DEFINE Goal == \A k \in 1..Len(stack') : stack'[k].kind = "package" => Came(k)
<1> SUFFICES Goal
  BY <1>4
<1>10. CASE PackageShape
  <2>1. ASSUME NEW f \in FrameType, PackageGoesOn(f) PROVE Goal
    BY <1>6, <2>1 DEF PackageGoesOn
  <2>2. ASSUME NEW pc, PackageEnters(pc) PROVE Goal
    <3> DEFINE f == [Top EXCEPT !.pc = pc]
    <3>1. pc \in Spots /\ pc # "enter"
      BY <2>2 DEF PackageEnters, Spots, PackagePlaces
    <3>2. f \in FrameType /\ f.kind = Top.kind /\ f.pkg = Top.pkg /\ f.dir = Top.dir /\ f.call = Top.call
          /\ f.n = Top.n /\ Top.n >= Top.n
      BY <1>2, <3>1 DEF FrameType
    <3>3. Moves(f) /\ Top.kind = "package" /\ ~Visited /\ visited' = visited \cup {Top.pkg}
      BY <2>2 DEF PackageEnters
    <3> HIDE DEF f
    <3>4. f.n >= Top.n
      BY <3>2
    <3> QED
      BY <1>6, <3>2, <3>3, <3>4
  <2>3. ASSUME NEW rc \in Codes, PackageReturns(rc) PROVE Goal
    BY <1>1, <1>8, <2>3, PackageTop DEF PackageReturns
  <2>4. ASSUME NEW pc, NEW dir, PackageCalls(pc, dir) PROVE Goal
    <3>1. List(Info.dependencies, dir).kind = "list"
      BY DEF List, Call
    <3>2. Calls(pc, Top.call, List(Info.dependencies, dir)) /\ Top.pc # "enter"
      BY <2>4 DEF PackageCalls
    <3> QED
      BY <1>7, <3>1, <3>2
  <2> QED
    <3>1. Overflows => stack' = stack
      BY DEF Overflows
    <3>2. Overflows => Goal
      BY <1>9, <3>1
    <3> HIDE DEF Goal
    <3> QED
      BY <1>10, <2>1, <2>2, <2>3, <2>4, <3>2 DEF PackageShape
<1>11. ASSUME NEW pc, NEW dir, PackageCalled(pc, dir) PROVE Goal
  <2> DEFINE f == Call("package", Head(Top.items), <<>>, dir, Len(refs) + 1)
  <2>1. f.pc = "enter" /\ f.call = Len(refs) + 1
    BY DEF Call
  <2>2. Calls(pc, Len(refs) + 1, f) /\ Top.kind # "package"
    BY <1>11 DEF PackageCalled
  <2> HIDE DEF f
  <2> QED
    BY <1>7, <2>1, <2>2
<1>12. CASE ListShape
  <2>1. ASSUME NEW rc \in Codes, ListEnds(rc) PROVE Goal
    BY <1>1, <1>8, <2>1, OtherTop DEF ListEnds
  <2>2. CASE ListPasses
    <3> DEFINE f == [Top EXCEPT !.pc = "enter", !.items = Tail(@), !.done = @ \cup {Top.call}]
    <3>1. Moves(f) /\ Top.kind = "list" /\ stack'[m] = f
      BY <1>1, <2>2 DEF ListPasses, Moves, Top
    <3>2. f.kind = "list"
      BY <1>2, <3>1 DEF FrameType
    <3>3. f \in FrameType
      BY <1>1, <3>1 DEF Moves
    <3>4. f.kind # "package"
      BY <3>2
    <3> HIDE DEF f
    <3> QED
      BY <1>6, <3>1, <3>3, <3>4
  <2>3. Overflows => stack' = stack
    BY DEF Overflows
  <2>4. Overflows => Goal
    BY <1>9, <2>3
  <2> HIDE DEF Goal
  <2> QED
    BY <1>11, <1>12, <2>1, <2>2, <2>4 DEF ListShape
<1>13. CASE MainShape
  <2>1. ASSUME NEW pc, MainCalls(pc) PROVE Goal
    <3>1. List(NewList(pc), "deps").kind = "list"
      BY DEF List, Call
    <3>2. Calls(pc, Top.call, List(NewList(pc), "deps")) /\ Top.kind # "package"
      BY <2>1 DEF MainCalls
    <3> QED
      BY <1>7, <3>1, <3>2
  <2>2. ASSUME NEW f \in FrameType, MainPasses(f) PROVE Goal
    BY <1>6, <2>2 DEF MainPasses
  <2>3. Overflows \/ MainExits => stack' = stack
    BY DEF Overflows, MainExits
  <2>4. Overflows \/ MainExits => Goal
    BY <1>9, <2>3
  <2> HIDE DEF Goal
  <2> QED
    BY <1>11, <1>13, <2>1, <2>2, <2>4 DEF MainShape
<1> QED
  BY <1>10, <1>12, <1>13

LEMMA NestStep ==
  ASSUME TypeOK, StackInv, NestInv, PackageShape \/ ListShape \/ MainShape
  PROVE  NestInv'
<1>1. visited \subseteq visited' /\ Options' = Options
      /\ \A k \in 1..Len(stack') : stack'[k].kind = "package" => Came(k)
  BY Frames, OptionsStay
<1>2. SUFFICES ASSUME ~Options.force
               PROVE  /\ \A k \in 1..Len(stack') : Entered(k)' => stack'[k].pkg \in visited'
                      /\ \A j, k \in 1..Len(stack') :
                           Entered(j)' /\ Entered(k)' /\ stack'[j].pkg = stack'[k].pkg => j = k
  BY <1>1 DEF NestInv
<1> DEFINE Old(k) == k \in 1..Len(stack) /\ Entered(k) /\ stack'[k].pkg = stack[k].pkg
           New(k) == k = Len(stack) /\ stack'[k].pkg = Top.pkg /\ Top.pkg \notin visited /\ Top.pkg \in visited'
<1>3. \A k \in 1..Len(stack') : Entered(k)' => Old(k) \/ New(k)
  BY <1>1, <1>2 DEF Came, Entered, IsPackage, Visited, Top
<1>4. \A k : Old(k) => stack'[k].pkg \in visited
  BY <1>2 DEF NestInv
<1>5. \A j, k : Old(j) /\ Old(k) /\ stack'[j].pkg = stack'[k].pkg => j = k
  BY <1>2 DEF NestInv
<1>6. \A k : New(k) => stack'[k].pkg \notin visited /\ stack'[k].pkg \in visited' /\ k = Len(stack)
  OBVIOUS
<1> HIDE DEF Old, New
<1> QED
  BY <1>1, <1>3, <1>4, <1>5, <1>6

-----------------------------------------------------------------------------
\* The same steps, sorted by what they do to threads, files and cache: nothing,
\* by a call that neither waits for threads nor copies files; nothing, inside
\* the loop over the sources; or a thread is started or joined, a call gives
\* up in the loop, files are copied from or to the cache, or the process ends.
Busy == Looping \cup {"joinMakefile", "copied", "saving"}
Idle(f) == f.kind = "package" => f.pc \notin Busy
Quiet == UNCHANGED <<disk, fetch, damaged, cache>>
Calm == Quiet /\ Idle(Top) /\ Idle(Top')
Stays ==
  /\ exit = Running /\ exit' = Running /\ results' = results
  /\ Top.kind = "package" /\ Top'.kind = "package" /\ Top'.pkg = Top.pkg
  /\ Top'.dir = Top.dir /\ Top'.call = Top.call
Loops ==
  /\ Quiet /\ Stays /\ {Top.pc, Top'.pc} \subseteq Looping
  /\ Top'.i = Top.i /\ Top'.n = Top.n
Starts(file, slot) ==
  /\ Stays /\ UNCHANGED <<disk, damaged, cache>>
  /\ fetch' = [t \in DOMAIN fetch \cup {<<Top.call, file>>} |->
                 IF t = <<Top.call, file>>
                 THEN [place |-> Place, slot |-> slot, pc |-> "look", read |-> 0]
                 ELSE fetch[t]]
  /\ \/ /\ file = Makefile /\ slot = -1 /\ Top'.n = Top.n
        /\ Top.pc = "startMakefile" /\ Top'.pc = "joinMakefile"
     \/ /\ file = Top.n /\ slot = Top.i /\ Top'.n = Top.n + 1
        /\ Top.pc = "start" /\ Top'.pc \in {"download", "batch"}
        /\ Top'.i = IF Top.i < Concurrency THEN Top.i + 1 ELSE Top.i
Joins(t) ==
  /\ Stays /\ UNCHANGED <<disk, damaged, cache>>
  /\ fetch[t].pc = "ended"
  /\ fetch' = [x \in DOMAIN fetch \ {t} |-> fetch[x]]
  /\ \/ t = <<Top.call, Makefile>> /\ Top.pc = "joinMakefile" /\ Top'.pc = "cache"
     \/ /\ t \in DOMAIN fetch /\ t[1] = Top.call /\ Top.pc \in {"batch", "last"} /\ Top'.pc = Top.pc
        /\ fetch[t].slot = Top.i - 1 /\ Top'.i = Top.i - 1 /\ Top'.n = Top.n
Abandons ==
  /\ Quiet /\ Top.kind = "package" /\ Top.pc = "start" /\ Faulty("thread") /\ Idle(Top')
  /\ results' = [c \in DOMAIN results \cup {Top.call} |-> IF c = Top.call THEN -1 ELSE results[c]]
Copies ==
  /\ Stays /\ Top.pc = "cache" /\ Top'.pc = "copied" /\ Cached(Top.pkg)
  /\ disk' = Write(Place, Overlay(OnDisk(Place), Cut(cache[Top.pkg].files)))
  /\ UNCHANGED <<fetch, damaged, cache>>
Loads ==
  /\ Stays /\ Top.pc = "copied" /\ Top'.pc = "configure"
  /\ disk' = Write(Place, Overlay(OnDisk(Place), cache[Top.pkg].files))
  /\ UNCHANGED <<fetch, damaged, cache>>
Misses ==
  /\ Stays /\ Top.pc = "cache" /\ Top'.pc = "download" /\ Top'.n = Top.n /\ Top'.i = Top.i
  /\ cache' = IF Cached(Top.pkg) THEN [cache EXCEPT ![Top.pkg] = NoEntry] ELSE cache
  /\ UNCHANGED <<disk, fetch, damaged>>
Saves ==
  /\ Stays /\ Top.pc = "last" /\ Top'.pc = "saving" /\ Top.i <= 0
  /\ cache' = [cache EXCEPT ![Top.pkg] =
                 [cached |-> TRUE, files |-> Cut(OnDisk(Place)), old |-> FALSE]]
  /\ UNCHANGED <<disk, fetch, damaged>>
Saved ==
  /\ Stays /\ Top.pc = "saving" /\ Top'.pc = "configure"
  /\ cache' = [cache EXCEPT ![Top.pkg].files = OnDisk(Place)]
  /\ UNCHANGED <<disk, fetch, damaged>>
DataShape ==
  \/ Calm \/ Loops \/ Abandons \/ Copies \/ Loads \/ Misses \/ Saves \/ Saved \/ MainExits
  \/ \E file, slot : Starts(file, slot)
  \/ \E t : Joins(t)

LEMMA ReturnIdle ==
  ASSUME TypeOK, StackInv, Len(stack) > 1, NEW rc, Returns(rc)
  PROVE  Idle(Top')
<1>1. PICK m \in Nat : m = Len(stack) /\ m > 1
  BY StackTop DEF TypeOK
<1>2. Below(stack[m], stack[m - 1]) /\ stack[m].kind # "main"
  <2>1. m \in 2..m /\ m \in 1..m /\ m # 1
    BY <1>1
  <2> QED
    BY <1>1, <2>1 DEF StackInv
<1>3. stack[m].kind \in {"main", "package", "list"} /\ stack[m - 1] \in FrameType
  <2>1. m \in 1..m /\ m - 1 \in 1..m
    BY <1>1
  <2> QED
    BY <1>1, <2>1, StackTop DEF TypeOK, FrameType
<1>4. AwaitsPackage(stack[m - 1]) \/ AwaitsList(stack[m - 1])
  BY <1>2, <1>3 DEF Below
<1>5. Top' = [stack[m - 1] EXCEPT !.rc = rc]
  BY <1>1 DEF Returns
<1>6. Top'.kind = stack[m - 1].kind /\ Top'.pc = stack[m - 1].pc
  BY <1>3, <1>5 DEF FrameType
<1> QED
  BY <1>4, <1>6 DEF Idle, Busy, Looping, AwaitsPackage, AwaitsList

LEMMA BecomeTop ==
  ASSUME StackType, NEW f, Become(f)
  PROVE  Top' = f
BY StackTop DEF Become, Top, StackType

LEMMA LeaveIdle ==
  ASSUME TypeOK, StackInv, Top.kind = "package", NEW rc \in Codes, Leave(rc)
  PROVE  Idle(Top')
<1>1. Len(stack) > 1 /\ Return(rc)
  BY PackageTop DEF Leave
<1>2. Returns(rc)
  BY <1>1, ReturnReturns DEF TypeOK
<1> QED
  BY <1>1, <1>2, ReturnIdle

LEMMA InvokeIdle ==
  ASSUME TypeOK, NEW ps \in Seq(Packages), NEW dir \in Dirs, NEW pc \in Spots,
         Invoke(List(ps, dir), pc), Idle(Top)
  PROVE  Idle(Top')
<1>1. CASE Calls(pc, Top.call, List(ps, dir))
  BY <1>1 DEF Calls, List, Call, Idle
<1>2. CASE stack' = stack
  BY <1>2 DEF Top
<1> QED
  BY <1>1, <1>2, InvokeCalls

LEMMA InstallIdle ==
  ASSUME TypeOK, NEW p \in Packages, NEW dir \in Dirs, NEW pc \in Spots, Install(p, dir, pc),
         Idle(Top)
  PROVE  Idle(Top')
<1> DEFINE c == Len(refs) + 1
<1>1. CASE Calls(pc, c, Call("package", p, <<>>, dir, c))
  BY <1>1 DEF Calls, Call, Idle, Busy, Looping
<1>2. CASE stack' = stack
  BY <1>2 DEF Top
<1> QED
  BY <1>1, <1>2, InstallCalls

LEMMA DataOfPackage ==
  ASSUME TypeOK, StackInv, PackageStep
  PROVE  DataShape
<1> USE DEF At
<1>1. /\ Top.kind = "package" /\ exit = Running /\ Top \in FrameType
      /\ Top.pkg \in Packages /\ Top.dir \in Dirs /\ Info.dependencies \in Seq(Packages)
  <2>1. Top.kind = "package" /\ exit = Running
    BY DEF PackageStep, AlreadyVisited, Enter, EnterFails, CountMakefile, FetchMakefile, JoinMakefile,
       NoSources, CopyFromCache, LoadedFromCache, NotFromCache, CountSource, FetchSource,
       SourcesStarted, JoinSource, BatchJoined, SaveToCache, SavedToCache, Configure, GetTarball,
       ExecutableDependencies, ExecutableReady, RunInstall, InstallDependencies, DependenciesDone,
       CountThread
  <2> QED
    BY <2>1, PackageTop DEF FrameType, Info
<1>2. \A pc : Goto(pc) =>
        /\ Top'.pc = pc /\ Top'.kind = Top.kind /\ Top'.pkg = Top.pkg /\ Top'.dir = Top.dir
        /\ Top'.call = Top.call /\ Top'.n = Top.n /\ Top'.i = Top.i
  <2> TAKE pc
  <2>1. HAVE Goto(pc)
  <2>2. Top' = [Top EXCEPT !.pc = pc]
    BY <2>1, BecomeTop DEF Goto, TypeOK
  <2> QED
    BY <1>1, <2>2 DEF FrameType
<1>3. \A rc \in Codes : Leave(rc) => Idle(Top')
  BY <1>1, LeaveIdle
<1>4. KeepFetch /\ KeepRest => Quiet
  BY DEF KeepFetch, KeepRest, fetchVars, Quiet
<1>5. {0, 1, -1} \subseteq Codes
  BY DEF Codes
<1>6. \A pc \in PackagePlaces \ Busy :
        Quiet /\ Idle(Top) /\ Goto(pc) => DataShape
  BY <1>2 DEF DataShape, Calm, Idle
<1>7. \A rc \in Codes : Quiet /\ Idle(Top) /\ Leave(rc) => DataShape
  BY <1>3 DEF DataShape, Calm
<1>8. \A pc \in PackagePlaces \ Busy :
        Idle(Top) /\ Command(pc) => DataShape
  BY <1>4, <1>5, <1>6, <1>7 DEF Command
<1>9. \A pc \in PackagePlaces \ Busy : Idle(Top) /\ Pass(pc) => DataShape
  BY <1>4, <1>6 DEF Pass
<1>10. CASE AlreadyVisited \/ EnterFails \/ DependenciesDone
  <2>1. Idle(Top) /\ Quiet
    BY <1>4, <1>10 DEF AlreadyVisited, EnterFails, DependenciesDone, Idle, Busy, Looping
  <2>2. \E rc \in Codes : Leave(rc)
    <3>1. Top.rc \in Codes
      BY <1>1 DEF FrameType
    <3> QED
      BY <1>5, <1>10, <3>1 DEF AlreadyVisited, EnterFails, DependenciesDone
  <2> QED
    BY <1>7, <2>1, <2>2
<1>11. CASE Enter \/ NoSources
  <2>1. Idle(Top) /\ Quiet
    BY <1>4, <1>11 DEF Enter, NoSources, Idle, Busy, Looping
  <2>2. \E pc \in {"configure", "makefile", "cache"} : Goto(pc)
    BY <1>11 DEF Enter, NoSources
  <2>3. {"configure", "makefile", "cache"} \subseteq PackagePlaces \ Busy
    BY DEF PackagePlaces, Busy, Looping
  <2> QED
    BY <1>6, <2>1, <2>2, <2>3
<1>12. CASE CountMakefile
  <2>1. Top' = [Top EXCEPT !.pc = "startMakefile", !.read = refs[Top.call]]
    BY <1>12, BecomeTop DEF CountMakefile, CountThread, TypeOK
  <2>2. Top'.pc = "startMakefile"
    BY <1>1, <2>1 DEF FrameType
  <2> QED
    BY <1>4, <1>12, <2>2 DEF CountMakefile, CountThread, DataShape, Calm, Idle, Busy, Looping
<1>13. CASE CountSource
  <2>1. Top' = [Top EXCEPT !.pc = "start", !.read = refs[Top.call]]
    BY <1>13, BecomeTop DEF CountSource, CountThread, TypeOK
  <2>2. /\ Top'.pc = "start" /\ Top'.kind = Top.kind /\ Top'.pkg = Top.pkg /\ Top'.dir = Top.dir
        /\ Top'.call = Top.call /\ Top'.n = Top.n /\ Top'.i = Top.i
    BY <1>1, <2>1 DEF FrameType
  <2> QED
    BY <1>1, <1>4, <1>13, <2>2 DEF CountSource, CountThread, DataShape, Loops, Stays, Looping
<1>14. CASE FetchMakefile
  <2>1. CASE Start(Top.call, Makefile, Place, -1, Top.read) /\ Goto("joinMakefile")
             /\ UNCHANGED <<visited, results, saved, exit>>
    <3>1. Starts(Makefile, -1)
      BY <1>1, <1>2, <1>14, <2>1 DEF FetchMakefile, Start, KeepRest, Starts, Stays
    <3> QED
      BY <3>1 DEF DataShape
  <2>2. CASE StartFails(Top.call, Top.read) /\ Leave(1)
    <3>1. Quiet /\ Idle(Top)
      BY <1>14, <2>2 DEF FetchMakefile, StartFails, KeepRest, Quiet, Idle, Busy, Looping
    <3> QED
      BY <1>5, <1>7, <2>2, <3>1
  <2> QED
    BY <1>14, <2>1, <2>2 DEF FetchMakefile
<1>15. CASE FetchSource
  <2>1. CASE Start(Top.call, Top.n, Place, Top.i, Top.read) /\ Become(AfterStart(Top.i))
             /\ UNCHANGED <<visited, results, saved, exit>>
    <3>1. Top' = AfterStart(Top.i)
      BY <2>1, BecomeTop DEF TypeOK
    <3>2. /\ Top'.pc \in {"download", "batch"} /\ Top'.kind = Top.kind /\ Top'.pkg = Top.pkg
          /\ Top'.dir = Top.dir /\ Top'.call = Top.call /\ Top'.n = Top.n + 1
          /\ Top'.i = IF Top.i < Concurrency THEN Top.i + 1 ELSE Top.i
      <4>1. CASE Top.i < Concurrency
        <5>1. Top' = [Top EXCEPT !.pc = "download", !.n = Top.n + 1, !.i = Top.i + 1]
          BY <1>1, <3>1, <4>1 DEF AfterStart, FrameType
        <5> QED
          BY <1>1, <4>1, <5>1 DEF FrameType
      <4>2. CASE ~(Top.i < Concurrency)
        <5>1. Top' = [Top EXCEPT !.pc = "batch", !.n = Top.n + 1]
          BY <1>1, <3>1, <4>2 DEF AfterStart, FrameType
        <5> QED
          BY <1>1, <4>2, <5>1 DEF FrameType
      <4> QED
        BY <4>1, <4>2
    <3>3. Starts(Top.n, Top.i)
      BY <1>1, <1>15, <2>1, <3>2 DEF FetchSource, Start, KeepRest, Starts, Stays
    <3> QED
      BY <3>3 DEF DataShape
  <2>2. CASE StartFails(Top.call, Top.read) /\ Leave(-1)
    <3>1. Idle(Top')
      BY <1>3, <1>5, <2>2
    <3>2. Abandons
      BY <1>1, <1>15, <2>2, <3>1 DEF FetchSource, StartFails, KeepRest, Quiet, Leave, Abandons
    <3> QED
      BY <3>2 DEF DataShape
  <2> QED
    BY <1>15, <2>1, <2>2 DEF FetchSource
<1>16. CASE JoinMakefile
  <2>1. Joins(<<Top.call, Makefile>>)
    BY <1>1, <1>2, <1>16 DEF JoinMakefile, JoinThread, KeepRest, Joins, Stays
  <2> QED
    BY <2>1 DEF DataShape
<1>17. CASE JoinSource
  <2>1. PICK t \in DOMAIN fetch : t[1] = Top.call /\ fetch[t].slot = Top.i - 1 /\ JoinThread(t)
    BY <1>17 DEF JoinSource
  <2>2. Top' = [Top EXCEPT !.i = Top.i - 1]
    <3>1. Become([Top EXCEPT !.i = Top.i - 1])
      BY <1>1, <1>17 DEF JoinSource, FrameType
    <3> QED
      BY <3>1, BecomeTop DEF TypeOK
  <2>3. /\ Top'.pc = Top.pc /\ Top'.kind = Top.kind /\ Top'.pkg = Top.pkg /\ Top'.dir = Top.dir
        /\ Top'.call = Top.call /\ Top'.n = Top.n /\ Top'.i = Top.i - 1
    BY <1>1, <2>2 DEF FrameType
  <2>4. Joins(t)
    BY <1>1, <1>17, <2>1, <2>3 DEF JoinSource, JoinThread, KeepRest, Joins, Stays
  <2> QED
    BY <2>4 DEF DataShape
<1>18. CASE SourcesStarted
  <2>1. Loops
    BY <1>1, <1>2, <1>4, <1>18 DEF SourcesStarted, Loops, Stays, Looping
  <2> QED
    BY <2>1 DEF DataShape
<1>19. CASE BatchJoined
  <2>1. Top' = [Top EXCEPT !.pc = "download", !.i = 0]
    BY <1>19, BecomeTop DEF BatchJoined, TypeOK
  <2>2. /\ Top'.pc = "download" /\ Top'.kind = Top.kind /\ Top'.pkg = Top.pkg /\ Top'.dir = Top.dir
        /\ Top'.call = Top.call /\ Top'.n = Top.n /\ Top'.i = 0
    BY <1>1, <2>1 DEF FrameType
  <2>3. Top.i = 0
    <3>1. Top.i \in Nat /\ Top.i <= 0
      BY <1>1, <1>19 DEF BatchJoined, JoinedDownTo, FrameType
    <3> QED
      BY <3>1
  <2>4. Loops
    BY <1>1, <1>4, <1>19, <2>2, <2>3 DEF BatchJoined, Loops, Stays, Looping
  <2> QED
    BY <2>4 DEF DataShape
<1>20. CASE CopyFromCache
  <2>1. Copies
    BY <1>1, <1>2, <1>20 DEF CopyFromCache, KeepRest, Copies, Stays
  <2> QED
    BY <2>1 DEF DataShape
<1>21. CASE LoadedFromCache
  <2>1. Loads
    BY <1>1, <1>2, <1>21 DEF LoadedFromCache, KeepRest, Loads, Stays
  <2> QED
    BY <2>1 DEF DataShape
<1>22. CASE NotFromCache
  <2>1. Misses
    BY <1>1, <1>2, <1>22 DEF NotFromCache, KeepFetch, fetchVars, Misses, Stays
  <2> QED
    BY <2>1 DEF DataShape
<1>23. CASE SaveToCache
  <2>1. Saves
    BY <1>1, <1>2, <1>23 DEF SaveToCache, JoinedDownTo, KeepFetch, fetchVars, Saves, Stays
  <2> QED
    BY <2>1 DEF DataShape
<1>24. CASE SavedToCache
  <2>1. Saved
    BY <1>1, <1>2, <1>24 DEF SavedToCache, KeepFetch, fetchVars, Saved, Stays
  <2> QED
    BY <2>1 DEF DataShape
<1>25. {"tarball", "dependencies", "unpacked", "run"} \subseteq PackagePlaces \ Busy
  BY DEF PackagePlaces, Busy, Looping
<1>26. CASE Configure \/ GetTarball \/ ExecutableReady \/ RunInstall
  <2>1. Idle(Top)
    BY <1>26 DEF Configure, GetTarball, ExecutableReady, RunInstall, Idle, Busy, Looping
  <2>2. \A rc \in {-1, 1} : Leave(rc) /\ KeepFetch /\ KeepRest => DataShape
    BY <1>4, <1>5, <1>7, <2>1
  <2>3. CASE Configure
    BY <1>8, <1>9, <1>25, <2>1, <2>2, <2>3 DEF Configure
  <2>4. CASE GetTarball
    BY <1>8, <1>25, <2>1, <2>2, <2>4 DEF GetTarball
  <2>5. CASE ExecutableReady
    BY <1>9, <1>25, <2>1, <2>2, <2>5 DEF ExecutableReady
  <2>6. CASE RunInstall
    BY <1>8, <1>25, <2>1, <2>6 DEF RunInstall
  <2> QED
    BY <1>26, <2>3, <2>4, <2>5, <2>6
<1>27. CASE ExecutableDependencies
  <2>1. Idle(Top) /\ Quiet /\ Top.pkg \in Dirs /\ "executable" \in Spots
    BY <1>1, <1>4, <1>27 DEF ExecutableDependencies, Idle, Busy, Looping, Dirs, Spots, PackagePlaces
  <2>2. CASE Goto("run")
    BY <1>6, <1>25, <2>1, <2>2
  <2>3. CASE Invoke(List(Info.dependencies, Top.pkg), "executable")
    BY <1>1, <2>1, <2>3, InvokeIdle DEF DataShape, Calm
  <2> QED
    BY <1>27, <2>2, <2>3 DEF ExecutableDependencies
<1>28. CASE InstallDependencies
  <2>1. Idle(Top) /\ Quiet /\ "return" \in Spots
    BY <1>4, <1>28 DEF InstallDependencies, Idle, Busy, Looping, Spots, PackagePlaces
  <2>2. CASE Leave(0)
    BY <1>5, <1>7, <2>1, <2>2
  <2>3. CASE Invoke(List(Info.dependencies, Top.dir), "return")
    BY <1>1, <2>1, <2>3, InvokeIdle DEF DataShape, Calm
  <2> QED
    BY <1>28, <2>2, <2>3 DEF InstallDependencies
<1> QED
  BY <1>10, <1>11, <1>12, <1>13, <1>14, <1>15, <1>16, <1>17, <1>18, <1>19, <1>20, <1>21, <1>22,
     <1>23, <1>24, <1>26, <1>27, <1>28 DEF PackageStep

LEMMA DataOfList ==
  ASSUME TypeOK, StackInv, ListStep
  PROVE  DataShape
<1> USE DEF At
<1>1. Top.kind = "list"
  BY DEF ListStep, ListNext, ListUnknown, ListEnd, ListInstalled, ListFailed
<1>2. /\ Top \in FrameType /\ Len(stack) > 1 /\ Top.items \in Seq(Packages)
      /\ Top.dir \in Dirs /\ Idle(Top)
  BY <1>1, OtherTop DEF FrameInv, FrameOK, FrameType, Idle
<1>3. Quiet
  BY DEF ListStep, ListNext, ListUnknown, ListEnd, ListInstalled, ListFailed, ListReturns,
     Install, KeepFetch, fetchVars, KeepRest, Quiet
<1>4. \A rc \in {0, -1} : ListReturns(rc) => DataShape
  <2> TAKE rc \in {0, -1}
  <2>1. HAVE ListReturns(rc)
  <2>2. rc \in Codes
    BY DEF Codes
  <2>3. Returns(rc)
    BY <1>2, <2>1, <2>2, ReturnReturns DEF ListReturns, TypeOK
  <2> QED
    BY <1>2, <1>3, <2>3, ReturnIdle DEF DataShape, Calm
<1>5. CASE ListNext
  <2>1. Top.items # <<>> /\ Install(Head(Top.items), Top.dir, "installed")
    BY <1>5 DEF ListNext
  <2>2. Head(Top.items) \in Packages /\ "installed" \in Spots
    BY <1>2, <2>1 DEF Spots, ListPlaces
  <2> QED
    BY <1>2, <1>3, <2>1, <2>2, InstallIdle DEF DataShape, Calm
<1>6. CASE ListInstalled
  <2>1. Top' = [Top EXCEPT !.pc = "enter", !.items = Tail(@), !.done = @ \cup {Top.call}]
    BY <1>6, BecomeTop DEF ListInstalled, TypeOK
  <2>2. Top'.kind = "list"
    BY <1>1, <1>2, <2>1 DEF FrameType
  <2>3. Idle(Top')
    BY <2>2 DEF Idle
  <2> QED
    BY <1>2, <1>3, <2>3 DEF DataShape, Calm
<1>7. CASE ListUnknown \/ ListEnd \/ ListFailed
  BY <1>4, <1>7 DEF ListUnknown, ListEnd, ListFailed
<1> QED
  BY <1>5, <1>6, <1>7 DEF ListStep

LEMMA DataOfMain ==
  ASSUME TypeOK, StackInv, MainStep
  PROVE  DataShape
<1> USE DEF At
<1>1. Top.kind = "main"
  BY DEF MainStep, InstallLocal, InstallPackage, InstallPackages, UpdateLocal, UpdatePackage,
     UpdatePackages, Upgrade, Local, Argument, ArgumentsDone, UpgradePackage, LocalManifest,
     LocalFailed, LocalInstalled, LocalDone, ArgumentNext, ArgumentUnknown, ArgumentDevelopment,
     ArgumentInstalled, ArgumentFailed
<1>2. Top \in FrameType /\ FrameInv(Top) /\ Idle(Top)
  BY <1>1, OtherTop DEF Idle
<1>3. setup \in Setups /\ setup.dependencies \in Seq(Packages) /\ setup.development \in Seq(Packages)
  BY Setup DEF TypeOK, CallsType
<1>4. ASSUME NEW rc, Exit(rc), rc \in Codes, KeepRest, saved' = saved,
             freed' = freed \/ (Free({Top.call}) /\ Top.pc \in {"argument", "argumentDev", "upgraded"})
      PROVE  DataShape
  <2>1. freed' \subseteq freed \cup {Top.call}
    BY <1>4 DEF Free
  <2>2. MainExits
    BY <1>1, <1>4, <2>1 DEF MainExits, Exit, KeepRest
  <2> QED
    BY <2>2 DEF DataShape
<1>5. ASSUME NEW f, f.kind = "main", Become(f), Quiet PROVE DataShape
  <2>1. Top' = f
    BY <1>5, BecomeTop DEF TypeOK
  <2>2. Idle(Top')
    BY <1>5, <2>1 DEF Idle
  <2> QED
    BY <1>2, <1>5, <2>2 DEF DataShape, Calm
<1>6. KeepProcess /\ KeepRest => Quiet
  BY DEF KeepProcess, KeepRest, Quiet
<1>7. {0, 1, -1} \subseteq Codes /\ Top.rc \in Codes
  BY <1>2 DEF Codes, FrameType
<1>8. {"local", "localDev", "argument", "argumentDev", "upgraded"} \subseteq Spots /\ "deps" \in Dirs /\ "tmp" \in Dirs
  BY DEF Spots, MainPlaces, Dirs
<1>9. \A rc \in {0, 1} : LocalReturns(rc) /\ KeepRest /\ saved' = saved /\ freed' = freed => DataShape
  <2> TAKE rc \in {0, 1}
  <2>1. HAVE LocalReturns(rc) /\ KeepRest /\ saved' = saved /\ freed' = freed
  <2>2. CASE setup.args = <<>>
    BY <1>4, <1>7, <2>1, <2>2 DEF LocalReturns
  <2>3. CASE setup.args # <<>>
    <3> DEFINE f == [Top EXCEPT !.pc = "enter", !.items = Tail(@), !.n = 1]
    <3>1. Become(f) /\ Quiet
      BY <1>6, <2>1, <2>3 DEF LocalReturns
    <3>2. f.kind = "main"
      BY <1>1, <1>2 DEF FrameType
    <3> HIDE DEF f
    <3> QED
      BY <1>5, <3>1, <3>2
  <2> QED
    BY <2>2, <2>3
<1>10. ASSUME NEW pc \in {"local", "localDev", "argumentDev"}, NEW ps \in Seq(Packages),
              Invoke(List(ps, "deps"), pc), Quiet
       PROVE  DataShape
  <2>1. pc \in Spots
    BY <1>8
  <2>2. Idle(Top')
    BY <1>2, <1>8, <1>10, <2>1, InvokeIdle
  <2> QED
    BY <1>2, <1>10, <2>2 DEF DataShape, Calm
<1>11. ASSUME NEW p \in Packages, NEW dir \in {"deps", "tmp"}, NEW pc \in {"argument", "upgraded"},
              Install(p, dir, pc), KeepRest
       PROVE  DataShape
  <2>1. pc \in Spots /\ dir \in Dirs
    BY <1>8
  <2>2. Idle(Top')
    BY <1>2, <1>11, <2>1, InstallIdle
  <2>3. Quiet
    BY <1>11 DEF Install, KeepRest, Quiet
  <2> QED
    BY <1>2, <2>2, <2>3 DEF DataShape, Calm
<1>12. ASSUME LocalManifest PROVE DataShape
  <2>1. Invoke(List(setup.dependencies, "deps"), "local") /\ Quiet
    BY <1>12 DEF LocalManifest, KeepFetch, fetchVars, KeepRest, Quiet
  <2> QED
    BY <1>3, <1>10, <2>1
<1>13. ASSUME LocalFailed PROVE DataShape
  <2>1. CASE Top.n < Tried
    <3> DEFINE f == [Top EXCEPT !.n = @ + 1, !.pc = "enter"]
    <3>1. Become(f) /\ Quiet
      BY <1>6, <1>13, <2>1 DEF LocalFailed
    <3>2. f.kind = "main"
      BY <1>1, <1>2 DEF FrameType
    <3> HIDE DEF f
    <3> QED
      BY <1>5, <3>1, <3>2
  <2>2. CASE ~(Top.n < Tried)
    BY <1>9, <1>13, <2>2 DEF LocalFailed
  <2> QED
    BY <2>1, <2>2
<1>14. ASSUME LocalInstalled PROVE DataShape
  <2>1. CASE Options.dev
    <3>1. Invoke(List(setup.development, "deps"), "localDev") /\ Quiet
      BY <1>14, <2>1 DEF LocalInstalled, KeepRest, Quiet
    <3> QED
      BY <1>3, <1>10, <3>1
  <2>2. CASE ~Options.dev
    BY <1>9, <1>14, <2>2 DEF LocalInstalled
  <2> QED
    BY <2>1, <2>2
<1>15. ASSUME LocalDone PROVE DataShape
  BY <1>9, <1>15 DEF LocalDone
<1>16. ASSUME Argument PROVE DataShape
  <2>1. Top.items # <<>> => Head(Top.items) \in Arguments
    BY <1>1, OtherTop
  <2>2. CASE ArgumentNext
    <3>1. Install(Head(Top.items), "deps", "argument") /\ KeepRest /\ Top.items # <<>> /\ ~IsLocal
      BY <2>2 DEF ArgumentNext
    <3>2. Head(Top.items) \in Packages
      BY <2>1, <3>1 DEF IsLocal, Arguments
    <3> QED
      BY <1>11, <3>1, <3>2
  <2>3. CASE ArgumentUnknown
    BY <1>4, <1>7, <2>3 DEF ArgumentUnknown
  <2>4. CASE ArgumentDevelopment
    <3>1. /\ Invoke(List(Describe[Head(Top.items)].development, "deps"), "argumentDev") /\ Quiet
          /\ Top.pc = "argument"
      BY <2>4 DEF ArgumentDevelopment, KeepFetch, fetchVars, KeepRest, Quiet
    <3>2. Head(Top.items) \in Packages
      BY <1>1, <1>2, <3>1 DEF FrameInv, FrameOK
    <3>3. Describe[Head(Top.items)].development \in Seq(Packages)
      BY <3>2, Constants
    <3> QED
      BY <1>10, <3>1, <3>3
  <2>5. ASSUME Become([Top EXCEPT !.pc = "enter", !.items = Tail(@)]), KeepProcess, KeepRest PROVE DataShape
    <3> DEFINE f == [Top EXCEPT !.pc = "enter", !.items = Tail(@)]
    <3>1. Become(f) /\ Quiet
      BY <1>6, <2>5
    <3>2. f.kind = "main"
      BY <1>1, <1>2 DEF FrameType
    <3> HIDE DEF f
    <3> QED
      BY <1>5, <3>1, <3>2
  <2>6. CASE ArgumentInstalled
    BY <2>5, <2>6 DEF ArgumentInstalled
  <2>7. CASE ArgumentFailed
    <3>1. CASE Top.rc = -1
      BY <1>4, <1>7, <2>7, <3>1 DEF ArgumentFailed
    <3>2. CASE Top.rc # -1
      BY <2>5, <2>7, <3>2 DEF ArgumentFailed
    <3> QED
      BY <3>1, <3>2
  <2> QED
    BY <1>16, <2>2, <2>3, <2>4, <2>6, <2>7 DEF Argument
<1>17. ASSUME ArgumentsDone PROVE DataShape
  BY <1>4, <1>7, <1>17 DEF ArgumentsDone
<1>18. ASSUME Upgrade PROVE DataShape
  <2>1. Head(Top.items) \in Packages
    <3>1. Top.items = setup.args
      BY <1>1, <1>2, <1>18 DEF Upgrade, FrameInv, FrameOK
    <3> QED
      BY <1>3, <1>18, <3>1, Setup DEF Upgrade
  <2>2. CASE Install(Head(Top.items), "tmp", "upgraded") /\ KeepRest
    BY <1>11, <2>1, <2>2
  <2>3. CASE Exit(-1) /\ KeepRest /\ UNCHANGED <<freed, saved>>
    BY <1>4, <1>7, <2>3
  <2>4. CASE Top.pc = "upgraded" /\ Free({Top.call}) /\ Exit(Top.rc) /\ KeepRest /\ UNCHANGED saved
    BY <1>4, <1>7, <2>4
  <2> QED
    BY <1>18, <2>2, <2>3, <2>4 DEF Upgrade, UpgradePackage
<1> QED
  BY <1>12, <1>13, <1>14, <1>15, <1>16, <1>17, <1>18
     DEF MainStep, InstallLocal, InstallPackage, InstallPackages, UpdateLocal, UpdatePackage,
         UpdatePackages, Local

LEMMA ResultsGrow ==
  ASSUME TypeOK, StackInv, PackageShape \/ ListShape \/ MainShape
  PROVE  /\ \A c \in DOMAIN results : c \in DOMAIN results' /\ results'[c] = results[c]
         /\ setup' = setup /\ Len(refs) \in Nat /\ Len(refs') \in Nat /\ Len(refs) <= Len(refs')
         /\ visited \subseteq visited'
<1>1. setup' = setup /\ visited \subseteq visited'
  BY Frames
<1>2. refs \in Seq(Int)
  BY DEF TypeOK, CallsType
<1>3. RefsKept \/ refs' = refs \/ refs' = Append(refs, 0)
  BY DEF PackageShape, PackageGoesOn, PackageEnters, PackageReturns, PackageCalls, Overflows,
         ListShape, ListEnds, ListPasses, PackageCalled, MainShape, MainCalls, MainPasses, MainExits
<1>4. Len(refs) \in Nat /\ Len(refs') \in Nat /\ Len(refs) <= Len(refs')
  BY <1>2, <1>3, RefsGrow
<1>5. \/ results' = results
      \/ \E rc \in Codes : PackageReturns(rc)
  BY DEF PackageShape, PackageGoesOn, PackageEnters, PackageCalls, Overflows,
         ListShape, ListEnds, ListPasses, PackageCalled, MainShape, MainCalls, MainPasses, MainExits
<1>6. ASSUME NEW rc \in Codes, PackageReturns(rc)
      PROVE  \A c \in DOMAIN results : c \in DOMAIN results' /\ results'[c] = results[c]
  <2>1. Top.call \notin DOMAIN results
    BY <1>6, PackageTop DEF PackageReturns
  <2> QED
    BY <1>6, <2>1 DEF PackageReturns
<1>7. \A c \in DOMAIN results : c \in DOMAIN results' /\ results'[c] = results[c]
  BY <1>5, <1>6
<1> QED
  BY <1>1, <1>4, <1>7

\* The files at the places stay files, whatever is written.
LEMMA WriteTyped ==
  ASSUME DOMAIN disk \subseteq Places, \A x \in DOMAIN disk : disk[x] \in Files,
         NEW place \in Places, NEW files \in Files, disk' = Write(place, files)
  PROVE  /\ DOMAIN disk' \subseteq Places /\ \A x \in DOMAIN disk' : disk'[x] \in Files
         /\ OnDisk(place)' = files
         /\ \A x : x # place => OnDisk(x)' = OnDisk(x)
BY DEF Write, OnDisk

LEMMA FilesTyped ==
  ASSUME DOMAIN disk \subseteq Places, \A x \in DOMAIN disk : disk[x] \in Files
  PROVE  /\ NoFiles \in Files /\ \A x : OnDisk(x) \in Files
         /\ \A a \in Files : Cut(a) \in Files
         /\ \A a, b \in Files : Overlay(a, b) \in Files
<1>1. NoFiles \in Files
  BY DEF NoFiles, Files
<1>2. \A x : OnDisk(x) \in Files
  BY <1>1 DEF OnDisk
<1>3. \A a \in Files : Cut(a) \in Files
  BY DEF Cut, Files
<1>4. \A a, b \in Files : Overlay(a, b) \in Files
  BY DEF Overlay, Files
<1> QED
  BY <1>1, <1>2, <1>3, <1>4

LEMMA DataTyped ==
  ASSUME TypeOK, StackInv, PackageShape \/ ListShape \/ MainShape, DataShape
  PROVE  DataType'
<1>1. Len(refs) \in Nat /\ Len(refs') \in Nat /\ Len(refs) <= Len(refs')
  BY ResultsGrow
<1>2. 1..Len(refs) \subseteq 1..Len(refs')
  BY <1>1
<1> DEFINE T(f, S) == /\ DOMAIN f \subseteq S \X Names
                      /\ \A t \in DOMAIN f : f[t] \in ThreadType /\ (f[t].slot = -1 <=> t[2] = Makefile)
           D(d) == DOMAIN d \subseteq Places /\ \A x \in DOMAIN d : d[x] \in Files
<1>3. T(fetch, 1..Len(refs)) /\ D(disk) /\ damaged \subseteq Packages /\ cache \in [Packages -> Entries]
  BY DEF TypeOK, DataType
<1>4. T(fetch, 1..Len(refs'))
  BY <1>2, <1>3
<1>5. Top.kind = "package" =>
        /\ Top \in FrameType /\ Top.pkg \in Packages /\ Top.dir \in Dirs /\ Place \in Places
        /\ Top.call \in 1..Len(refs') /\ Top.n \in Nat \ {0} /\ Top.i \in Nat
        /\ PackageInv(Top) /\ Describe[Top.pkg].sources \in -1..MaxFiles
  BY <1>2, PackageTop DEF FrameType, Place, Places
<1>6. SUFFICES T(fetch', 1..Len(refs')) /\ D(disk') /\ damaged' \subseteq Packages /\ cache' \in [Packages -> Entries]
  BY DEF DataType
<1> DEFINE Goal == T(fetch', 1..Len(refs')) /\ D(disk') /\ damaged' \subseteq Packages /\ cache' \in [Packages -> Entries]
<1> HIDE DEF T, D
<1>7. CASE Calm \/ Loops \/ Abandons
  BY <1>3, <1>4, <1>7 DEF Calm, Loops, Abandons, Quiet
<1>8. /\ NoFiles \in Files /\ \A x : OnDisk(x) \in Files
      /\ \A a \in Files : Cut(a) \in Files
      /\ \A a, b \in Files : Overlay(a, b) \in Files
  BY <1>3, FilesTyped DEF D
<1>9. \A p \in Packages : cache[p].files \in Files
  BY <1>3 DEF Entries
<1>10. \A x \in Places, a \in Files : disk' = Write(x, a) => D(disk')
  BY <1>3, WriteTyped DEF D
<1>11. CASE Copies
  <2>1. disk' = Write(Place, Overlay(OnDisk(Place), Cut(cache[Top.pkg].files))) /\ Top.kind = "package"
    BY <1>11 DEF Copies, Stays
  <2>2. D(disk')
    BY <1>5, <1>8, <1>9, <1>10, <2>1
  <2> QED
    BY <1>3, <1>4, <1>11, <2>2 DEF Copies
<1>12. CASE Loads
  <2>1. disk' = Write(Place, Overlay(OnDisk(Place), cache[Top.pkg].files)) /\ Top.kind = "package"
    BY <1>12 DEF Loads, Stays
  <2>2. D(disk')
    BY <1>5, <1>8, <1>9, <1>10, <2>1
  <2> QED
    BY <1>3, <1>4, <1>12, <2>2 DEF Loads
<1>13. CASE Misses
  <2>1. NoEntry \in Entries
    BY <1>8 DEF NoEntry, Entries
  <2>2. cache' \in [Packages -> Entries]
    BY <1>3, <1>13, <2>1 DEF Misses
  <2> QED
    BY <1>3, <1>4, <1>13, <2>2 DEF Misses
<1>14. CASE Saves
  <2>1. [cached |-> TRUE, files |-> Cut(OnDisk(Place)), old |-> FALSE] \in Entries
    BY <1>8 DEF Entries
  <2>2. cache' \in [Packages -> Entries]
    BY <1>3, <1>14, <2>1 DEF Saves
  <2> QED
    BY <1>3, <1>4, <1>14, <2>2 DEF Saves
<1>15. CASE Saved
  <2>1. cache' \in [Packages -> Entries]
    BY <1>3, <1>8, <1>15 DEF Saved, Entries
  <2> QED
    BY <1>3, <1>4, <1>15, <2>1 DEF Saved
<1>16. CASE MainExits
  <2>1. Arriving \subseteq Packages
    BY <1>3 DEF T, Arriving, ThreadType, Places
  <2>2. T(fetch', 1..Len(refs'))
    BY <1>16 DEF MainExits, T
  <2> QED
    BY <1>3, <1>16, <2>1, <2>2 DEF MainExits
<1>17. ASSUME NEW file, NEW slot, Starts(file, slot) PROVE Goal
  <2>1. /\ Top.kind = "package" /\ disk' = disk /\ damaged' = damaged /\ cache' = cache
        /\ fetch' = [t \in DOMAIN fetch \cup {<<Top.call, file>>} |->
                       IF t = <<Top.call, file>>
                       THEN [place |-> Place, slot |-> slot, pc |-> "look", read |-> 0]
                       ELSE fetch[t]]
    BY <1>17 DEF Starts, Stays
  <2>2. file \in Names /\ slot \in -1..Concurrency /\ (slot = -1 <=> file = Makefile)
    <3>1. CASE file = Makefile /\ slot = -1
      BY <3>1, Constants
    <3>2. CASE file = Top.n /\ slot = Top.i /\ Top.pc = "start"
      <4>1. Top.n <= Describe[Top.pkg].sources /\ Top.i <= Concurrency
        BY <1>5, <2>1, <3>2 DEF PackageInv, Looping
      <4>2. PICK n \in Nat \ {0}, i \in Nat : n = Top.n /\ i = Top.i
        BY <1>5, <2>1
      <4>3. PICK m \in -1..MaxFiles : m = Describe[Top.pkg].sources
        BY <1>5, <2>1
      <4>4. n <= m /\ i <= Concurrency
        BY <4>1, <4>2, <4>3
      <4>5. MaxFiles \in Nat /\ Concurrency \in Nat
        BY Constants
      <4>6. n \in 0..MaxFiles /\ i \in -1..Concurrency /\ i # -1 /\ n # 0
        BY <4>2, <4>3, <4>4, <4>5
      <4> QED
        BY <3>2, <4>2, <4>6, Constants
    <3> QED
      BY <1>17, <3>1, <3>2 DEF Starts
  <2>3. [place |-> Place, slot |-> slot, pc |-> "look", read |-> 0] \in ThreadType
    BY <1>5, <2>1, <2>2 DEF ThreadType
  <2>4. T(fetch', 1..Len(refs'))
    BY <1>4, <1>5, <2>1, <2>2, <2>3 DEF T
  <2> QED
    BY <1>3, <2>1, <2>4
<1>18. ASSUME NEW t, Joins(t) PROVE Goal
  <2>1. fetch' = [x \in DOMAIN fetch \ {t} |-> fetch[x]] /\ UNCHANGED <<disk, damaged, cache>>
    BY <1>18 DEF Joins
  <2>2. T(fetch', 1..Len(refs'))
    BY <1>4, <2>1 DEF T
  <2> QED
    BY <1>3, <2>1, <2>2
<1> QED
  BY <1>7, <1>11, <1>12, <1>13, <1>14, <1>15, <1>16, <1>17, <1>18 DEF DataShape

LEMMA SlotKept ==
  ASSUME TypeOK, StackInv, SlotInv, ThreadInv, PackageShape \/ ListShape \/ MainShape, DataShape
  PROVE  SlotInv'
<1>1. \A c : Abandoned(c) => Abandoned(c)'
  BY ResultsGrow, OptionsStay DEF Abandoned
<1>2. Top.kind = "package" =>
        /\ ~Abandoned(Top.call) /\ Top \in FrameType /\ PackageInv(Top)
        /\ Top.n \in Nat \ {0} /\ Top.i \in Nat /\ Concurrency \in Nat
  BY PackageTop, Constants DEF Abandoned, FrameType
<1>3. \A t \in DOMAIN fetch :
        fetch[t].slot \in -1..Concurrency /\ (fetch[t].slot = -1 <=> t[2] = Makefile)
        /\ t = <<t[1], t[2]>>
  BY DEF TypeOK, DataType, ThreadType
<1>4. ASSUME fetch' = fetch, \A t \in DOMAIN fetch : Awaited(t) => Awaited(t)' \/ Abandoned(t[1])'
      PROVE  SlotInv'
  BY <1>1, <1>4 DEF SlotInv
<1>5. ASSUME Idle(Top), fetch' = fetch PROVE SlotInv'
  <2>1. \A t \in DOMAIN fetch : ~Awaited(t)
    BY <1>5 DEF Idle, Awaited, Busy
  <2> QED
    BY <1>4, <1>5, <2>1
<1>6. CASE Calm
  BY <1>5, <1>6 DEF Calm, Quiet
<1>7. CASE Loops
  <2>1. \A t \in DOMAIN fetch : Awaited(t) => Awaited(t)'
    BY <1>7 DEF Loops, Stays, Quiet, Awaited, Looping
  <2> QED
    BY <1>4, <1>7, <2>1 DEF Loops, Quiet
<1>8. CASE Abandons
  <2>1. \A t \in DOMAIN fetch : Awaited(t) => Abandoned(t[1])'
    BY <1>8, ResultsGrow, OptionsStay DEF Abandons, Awaited, Abandoned
  <2> QED
    BY <1>4, <1>8, <2>1 DEF Abandons, Quiet
<1>9. CASE Copies \/ Misses
  BY <1>5, <1>9 DEF Copies, Misses, Idle, Busy, Looping
<1>10. CASE Loads \/ Saved
  <2>1. \A t \in DOMAIN fetch : ~Awaited(t)
    BY <1>10 DEF Loads, Saved, Awaited, Looping
  <2> QED
    BY <1>4, <1>10, <2>1 DEF Loads, Saved
<1>11. CASE Saves
  <2>1. Top.i \in Nat /\ Top.i <= 0
    BY <1>2, <1>11 DEF Saves, Stays
  <2>2. 0..(Top.i - 1) = {}
    BY <2>1
  <2>3. \A t \in DOMAIN fetch : ~Awaited(t)
    BY <1>11, <2>2 DEF Saves, Awaited, Looping
  <2> QED
    BY <1>4, <1>11, <2>3 DEF Saves
<1>12. CASE MainExits
  BY <1>12 DEF MainExits, SlotInv
<1>13. ASSUME NEW file, NEW slot, Starts(file, slot) PROVE SlotInv'
  <2>0. PICK u : u = <<Top.call, file>>
    OBVIOUS
  <2>1. /\ DOMAIN fetch' = DOMAIN fetch \cup {u} /\ fetch'[u].slot = slot
        /\ fetch'[u].place = Place /\ u[1] = Top.call
        /\ \A t \in DOMAIN fetch : t # u => fetch'[t] = fetch[t]
    BY <1>13, <2>0 DEF Starts
  <2>2. /\ Top.kind = "package" /\ Top'.kind = "package" /\ Top'.call = Top.call
        /\ Top.n \in Nat \ {0} /\ Top.i \in Nat /\ Concurrency \in Nat /\ ~Abandoned(Top.call)
        /\ PackageInv(Top)
    BY <1>2, <1>13 DEF Starts, Stays
  <2>3. \A t \in DOMAIN fetch : Awaited(t) => Top.pc = "start" /\ fetch[t].slot \in 0..(Top.i - 1)
    BY <1>13 DEF Starts, Awaited, Looping
  <2>4. CASE file = Makefile /\ slot = -1 /\ Top.pc = "startMakefile" /\ Top'.pc = "joinMakefile"
    <3>1. \A t \in DOMAIN fetch : fetch[t].slot = Concurrency \/ Abandoned(t[1])
      BY <2>3, <2>4 DEF SlotInv
    <3>2. Awaited(u)'
      BY <2>1, <2>2, <2>4 DEF Awaited
    <3>3. \A t \in DOMAIN fetch : t[1] = Top.call => fetch[t].slot = Concurrency
      BY <2>2, <3>1
    <3>4. slot # Concurrency
      BY <2>2, <2>4
    <3>5. \A t \in DOMAIN fetch' : fetch'[t].slot = Concurrency \/ Awaited(t)' \/ Abandoned(t[1])'
      BY <1>1, <2>1, <3>1, <3>2
    <3>6. \A t, w \in DOMAIN fetch' :
            t[1] = w[1] /\ fetch'[t].slot = fetch'[w].slot => fetch'[t].slot = Concurrency \/ t = w
      BY <2>1, <3>3, <3>4 DEF SlotInv
    <3>7. \A t \in DOMAIN fetch' : fetch'[t].slot = Concurrency => Overfull(fetch'[t].place[2])
      BY <2>1, <2>4, <3>4 DEF SlotInv
    <3> QED
      BY <3>5, <3>6, <3>7 DEF SlotInv, Overfull
  <2>5. CASE /\ file = Top.n /\ slot = Top.i /\ Top.pc = "start" /\ Top'.pc \in {"download", "batch"}
             /\ Top'.i = IF Top.i < Concurrency THEN Top.i + 1 ELSE Top.i
    <3>1. Top.i <= Concurrency /\ Top.i < Top.n /\ Top.n <= Describe[Top.pkg].sources
      BY <2>2, <2>5 DEF PackageInv, Looping
    <3>2. \A t \in DOMAIN fetch : Awaited(t) => Awaited(t)' \/ t = u
      <4>1. ASSUME NEW t \in DOMAIN fetch, Awaited(t), t # u PROVE Awaited(t)'
        <5>1. fetch[t].slot \in 0..(Top.i - 1) /\ fetch'[t].slot = fetch[t].slot /\ t[1] = Top.call
          BY <2>1, <2>3, <4>1 DEF Awaited
        <5>2. fetch[t].slot \in 0..(Top'.i - 1)
          BY <2>2, <2>5, <5>1
        <5> QED
          BY <2>2, <2>5, <5>1, <5>2 DEF Awaited, Looping
      <4> QED
        BY <4>1
    <3>3. slot = Concurrency \/ Awaited(u)'
      <4>1. CASE Top.i < Concurrency
        <5>1. slot \in 0..(Top'.i - 1)
          BY <2>2, <2>5, <4>1
        <5> QED
          BY <2>1, <2>2, <2>5, <5>1 DEF Awaited, Looping
      <4>2. CASE ~(Top.i < Concurrency)
        BY <2>2, <2>5, <3>1, <4>2
      <4> QED
        BY <4>1, <4>2
    <3>4. \A t \in DOMAIN fetch' : fetch'[t].slot = Concurrency \/ Awaited(t)' \/ Abandoned(t[1])'
      BY <1>1, <2>1, <3>2, <3>3 DEF SlotInv
    <3>5. \A t \in DOMAIN fetch : t[1] = Top.call /\ fetch[t].slot = slot => slot = Concurrency
      <4>1. ASSUME NEW t \in DOMAIN fetch, t[1] = Top.call, fetch[t].slot = slot, slot # Concurrency
            PROVE  FALSE
        <5>1. Awaited(t)
          BY <2>2, <4>1 DEF SlotInv
        <5>2. Top.i \in 0..(Top.i - 1)
          BY <2>3, <2>5, <4>1, <5>1
        <5> QED
          BY <2>2, <5>2
      <4> QED
        BY <4>1
    <3>6. \A t, w \in DOMAIN fetch' :
            t[1] = w[1] /\ fetch'[t].slot = fetch'[w].slot => fetch'[t].slot = Concurrency \/ t = w
      BY <2>1, <3>5 DEF SlotInv
    <3>7. slot = Concurrency => Overfull(Place[2])
      <4>1. PICK n \in Nat \ {0}, i \in Nat : n = Top.n /\ i = Top.i
        BY <2>2
      <4>2. PICK s \in Int : s = Describe[Top.pkg].sources
        BY <2>2, PackageTop
      <4>3. slot = Concurrency => s > Concurrency
        BY <2>2, <2>5, <3>1, <4>1, <4>2
      <4> QED
        BY <4>2, <4>3 DEF Overfull, Place
    <3>8. \A t \in DOMAIN fetch' : fetch'[t].slot = Concurrency => Overfull(fetch'[t].place[2])
      BY <2>1, <3>7 DEF SlotInv
    <3> QED
      BY <3>4, <3>6, <3>8 DEF SlotInv, Overfull
  <2> QED
    BY <1>13, <2>4, <2>5 DEF Starts
<1>14. ASSUME NEW w, Joins(w) PROVE SlotInv'
  <2>1. /\ DOMAIN fetch' = DOMAIN fetch \ {w} /\ \A t \in DOMAIN fetch' : fetch'[t] = fetch[t]
        /\ Top.kind = "package" /\ Top'.kind = "package" /\ Top'.call = Top.call /\ Top.i \in Nat
    BY <1>2, <1>14 DEF Joins, Stays
  <2>2. \A t \in DOMAIN fetch' : Awaited(t) => Awaited(t)'
    <3>1. CASE Top.pc = "joinMakefile" /\ w = <<Top.call, Makefile>>
      <4>1. \A t \in DOMAIN fetch : Awaited(t) => t[1] = Top.call /\ t[2] = Makefile
        BY <1>3, <3>1 DEF Awaited, Looping
      <4>3. \A t \in DOMAIN fetch : Awaited(t) => t = w
        BY <1>3, <3>1, <4>1
      <4> QED
        BY <2>1, <4>3
    <3>2. CASE /\ w \in DOMAIN fetch /\ w[1] = Top.call /\ Top.pc \in {"batch", "last"} /\ Top'.pc = Top.pc
               /\ fetch[w].slot = Top.i - 1 /\ Top'.i = Top.i - 1
      <4>1. ASSUME NEW t \in DOMAIN fetch, t # w, Awaited(t) PROVE Awaited(t)'
        <5>1. t[1] = Top.call /\ fetch[t].slot \in 0..(Top.i - 1) /\ fetch'[t] = fetch[t]
          BY <2>1, <3>2, <4>1 DEF Awaited
        <5>2. CASE fetch[t].slot # Top.i - 1
          <6>1. fetch[t].slot \in 0..(Top'.i - 1)
            BY <2>1, <3>2, <5>1, <5>2
          <6> QED
            BY <2>1, <3>2, <5>1, <6>1 DEF Awaited, Looping
        <5>3. CASE fetch[t].slot = Top.i - 1
          <6>1. Top.i - 1 = Concurrency
            BY <2>1, <3>2, <4>1, <5>1, <5>3 DEF SlotInv
          <6>2. Top.i <= Concurrency
            BY <1>2, <2>1, <3>2 DEF PackageInv, Looping
          <6> QED
            BY <1>2, <2>1, <6>1, <6>2
        <5> QED
          BY <5>2, <5>3
      <4> QED
        BY <2>1, <4>1
    <3>3. \/ Top.pc = "joinMakefile" /\ w = <<Top.call, Makefile>>
          \/ /\ w \in DOMAIN fetch /\ w[1] = Top.call /\ Top.pc \in {"batch", "last"} /\ Top'.pc = Top.pc
             /\ fetch[w].slot = Top.i - 1 /\ Top'.i = Top.i - 1
      BY <1>14 DEF Joins
    <3> QED
      BY <3>1, <3>2, <3>3
  <2>3. DOMAIN fetch' \subseteq DOMAIN fetch
    BY <2>1
  <2> QED
    BY <1>1, <2>1, <2>2, <2>3 DEF SlotInv
<1> QED
  BY <1>6, <1>7, <1>8, <1>9, <1>10, <1>11, <1>12, <1>13, <1>14 DEF DataShape

\* The threads after a step: those there before that were not joined, and the
\* one that was started, by the call that runs.
LEMMA Threads ==
  ASSUME TypeOK, StackInv, PackageShape \/ ListShape \/ MainShape, DataShape
  PROVE  \A t \in DOMAIN fetch' :
           \/ t \in DOMAIN fetch /\ fetch'[t] = fetch[t]
           \/ /\ Top.kind = "package" /\ Top.pc # "enter" /\ Top'.kind = "package" /\ stack' # <<>>
              /\ t[1] = Top.call /\ Top'.call = Top.call /\ fetch'[t].place = Place
              /\ t[2] < Top'.n /\ fetch'[t].pc = "look"
<1> DEFINE Goal == \A t \in DOMAIN fetch' :
           \/ t \in DOMAIN fetch /\ fetch'[t] = fetch[t]
           \/ /\ Top.kind = "package" /\ Top.pc # "enter" /\ Top'.kind = "package" /\ stack' # <<>>
              /\ t[1] = Top.call /\ Top'.call = Top.call /\ fetch'[t].place = Place
              /\ t[2] < Top'.n /\ fetch'[t].pc = "look"
<1>1. Calm \/ Loops \/ Abandons \/ Copies \/ Loads \/ Misses \/ Saves \/ Saved => fetch' = fetch
  BY DEF Calm, Loops, Abandons, Copies, Loads, Misses, Saves, Saved, Quiet
<1>2. ASSUME fetch' = fetch PROVE Goal
  BY <1>2
<1>3. ASSUME MainExits PROVE Goal
  BY <1>3 DEF MainExits
<1>4. ASSUME NEW file, NEW slot, Starts(file, slot) PROVE Goal
  <2>1. PICK u : u = <<Top.call, file>>
    OBVIOUS
  <2>2. /\ DOMAIN fetch' = DOMAIN fetch \cup {u} /\ fetch'[u].pc = "look"
        /\ fetch'[u].place = Place /\ u[1] = Top.call /\ u[2] = file
        /\ \A t \in DOMAIN fetch : t # u => fetch'[t] = fetch[t]
    BY <1>4, <2>1 DEF Starts
  <2>3. /\ Top.kind = "package" /\ Top'.kind = "package" /\ Top'.call = Top.call /\ Top.pc # "enter"
        /\ Top.n \in Nat \ {0}
    BY <1>4, PackageTop DEF Starts, Stays, FrameType
  <2>4. file < Top'.n
    <3>1. PICK n \in Nat \ {0} : n = Top.n
      BY <2>3
    <3>2. (file = 0 /\ Top'.n = n) \/ (file = n /\ Top'.n = n + 1)
      BY <1>4, <3>1, Constants DEF Starts
    <3> QED
      BY <3>1, <3>2
  <2>5. stack' # <<>>
    BY StackTyped DEF StackType
  <2> QED
    BY <2>2, <2>3, <2>4, <2>5
<1>5. ASSUME NEW w, Joins(w) PROVE Goal
  BY <1>5 DEF Joins
<1>6. Calm \/ Loops \/ Abandons \/ Copies \/ Loads \/ Misses \/ Saves \/ Saved => Goal
  BY <1>1, <1>2
<1> HIDE DEF Goal
<1>7. Goal
  BY <1>3, <1>4, <1>5, <1>6 DEF DataShape
<1> QED
  BY <1>7 DEF Goal

\* The calls of clib_package_install have numbers that grow with the stack.
LEMMA CallsDiffer ==
  ASSUME NEW s \in Seq(FrameType), NEW m \in Nat, m = Len(s), m # 0, s[m].kind = "package",
         \A j, k \in 1..m :
           s[j].kind = "package" /\ s[k].kind = "package" /\ j < k => s[j].call < s[k].call
  PROVE  \A k \in 1..m : s[k].kind = "package" /\ s[k].call = s[m].call => k = m
<1>1. m \in 1..m /\ \A k \in 1..m : k = m \/ k < m
  OBVIOUS
<1>2. \A k \in 1..m : s[k].kind = "package" /\ k < m => s[k].call < s[m].call
  BY <1>1
<1>3. \A k \in 1..m : s[k].call \in Nat
  <2>1. \A k \in 1..m : s[k] \in FrameType
    OBVIOUS
  <2> QED
    BY <2>1 DEF FrameType
<1>4. \A k \in 1..m : s[k].kind = "package" /\ k < m => s[k].call # s[m].call
  BY <1>1, <1>2, <1>3
<1> QED
  BY <1>1, <1>4

LEMMA PlaceKept ==
  ASSUME TypeOK, StackInv, ThreadInv, StackInv', StackType',
         PackageShape \/ ListShape \/ MainShape, DataShape
  PROVE  ThreadInv'
<1>1. SUFFICES ASSUME NEW k \in 1..Len(stack'), stack'[k].kind = "package",
                      NEW t \in DOMAIN fetch', t[1] = stack'[k].call
               PROVE  fetch'[t].place = <<stack'[k].dir, stack'[k].pkg>> /\ t[2] < stack'[k].n
  BY DEF ThreadInv, IsPackage
<1>2. Came(k)
  BY <1>1, Frames
<1>3. CASE t \in DOMAIN fetch /\ fetch'[t] = fetch[t]
  <2>1. t[1] \in 1..Len(refs) /\ t[2] \in Nat
    BY <1>3, Constants DEF TypeOK, DataType
  <2>2. t[1] # Len(refs) + 1
    BY <2>1 DEF TypeOK, CallsType
  <2>3. /\ k \in 1..Len(stack) /\ IsPackage(k) /\ stack'[k].pkg = stack[k].pkg
        /\ stack'[k].dir = stack[k].dir /\ stack'[k].call = stack[k].call /\ stack'[k].n >= stack[k].n
    BY <1>1, <1>2, <2>2 DEF Came, IsPackage
  <2>4. t[2] < stack[k].n /\ stack[k].n \in Nat
    BY <1>1, <1>3, <2>3, StackTop DEF ThreadInv, TypeOK, FrameType
  <2>5. stack'[k].n \in Nat
    <3>1. stack'[k] \in FrameType
      BY <1>1 DEF StackType
    <3> QED
      BY <3>1 DEF FrameType
  <2>6. t[2] < stack'[k].n
    <3>1. PICK a \in Nat, b \in Nat, c \in Nat : a = t[2] /\ b = stack[k].n /\ c = stack'[k].n
      BY <2>1, <2>4, <2>5
    <3>2. a < b /\ c >= b
      BY <2>3, <2>4, <3>1
    <3>3. a < c
      BY <3>2
    <3> QED
      BY <3>1, <3>3
  <2> QED
    BY <1>1, <1>3, <2>3, <2>6 DEF ThreadInv
<1>4. CASE /\ Top.kind = "package" /\ Top'.kind = "package"
           /\ t[1] = Top.call /\ Top'.call = Top.call /\ fetch'[t].place = Place
           /\ t[2] < Top'.n
  <2>1. k = Len(stack')
    <3>1. stack' \in Seq(FrameType) /\ Len(stack') \in Nat /\ Len(stack') # 0
      BY DEF StackType
    <3>2. \A i, j \in 1..Len(stack') :
            stack'[i].kind = "package" /\ stack'[j].kind = "package" /\ i < j =>
              stack'[i].call < stack'[j].call
      BY DEF StackInv, IsPackage
    <3>3. stack'[Len(stack')].kind = "package" /\ stack'[k].call = stack'[Len(stack')].call
      BY <1>1, <1>4 DEF Top
    <3> QED
      BY <1>1, <3>1, <3>2, <3>3, CallsDiffer
  <2>2. stack'[k] = Top'
    BY <2>1 DEF Top
  <2>3. Came(Len(stack')) /\ stack'[Len(stack')] = Top'
    BY <1>2, <2>1, <2>2
  <2>4. Top.call # Len(refs) + 1
    BY <1>4, PackageTop DEF TypeOK, CallsType
  <2>5. /\ k \in 1..Len(stack) /\ IsPackage(k) /\ stack'[k].pkg = stack[k].pkg
        /\ stack'[k].dir = stack[k].dir /\ stack'[k].call = stack[k].call
    BY <1>1, <1>2, <1>4, <2>4 DEF Came, IsPackage
  <2>6. k = Len(stack)
    <3>1. stack \in Seq(FrameType) /\ Len(stack) \in Nat /\ Len(stack) # 0
      BY DEF TypeOK, StackType
    <3>2. \A i, j \in 1..Len(stack) :
            stack[i].kind = "package" /\ stack[j].kind = "package" /\ i < j =>
              stack[i].call < stack[j].call
      BY DEF StackInv, IsPackage
    <3>3. stack[Len(stack)].kind = "package" /\ stack[k].call = stack[Len(stack)].call
      BY <1>1, <1>4, <2>5 DEF Top
    <3> QED
      BY <2>5, <3>1, <3>2, <3>3, CallsDiffer DEF IsPackage
  <2>7. stack[k] = Top
    BY <2>6 DEF Top
  <2> QED
    BY <1>4, <2>2, <2>5, <2>7 DEF Place
<1> QED
  BY <1>3, <1>4, Threads

LEMMA OwnKept ==
  ASSUME TypeOK, StackInv, NestInv, OwnInv, PackageShape \/ ListShape \/ MainShape, DataShape
  PROVE  OwnInv'
<1>1. visited \subseteq visited' /\ Options' = Options
      /\ \A k \in 1..Len(stack') : stack'[k].kind = "package" => Came(k)
  BY Frames, OptionsStay
<1>2. SUFFICES ASSUME ~Options.force
               PROVE  /\ \A t \in DOMAIN fetch' : fetch'[t].place[2] \in visited'
                      /\ \A t, u \in DOMAIN fetch' :
                           fetch'[t].place[2] = fetch'[u].place[2] => t[1] = u[1]
                      /\ \A k \in 1..Len(stack') : Entered(k)' => \A t \in DOMAIN fetch' :
                           fetch'[t].place[2] = stack'[k].pkg => t[1] = stack'[k].call
  BY <1>1 DEF OwnInv
<1> DEFINE Old(t) == t \in DOMAIN fetch /\ fetch'[t] = fetch[t]
           New(t) == /\ Top.kind = "package" /\ Top.pc # "enter" /\ t[1] = Top.call
                     /\ fetch'[t].place[2] = Top.pkg
<1>3. \A t \in DOMAIN fetch' : Old(t) \/ New(t)
  BY Threads DEF Place
<1>4. Len(stack) \in 1..Len(stack) /\ Top = stack[Len(stack)]
  BY StackTop DEF TypeOK, Top
<1>5. Top.kind = "package" /\ Top.pc # "enter" => Entered(Len(stack)) /\ Top.pkg \in visited
  BY <1>2, <1>4 DEF NestInv, Entered, IsPackage
<1>6. \A t : New(t) => Entered(Len(stack)) /\ fetch'[t].place[2] \in visited
  BY <1>5
<1>7. \A t, u : New(t) /\ Old(u) /\ fetch'[t].place[2] = fetch'[u].place[2] => t[1] = u[1]
  <2> TAKE t, u
  <2>1. HAVE New(t) /\ Old(u) /\ fetch'[t].place[2] = fetch'[u].place[2]
  <2>2. u \in DOMAIN fetch /\ fetch[u].place[2] = stack[Len(stack)].pkg
    BY <1>4, <2>1
  <2>3. Entered(Len(stack))
    BY <1>6, <2>1
  <2>4. u[1] = stack[Len(stack)].call
    BY <1>2, <1>4, <2>2, <2>3 DEF OwnInv
  <2> QED
    BY <1>4, <2>1, <2>4
<1>8. \A t, u : Old(t) /\ Old(u) /\ fetch'[t].place[2] = fetch'[u].place[2] => t[1] = u[1]
  BY <1>2 DEF OwnInv
<1>9. \A t : Old(t) => fetch'[t].place[2] \in visited
  BY <1>2 DEF OwnInv
<1>10. ASSUME NEW k \in 1..Len(stack'), Entered(k)', NEW t \in DOMAIN fetch',
              fetch'[t].place[2] = stack'[k].pkg
       PROVE  t[1] = stack'[k].call
  <2>1. Came(k) /\ stack'[k].pc # "enter"
    BY <1>1, <1>10 DEF Entered, IsPackage
  <2>2. /\ k \in 1..Len(stack) /\ IsPackage(k) /\ stack'[k].pkg = stack[k].pkg
        /\ stack'[k].call = stack[k].call
        /\ Entered(k) \/ (k = Len(stack) /\ ~Visited /\ stack[k].pc = "enter")
    BY <2>1 DEF Came, IsPackage, Entered
  <2>3. CASE Entered(k)
    <3>1. CASE Old(t)
      BY <1>2, <1>10, <2>2, <2>3, <3>1 DEF OwnInv
    <3>2. CASE New(t)
      <4>1. stack[k].pkg = stack[Len(stack)].pkg
        BY <1>4, <1>10, <2>2, <3>2
      <4>2. k = Len(stack)
        BY <1>2, <1>4, <1>6, <2>2, <2>3, <3>2, <4>1 DEF NestInv
      <4> QED
        BY <1>4, <2>2, <3>2, <4>2
    <3> QED
      BY <1>3, <1>10, <3>1, <3>2
  <2>4. CASE k = Len(stack) /\ ~Visited /\ stack[k].pc = "enter"
    <3>1. Top.pkg \notin visited /\ Top.pc = "enter" /\ stack'[k].pkg = Top.pkg
      BY <1>2, <1>4, <2>2, <2>4 DEF Visited
    <3>2. ~Old(t) /\ ~New(t)
      BY <1>9, <1>10, <3>1
    <3> QED
      BY <1>3, <1>10, <3>2
  <2> QED
    BY <2>2, <2>3, <2>4
<1> HIDE DEF Old, New
<1>11. \A t \in DOMAIN fetch' : fetch'[t].place[2] \in visited'
  BY <1>1, <1>3, <1>6, <1>9
<1>12. \A t, u : New(t) /\ New(u) => t[1] = u[1]
  BY DEF New
<1>13. \A t, u \in DOMAIN fetch' : fetch'[t].place[2] = fetch'[u].place[2] => t[1] = u[1]
  BY <1>3, <1>7, <1>8, <1>12
<1> QED
  BY <1>10, <1>11, <1>13

\* The threads at the package of the call that runs are its own, unless there
\* are more sources than slots, or a thread could not be started and all is
\* forced.
LEMMA OwnThreads ==
  ASSUME TypeOK, StackInv, SlotInv, OwnInv, Top.kind = "package", Top.pc # "enter",
         ~Excused(Top.pkg)
  PROVE  \A t \in DOMAIN fetch : fetch[t].place[2] = Top.pkg => t[1] = Top.call
<1>1. Len(stack) \in 1..Len(stack) /\ Top = stack[Len(stack)] /\ Entered(Len(stack))
  BY StackTop DEF TypeOK, Top, Entered, IsPackage
<1>2. SUFFICES ASSUME NEW t \in DOMAIN fetch, fetch[t].place[2] = Top.pkg, t[1] # Top.call
               PROVE  FALSE
  OBVIOUS
<1>3. Options.force
  BY <1>1, <1>2 DEF OwnInv
<1>4. ~Awaited(t)
  BY <1>2 DEF Awaited
<1>5. ~Faulty("thread") /\ ~Overfull(Top.pkg)
  BY <1>3 DEF Excused
<1> QED
  BY <1>2, <1>4, <1>5 DEF SlotInv, Abandoned

LEMMA ExcusedStays ==
  ASSUME setup' = setup, damaged \subseteq damaged'
  PROVE  \A p : Excused(p) => Excused(p)'
BY OptionsStay DEF Excused, Overfull

LEMMA DamageStays ==
  ASSUME TypeOK, StackInv, PackageShape \/ ListShape \/ MainShape, DataShape
  PROVE  damaged \subseteq damaged' /\ setup' = setup /\ \A p : Excused(p) => Excused(p)'
<1>1. damaged \subseteq damaged'
  BY DEF DataShape, Calm, Loops, Abandons, Copies, Loads, Misses, Saves, Saved, MainExits,
         Starts, Joins, Quiet
<1>2. setup' = setup
  BY ResultsGrow
<1> QED
  BY <1>1, <1>2, ExcusedStays

\* A thread for a source goes on until it is joined, when it ended, or the
\* process ends.
LEMMA ThreadsStay ==
  ASSUME TypeOK, StackInv, ThreadInv, DataShape, ~MainExits
  PROVE  \A t \in DOMAIN fetch : fetch[t].pc # "ended" /\ t[2] # Makefile =>
           t \in DOMAIN fetch' /\ fetch'[t] = fetch[t]
<1> DEFINE Goal == \A t \in DOMAIN fetch : fetch[t].pc # "ended" /\ t[2] # Makefile =>
                     t \in DOMAIN fetch' /\ fetch'[t] = fetch[t]
<1>1. Calm \/ Loops \/ Abandons \/ Copies \/ Loads \/ Misses \/ Saves \/ Saved => fetch' = fetch
  BY DEF Calm, Loops, Abandons, Copies, Loads, Misses, Saves, Saved, Quiet
<1>2. fetch' = fetch => Goal
  OBVIOUS
<1>3. ASSUME NEW file, NEW slot, Starts(file, slot) PROVE Goal
  <2>1. PICK u : u = <<Top.call, file>>
    OBVIOUS
  <2>2. /\ DOMAIN fetch' = DOMAIN fetch \cup {u} /\ u[1] = Top.call /\ u[2] = file
        /\ \A t \in DOMAIN fetch : t # u => fetch'[t] = fetch[t]
    BY <1>3, <2>1 DEF Starts
  <2>3. Top.kind = "package"
    BY <1>3 DEF Starts, Stays
  <2>4. u \in DOMAIN fetch => u[2] < Top.n
    <3>1. Len(stack) \in 1..Len(stack) /\ Top = stack[Len(stack)] /\ IsPackage(Len(stack))
      BY <2>3, StackTop DEF TypeOK, Top, IsPackage
    <3> QED
      BY <2>2, <3>1 DEF ThreadInv
  <2>5. u \in DOMAIN fetch => u[2] = Makefile
    <3>1. PICK n \in Nat \ {0} : n = Top.n
      BY <2>3, PackageTop DEF FrameType
    <3>2. ~(n < n)
      BY <3>1
    <3>3. file = Makefile \/ file = Top.n
      BY <1>3 DEF Starts
    <3> QED
      BY <2>2, <2>4, <3>1, <3>2, <3>3
  <2> QED
    BY <2>2, <2>5
<1>4. ASSUME NEW w, Joins(w) PROVE Goal
  BY <1>4 DEF Joins
<1>5. Calm \/ Loops \/ Abandons \/ Copies \/ Loads \/ Misses \/ Saves \/ Saved => Goal
  BY <1>1, <1>2
<1> HIDE DEF Goal
<1>6. Goal
  BY <1>3, <1>4, <1>5 DEF DataShape
<1> QED
  BY <1>6 DEF Goal

LEMMA DiskKept ==
  ASSUME TypeOK, StackInv, ThreadInv, DiskInv, LoadInv, CacheWhole,
         PackageShape \/ ListShape \/ MainShape, DataShape
  PROVE  DiskInv'
<1>1. SUFFICES ASSUME NEW x \in Places, ~Excused(x[2])', NEW f \in 1..Describe[x[2]].sources,
                      OnDisk(x)'[f] = "cut"
               PROVE  \/ \E t \in DOMAIN fetch' :
                           fetch'[t].place = x /\ t[2] = f /\ fetch'[t].pc = "get"
                      \/ At("package", "copied")' /\ Place' = x
  BY DEF DiskInv
<1>2. ~Excused(x[2]) /\ x[2] \in Packages
  BY <1>1, DamageStays DEF Places
<1>3. f # Makefile /\ f \in Nat
  BY <1>1, <1>2, Constants
<1> DEFINE Writing == \E t \in DOMAIN fetch : fetch[t].place = x /\ t[2] = f /\ fetch[t].pc = "get"
<1>4. OnDisk(x)[f] = "cut" => Writing \/ (At("package", "copied") /\ Place = x)
  BY <1>1, <1>2 DEF DiskInv
<1>5. Writing /\ ~MainExits =>
        \E t \in DOMAIN fetch' : fetch'[t].place = x /\ t[2] = f /\ fetch'[t].pc = "get"
  BY <1>3, ThreadsStay
<1>6. ~Writing \/ ~MainExits
  BY <1>1 DEF MainExits, Arriving, Excused
<1>7. CASE disk' = disk /\ ~(Top.kind = "package" /\ Top.pc = "copied")
  BY <1>1, <1>4, <1>5, <1>6, <1>7 DEF OnDisk, At
<1>8. CASE Copies
  <2>1. CASE x = Place
    BY <1>8, <2>1 DEF Copies, Stays, At, Place
  <2>2. CASE x # Place
    <3>1. OnDisk(x)' = OnDisk(x)
      BY <1>8, <2>2 DEF Copies, OnDisk, Write
    <3> QED
      BY <1>1, <1>4, <1>8, <3>1 DEF At, Copies
  <2> QED
    BY <2>1, <2>2
<1>9. CASE Loads
  <2>1. CASE x = Place
    <3>1. Top.kind = "package" /\ Top.pc = "copied" /\ Top.pkg = x[2]
      BY <1>9, <2>1 DEF Loads, Stays, Place
    <3>2. cache[x[2]].cached
      BY <1>2, <3>1 DEF LoadInv
    <3>3. cache[x[2]].files[f] = "whole"
      <4>1. ~At("package", "saving")
        BY <3>1 DEF At
      <4> QED
        BY <1>1, <1>2, <3>2, <4>1 DEF CacheWhole, Excused
    <3>4. OnDisk(x)' = Overlay(OnDisk(x), cache[x[2]].files)
      BY <1>9, <2>1, <3>1 DEF Loads, OnDisk, Write
    <3>5. f \in Names
      BY <1>1, <1>2, Constants
    <3> QED
      BY <1>1, <3>3, <3>4, <3>5 DEF Overlay
  <2>2. CASE x # Place
    <3>1. OnDisk(x)' = OnDisk(x)
      BY <1>9, <2>2 DEF Loads, OnDisk, Write
    <3> QED
      BY <1>1, <1>4, <1>9, <2>2, <3>1 DEF Loads
  <2> QED
    BY <2>1, <2>2
<1>10. Copies \/ Loads \/ (disk' = disk /\ ~(Top.kind = "package" /\ Top.pc = "copied"))
  BY DEF DataShape, Calm, Idle, Busy, Looping, Loops, Abandons, Misses, Saves, Saved, MainExits,
         Starts, Joins, Quiet
<1> QED
  BY <1>7, <1>8, <1>9, <1>10

LEMMA LoadKept ==
  ASSUME TypeOK, StackInv, SlotInv, ThreadInv, LoadInv,
         PackageShape \/ ListShape \/ MainShape, DataShape
  PROVE  LoadInv'
<1>1. SUFFICES ASSUME NEW p, p = Top'.pkg, Top'.kind = "package", ~Excused(p)'
               PROVE  /\ Top'.pc \in Looping =>
                           \A f \in 1..Describe[p].sources :
                             f < Top'.n => Comes(f)' \/ OnDisk(Place)'[f] = "whole"
                      /\ Top'.pc = "saving" =>
                           \A f \in 1..Describe[p].sources : OnDisk(Place)'[f] = "whole"
                      /\ Top'.pc = "copied" => cache'[p].cached
  <2>1. PICK q : q = Top'.pkg
    OBVIOUS
  <2> QED
    BY <2>1 DEF LoadInv
<1> DEFINE Goal ==
      /\ Top'.pc \in Looping =>
           \A f \in 1..Describe[p].sources :
             f < Top'.n => Comes(f)' \/ OnDisk(Place)'[f] = "whole"
      /\ Top'.pc = "saving" =>
           \A f \in 1..Describe[p].sources : OnDisk(Place)'[f] = "whole"
      /\ Top'.pc = "copied" => cache'[p].cached
<1> SUFFICES Goal
  OBVIOUS
<1>2. ASSUME Top'.pc \notin Busy \ {"joinMakefile"} PROVE Goal
  BY <1>2 DEF Busy, Looping
<1>3. CASE Calm \/ Abandons
  BY <1>1, <1>2, <1>3 DEF Calm, Abandons, Idle
<1>4. CASE MainExits
  BY <1>1, <1>4 DEF MainExits, Top
<1>5. Stays => /\ ~Excused(Top.pkg) /\ Place' = Place /\ p = Top.pkg /\ Top'.call = Top.call
               /\ Top.kind = "package" /\ Top \in FrameType /\ PackageInv(Top) /\ Top.n \in Nat \ {0}
               /\ Top.i \in Nat /\ Top.pkg \in Packages /\ Top.call \notin DOMAIN results
               /\ Len(stack) \in 1..Len(stack) /\ Top = stack[Len(stack)] /\ IsPackage(Len(stack))
  <2>1. HAVE Stays
  <2>2. ~Excused(p) /\ p = Top.pkg
    BY <1>1, <2>1, DamageStays DEF Stays
  <2>3. Len(stack) \in 1..Len(stack) /\ Top = stack[Len(stack)] /\ IsPackage(Len(stack))
    BY <2>1, StackTop DEF TypeOK, Top, IsPackage, Stays
  <2> QED
    BY <2>1, <2>2, <2>3, PackageTop DEF Stays, Place, FrameType
<1>6. Stays => \A f \in 1..Describe[Top.pkg].sources :
        Comes(f) /\ ~MainExits => <<Top.call, f>> \in DOMAIN fetch' /\ fetch'[<<Top.call, f>>] = fetch[<<Top.call, f>>]
  <2>1. HAVE Stays
  <2>2. \A f \in 1..Describe[Top.pkg].sources : f # Makefile
    BY <1>5, <2>1, Constants
  <2>3. \A f : <<Top.call, f>>[2] = f
    OBVIOUS
  <2> QED
    BY <2>1, <2>2, <2>3, ThreadsStay DEF Comes
<1>7. Stays => ~MainExits
  BY DEF Stays, MainExits
<1>8. Stays => \A f \in 1..Describe[Top.pkg].sources : Comes(f) => Comes(f)'
  BY <1>5, <1>6, <1>7 DEF Comes
<1>9. CASE Loops
  <2>1. Top.pc \in Looping /\ Stays /\ Top'.n = Top.n /\ disk' = disk /\ Top'.pc \in Looping
    BY <1>9 DEF Loops, Quiet
  <2>2. OnDisk(Place)' = OnDisk(Place)
    BY <1>5, <2>1 DEF OnDisk
  <2>3. \A f \in 1..Describe[Top.pkg].sources : f < Top.n => Comes(f) \/ OnDisk(Place)[f] = "whole"
    BY <1>5, <2>1 DEF LoadInv
  <2> QED
    BY <1>5, <1>8, <2>1, <2>2, <2>3 DEF Looping
<1>10. ASSUME NEW file, NEW slot, Starts(file, slot) PROVE Goal
  <2>1. Stays /\ disk' = disk
    BY <1>10 DEF Starts
  <2>2. OnDisk(Place)' = OnDisk(Place)
    BY <1>5, <2>1 DEF OnDisk
  <2>3. CASE Top'.pc = "joinMakefile"
    BY <1>2, <2>3
  <2>4. CASE /\ file = Top.n /\ Top'.n = Top.n + 1 /\ Top.pc = "start" /\ Top'.pc \in {"download", "batch"}
    <3>1. \A f \in 1..Describe[Top.pkg].sources : f < Top.n => Comes(f) \/ OnDisk(Place)[f] = "whole"
      BY <1>5, <2>1, <2>4 DEF LoadInv, Looping
    <3>2. PICK n \in Nat \ {0} : n = Top.n
      BY <1>5, <2>1
    <3>3. Comes(n)'
      <4>1. PICK u : u = <<Top.call, n>>
        OBVIOUS
      <4>2. u \in DOMAIN fetch' /\ fetch'[u].pc = "look"
        BY <1>10, <2>4, <3>2, <4>1 DEF Starts
      <4>3. Top'.call = Top.call
        BY <2>1 DEF Stays
      <4> QED
        BY <4>1, <4>2, <4>3 DEF Comes
    <3>4. \A f \in 1..Describe[p].sources : f < Top'.n => f < n \/ f = n
      <4>1. PICK m \in Int : m = Describe[p].sources
        BY <1>5, <2>1, Constants
      <4>2. \A f \in 1..m : f < n + 1 => f < n \/ f = n
        BY <3>2
      <4> QED
        BY <2>4, <3>2, <4>1, <4>2
    <3>5. \A f \in 1..Describe[p].sources : f < Top'.n => Comes(f)' \/ OnDisk(Place)'[f] = "whole"
      BY <1>5, <1>8, <2>1, <2>2, <3>1, <3>2, <3>3, <3>4
    <3> QED
      BY <2>4, <3>5 DEF Looping
  <2> QED
    BY <1>10, <2>3, <2>4 DEF Starts
<1>11. ASSUME NEW w, Joins(w) PROVE Goal
  <2>1. Stays /\ disk' = disk
    BY <1>11 DEF Joins
  <2>2. OnDisk(Place)' = OnDisk(Place)
    BY <1>5, <2>1 DEF OnDisk
  <2>3. CASE Top'.pc = "cache"
    BY <1>2, <2>3 DEF Busy, Looping
  <2>4. CASE Top.pc \in {"batch", "last"} /\ Top'.pc = Top.pc /\ Top'.n = Top.n
    <3>1. \A f \in 1..Describe[Top.pkg].sources : f < Top.n => Comes(f) \/ OnDisk(Place)[f] = "whole"
      BY <1>5, <2>1, <2>4 DEF LoadInv, Looping
    <3> QED
      BY <1>5, <1>8, <2>1, <2>2, <2>4, <3>1 DEF Looping
  <2> QED
    BY <1>11, <2>3, <2>4 DEF Joins
<1>12. CASE Copies
  BY <1>5, <1>12 DEF Copies, Cached, Looping
<1>13. CASE Loads \/ Saved
  BY <1>2, <1>13 DEF Loads, Saved, Busy, Looping
<1>14. CASE Misses
  <2>1. Stays /\ Top'.n = Top.n /\ Top.pc = "cache" /\ Top'.pc = "download"
    BY <1>14 DEF Misses
  <2>2. Top'.n = 1
    BY <1>5, <2>1 DEF PackageInv, Early
  <2>3. \A f \in 1..Describe[p].sources : ~(f < 1)
    BY <1>5, <2>1, Constants
  <2> QED
    BY <2>1, <2>2, <2>3 DEF Looping
<1>15. CASE Saves
  <2>1. Stays /\ disk' = disk /\ Top.pc = "last" /\ Top'.pc = "saving" /\ Top.i <= 0
    BY <1>15 DEF Saves
  <2>2. OnDisk(Place)' = OnDisk(Place)
    BY <1>5, <2>1 DEF OnDisk
  <2>3. ASSUME NEW f \in 1..Describe[Top.pkg].sources PROVE OnDisk(Place)[f] = "whole"
    <3>1. f < Top.n
      <4>1. PICK n \in Nat, s \in Int : n = Top.n /\ s = Describe[Top.pkg].sources
        BY <1>5, <2>1, Constants
      <4>2. n > s
        BY <1>5, <2>1, <4>1 DEF PackageInv
      <4>3. f \in 1..s
        BY <4>1
      <4>4. f < n
        BY <4>1, <4>2, <4>3
      <4> QED
        BY <4>1, <4>4
    <3>2. Comes(f) \/ OnDisk(Place)[f] = "whole"
      BY <1>5, <2>1, <3>1 DEF LoadInv, Looping
    <3>3. ASSUME Comes(f) PROVE FALSE
      <4>1. PICK t \in DOMAIN fetch : t = <<Top.call, f>> /\ t[1] = Top.call
        BY <3>3 DEF Comes
      <4>2. fetch[t].place[2] = Top.pkg
        BY <1>5, <2>1, <4>1 DEF ThreadInv
      <4>3. fetch[t].slot # Concurrency
        BY <1>5, <2>1, <4>2 DEF SlotInv, Excused
      <4>4. ~Abandoned(t[1])
        BY <1>5, <2>1, <4>1 DEF Abandoned
      <4>5. Awaited(t)
        BY <4>3, <4>4 DEF SlotInv
      <4>6. fetch[t].slot \in 0..(Top.i - 1)
        BY <2>1, <4>5 DEF Awaited
      <4>7. PICK i \in Nat : i = Top.i
        BY <1>5, <2>1
      <4>8. 0..(i - 1) = {}
        BY <2>1, <4>7
      <4> QED
        BY <4>6, <4>7, <4>8
    <3> QED
      BY <3>2, <3>3
  <2> QED
    BY <1>5, <2>1, <2>2, <2>3 DEF Looping
<1> HIDE DEF Goal
<1> QED
  BY <1>3, <1>4, <1>9, <1>10, <1>11, <1>12, <1>13, <1>14, <1>15 DEF DataShape

LEMMA CacheKept ==
  ASSUME TypeOK, StackInv, LoadInv, CacheWhole,
         PackageShape \/ ListShape \/ MainShape, DataShape
  PROVE  CacheWhole'
<1>1. SUFFICES ASSUME NEW p \in Packages, cache'[p].cached, ~Excused(p)'
               PROVE  \/ \A f \in 1..Describe[p].sources : cache'[p].files[f] = "whole"
                      \/ At("package", "saving")' /\ Top'.pkg = p
  BY DEF CacheWhole, Excused, Overfull
<1>2. ~Excused(p)
  BY <1>1, DamageStays
<1>3. cache[p].cached => \/ \A f \in 1..Describe[p].sources : cache[p].files[f] = "whole"
                         \/ At("package", "saving") /\ Top.pkg = p
  BY <1>2 DEF CacheWhole, Excused
<1>4. CASE cache'[p] = cache[p] /\ ~(Top.kind = "package" /\ Top.pc = "saving")
  BY <1>1, <1>3, <1>4 DEF At
<1>5. CASE Misses
  <2>1. cache \in [Packages -> Entries]
    BY DEF TypeOK, DataType
  <2>2. CASE p = Top.pkg /\ Cached(Top.pkg)
    BY <1>1, <1>5, <2>1, <2>2 DEF Misses, NoEntry
  <2>3. CASE ~(p = Top.pkg /\ Cached(Top.pkg))
    BY <1>4, <1>5, <2>1, <2>3 DEF Misses
  <2> QED
    BY <2>2, <2>3
<1>6. CASE Saves
  <2>1. cache \in [Packages -> Entries]
    BY DEF TypeOK, DataType
  <2>2. CASE p = Top.pkg
    BY <1>6, <2>2 DEF Saves, Stays, At
  <2>3. CASE p # Top.pkg
    BY <1>4, <1>6, <2>1, <2>3 DEF Saves
  <2> QED
    BY <2>2, <2>3
<1>7. CASE Saved
  <2>1. cache \in [Packages -> Entries] /\ Top.kind = "package" /\ Top.pc = "saving"
    BY <1>7 DEF TypeOK, DataType, Saved, Stays
  <2>2. CASE p = Top.pkg
    <3>1. cache'[p].files = OnDisk(Place)
      BY <1>7, <2>1, <2>2 DEF Saved, Entries
    <3>2. \A f \in 1..Describe[p].sources : OnDisk(Place)[f] = "whole"
      BY <1>2, <2>1, <2>2 DEF LoadInv
    <3> QED
      BY <3>1, <3>2
  <2>3. CASE p # Top.pkg
    BY <1>1, <1>3, <1>7, <2>1, <2>3 DEF Saved
  <2> QED
    BY <2>2, <2>3
<1>8. Misses \/ Saves \/ Saved \/ (cache' = cache /\ ~(Top.kind = "package" /\ Top.pc = "saving"))
  BY DEF DataShape, Calm, Idle, Busy, Looping, Loops, Abandons, Copies, Loads, MainExits,
         Starts, Joins, Quiet
<1> QED
  BY <1>4, <1>5, <1>6, <1>7, <1>8

-----------------------------------------------------------------------------
\* A step of a thread leaves the others, and its own slot and place, alone.
Writes(t, how) ==
  /\ disk' = Write(fetch[t].place, [OnDisk(fetch[t].place) EXCEPT ![t[2]] = how])
  /\ damaged' = damaged
Advances(t) ==
  /\ t \in DOMAIN fetch /\ DOMAIN fetch' = DOMAIN fetch
  /\ \A u \in DOMAIN fetch : u # t => fetch'[u] = fetch[u]
  /\ fetch'[t].place = fetch[t].place /\ fetch'[t].slot = fetch[t].slot
  /\ \/ /\ fetch[t].pc = "look" /\ fetch'[t].pc = "open" /\ UNCHANGED <<disk, damaged>>
     \/ /\ fetch[t].pc = "look" /\ fetch'[t].pc = "count" /\ UNCHANGED <<disk, damaged>>
        /\ ~Options.force /\ OnDisk(fetch[t].place)[t[2]] # "absent"
     \/ fetch[t].pc = "open" /\ fetch'[t].pc = "get" /\ Writes(t, "cut")
     \/ fetch[t].pc = "get" /\ fetch'[t].pc = "count" /\ Writes(t, "whole")
     \/ /\ fetch[t].pc = "get" /\ fetch'[t].pc = "count" /\ disk' = disk
        /\ damaged' = damaged \cup {fetch[t].place[2]}
     \/ /\ fetch[t].pc \in {"count", "end"} /\ fetch'[t].pc \in {"end", "ended"}
        /\ UNCHANGED <<disk, damaged>>
  /\ UNCHANGED <<setup, stack, visited, results, saved, exit, cache, freed, runs>>

LEMMA Advance ==
  ASSUME TypeOK, NEW t \in DOMAIN fetch, FetchStep(t), KeepRest, UNCHANGED installVars
  PROVE  /\ Advances(t) /\ fetch'[t] \in ThreadType
         /\ refs' \in Seq(Int) /\ Len(refs') = Len(refs)
<1>1. /\ fetch[t] \in ThreadType /\ refs \in Seq(Int) /\ Len(refs) \in Nat
      /\ t[1] \in 1..Len(refs) /\ refs[t[1]] \in Int
  <2>1. t[1] \in 1..Len(refs) /\ refs \in Seq(Int) /\ fetch[t] \in ThreadType
    BY DEF TypeOK, DataType, CallsType
  <2> QED
    BY <2>1
<1>2. /\ fetch[t] = [place |-> fetch[t].place, slot |-> fetch[t].slot, pc |-> fetch[t].pc, read |-> fetch[t].read]
      /\ fetch[t].place \in Places /\ fetch[t].slot \in -1..Concurrency /\ fetch[t].read \in Int
  BY <1>1 DEF ThreadType
<1>3. UNCHANGED <<setup, stack, visited, results, saved, exit, cache, runs>>
  BY DEF KeepRest, installVars
<1>4. ASSUME NEW pc \in {"look", "open", "get", "count", "end", "ended"}, fetch' = [fetch EXCEPT ![t].pc = pc]
      PROVE  /\ DOMAIN fetch' = DOMAIN fetch /\ fetch'[t].pc = pc
             /\ \A u \in DOMAIN fetch : u # t => fetch'[u] = fetch[u]
             /\ fetch'[t].place = fetch[t].place /\ fetch'[t].slot = fetch[t].slot
             /\ fetch'[t] \in ThreadType
  BY <1>1, <1>4 DEF ThreadType
<1>5. CASE Look(t)
  <2>1. CASE Options.force \/ OnDisk(fetch[t].place)[t[2]] = "absent"
    <3>1. fetch' = [fetch EXCEPT ![t].pc = "open"] /\ fetch[t].pc = "look" /\ UNCHANGED <<disk, damaged, freed, refs>>
      BY <1>5, <2>1 DEF Look
    <3> QED
      BY <1>1, <1>3, <1>4, <3>1 DEF Advances
  <2>2. CASE ~(Options.force \/ OnDisk(fetch[t].place)[t[2]] = "absent")
    <3>1. fetch' = [fetch EXCEPT ![t].pc = "count"] /\ fetch[t].pc = "look" /\ UNCHANGED <<disk, damaged, freed, refs>>
      BY <1>5, <2>2 DEF Look
    <3> QED
      BY <1>1, <1>3, <1>4, <2>2, <3>1 DEF Advances
  <2> QED
    BY <2>1, <2>2
<1>6. CASE Open(t)
  <2>1. fetch' = [fetch EXCEPT ![t].pc = "get"] /\ fetch[t].pc = "open" /\ UNCHANGED <<damaged, freed, refs>>
    BY <1>6 DEF Open
  <2>2. Writes(t, "cut")
    BY <1>6 DEF Open, Writes
  <2> QED
    BY <1>1, <1>3, <1>4, <2>1, <2>2 DEF Advances
<1>7. CASE Got(t)
  <2>1. fetch' = [fetch EXCEPT ![t].pc = "count"] /\ fetch[t].pc = "get" /\ UNCHANGED <<freed, refs>>
    BY <1>7 DEF Got
  <2>2. Writes(t, "whole") \/ (disk' = disk /\ damaged' = damaged \cup {fetch[t].place[2]})
    BY <1>7 DEF Got, Writes
  <2> QED
    BY <1>1, <1>3, <1>4, <2>1, <2>2 DEF Advances
<1>8. CASE Count(t)
  <2>1. fetch' = [fetch EXCEPT ![t].pc = "end", ![t].read = refs[t[1]]] /\ fetch[t].pc = "count" /\ UNCHANGED <<disk, damaged, freed, refs>>
    BY <1>8 DEF Count
  <2>2. /\ DOMAIN fetch' = DOMAIN fetch /\ fetch'[t].pc = "end"
        /\ \A u \in DOMAIN fetch : u # t => fetch'[u] = fetch[u]
        /\ fetch'[t].place = fetch[t].place /\ fetch'[t].slot = fetch[t].slot
        /\ fetch'[t] \in ThreadType
    BY <1>1, <2>1 DEF ThreadType
  <2> QED
    BY <1>1, <1>3, <2>1, <2>2 DEF Advances
<1>9. CASE End(t)
  <2>1. fetch' = [fetch EXCEPT ![t].pc = "ended", ![t].read = 0] /\ fetch[t].pc = "end" /\ UNCHANGED <<disk, damaged, freed>>
    BY <1>9 DEF End
  <2>2. /\ DOMAIN fetch' = DOMAIN fetch /\ fetch'[t].pc = "ended"
        /\ \A u \in DOMAIN fetch : u # t => fetch'[u] = fetch[u]
        /\ fetch'[t].place = fetch[t].place /\ fetch'[t].slot = fetch[t].slot
        /\ fetch'[t] \in ThreadType
    BY <1>1, <2>1 DEF ThreadType
  <2>3. fetch[t].read - 1 \in Int
    BY <1>2
  <2>4. refs' \in Seq(Int) /\ Len(refs') = Len(refs)
    BY <1>1, <1>9, <2>3 DEF End
  <2> QED
    BY <1>3, <2>1, <2>2, <2>4 DEF Advances
<1> QED
  BY <1>5, <1>6, <1>7, <1>8, <1>9 DEF FetchStep

LEMMA ThreadTyped ==
  ASSUME TypeOK, StackInv, NEW t, Advances(t), fetch'[t] \in ThreadType,
         refs' \in Seq(Int), Len(refs') = Len(refs)
  PROVE  TypeOK' /\ StackInv'
<1>1. UNCHANGED <<setup, stack, visited, results, saved, exit, cache, freed, runs>> /\ Len(refs) \in Nat
  BY DEF Advances, TypeOK, CallsType
<1>2. StackType' /\ CallsType'
  BY <1>1 DEF TypeOK, StackType, CallsType
<1>3. StackInv'
  BY <1>1, SameStack
<1>4. t \in DOMAIN fetch /\ fetch[t].place \in Places /\ fetch[t].place[2] \in Packages /\ t[2] \in Names
  BY DEF Advances, TypeOK, DataType, ThreadType, Places
<1>5. /\ DOMAIN fetch' \subseteq (1..Len(refs')) \X Names
      /\ \A u \in DOMAIN fetch' : fetch'[u] \in ThreadType /\ (fetch'[u].slot = -1 <=> u[2] = Makefile)
  <2>1. /\ DOMAIN fetch \subseteq (1..Len(refs)) \X Names
        /\ \A u \in DOMAIN fetch : fetch[u] \in ThreadType /\ (fetch[u].slot = -1 <=> u[2] = Makefile)
    BY DEF TypeOK, DataType
  <2>2. /\ t \in DOMAIN fetch /\ DOMAIN fetch' = DOMAIN fetch
        /\ \A u \in DOMAIN fetch : u # t => fetch'[u] = fetch[u]
        /\ fetch'[t].slot = fetch[t].slot
    BY DEF Advances
  <2> QED
    BY <2>1, <2>2
<1>6. damaged' \subseteq Packages
  BY <1>4 DEF Advances, Writes, TypeOK, DataType
<1>7. DOMAIN disk' \subseteq Places /\ \A x \in DOMAIN disk' : disk'[x] \in Files
  <2>1. DOMAIN disk \subseteq Places /\ \A x \in DOMAIN disk : disk[x] \in Files
    BY DEF TypeOK, DataType
  <2>2. disk' = disk \/ Writes(t, "cut") \/ Writes(t, "whole")
    BY DEF Advances
  <2>3. ASSUME NEW how \in {"cut", "whole"}, Writes(t, how)
        PROVE  DOMAIN disk' \subseteq Places /\ \A x \in DOMAIN disk' : disk'[x] \in Files
    <3>1. OnDisk(fetch[t].place) \in Files
      BY <2>1, FilesTyped
    <3>2. [OnDisk(fetch[t].place) EXCEPT ![t[2]] = how] \in Files
      BY <1>4, <3>1 DEF Files
    <3> QED
      BY <1>4, <2>1, <2>3, <3>2, WriteTyped DEF Writes
  <2> QED
    BY <2>1, <2>2, <2>3
<1>8. DataType'
  BY <1>1, <1>5, <1>6, <1>7 DEF DataType, TypeOK
<1> QED
  BY <1>2, <1>3, <1>8 DEF TypeOK

LEMMA ThreadKeepsSlots ==
  ASSUME TypeOK, NestInv, SlotInv, ThreadInv, OwnInv, NEW t, Advances(t)
  PROVE  NestInv' /\ SlotInv' /\ ThreadInv' /\ OwnInv'
<1>1. UNCHANGED <<setup, stack, visited, results>> /\ Top' = Top /\ Options' = Options
      /\ (Faulty("thread")' <=> Faulty("thread"))
  BY OptionsStay DEF Advances, Top
<1>2. /\ DOMAIN fetch' = DOMAIN fetch
      /\ \A u \in DOMAIN fetch : fetch'[u].place = fetch[u].place /\ fetch'[u].slot = fetch[u].slot
  BY DEF Advances
<1>3. \A k : (Entered(k)' <=> Entered(k)) /\ (IsPackage(k)' <=> IsPackage(k))
  BY <1>1 DEF Entered, IsPackage
<1>4. NestInv'
  BY <1>1, <1>3 DEF NestInv
<1>5. SlotInv'
  <2>1. \A u \in DOMAIN fetch : Awaited(u)' <=> Awaited(u)
    BY <1>1, <1>2 DEF Awaited
  <2>2. \A c : Abandoned(c)' <=> Abandoned(c)
    BY <1>1 DEF Abandoned
  <2> QED
    BY <1>2, <2>1, <2>2 DEF SlotInv, Overfull
<1>6. ThreadInv'
  BY <1>1, <1>2, <1>3 DEF ThreadInv
<1>7. OwnInv'
  BY <1>1, <1>2, <1>3 DEF OwnInv
<1> QED
  BY <1>4, <1>5, <1>6, <1>7

LEMMA ThreadKeepsFiles ==
  ASSUME TypeOK, StackInv, SlotInv, ThreadInv, OwnInv, DiskInv, LoadInv, CacheWhole,
         NEW t, Advances(t), exit = Running
  PROVE  DiskInv' /\ LoadInv' /\ CacheWhole'
<1>1. /\ UNCHANGED <<setup, stack, visited, results, exit, cache>> /\ Top' = Top /\ Place' = Place
      /\ Options' = Options /\ damaged \subseteq damaged'
      /\ \A pc : At("package", pc)' <=> At("package", pc)
  BY OptionsStay DEF Advances, Top, Place, Writes, At
<1>2. \A p : Excused(p) => Excused(p)'
  BY <1>1, ExcusedStays
<1>3. /\ t \in DOMAIN fetch /\ DOMAIN fetch' = DOMAIN fetch
      /\ \A u \in DOMAIN fetch : u # t => fetch'[u] = fetch[u]
      /\ \A u \in DOMAIN fetch : fetch'[u].place = fetch[u].place
      /\ t = <<t[1], t[2]>> /\ t[2] \in Names /\ fetch[t].place \in Places
  BY DEF Advances, TypeOK, DataType, ThreadType
<1>4. CacheWhole'
  BY <1>1, <1>2 DEF CacheWhole, Excused, Overfull
<1>0. PICK w \in Places : w = fetch[t].place
  BY <1>3
<1>5. \A x : OnDisk(x) \in Files
  BY FilesTyped DEF TypeOK, DataType
<1>6. \A how : Writes(t, how) =>
        /\ OnDisk(w)' = [OnDisk(w) EXCEPT ![t[2]] = how]
        /\ \A x : x # w => OnDisk(x)' = OnDisk(x)
  BY <1>0 DEF Writes, OnDisk, Write
<1>7. disk' = disk => \A x : OnDisk(x)' = OnDisk(x)
  BY DEF OnDisk
\* A file changes only where the thread writes.
<1>8. \A x : \A f \in Names : ~(x = w /\ f = t[2]) => OnDisk(x)'[f] = OnDisk(x)[f]
  <2>1. disk' = disk \/ Writes(t, "cut") \/ Writes(t, "whole")
    BY DEF Advances
  <2>2. CASE disk' = disk
    BY <1>7, <2>2
  <2>3. ASSUME NEW how, Writes(t, how)
        PROVE  \A x : \A f \in Names : ~(x = w /\ f = t[2]) => OnDisk(x)'[f] = OnDisk(x)[f]
    <3>1. OnDisk(w)' = [OnDisk(w) EXCEPT ![t[2]] = how] /\ \A x : x # w => OnDisk(x)' = OnDisk(x)
      BY <1>6, <2>3
    <3>2. \A f \in Names : f # t[2] => OnDisk(w)'[f] = OnDisk(w)[f]
      BY <1>5, <3>1 DEF Files
    <3> QED
      BY <3>1, <3>2
  <2> QED
    BY <2>1, <2>2, <2>3
<1>9. \A how : Writes(t, how) => OnDisk(w)'[t[2]] = how
  BY <1>3, <1>5, <1>6 DEF Files
<1>10. DiskInv'
  <2>1. SUFFICES ASSUME NEW x \in Places, ~Excused(x[2])', NEW f \in 1..Describe[x[2]].sources,
                        OnDisk(x)'[f] = "cut"
                 PROVE  \/ \E u \in DOMAIN fetch' :
                             fetch'[u].place = x /\ u[2] = f /\ fetch'[u].pc = "get"
                        \/ At("package", "copied")' /\ Place' = x
    BY DEF DiskInv
  <2>2. ~Excused(x[2])
    BY <1>2, <2>1
  <2>3. CASE x = w /\ f = t[2]
    <3>1. CASE fetch[t].pc = "open" /\ fetch'[t].pc = "get"
      BY <1>0, <1>3, <2>3, <3>1
    <3>2. CASE Writes(t, "whole")
      BY <1>9, <2>1, <2>3, <3>2
    <3>3. CASE damaged' = damaged \cup {fetch[t].place[2]}
      BY <1>0, <2>1, <2>3, <3>3 DEF Excused
    <3>4. CASE disk' = disk /\ fetch[t].pc # "get"
      <4>1. OnDisk(x)[f] = "cut"
        BY <1>7, <2>1, <3>4
      <4> QED
        BY <1>1, <1>3, <2>1, <2>2, <3>4, <4>1 DEF DiskInv
    <3>5. \/ fetch[t].pc = "open" /\ fetch'[t].pc = "get"
          \/ Writes(t, "whole")
          \/ damaged' = damaged \cup {fetch[t].place[2]}
          \/ disk' = disk /\ fetch[t].pc # "get"
      BY DEF Advances
    <3> QED
      BY <3>1, <3>2, <3>3, <3>4, <3>5
  <2>4. CASE ~(x = w /\ f = t[2])
    <3>0. f \in Names
      BY <2>1, Constants DEF Places
    <3>1. OnDisk(x)[f] = "cut"
      BY <1>8, <2>1, <2>4, <3>0
    <3>2. \/ \E u \in DOMAIN fetch : fetch[u].place = x /\ u[2] = f /\ fetch[u].pc = "get"
          \/ At("package", "copied") /\ Place = x
      BY <2>1, <2>2, <3>1 DEF DiskInv
    <3>3. \A u \in DOMAIN fetch : fetch[u].place = x /\ u[2] = f => u # t
      BY <1>0, <2>4
    <3> QED
      BY <1>1, <1>3, <3>2, <3>3
  <2> QED
    BY <2>3, <2>4
<1>11. LoadInv'
  <2>0. PICK p : p = Top.pkg
    OBVIOUS
  <2>1. CASE ~(Top.kind = "package" /\ ~Excused(p)')
    BY <1>1, <2>0, <2>1 DEF LoadInv
  <2>2. CASE Top.kind = "package" /\ ~Excused(p)'
    <3>1. /\ ~Excused(Top.pkg) /\ Top.pkg \in Packages /\ Place \in Places /\ Place[2] = Top.pkg
          /\ Top.call \notin DOMAIN results
          /\ Len(stack) \in 1..Len(stack) /\ Top = stack[Len(stack)] /\ IsPackage(Len(stack))
      <4>1. Len(stack) \in 1..Len(stack) /\ Top = stack[Len(stack)] /\ IsPackage(Len(stack))
        BY <2>2, StackTop DEF TypeOK, Top, IsPackage
      <4> QED
        BY <1>2, <2>0, <2>2, <4>1, PackageTop DEF Place, Places, FrameType
    <3>2. Top.pc # "enter" /\ fetch[t].place[2] = Top.pkg => t[1] = Top.call
      BY <1>3, <2>2, <3>1, OwnThreads
    <3>3. ASSUME NEW f \in 1..Describe[Top.pkg].sources, Top.pc \in Looping,
                 Comes(f) \/ OnDisk(Place)[f] = "whole"
          PROVE  Comes(f)' \/ OnDisk(Place)'[f] = "whole"
      <4>1. CASE ~(fetch[t].place = Place /\ t[2] = f)
        <5>1. OnDisk(Place)'[f] = OnDisk(Place)[f]
          <6>1. PICK x : x = Place
            OBVIOUS
          <6>2. OnDisk(x)'[f] = OnDisk(x)[f]
            BY <1>0, <1>8, <3>1, <3>3, <4>1, <6>1, Constants
          <6>3. OnDisk(Place)' = OnDisk(x)'
            BY <1>1, <6>1 DEF OnDisk
          <6> QED
            BY <6>1, <6>2, <6>3
        <5>2. t # <<Top.call, f>> \/ ~Comes(f)
          <6>1. t = <<Top.call, f>> => t[1] = Top.call /\ t[2] = f
            OBVIOUS
          <6>2. t[1] = Top.call => fetch[t].place = Place
            BY <1>3, <3>1 DEF ThreadInv, Place
          <6> QED
            BY <4>1, <6>1, <6>2
        <5>3. Comes(f) => Comes(f)'
          BY <1>1, <1>3, <5>2 DEF Comes
        <5> QED
          BY <3>3, <5>1, <5>3
      <4>2. CASE fetch[t].place = Place /\ t[2] = f
        <5>1. t = <<Top.call, f>>
          BY <1>3, <3>1, <3>2, <3>3, <4>2 DEF Looping
        <5>2. CASE fetch'[t].pc \in {"look", "open", "get"}
          BY <1>1, <1>3, <5>1, <5>2 DEF Comes
        <5>3. CASE Writes(t, "whole")
          <6>1. PICK x : x = Place
            OBVIOUS
          <6>2. OnDisk(x)'[f] = "whole"
            BY <1>0, <1>9, <4>2, <5>3, <6>1
          <6>3. OnDisk(Place)' = OnDisk(x)'
            BY <1>1, <6>1 DEF OnDisk
          <6> QED
            BY <6>2, <6>3
        <5>4. CASE damaged' = damaged \cup {fetch[t].place[2]}
          BY <2>0, <2>2, <3>1, <4>2, <5>4 DEF Excused
        <5>5. CASE /\ fetch[t].pc = "look" /\ fetch'[t].pc = "count" /\ disk' = disk
                   /\ ~Options.force /\ OnDisk(fetch[t].place)[t[2]] # "absent"
          <6>1. OnDisk(Place)[f] = "whole" \/ OnDisk(Place)[f] = "cut"
            <7>1. f \in Names /\ OnDisk(Place) \in Files
              BY <1>3, <1>5, <4>2
            <7> QED
              BY <4>2, <5>5, <7>1 DEF Files
          <6>2. ASSUME OnDisk(Place)[f] = "cut" PROVE FALSE
            <7>1. Place \in Places /\ f \in 1..Describe[Place[2]].sources /\ ~At("package", "copied")
              BY <3>1, <3>3 DEF At, Looping
            <7>2. PICK u \in DOMAIN fetch : fetch[u].place = Place /\ u[2] = f /\ fetch[u].pc = "get"
              BY <3>1, <6>2, <7>1 DEF DiskInv
            <7>3. u[1] = Top.call
              BY <2>2, <3>1, <3>3, <7>2, OwnThreads DEF Looping
            <7>4. u = <<u[1], u[2]>>
              BY DEF TypeOK, DataType
            <7> QED
              BY <5>1, <5>5, <7>2, <7>3, <7>4
          <6>3. OnDisk(Place)' = OnDisk(Place)
            BY <1>1, <5>5 DEF OnDisk
          <6> QED
            BY <6>1, <6>2, <6>3
        <5>6. CASE fetch[t].pc \in {"count", "end"} /\ disk' = disk
          <6>1. OnDisk(Place)' = OnDisk(Place)
            BY <1>1, <5>6 DEF OnDisk
          <6> QED
            BY <3>3, <5>1, <5>6, <6>1 DEF Comes
        <5> QED
          BY <5>2, <5>3, <5>4, <5>5, <5>6 DEF Advances
      <4> QED
        BY <4>1, <4>2
    <3>4. Top.pc = "saving" => fetch[t].place # Place
      <4>1. SUFFICES ASSUME Top.pc = "saving", fetch[t].place = Place PROVE FALSE
        OBVIOUS
      <4>2. t[1] = Top.call /\ ~Abandoned(t[1])
        BY <3>1, <3>2, <4>1 DEF Abandoned
      <4>3. ~Awaited(t)
        BY <4>1 DEF Awaited, Looping
      <4>4. fetch[t].slot # Concurrency
        BY <1>3, <3>1, <4>1 DEF SlotInv, Excused
      <4> QED
        BY <1>3, <4>2, <4>3, <4>4 DEF SlotInv
    <3>5. Top.pc = "saving" => OnDisk(Place)' = OnDisk(Place)
      <4>1. HAVE Top.pc = "saving"
      <4>2. PICK x : x = Place
        OBVIOUS
      <4>3. OnDisk(x)' = OnDisk(x)
        <5>1. disk' = disk \/ Writes(t, "cut") \/ Writes(t, "whole")
          BY DEF Advances
        <5> QED
          BY <1>0, <1>6, <1>7, <3>4, <4>1, <4>2, <5>1
      <4>4. OnDisk(Place)' = OnDisk(x)'
        BY <1>1, <4>2 DEF OnDisk
      <4> QED
        BY <4>2, <4>3, <4>4
    <3>6. Top.pc \in Looping =>
            \A f \in 1..Describe[Top.pkg].sources :
              f < Top.n => Comes(f)' \/ OnDisk(Place)'[f] = "whole"
      BY <2>2, <3>1, <3>3 DEF LoadInv
    <3>7. Top.pc = "saving" => \A f \in 1..Describe[Top.pkg].sources : OnDisk(Place)'[f] = "whole"
      BY <2>2, <3>1, <3>5 DEF LoadInv
    <3>8. Top.pc = "copied" => cache'[Top.pkg].cached
      BY <1>1, <2>2, <3>1 DEF LoadInv
    <3> QED
      BY <1>1, <3>6, <3>7, <3>8 DEF LoadInv
  <2> QED
    BY <2>1, <2>2
<1> QED
  BY <1>4, <1>10, <1>11

-----------------------------------------------------------------------------
\* Time passes for the cache, or nothing happens.
LEMMA Unmoved ==
  ASSUME IInv, UNCHANGED <<setup, fetchVars, installVars, runs>>, cache' \in [Packages -> Entries],
         \A p \in Packages : cache'[p].cached = cache[p].cached /\ cache'[p].files = cache[p].files
  PROVE  IInv'
<1>1. /\ UNCHANGED <<setup, disk, refs, freed, fetch, damaged, stack, visited, results, saved, exit, runs>>
      /\ Top' = Top /\ Place' = Place /\ Options' = Options
      /\ (\A what : Faulty(what)' <=> Faulty(what))
      /\ (\A pc : At("package", pc)' <=> At("package", pc))
      /\ (\A k : Entered(k)' <=> Entered(k)) /\ (\A k : IsPackage(k)' <=> IsPackage(k))
      /\ (\A t : Awaited(t)' <=> Awaited(t)) /\ (\A c : Abandoned(c)' <=> Abandoned(c))
      /\ (\A x : OnDisk(x)' = OnDisk(x)) /\ (\A p : Excused(p)' <=> Excused(p))
      /\ (\A f : Comes(f)' <=> Comes(f))
  <2>1. UNCHANGED <<setup, disk, refs, freed, fetch, damaged, stack, visited, results, saved, exit, runs>>
    BY DEF fetchVars, installVars
  <2>2. Top' = Top /\ Place' = Place /\ Options' = Options /\ (\A what : Faulty(what)' <=> Faulty(what))
    BY <2>1, OptionsStay DEF Top, Place
  <2>3. /\ (\A pc : At("package", pc)' <=> At("package", pc))
        /\ (\A k : Entered(k)' <=> Entered(k)) /\ (\A k : IsPackage(k)' <=> IsPackage(k))
    BY <2>1, <2>2 DEF At, Entered, IsPackage
  <2>4. (\A t : Awaited(t)' <=> Awaited(t)) /\ (\A c : Abandoned(c)' <=> Abandoned(c))
    BY <2>1, <2>2 DEF Awaited, Abandoned
  <2>5. (\A x : OnDisk(x)' = OnDisk(x)) /\ (\A p : Excused(p)' <=> Excused(p))
    BY <2>1, <2>2 DEF OnDisk, Excused, Overfull
  <2>6. \A f : Comes(f)' <=> Comes(f)
    BY <2>1, <2>2 DEF Comes
  <2> QED
    BY <2>1, <2>2, <2>3, <2>4, <2>5, <2>6
<1>2. TypeOK'
  BY <1>1 DEF IInv, TypeOK, StackType, CallsType, DataType
<1>3. StackInv'
  <2>1. Len(refs') \in Nat /\ Len(refs) <= Len(refs')
    BY <1>1 DEF IInv, TypeOK, CallsType
  <2> QED
    BY <1>1, <2>1, SameStack DEF IInv
<1>4. NestInv' /\ ThreadInv' /\ OwnInv'
  BY <1>1 DEF IInv, NestInv, ThreadInv, OwnInv
<1>5. SlotInv'
  BY <1>1 DEF IInv, SlotInv, Overfull
<1>6. DiskInv'
  BY <1>1 DEF IInv, DiskInv
<1>7. LoadInv'
  <2>1. PICK p : p = Top.pkg
    OBVIOUS
  <2>2. Top.kind = "package" => p \in Packages
    BY <2>1, PackageTop DEF IInv
  <2> QED
    BY <1>1, <2>1, <2>2 DEF IInv, LoadInv
<1>8. CacheWhole'
  BY <1>1 DEF IInv, CacheWhole, Overfull
<1> QED
  BY <1>2, <1>3, <1>4, <1>5, <1>6, <1>7, <1>8 DEF IInv

\* The program starts, on a disk and with a cache as they are.
Fresh ==
  /\ setup \in Setups /\ runs \in Nat
  /\ refs = <<>> /\ freed = {} /\ fetch = <<>>
  /\ stack = <<Main>> /\ visited = {} /\ results = <<>> /\ saved = {} /\ exit = Running

Started ==
  /\ StackType /\ CallsType /\ StackInv /\ NestInv /\ SlotInv /\ ThreadInv /\ OwnInv /\ LoadInv
  /\ DOMAIN fetch = {} /\ Top.kind = "main"

LEMMA FreshProcess == Fresh => Started
<1>1. SUFFICES ASSUME Fresh PROVE Started
  OBVIOUS
<1>2. DOMAIN fetch = {} /\ DOMAIN results = {} /\ Len(refs) = 0 /\ refs \in Seq(Int)
  BY <1>1 DEF Fresh
<1>3. setup.args \in Seq(Arguments) /\ setup \in Setups
  BY <1>1, Setup DEF Fresh
<1>4. /\ Main.kind = "main" /\ Main.pc = "enter" /\ Main.items = setup.args /\ Main.n = 1
  BY DEF Main, Call
<1>5. Main \in FrameType
  <2>1. "enter" \in Spots /\ "deps" \in Dirs /\ Nobody \in Packages \cup {Nobody} /\ 0 \in Codes
    BY DEF Spots, MainPlaces, Dirs, Codes
  <2> QED
    BY <1>3, <2>1 DEF Main, Call, FrameType
<1>6. Len(stack) = 1 /\ stack[1] = Main /\ Top = Main /\ stack \in Seq(FrameType)
  BY <1>1, <1>5 DEF Fresh, Top
<1>7. StackType
  BY <1>1, <1>6 DEF StackType, Fresh
<1>8. CallsType
  BY <1>1, <1>2, <1>3 DEF Fresh, CallsType, Running, Codes
<1>9. StackInv
  <2>1. FrameInv(Main)
    BY <1>4 DEF FrameInv, FrameOK, MainPlaces
  <2>2. \A k \in 1..Len(stack) : k = 1 /\ stack[k] = Main
    BY <1>6
  <2>3. \A k \in 2..Len(stack) : FALSE
    BY <1>6
  <2>4. ~AwaitsPackage(Top)
    BY <1>4, <1>6 DEF AwaitsPackage
  <2> QED
    BY <1>4, <2>1, <2>2, <2>3, <2>4 DEF StackInv, IsPackage
<1>10. NestInv /\ ThreadInv /\ OwnInv
  <2>1. \A k \in 1..Len(stack) : ~IsPackage(k) /\ ~Entered(k)
    BY <1>4, <1>6 DEF IsPackage, Entered
  <2> QED
    BY <1>2, <2>1 DEF NestInv, ThreadInv, OwnInv
<1>11. SlotInv
  BY <1>2 DEF SlotInv
<1>12. LoadInv
  BY <1>4, <1>6 DEF LoadInv
<1> QED
  BY <1>2, <1>4, <1>6, <1>7, <1>8, <1>9, <1>10, <1>11, <1>12 DEF Started

LEMMA InitInv ==
  ASSUME Init
  PROVE  IInv
<1>1. Fresh
  BY DEF Init, Fresh
<1>2. NoFiles \in Files /\ \A f \in Names : NoFiles[f] = "absent"
  BY DEF NoFiles, Files
<1>3. DOMAIN disk = {} /\ DOMAIN fetch = {} /\ damaged = {} /\ cache = [p \in Packages |-> NoEntry]
  BY DEF Init
<1>4. DataType
  BY <1>2, <1>3 DEF DataType, NoEntry, Entries
<1>5. DiskInv
  <2>1. \A x \in Places : \A f \in 1..Describe[x[2]].sources : f \in Names
    BY Constants DEF Places
  <2> QED
    BY <1>2, <1>3, <2>1 DEF DiskInv, OnDisk
<1>6. CacheWhole
  BY <1>3 DEF CacheWhole, NoEntry
<1> QED
  BY <1>1, <1>4, <1>5, <1>6, FreshProcess DEF Started, IInv, TypeOK

LEMMA RerunInv ==
  ASSUME IInv, Rerun
  PROVE  IInv'
<1>1. Fresh'
  BY DEF Rerun, Fresh, IInv, TypeOK, CallsType, Main, Call
<1>2. /\ StackType' /\ CallsType' /\ StackInv' /\ NestInv' /\ SlotInv' /\ ThreadInv' /\ OwnInv' /\ LoadInv'
      /\ DOMAIN fetch' = {} /\ Top'.kind = "main"
  <2>1. Started'
    BY <1>1, FreshProcess, PTL
  <2> QED
    BY <2>1 DEF Started
<1>3. /\ UNCHANGED <<setup, disk, cache>>
      /\ damaged' = damaged \cup Arriving
                \cup {p \in {Top.pkg} : At("package", "copied") \/ At("package", "saving")}
  BY DEF Rerun
<1>4. \A p : Excused(p) => Excused(p)'
  BY <1>3, ExcusedStays
<1>5. damaged' \subseteq Packages
  <2>1. Arriving \subseteq Packages
    BY DEF IInv, TypeOK, DataType, Arriving, ThreadType, Places
  <2>2. At("package", "copied") \/ At("package", "saving") => Top.pkg \in Packages
    BY PackageTop DEF At, IInv
  <2> QED
    BY <1>3, <2>1, <2>2 DEF IInv, TypeOK, DataType
<1>6. DataType'
  BY <1>2, <1>3, <1>5 DEF IInv, TypeOK, DataType
<1>7. DiskInv'
  <2>1. SUFFICES ASSUME NEW x \in Places, ~Excused(x[2])', NEW f \in 1..Describe[x[2]].sources,
                        OnDisk(x)'[f] = "cut"
                 PROVE  FALSE
    BY DEF DiskInv
  <2>2. OnDisk(x)[f] = "cut" /\ ~Excused(x[2])
    BY <1>3, <1>4, <2>1 DEF OnDisk
  <2>3. \/ \E t \in DOMAIN fetch : fetch[t].place = x /\ t[2] = f /\ fetch[t].pc = "get"
        \/ At("package", "copied") /\ Place = x
    BY <2>1, <2>2 DEF IInv, DiskInv
  <2>4. x[2] \in damaged'
    BY <1>3, <2>3 DEF Arriving, Place
  <2> QED
    BY <2>1, <2>4 DEF Excused
<1>8. CacheWhole'
  <2>1. SUFFICES ASSUME NEW p \in Packages, cache[p].cached, ~Excused(p)'
                 PROVE  \A f \in 1..Describe[p].sources : cache[p].files[f] = "whole"
    BY <1>3 DEF CacheWhole, Excused, Overfull
  <2>2. ~Excused(p) /\ p \notin damaged'
    BY <1>4, <2>1 DEF Excused
  <2>3. ~(At("package", "saving") /\ Top.pkg = p)
    BY <1>3, <2>2
  <2> QED
    BY <2>1, <2>2, <2>3 DEF IInv, CacheWhole, Excused
<1> QED
  BY <1>2, <1>6, <1>7, <1>8 DEF IInv, TypeOK

LEMMA CallStep ==
  ASSUME IInv, PackageStep \/ ListStep \/ MainStep
  PROVE  IInv'
<1>1. TypeOK /\ StackInv /\ NestInv /\ SlotInv /\ ThreadInv /\ OwnInv /\ DiskInv /\ LoadInv /\ CacheWhole
  BY DEF IInv
<1>2. PackageShape \/ ListShape \/ MainShape
  BY <1>1, PackageShapes, ListShapes, MainShapes
<1>3. DataShape
  BY <1>1, DataOfPackage, DataOfList, DataOfMain
<1>4. StackInv'
  BY <1>1, <1>2, StackOfPackage, StackOfList, StackOfMain
<1>5. StackType' /\ CallsType' /\ DataType'
  BY <1>1, <1>2, <1>3, StackTyped, CallsTyped, DataTyped
<1>6. NestInv' /\ SlotInv' /\ ThreadInv' /\ OwnInv'
  BY <1>1, <1>2, <1>3, <1>4, <1>5, NestStep, SlotKept, PlaceKept, OwnKept
<1>7. DiskInv' /\ LoadInv' /\ CacheWhole'
  BY <1>1, <1>2, <1>3, DiskKept, LoadKept, CacheKept
<1> QED
  BY <1>4, <1>5, <1>6, <1>7 DEF IInv, TypeOK

LEMMA Inductive ==
  ASSUME IInv, [Next]_vars
  PROVE  IInv'
<1>1. CASE PackageStep \/ ListStep \/ MainStep
  BY <1>1, CallStep
<1>2. CASE ThreadStep
  <2>1. PICK t \in DOMAIN fetch : FetchStep(t)
    BY <1>2 DEF ThreadStep
  <2>2. exit = Running /\ KeepRest /\ UNCHANGED installVars
    BY <1>2 DEF ThreadStep
  <2>3. Advances(t) /\ fetch'[t] \in ThreadType /\ refs' \in Seq(Int) /\ Len(refs') = Len(refs)
    BY <2>1, <2>2, Advance DEF IInv
  <2>4. TypeOK' /\ StackInv'
    BY <2>3, ThreadTyped DEF IInv
  <2>5. NestInv' /\ SlotInv' /\ ThreadInv' /\ OwnInv'
    BY <2>3, ThreadKeepsSlots DEF IInv
  <2>6. DiskInv' /\ LoadInv' /\ CacheWhole'
    BY <2>2, <2>3, ThreadKeepsFiles DEF IInv
  <2> QED
    BY <2>4, <2>5, <2>6 DEF IInv
<1>3. CASE \E p \in Packages : Expire(p)
  <2>1. PICK p \in Packages : Expire(p)
    BY <1>3
  <2>2. cache \in [Packages -> Entries]
    BY DEF IInv, TypeOK, DataType
  <2>3. cache' = [cache EXCEPT ![p].old = TRUE] /\ UNCHANGED <<setup, fetchVars, installVars, runs>>
    BY <2>1 DEF Expire, KeepFetch
  <2>4. /\ cache' \in [Packages -> Entries]
        /\ \A q \in Packages : cache'[q].cached = cache[q].cached /\ cache'[q].files = cache[q].files
    BY <2>2, <2>3 DEF Entries
  <2> QED
    BY <2>3, <2>4, Unmoved
<1>4. CASE Rerun
  BY <1>4, RerunInv
<1>5. CASE UNCHANGED vars
  <2>1. UNCHANGED <<setup, fetchVars, installVars, runs>> /\ cache' = cache
    BY <1>5 DEF vars
  <2>2. cache' \in [Packages -> Entries]
    BY <2>1 DEF IInv, TypeOK, DataType
  <2> QED
    BY <2>1, <2>2, Unmoved
<1> QED
  BY <1>1, <1>2, <1>3, <1>4, <1>5 DEF Next, Work

LEMMA Invariant == Spec => []IInv
<1>1. Init => IInv
  BY InitInv
<1>2. IInv /\ [Next]_vars => IInv'
  BY Inductive
<1> QED
  BY <1>1, <1>2, PTL DEF Spec

-----------------------------------------------------------------------------
\* The state is always of its type: no result is looked up that is not there,
\* and no thread counts down an object that was never made.
THEOREM TypeCorrect == Spec => []TypeOK
<1>1. IInv => TypeOK
  BY DEF IInv
<1> QED
  BY <1>1, Invariant, PTL

\* The calls nest no deeper than there are packages, cyclic dependencies or
\* not, unless all is forced: the hash of visited names bounds the recursion.
THEOREM DepthBounded == Spec => []NestingBounded
<1>1. IInv => NestingBounded
  <2>1. SUFFICES ASSUME IInv, ~Options.force PROVE NestingBounded
    BY DEF NestingBounded
  <2> DEFINE D == {i \in 1..Len(stack) : stack[i].kind = "package" /\ stack[i].pc # "enter"}
             g == [i \in D |-> stack[i].pkg]
  <2>2. \A i \in D : Entered(i)
    BY DEF Entered, IsPackage
  <2>3. \A i \in D : stack[i].pkg \in Packages
    BY <2>1, <2>2 DEF IInv, StackInv, FrameInv, FrameOK, PackageInv
  <2>4. g \in Injection(D, Packages)
    <3>1. g \in [D -> Packages]
      BY <2>3
    <3>2. \A i, j \in D : g[i] = g[j] => i = j
      BY <2>1, <2>2 DEF IInv, NestInv
    <3> QED
      BY <3>1, <3>2 DEF Injection, IsInjective
  <2>5. IsFiniteSet(Packages)
    BY ClibFetchAssumption DEF ClibFetchAssumption
  <2>6. Cardinality(D) <= Cardinality(Packages)
    BY <2>4, <2>5, FS_Injection
  <2> QED
    BY <2>6 DEF NestingBounded
<1> QED
  BY <1>1, Invariant, PTL

\* A thread that outlives the call that made it, or the package object it
\* counts down, is the one in the slot past the batch, or its call gave up
\* because a later thread could not be started.
THEOREM LateThreads == Spec => []LateThreadIsOverflow
<1>1. IInv => LateThreadIsOverflow
  <2>1. SUFFICES ASSUME IInv, NEW t \in DOMAIN fetch, t[1] \in DOMAIN results \/ t[1] \in freed,
                        fetch[t].slot # Concurrency
                 PROVE  Faulty("thread") /\ results[t[1]] = -1
    BY DEF LateThreadIsOverflow
  <2>2. t[1] \in DOMAIN results
    BY <2>1 DEF IInv, TypeOK, CallsType
  <2>3. Top.kind = "package" => Top.call \notin DOMAIN results
    BY <2>1, PackageTop DEF IInv
  <2>4. ~Awaited(t)
    BY <2>2, <2>3 DEF Awaited
  <2> QED
    BY <2>1, <2>4 DEF IInv, SlotInv, Abandoned
<1> QED
  BY <1>1, Invariant, PTL

\* What is in the cache of packages is whole, or there is a reason that the
\* code cannot see: a fetch that failed, a run that was killed, more sources
\* than slots, or a thread that did not start while all is forced.
THEOREM CachesWhole == Spec => []CacheWhole
<1>1. IInv => CacheWhole
  BY DEF IInv
<1> QED
  BY <1>1, Invariant, PTL
-----------------------------------------------------------------------------
\* What an exit code of 0 means.  While no call gave anything but 0, what a
\* visited package depends on is visited, or in the list above a call of that
\* package; a result of -1 climbs the stack to main.
BadEnd ==
  /\ setup.faults # {}
  /\ \/ setup.args = <<>> /\ setup.manifests = Range(Manifests)
     \/ Range(setup.args) \cap {Here, File} # {}
Clean == \A c \in DOMAIN results : results[c] = 0
Failed == \E c \in DOMAIN results : results[c] = -1

RcInv ==
  /\ AwaitsList(Top) => Top.rc \in {-1, 0}
  /\ (AwaitsList(Top) \/ AwaitsPackage(Top)) /\ Top.rc = -1 => setup.faults # {}
  /\ Failed => setup.faults # {}

\* Where main is in its arguments and in its manifests.
Ended0 == exit.how = "returned" /\ exit.rc = 0
ArgsInv ==
  /\ Range(stack[1].items) \subseteq Range(setup.args)
  /\ setup.args = <<>> => stack[1].items = <<>>
  /\ stack[1].pc \in {"local", "localDev"} => Manifests[stack[1].n] \in setup.manifests
  /\ stack[1].n = 2 => Manifests[1] \notin setup.manifests \/ setup.faults # {}
  /\ exit.how = "returned" => Len(stack) = 1

\* A failure is being returned, or main has no manifest left to try.
OnItsWay ==
  \/ Top.rc = -1 /\ (AwaitsPackage(Top) \/ AwaitsList(Top))
  \/ /\ setup.args = <<>> /\ Len(stack) = 1 /\ Top.pc = "enter" /\ Top.n = 2
     /\ Manifests[2] \notin setup.manifests
FailInv ==
  ~BadEnd /\ Failed => /\ exit.how = "no" => OnItsWay
                       /\ ~Ended0

VisitInv == \A k \in 1..Len(stack) : Entered(k) => stack[k].pkg \in visited
AwaitInv == AwaitsPackage(Top) => Head(Top.items) \in visited

Direct(p) == Range(Describe[p].dependencies)
Unfinished(p) == \E k \in 1..Len(stack) : Entered(k) /\ stack[k].pkg = p
PendInv == \A p \in visited : Direct(p) \subseteq visited \/ Unfinished(p)

\* Call k waits for a list of S, or has waited for it.
Behind(k, S) ==
  IF k < Len(stack) THEN S \subseteq visited \cup Range(stack[k + 1].items)
  ELSE stack[k].rc # -1 => S \subseteq visited
ListInv ==
  \A k \in 1..Len(stack) :
    IsPackage(k) /\ stack[k].pc = "return" => Behind(k, Direct(stack[k].pkg))

\* main is through with argument a.
Through(a) ==
  /\ Named(a) \subseteq visited
  /\ Options.save /\ a \notin {Here, File} => a \in saved
MainInv ==
  /\ \A a \in Range(setup.args) : Through(a) \/ a \in Range(stack[1].items)
  /\ stack[1].pc = "local" => Behind(1, Range(setup.dependencies))
  /\ stack[1].pc = "localDev" =>
       Range(setup.dependencies) \subseteq visited /\ Behind(1, Range(setup.development))
  /\ stack[1].pc = "argumentDev" =>
       /\ Head(stack[1].items) \in visited
       /\ Behind(1, Range(Describe[Head(stack[1].items)].development))
  /\ Ended0 => \A a \in Asked : Through(a)

ReachInv ==
  /\ RcInv /\ ArgsInv /\ FailInv /\ VisitInv
  /\ Clean => AwaitInv /\ PendInv /\ ListInv
  /\ Clean /\ ~BadEnd => MainInv

Shape == PackageShape \/ ListShape \/ MainShape

LEMMA Runs ==
  ASSUME PackageStep \/ ListStep \/ MainStep
  PROVE  exit = Running
<1>1. CASE PackageStep
  BY <1>1 DEF PackageStep, AlreadyVisited, Enter, EnterFails, CountMakefile, FetchMakefile,
     JoinMakefile, NoSources, CopyFromCache, LoadedFromCache, NotFromCache, CountSource,
     FetchSource, SourcesStarted, JoinSource, BatchJoined, SaveToCache, SavedToCache,
     Configure, GetTarball, ExecutableDependencies, ExecutableReady, RunInstall,
     InstallDependencies, DependenciesDone, CountThread, At
<1>2. CASE ListStep
  BY <1>2 DEF ListStep, ListNext, ListUnknown, ListEnd, ListInstalled, ListFailed, At
<1>3. CASE MainStep
  BY <1>3 DEF MainStep, InstallLocal, InstallPackage, InstallPackages, UpdateLocal, UpdatePackage,
     UpdatePackages, Upgrade, UpgradePackage, Local, LocalManifest, LocalFailed, LocalInstalled,
     LocalDone, Argument, ArgumentNext, ArgumentUnknown, ArgumentDevelopment, ArgumentInstalled,
     ArgumentFailed, ArgumentsDone, At
<1> QED
  BY <1>1, <1>2, <1>3

\* What every step leaves, and what only some change.
LEMMA Constancy ==
  ASSUME TypeOK, StackInv, Shape
  PROVE  /\ setup' = setup /\ visited \subseteq visited' /\ saved \subseteq saved'
         /\ results' = results \/ \E rc \in Codes : PackageReturns(rc)
         /\ visited' = visited \/ \E pc : PackageEnters(pc)
         /\ exit' = exit \/ Overflows \/ MainExits
<1>1. setup' = setup /\ visited \subseteq visited'
  BY Frames DEF Shape
<1>2. saved \subseteq saved'
  BY DEF Shape, PackageShape, PackageGoesOn, PackageEnters, PackageReturns, PackageCalls, Overflows, Kept,
         ListShape, ListEnds, ListPasses, PackageCalled, MainShape, MainCalls, MainPasses, MainExits,
         TakesSecond, LocalEnds, ArgumentEnds
<1>3. results' = results \/ \E rc \in Codes : PackageReturns(rc)
  BY DEF Shape, PackageShape, PackageGoesOn, PackageEnters, PackageCalls, Overflows,
         ListShape, ListEnds, ListPasses, PackageCalled, MainShape, MainCalls, MainPasses, MainExits
<1>4. visited' = visited \/ \E pc : PackageEnters(pc)
  BY DEF Shape, PackageShape, PackageGoesOn, PackageReturns, PackageCalls, Overflows,
         ListShape, ListEnds, ListPasses, PackageCalled, MainShape, MainCalls, MainPasses, MainExits
<1>5. exit' = exit \/ Overflows \/ MainExits
  BY DEF Shape, PackageShape, PackageGoesOn, PackageEnters, PackageReturns, PackageCalls,
         ListShape, ListEnds, ListPasses, PackageCalled, MainShape, MainCalls, MainPasses
<1> QED
  BY <1>1, <1>2, <1>3, <1>4, <1>5

\* The frame a call returns to.
LEMMA ReturnsTo ==
  ASSUME TypeOK, StackInv, NEW rc \in Codes, Returns(rc), Top.kind \in {"package", "list"}
  PROVE  /\ Len(stack) \in Nat /\ Len(stack) > 1 /\ Len(stack') = Len(stack) - 1
         /\ LET b == stack[Len(stack) - 1] IN
            /\ b \in FrameType /\ Below(Top, b) /\ Top'.rc = rc
            /\ Top'.kind = b.kind /\ Top'.pc = b.pc /\ Top'.items = b.items /\ Top'.n = b.n
         /\ Top.kind = "package" =>
              AwaitsPackage(Top') /\ ~AwaitsList(Top') /\ Head(Top'.items) = Top.pkg
         /\ Top.kind = "list" => AwaitsList(Top') /\ ~AwaitsPackage(Top')
<1>1. PICK m \in Nat : m = Len(stack) /\ m # 0
  BY StackTop DEF TypeOK
<1>2. m > 1
  BY <1>1, PackageTop, OtherTop
<1>3. m \in 2..m /\ m - 1 \in 1..m /\ Top = stack[m] /\ Len(stack') = m - 1
  BY <1>1, <1>2 DEF Top, Returns
<1> DEFINE b == stack[m - 1]
<1>4. b \in FrameType
  BY <1>1, <1>3, StackTop DEF TypeOK
<1>5. Below(Top, b)
  BY <1>1, <1>3 DEF StackInv
<1>6. Top' = [b EXCEPT !.rc = rc]
  BY <1>1 DEF Returns
<1> HIDE DEF b
<1>7. /\ Top'.rc = rc /\ Top'.kind = b.kind /\ Top'.pc = b.pc /\ Top'.items = b.items /\ Top'.n = b.n
  BY <1>4, <1>6 DEF FrameType
<1>8. Top.kind = "package" => AwaitsPackage(Top') /\ ~AwaitsList(Top') /\ Head(Top'.items) = Top.pkg
  BY <1>5, <1>7 DEF Below, AwaitsPackage, AwaitsList
<1>9. Top.kind = "list" => AwaitsList(Top') /\ ~AwaitsPackage(Top')
  BY <1>5, <1>7 DEF Below, AwaitsPackage, AwaitsList
<1> QED
  BY <1>1, <1>2, <1>3, <1>4, <1>5, <1>7, <1>8, <1>9 DEF b

\* The frames below the last one: only a return changes one, and only its rc.
LEMMA Lower ==
  ASSUME TypeOK, StackInv, Shape, NEW k \in 1..(Len(stack) - 1)
  PROVE  /\ k \in 1..Len(stack')
         /\ stack'[k].kind = stack[k].kind /\ stack'[k].pc = stack[k].pc /\ stack'[k].pkg = stack[k].pkg
         /\ stack'[k].items = stack[k].items /\ stack'[k].n = stack[k].n
<1>1. PICK m \in Nat : m = Len(stack) /\ m # 0
  BY StackTop DEF TypeOK
<1>2. k \in 1..(m - 1) /\ stack[k] \in FrameType
  BY <1>1, StackTop DEF TypeOK
<1> DEFINE Goal == /\ k \in 1..Len(stack')
         /\ stack'[k].kind = stack[k].kind /\ stack'[k].pc = stack[k].pc /\ stack'[k].pkg = stack[k].pkg
         /\ stack'[k].items = stack[k].items /\ stack'[k].n = stack[k].n
<1>3. ASSUME stack'[k] = stack[k], Len(stack') \in {m, m + 1} PROVE Goal
  BY <1>2, <1>3
<1>4. ASSUME NEW f, Moves(f) PROVE Goal
  BY <1>1, <1>2, <1>3, <1>4 DEF Moves, Same
<1>5. ASSUME NEW pc, NEW c, NEW f, Calls(pc, c, f) PROVE Goal
  BY <1>1, <1>2, <1>3, <1>5 DEF Calls, Same
<1>6. ASSUME NEW rc, Returns(rc) PROVE Goal
  <2>1. /\ Len(stack') = m - 1 /\ Top' = [stack[m - 1] EXCEPT !.rc = rc]
        /\ \A j \in 1..(m - 2) : stack'[j] = stack[j]
    BY <1>1, <1>6 DEF Returns, Same
  <2>2. CASE k \in 1..(m - 2)
    BY <1>2, <2>1, <2>2
  <2>3. CASE k = m - 1
    <3>1. stack'[k] = [stack[k] EXCEPT !.rc = rc]
      BY <2>1, <2>3 DEF Top
    <3>2. k \in 1..Len(stack')
      BY <1>2, <2>1, <2>3
    <3> QED
      BY <1>2, <3>1, <3>2 DEF FrameType
  <2> QED
    BY <1>2, <2>2, <2>3
<1>7. ASSUME stack' = stack PROVE Goal
  BY <1>1, <1>2, <1>3, <1>7
<1> HIDE DEF Goal
<1>8. PackageShape => Goal
  BY <1>4, <1>5, <1>6, <1>7 DEF PackageShape, PackageGoesOn, PackageEnters, PackageReturns, PackageCalls, Overflows
<1>9. ListShape => Goal
  BY <1>4, <1>5, <1>6, <1>7 DEF ListShape, PackageCalled, ListEnds, ListPasses, Overflows
<1>10. MainShape => Goal
  BY <1>4, <1>5, <1>6, <1>7 DEF MainShape, PackageCalled, MainCalls, MainPasses, MainExits, Overflows
<1>11. Goal
  BY <1>8, <1>9, <1>10 DEF Shape
<1> QED
  BY <1>11 DEF Goal

\* A frame waits for a call it made only when that call has just returned.
LEMMA Awaiting ==
  ASSUME TypeOK, StackInv, Shape, AwaitsPackage(Top') \/ AwaitsList(Top')
  PROVE  \/ UNCHANGED <<stack, visited, results>>
         \/ \E rc \in Codes : PackageReturns(rc) \/ ListEnds(rc)
<1>1. Top \in FrameType
  BY StackTop DEF TypeOK
<1> DEFINE Goal == \/ UNCHANGED <<stack, visited, results>>
                   \/ \E rc \in Codes : PackageReturns(rc) \/ ListEnds(rc)
<1>2. ASSUME NEW f, f.pc = "enter", f.kind \in {"main", "list", "package"}, Top' = f PROVE FALSE
  BY <1>2 DEF AwaitsPackage, AwaitsList
<1>3. ASSUME NEW ps, NEW dir, Top' = List(ps, dir) PROVE FALSE
  <2>1. List(ps, dir).pc = "enter" /\ List(ps, dir).kind = "list"
    BY DEF List, Call
  <2> QED
    BY <1>2, <1>3, <2>1
<1>4. ASSUME NEW pc, NEW dir, PackageCalled(pc, dir) PROVE FALSE
  <2> DEFINE f == Call("package", Head(Top.items), <<>>, dir, Len(refs) + 1)
  <2>1. f.pc = "enter" /\ f.kind = "package"
    BY DEF Call
  <2>2. Top' = f
    BY <1>4 DEF PackageCalled, Calls
  <2> HIDE DEF f
  <2> QED
    BY <1>2, <2>1, <2>2
<1>5. CASE PackageShape
  <2>1. ASSUME NEW f \in FrameType, PackageGoesOn(f) PROVE FALSE
    BY <2>1 DEF PackageGoesOn, Moves, AwaitsPackage, AwaitsList
  <2>2. ASSUME NEW pc, PackageEnters(pc) PROVE FALSE
    <3>1. Top'.kind = "package" /\ Top'.pc = pc /\ pc \in {"configure", "makefile", "cache"}
      BY <1>1, <2>2 DEF PackageEnters, Moves, FrameType
    <3> QED
      BY <3>1 DEF AwaitsPackage, AwaitsList
  <2>3. ASSUME NEW pc, NEW dir, PackageCalls(pc, dir) PROVE FALSE
    BY <1>3, <2>3 DEF PackageCalls, Calls
  <2> QED
    BY <1>5, <2>1, <2>2, <2>3 DEF PackageShape, Overflows
<1>6. CASE ListShape
  <2>1. ASSUME ListPasses PROVE FALSE
    <3>1. Top'.kind = "list" /\ Top'.pc = "enter"
      BY <1>1, <2>1 DEF ListPasses, Moves, FrameType
    <3> QED
      BY <3>1 DEF AwaitsPackage, AwaitsList
  <2> QED
    BY <1>4, <1>6, <2>1 DEF ListShape, Overflows
<1>7. CASE MainShape
  <2>1. ASSUME NEW pc, MainCalls(pc) PROVE FALSE
    BY <1>3, <2>1 DEF MainCalls, Calls
  <2>2. ASSUME NEW f \in FrameType, MainPasses(f) PROVE FALSE
    BY <1>2, <2>2 DEF MainPasses, Moves
  <2> QED
    BY <1>4, <1>7, <2>1, <2>2 DEF MainShape, MainExits, Overflows
<1> QED
  BY <1>5, <1>6, <1>7 DEF Shape

LEMMA RcKept ==
  ASSUME TypeOK, StackInv, RcInv, Shape
  PROVE  RcInv'
<1>1. setup' = setup /\ (results' = results \/ \E rc \in Codes : PackageReturns(rc))
  BY Constancy
<1>2. ASSUME PackageReturns(-1) PROVE setup.faults # {}
  <2>1. Top.pc \in {"executable", "return"} /\ Top.rc = -1 => AwaitsList(Top)
    BY <1>2 DEF PackageReturns, AwaitsList
  <2> QED
    BY <1>2, <2>1 DEF PackageReturns, RcInv
<1>3. Failed' => setup.faults # {}
  <2>1. ASSUME NEW rc \in Codes, PackageReturns(rc), Failed' PROVE setup.faults # {}
    <3>1. rc = -1 \/ Failed
      BY <2>1 DEF PackageReturns, Failed
    <3> QED
      BY <1>2, <2>1, <3>1 DEF RcInv
  <2>2. results' = results => (Failed' <=> Failed)
    BY DEF Failed
  <2> QED
    BY <1>1, <2>1, <2>2 DEF RcInv
<1>4. ASSUME AwaitsList(Top') \/ AwaitsPackage(Top')
      PROVE  /\ AwaitsList(Top') => Top'.rc \in {-1, 0}
             /\ Top'.rc = -1 => setup.faults # {}
  <2>1. CASE UNCHANGED <<stack, visited, results>>
    <3>1. Top' = Top
      BY <2>1 DEF Top
    <3> QED
      BY <1>4, <3>1 DEF RcInv
  <2>2. ASSUME NEW rc \in Codes, PackageReturns(rc)
        PROVE  ~AwaitsList(Top') /\ (Top'.rc = -1 => setup.faults # {})
    <3>1. Top'.rc = rc /\ ~AwaitsList(Top')
      BY <2>2, ReturnsTo DEF PackageReturns
    <3> QED
      BY <1>2, <2>2, <3>1
  <2>3. ASSUME NEW rc \in Codes, ListEnds(rc)
        PROVE  Top'.rc \in {-1, 0} /\ (Top'.rc = -1 => setup.faults # {})
    <3>1. Top'.rc = rc
      BY <2>3, ReturnsTo DEF ListEnds
    <3>2. Top.kind = "list" /\ Top.pc = "installed" => AwaitsPackage(Top)
      BY DEF AwaitsPackage
    <3> QED
      BY <2>3, <3>1, <3>2 DEF ListEnds, RcInv
  <2> QED
    BY <1>4, <2>1, <2>2, <2>3, Awaiting
<1> QED
  BY <1>1, <1>3, <1>4 DEF RcInv

LEMMA HeadAndTail ==
  ASSUME NEW q \in Seq(Arguments), q # <<>>
  PROVE  Range(q) = {Head(q)} \cup Range(Tail(q)) /\ Head(q) \in Arguments
<1>2. Len(q) \in Nat \ {0}
  OBVIOUS
<1>3. /\ Tail(q) \in Seq(Arguments) /\ Len(Tail(q)) = Len(q) - 1
      /\ \A i \in 1..(Len(q) - 1) : Tail(q)[i] = q[i + 1]
      /\ Head(q) = q[1] /\ q[1] \in Arguments
  BY <1>2
<1>4. DOMAIN q = 1..Len(q) /\ DOMAIN Tail(q) = 1..(Len(q) - 1)
  BY <1>2, <1>3
<1>5. \A i \in 1..Len(q) : i = 1 \/ (i - 1 \in 1..(Len(q) - 1) /\ (i - 1) + 1 = i)
  BY <1>2
<1>6. \A i \in 1..(Len(q) - 1) : i + 1 \in 1..Len(q)
  BY <1>2
<1>7. Range(q) \subseteq {Head(q)} \cup Range(Tail(q))
  <2>1. SUFFICES ASSUME NEW i \in 1..Len(q) PROVE q[i] \in {Head(q)} \cup Range(Tail(q))
    BY <1>4 DEF Range
  <2>2. i # 1 => q[i] = Tail(q)[i - 1] /\ i - 1 \in DOMAIN Tail(q)
    BY <1>3, <1>4, <1>5
  <2> QED
    BY <1>3, <2>2 DEF Range
<1>8. {Head(q)} \cup Range(Tail(q)) \subseteq Range(q)
  BY <1>2, <1>3, <1>4, <1>6 DEF Range
<1> QED
  BY <1>3, <1>7, <1>8

\* What main may do.
LEMMA RootSteps ==
  ASSUME TypeOK, StackInv, Shape, Len(stack) = 1
  PROVE  /\ MainShape /\ Top = stack[1] /\ Top.kind = "main" /\ Top \in FrameType /\ FrameInv(Top)
         /\ Top.items # <<>> => /\ Range(Top.items) = {Head(Top.items)} \cup Range(Tail(Top.items))
                                /\ Head(Top.items) \in Arguments
<1>1. Top = stack[1] /\ Top.kind = "main" /\ Top \in FrameType /\ FrameInv(Top)
  BY StackTop DEF TypeOK, StackInv, Top
<1>2. ~PackageShape \/ MainShape
  BY <1>1 DEF PackageShape, MainShape, PackageGoesOn, PackageEnters, PackageReturns, PackageCalls
<1>3. ~ListShape \/ MainShape
  BY <1>1 DEF ListShape, MainShape, ListEnds, ListPasses
<1>4. Top.items # <<>> => /\ Range(Top.items) = {Head(Top.items)} \cup Range(Tail(Top.items))
                          /\ Head(Top.items) \in Arguments
  <2>1. Top.items \in Seq(Arguments)
    BY <1>1 DEF FrameType
  <2> QED
    BY <2>1, HeadAndTail
<1> QED
  BY <1>1, <1>2, <1>3, <1>4 DEF Shape

LEMMA ArgsKept ==
  ASSUME TypeOK, StackInv, RcInv, ArgsInv, Shape, exit = Running
  PROVE  ArgsInv'
<1>1. PICK m \in Nat : m = Len(stack) /\ m # 0
  BY StackTop DEF TypeOK
<1>2. setup' = setup /\ (exit' = exit \/ Overflows \/ MainExits)
  BY Constancy
<1>3. exit'.how = "returned" => Len(stack') = 1
  <2>1. Overflows => exit'.how # "returned"
    BY DEF Overflows
  <2>2. exit' = exit => exit'.how # "returned"
    BY DEF Running
  <2>3. MainExits => Len(stack') = 1
    BY OtherTop DEF MainExits
  <2> QED
    BY <1>2, <2>1, <2>2, <2>3
<1> DEFINE g == stack'[1]
           Goal == /\ Range(g.items) \subseteq Range(setup.args)
                   /\ setup.args = <<>> => g.items = <<>>
                   /\ g.pc \in {"local", "localDev"} => Manifests[g.n] \in setup.manifests
                   /\ g.n = 2 => Manifests[1] \notin setup.manifests \/ setup.faults # {}
<1>4. ASSUME g.items = stack[1].items, g.pc = stack[1].pc \/ g.pc \notin {"local", "localDev"}, g.n = stack[1].n PROVE Goal
  BY <1>4 DEF ArgsInv
<1>5. CASE m > 1
  <2>1. 1 \in 1..(m - 1)
    BY <1>5
  <2>2. g.items = stack[1].items /\ g.pc = stack[1].pc /\ g.n = stack[1].n
    BY <1>1, <2>1, Lower
  <2> HIDE DEF Goal, g
  <2>3. Goal
    BY <1>4, <2>2
  <2> QED
    BY <1>2, <1>3, <2>3 DEF ArgsInv, Goal, g
<1>6. CASE m = 1
  <2>1. /\ MainShape /\ Top = stack[1] /\ Top.kind = "main" /\ Top \in FrameType /\ FrameInv(Top)
        /\ Top.items # <<>> => Range(Top.items) = {Head(Top.items)} \cup Range(Tail(Top.items))
    BY <1>1, <1>6, RootSteps
  <2>2. ASSUME NEW pc, NEW c, NEW f, Calls(pc, c, f)
        PROVE  g.items = Top.items /\ g.n = Top.n /\ g.pc = pc
    <3>1. g = [Top EXCEPT !.pc = pc, !.call = c]
      BY <1>1, <1>6, <2>2 DEF Calls
    <3> HIDE DEF g
    <3>2. Top \in FrameType
      BY <2>1
    <3> QED
      BY <3>1, <3>2 DEF FrameType
  <2>3. ASSUME NEW pc, NEW dir, PackageCalled(pc, dir) PROVE Goal
    <3>1. g.items = Top.items /\ g.n = Top.n /\ g.pc = pc /\ pc \notin {"local", "localDev"}
      BY <2>2, <2>3 DEF PackageCalled
    <3> HIDE DEF Goal, g
    <3> QED
      BY <1>4, <2>1, <3>1
  <2>4. ASSUME NEW pc, MainCalls(pc) PROVE Goal
    <3>1. g.items = Top.items /\ g.n = Top.n /\ g.pc = pc
      BY <2>2, <2>4 DEF MainCalls
    <3>2. pc \in {"local", "localDev"} => Manifests[Top.n] \in setup.manifests
      BY <2>1, <2>4 DEF MainCalls, ArgsInv
    <3> QED
      BY <2>1, <3>1, <3>2 DEF ArgsInv
  <2>5. ASSUME NEW f \in FrameType, MainPasses(f) PROVE Goal
    <3>1. g = f /\ f.pc = "enter"
      BY <1>1, <1>6, <2>5 DEF MainPasses, Moves, Top
    <3>2. CASE TakesSecond(f)
      <4>1. f.items = Top.items /\ f.n = 2
        BY <3>2 DEF TakesSecond
      <4>2. Manifests[1] \notin setup.manifests \/ setup.faults # {}
        <5>1. Top.pc \in {"local", "localDev"} => AwaitsList(Top)
          BY <2>1 DEF AwaitsList
        <5> QED
          BY <3>2, <5>1 DEF TakesSecond, RcInv
      <4> QED
        BY <2>1, <3>1, <4>1, <4>2 DEF ArgsInv
    <3>3. CASE LocalEnds(f) \/ ArgumentEnds(f)
      <4>1. Top.items # <<>> /\ f.items = Tail(Top.items) /\ (f.n = 1 \/ f.n = Top.n)
        BY <3>3 DEF LocalEnds, ArgumentEnds
      <4>2. setup.args # <<>> /\ Range(f.items) \subseteq Range(setup.args)
        BY <2>1, <4>1 DEF ArgsInv
      <4> QED
        BY <2>1, <3>1, <4>1, <4>2 DEF ArgsInv
    <3> QED
      BY <2>5, <3>2, <3>3 DEF MainPasses
  <2>6. ASSUME stack' = stack PROVE Goal
    BY <1>4, <2>6
  <2>7. MainExits \/ Overflows => stack' = stack
    BY DEF MainExits, Overflows
  <2> HIDE DEF Goal, g
  <2>8. Goal
    BY <2>1, <2>3, <2>4, <2>5, <2>6, <2>7 DEF MainShape
  <2> QED
    BY <1>2, <1>3, <2>8 DEF ArgsInv, Goal, g
<1> QED
  BY <1>1, <1>5, <1>6

\* The failure of a call climbs to main, and main does not end with 0.
LEMMA FailKept ==
  ASSUME TypeOK, StackInv, RcInv, ArgsInv, FailInv, Shape, exit = Running
  PROVE  FailInv'
<1>1. setup' = setup /\ (results' = results \/ \E rc \in Codes : PackageReturns(rc))
      /\ (BadEnd' <=> BadEnd)
  BY Constancy DEF BadEnd
<1> DEFINE Goal == (exit'.how = "no" => OnItsWay') /\ ~Ended0'
<1>2. SUFFICES ASSUME ~BadEnd, Failed' PROVE Goal
  BY <1>1 DEF FailInv
<1>3. /\ setup.args \in Seq(Arguments) /\ setup.manifests \subseteq {"clib.json", "package.json"}
      /\ Manifests[1] = "clib.json" /\ Manifests[2] = "package.json"
      /\ Range(Manifests) = {"clib.json", "package.json"}
  <2>1. setup \in Setups
    BY DEF TypeOK, CallsType
  <2>2. setup.args \in Seq(Arguments) /\ setup.manifests \subseteq {"clib.json", "package.json"}
    BY <2>1, ClibFetchAssumption, Setup
  <2>3. DOMAIN Manifests = {1, 2}
    BY DEF Manifests
  <2>4. Manifests[1] = "clib.json" /\ Manifests[2] = "package.json"
    BY DEF Manifests
  <2> QED
    BY <2>2, <2>3, <2>4 DEF Range
<1>4. exit = [how |-> "no", rc |-> 0] /\ (exit' = exit => ~Ended0')
  BY DEF Running, Ended0
\* A failure that is returned is on its way.
<1>5. ASSUME NEW rc \in Codes, rc = -1, Returns(rc), Top.kind \in {"package", "list"}, exit' = exit
      PROVE  Goal
  <2>1. Top'.rc = -1 /\ (AwaitsPackage(Top') \/ AwaitsList(Top'))
    BY <1>5, ReturnsTo
  <2> QED
    BY <1>4, <1>5, <2>1 DEF OnItsWay
<1>6. ASSUME PackageReturns(-1) PROVE Goal
  BY <1>5, <1>6 DEF PackageReturns, Codes
<1>7. Failed \/ PackageReturns(-1)
  <2>1. ASSUME NEW rc \in Codes, PackageReturns(rc) PROVE rc = -1 \/ Failed
    BY <1>2, <2>1 DEF PackageReturns, Failed
  <2>2. results' = results => Failed
    BY <1>2 DEF Failed
  <2> QED
    BY <1>1, <2>1, <2>2
<1>8. Overflows => Goal
  BY DEF Overflows, Ended0
<1>9. ASSUME Failed, Top.rc = -1, AwaitsPackage(Top) \/ AwaitsList(Top) PROVE Goal
  <2>0. Top.kind \in {"main", "package", "list"} /\ Top.pc # "enter" /\ setup.faults # {}
    BY <1>9 DEF AwaitsPackage, AwaitsList, RcInv
  <2>1. ASSUME NEW pc, NEW dir, PackageCalled(pc, dir) PROVE FALSE
    BY <2>0, <2>1 DEF PackageCalled
  <2>2. CASE PackageShape
    <3>1. Top.kind = "package" => Top.pc \in {"executable", "return"}
      BY <1>9 DEF AwaitsPackage, AwaitsList
    <3>2. ASSUME NEW rc \in Codes, PackageReturns(rc) PROVE Goal
      <4>1. rc = -1
        BY <1>9, <3>1, <3>2 DEF PackageReturns
      <4> QED
        BY <1>6, <3>2, <4>1
    <3> HIDE DEF Goal
    <3> QED
      BY <1>8, <1>9, <2>2, <3>1, <3>2 DEF PackageShape, PackageGoesOn, PackageEnters, PackageCalls
  <2>3. CASE ListShape
    <3>1. ASSUME NEW rc \in Codes, ListEnds(rc) PROVE Goal
      <4>1. rc = -1
        BY <2>0, <3>1 DEF ListEnds
      <4> QED
        BY <1>5, <3>1, <4>1 DEF ListEnds
    <3>2. ~ListPasses
      BY <1>9 DEF ListPasses
    <3> HIDE DEF Goal
    <3> QED
      BY <1>8, <2>1, <2>3, <3>1, <3>2 DEF ListShape
  <2>4. CASE MainShape
    <3>1. ASSUME NEW pc, MainCalls(pc) PROVE FALSE
      BY <1>9, <2>0, <3>1 DEF MainCalls
    <3>2. ASSUME NEW f \in FrameType, MainPasses(f) PROVE Goal
      <4>1. Len(stack) = 1
        BY <3>2, OtherTop DEF MainPasses
      <4>2. Top = stack[1] /\ FrameInv(Top) /\ Top.items \in Seq(Arguments)
        BY <4>1, RootSteps DEF FrameType
      <4>3. Top.items # <<>> => Head(Top.items) \in Range(setup.args)
        BY <4>1, <4>2, RootSteps DEF ArgsInv
      <4>4. ~(Top.items # <<>> /\ Head(Top.items) \in {Here, File})
        BY <1>2, <2>0, <4>3 DEF BadEnd
      <4>5. TakesSecond(f)
        BY <1>9, <3>2, <4>4 DEF MainPasses, LocalEnds, ArgumentEnds
      <4>6. setup.args = <<>> /\ f.n = 2 /\ Top.n = 1 /\ Top.pc \in {"local", "localDev"}
        BY <2>0, <4>4, <4>5 DEF TakesSecond
      <4>7. Manifests[2] \notin setup.manifests
        <5>1. Manifests[1] \in setup.manifests
          BY <4>2, <4>6 DEF ArgsInv
        <5> QED
          BY <1>2, <1>3, <2>0, <4>6, <5>1 DEF BadEnd
      <4>8. Top' = f /\ f.pc = "enter" /\ Len(stack') = 1 /\ exit' = exit
        BY <3>2, <4>1 DEF MainPasses, Moves
      <4> QED
        BY <1>1, <1>4, <4>6, <4>7, <4>8 DEF OnItsWay
    <3>3. ASSUME MainExits, exit'.rc = 0 => Finished PROVE Goal
      <4>1. ~Finished
        BY <1>9, <2>0 DEF Finished
      <4> QED
        BY <3>3, <4>1 DEF MainExits, Ended0
    <3> HIDE DEF Goal
    <3> QED
      BY <1>8, <2>1, <2>4, <3>1, <3>2, <3>3 DEF MainShape
  <2> QED
    BY <2>2, <2>3, <2>4 DEF Shape
<1>10. ASSUME setup.args = <<>>, Len(stack) = 1, Top.pc = "enter", Top.n = 2,
              Manifests[2] \notin setup.manifests
       PROVE  Goal
  <2>1. MainShape /\ Top = stack[1] /\ Top.items = <<>>
    BY <1>10, RootSteps DEF ArgsInv
  <2>2. ASSUME NEW pc, NEW dir, PackageCalled(pc, dir) PROVE FALSE
    BY <2>1, <2>2 DEF PackageCalled
  <2>3. ASSUME NEW pc, MainCalls(pc) PROVE FALSE
    BY <1>10, <2>3 DEF MainCalls
  <2>4. ASSUME NEW f \in FrameType, MainPasses(f) PROVE FALSE
    BY <1>10, <2>1, <2>4 DEF MainPasses, TakesSecond, LocalEnds, ArgumentEnds
  <2>5. ASSUME MainExits, exit'.rc = 0 => Finished PROVE Goal
    <3>1. ~Finished
      BY <1>10 DEF Finished
    <3> QED
      BY <2>5, <3>1 DEF MainExits, Ended0
  <2> HIDE DEF Goal
  <2> QED
    BY <1>8, <2>1, <2>2, <2>3, <2>4, <2>5 DEF MainShape
<1>11. Failed => OnItsWay
  BY <1>2, <1>4 DEF FailInv
<1> HIDE DEF Goal
<1> QED
  BY <1>6, <1>7, <1>9, <1>10, <1>11 DEF OnItsWay

LEMMA VisitKept ==
  ASSUME TypeOK, StackInv, VisitInv, Shape
  PROVE  VisitInv'
<1>1. visited \subseteq visited' /\ \A k \in 1..Len(stack') : stack'[k].kind = "package" => Came(k)
  BY Frames DEF Shape
<1>2. \A k \in 1..Len(stack') : Entered(k)' => Came(k) /\ stack'[k].pc # "enter"
  BY <1>1 DEF Entered, IsPackage
<1>3. \A k : Came(k) /\ stack'[k].pc # "enter" => stack'[k].pkg \in visited'
  BY <1>1 DEF Came, VisitInv, Entered, IsPackage
<1> QED
  BY <1>2, <1>3 DEF VisitInv

\* A package whose call returns 0 is visited.
LEMMA AwaitKept ==
  ASSUME TypeOK, StackInv, VisitInv, AwaitInv, Shape, Clean'
  PROVE  AwaitInv'
<1>1. SUFFICES ASSUME AwaitsPackage(Top') PROVE Head(Top'.items) \in visited'
  BY DEF AwaitInv
<1>2. CASE UNCHANGED <<stack, visited, results>>
  <2>1. Top' = Top
    BY <1>2 DEF Top
  <2> QED
    BY <1>1, <1>2, <2>1 DEF AwaitInv
<1>3. ASSUME NEW rc \in Codes, PackageReturns(rc) PROVE Head(Top'.items) \in visited'
  <2>1. Head(Top'.items) = Top.pkg /\ visited' = visited
    BY <1>3, ReturnsTo DEF PackageReturns
  <2>2. rc = 0
    BY <1>3 DEF PackageReturns, Clean
  <2>3. Top.pkg \in visited
    <3>1. CASE Top.pc = "enter"
      BY <1>3, <2>2, <3>1 DEF PackageReturns
    <3>2. CASE Top.pc # "enter"
      <4>1. Len(stack) \in 1..Len(stack) /\ Entered(Len(stack))
        BY <1>3, <3>2, StackTop DEF PackageReturns, Entered, IsPackage, Top, TypeOK
      <4> QED
        BY <4>1 DEF VisitInv, Top
    <3> QED
      BY <3>1, <3>2
  <2> QED
    BY <2>1, <2>3
<1>4. ASSUME NEW rc \in Codes, ListEnds(rc) PROVE FALSE
  BY <1>1, <1>4, ReturnsTo DEF ListEnds
<1> QED
  BY <1>1, <1>2, <1>3, <1>4, Awaiting

\* A call that waits for a list: what was taken off the list is visited.
LEMMA BehindKept ==
  ASSUME TypeOK, StackInv, AwaitInv, Shape,
         NEW k \in 1..(Len(stack) - 1), AwaitsList(stack[k]), NEW S, Behind(k, S)
  PROVE  Behind(k, S)'
<1>1. PICK m \in Nat : m = Len(stack) /\ m # 0
  BY StackTop DEF TypeOK
<1>2. k \in 1..(m - 1) /\ k + 1 \in 2..m /\ k \in Nat /\ k < m /\ stack[k] \in FrameType
  BY <1>1, StackTop DEF TypeOK
<1>3. stack[k + 1].kind = "list"
  <2>1. Below(stack[k + 1], stack[k])
    <3>1. (k + 1) - 1 = k
      BY <1>2
    <3> QED
      BY <1>1, <1>2, <3>1 DEF StackInv
  <2>2. stack[k + 1].kind \in {"main", "list", "package"} /\ stack[k + 1].kind # "main"
    BY <1>1, <1>2, StackTop DEF StackInv, FrameType, TypeOK
  <2> QED
    BY <2>1, <2>2 DEF Below, AwaitsPackage, AwaitsList
<1>4. S \subseteq visited \cup Range(stack[k + 1].items) /\ visited \subseteq visited'
  BY <1>1, <1>2, Constancy DEF Behind
<1> DEFINE Goal == Behind(k, S)'
\* The list above k is as it was, but for what is visited.
<1>5. ASSUME k < Len(stack'),
             Range(stack[k + 1].items) \subseteq visited' \cup Range(stack'[k + 1].items)
      PROVE  Goal
  BY <1>4, <1>5 DEF Behind
<1>6. CASE k < m - 1
  <2>1. k + 1 \in 1..(m - 1)
    BY <1>2, <1>6
  <2>2. k + 1 \in 1..Len(stack') /\ stack'[k + 1].items = stack[k + 1].items
    BY <1>1, <2>1, Lower
  <2>3. Len(stack') \in Nat
    BY <1>1, <2>1, Lower, StackTyped DEF StackType, Shape
  <2>4. k < Len(stack')
    BY <1>2, <2>2, <2>3
  <2>5. Goal
    BY <1>4, <1>5, <2>2, <2>4
  <2> QED
    BY <2>5
<1>7. CASE k = m - 1
  <2>1. k + 1 = m /\ Top = stack[m] /\ Top.kind = "list" /\ Top \in FrameType
    BY <1>1, <1>2, <1>3, <1>7, StackTop DEF Top, TypeOK
  <2>2. ListShape
    <3>1. ~PackageShape \/ Overflows
      BY <2>1 DEF PackageShape, PackageGoesOn, PackageEnters, PackageReturns, PackageCalls
    <3>2. ~MainShape \/ ListShape
      BY <2>1 DEF MainShape, ListShape, MainCalls, MainPasses, MainExits
    <3> QED
      BY <3>1, <3>2 DEF Shape, ListShape
  <2>3. ASSUME NEW pc, NEW dir, PackageCalled(pc, dir) PROVE Goal
    <3>1. Len(stack') = m + 1 /\ stack'[m] = [Top EXCEPT !.pc = pc, !.call = Len(refs) + 1]
      BY <1>1, <2>3 DEF PackageCalled, Calls
    <3>2. stack'[m].items = Top.items
      BY <2>1, <3>1 DEF FrameType
    <3>3. k < Len(stack')
      BY <1>2, <1>7, <3>1
    <3> QED
      BY <1>5, <2>1, <3>2, <3>3
  <2>4. ASSUME ListPasses PROVE Goal
    <3>1. Len(stack') = m /\ stack'[m] = [Top EXCEPT !.pc = "enter", !.items = Tail(@), !.done = @ \cup {Top.call}]
      BY <1>1, <2>4 DEF ListPasses, Moves, Top
    <3>2. stack'[m].items = Tail(Top.items)
      BY <2>1, <3>1 DEF FrameType
    <3>3. k < Len(stack')
      BY <1>2, <1>7, <3>1
    <3>4. AwaitsPackage(Top)
      BY <2>4 DEF ListPasses, AwaitsPackage
    <3>5. Head(Top.items) \in visited /\ Top.items # <<>> /\ Top.items \in Seq(Arguments)
      BY <2>1, <2>4, <3>4, OtherTop DEF AwaitInv, ListPasses, FrameInv, FrameOK, FrameType
    <3>6. Range(Top.items) = {Head(Top.items)} \cup Range(Tail(Top.items))
      BY <3>5, HeadAndTail
    <3> QED
      BY <1>4, <1>5, <2>1, <3>2, <3>3, <3>5, <3>6
  <2>5. ASSUME NEW rc \in Codes, ListEnds(rc) PROVE Goal
    <3>1. Len(stack') = m - 1 /\ Top'.rc = rc /\ visited' = visited
      BY <1>1, <2>1, <2>5, ReturnsTo DEF ListEnds
    <3>2. Top' = stack'[k]
      BY <1>7, <3>1 DEF Top
    <3>3. rc # -1 => S \subseteq visited
      <4>1. rc # -1 => Top.items = <<>>
        BY <2>5 DEF ListEnds
      <4>2. Range(<<>>) = {}
        BY DEF Range
      <4> QED
        BY <1>4, <2>1, <4>1, <4>2
    <3>4. ~(k < Len(stack'))
      BY <1>2, <1>7, <3>1
    <3> QED
      BY <3>1, <3>2, <3>3, <3>4 DEF Behind
  <2>6. ASSUME Overflows PROVE Goal
    <3>1. stack' = stack /\ k < Len(stack')
      BY <1>1, <1>2, <2>6 DEF Overflows
    <3> QED
      BY <1>5, <3>1
  <2> HIDE DEF Goal
  <2>7. (\E pc, dir : PackageCalled(pc, dir)) => Goal
    BY <2>3
  <2>8. (\E rc \in Codes : ListEnds(rc)) => Goal
    BY <2>5
  <2>9. Goal
    BY <2>2, <2>4, <2>6, <2>7, <2>8 DEF ListShape
  <2> QED
    BY <2>9 DEF Goal
<1>8. k < m - 1 \/ k = m - 1
  BY <1>2
<1> QED
  BY <1>6, <1>7, <1>8 DEF Goal

\* Calls past the hash stay so until they return.
LEMMA EnteredStays ==
  ASSUME TypeOK, StackInv, Shape, NEW k \in 1..Len(stack), Entered(k)
  PROVE  \/ k \in 1..Len(stack') /\ Entered(k)' /\ stack'[k].pkg = stack[k].pkg
         \/ k = Len(stack) /\ \E rc \in Codes : PackageReturns(rc)
<1>1. PICK m \in Nat : m = Len(stack) /\ m # 0
  BY StackTop DEF TypeOK
<1> DEFINE Goal == k \in 1..Len(stack') /\ Entered(k)' /\ stack'[k].pkg = stack[k].pkg
<1>2. CASE k \in 1..(m - 1)
  <2>1. Goal
    BY <1>1, <1>2, Lower DEF Entered, IsPackage
  <2> QED
    BY <2>1
<1>3. CASE k = m
  <2>1. Top = stack[k] /\ Top.kind = "package" /\ Top.pc # "enter" /\ Top \in FrameType /\ m \in 1..m
    BY <1>1, <1>3, StackTop DEF Entered, IsPackage, Top, TypeOK
  <2>2. PackageShape
    BY <2>1 DEF Shape, PackageShape, ListShape, MainShape, PackageCalled, ListEnds, ListPasses, MainCalls,
       MainPasses, MainExits
  <2>3. ASSUME NEW f \in FrameType, PackageGoesOn(f) PROVE Goal
    <3>1. Len(stack') = m /\ stack'[m] = f /\ f.kind = "package" /\ f.pc # "enter" /\ f.pkg = Top.pkg
      BY <1>1, <2>3 DEF PackageGoesOn, Moves, Top
    <3> QED
      BY <1>3, <2>1, <3>1 DEF Entered, IsPackage
  <2>4. ASSUME NEW pc, NEW dir, PackageCalls(pc, dir) PROVE Goal
    <3>1. Len(stack') = m + 1 /\ stack'[m] = [Top EXCEPT !.pc = pc, !.call = Top.call] /\ pc # "enter"
      BY <1>1, <2>4 DEF PackageCalls, Calls
    <3>2. stack'[m].kind = "package" /\ stack'[m].pc = pc /\ stack'[m].pkg = Top.pkg
      BY <2>1, <3>1 DEF FrameType
    <3>3. m \in 1..Len(stack')
      BY <1>1, <3>1
    <3> QED
      BY <1>3, <2>1, <3>1, <3>2, <3>3 DEF Entered, IsPackage
  <2>5. ASSUME Overflows PROVE Goal
    BY <1>1, <1>3, <2>1, <2>5 DEF Overflows, Entered, IsPackage
  <2>6. ~\E pc : PackageEnters(pc)
    BY <2>1 DEF PackageEnters
  <2> HIDE DEF Goal
  <2>7. Goal \/ \E rc \in Codes : PackageReturns(rc)
    BY <2>2, <2>3, <2>4, <2>5, <2>6 DEF PackageShape
  <2> QED
    BY <1>1, <1>3, <2>7 DEF Goal
<1> QED
  BY <1>1, <1>2, <1>3

LEMMA PendKept ==
  ASSUME TypeOK, StackInv, PendInv, ListInv, Shape, Clean'
  PROVE  PendInv'
<1>1. visited \subseteq visited' /\ (visited' = visited \/ \E pc : PackageEnters(pc))
  BY Constancy
<1>2. SUFFICES ASSUME NEW p \in visited'
               PROVE  Direct(p) \subseteq visited' \/ Unfinished(p)'
  BY DEF PendInv, Direct
<1>3. ASSUME p \notin visited PROVE Unfinished(p)'
  <2>1. PICK pc : PackageEnters(pc)
    BY <1>1, <1>2, <1>3
  <2>2. p = Top.pkg
    BY <1>2, <1>3, <2>1 DEF PackageEnters
  <2>3. PICK m \in Nat : m = Len(stack) /\ m # 0 /\ Top \in FrameType
    BY StackTop DEF TypeOK
  <2>4. Len(stack') = m /\ stack'[m] = [Top EXCEPT !.pc = pc] /\ Top.kind = "package" /\ pc # "enter"
    BY <2>1, <2>3 DEF PackageEnters, Moves, Top
  <2>5. stack'[m].kind = "package" /\ stack'[m].pc # "enter" /\ stack'[m].pkg = p /\ m \in 1..Len(stack')
    BY <2>2, <2>3, <2>4 DEF FrameType
  <2> QED
    BY <2>5 DEF Unfinished, Entered, IsPackage
<1>4. ASSUME Unfinished(p) PROVE Direct(p) \subseteq visited' \/ Unfinished(p)'
  <2>1. PICK k \in 1..Len(stack) : Entered(k) /\ stack[k].pkg = p
    BY <1>4 DEF Unfinished
  <2>2. CASE k \in 1..Len(stack') /\ Entered(k)' /\ stack'[k].pkg = stack[k].pkg
    BY <2>1, <2>2 DEF Unfinished
  <2>3. ASSUME k = Len(stack), NEW rc \in Codes, PackageReturns(rc) PROVE Direct(p) \subseteq visited
    <3>1. Top = stack[k] /\ Top.kind = "package" /\ Top.pc # "enter" /\ Top.pkg = p
      BY <2>1, <2>3 DEF Top, Entered, IsPackage
    <3>2. rc = 0
      BY <2>3 DEF PackageReturns, Clean
    <3>3. CASE Info.dependencies = <<>>
      BY <3>1, <3>3 DEF Direct, Info, Range
    <3>4. CASE Top.pc = "return" /\ Top.rc = 0
      <4>1. Behind(k, Direct(p))
        BY <2>1, <3>1, <3>4 DEF ListInv, IsPackage
      <4>2. ~(k < Len(stack)) /\ stack[k].rc # -1
        BY <2>3, <3>1, <3>4, StackTop DEF TypeOK
      <4> QED
        BY <4>1, <4>2 DEF Behind
    <3> QED
      BY <2>3, <3>1, <3>2, <3>3, <3>4 DEF PackageReturns
  <2> QED
    BY <1>1, <2>1, <2>2, <2>3, EnteredStays
<1> QED
  BY <1>1, <1>3, <1>4 DEF PendInv


LEMMA ListKept ==
  ASSUME TypeOK, StackInv, AwaitInv, ListInv, Shape
  PROVE  ListInv'
<1>1. PICK m \in Nat : m = Len(stack) /\ m # 0 /\ m \in 1..m
  BY StackTop DEF TypeOK
<1>2. Top = stack[m] /\ Top \in FrameType /\ visited \subseteq visited'
  BY <1>1, StackTop, Constancy DEF Top, TypeOK
<1>3. SUFFICES ASSUME NEW k \in 1..Len(stack'), stack'[k].kind = "package", stack'[k].pc = "return"
               PROVE  Behind(k, Direct(stack[k].pkg))'
  BY DEF ListInv, IsPackage
<1>4. PICK p : p = stack'[k].pkg
  OBVIOUS
<1>5. PICK S : S = Direct(p)
  OBVIOUS
<1> DEFINE Goal == Behind(k, S)'
<1>6. SUFFICES Goal
  BY <1>4, <1>5 DEF Direct
<1>7. CASE k \in 1..(m - 1)
  <2>1. stack[k].kind = "package" /\ stack[k].pc = "return" /\ stack[k].pkg = p
    BY <1>1, <1>3, <1>4, <1>7, Lower
  <2>2. k \in 1..Len(stack) /\ Behind(k, S) /\ AwaitsList(stack[k])
    BY <1>1, <1>5, <1>7, <2>1 DEF ListInv, IsPackage, AwaitsList
  <2> QED
    BY <1>1, <1>7, <2>2, BehindKept
<1>8. CASE k \notin 1..(m - 1)
  <2>0. Len(stack') \in Nat /\ k \in Nat /\ k >= m
    <3>1. Len(stack') \in Nat
      BY StackTyped DEF StackType, Shape
    <3> QED
      BY <1>1, <1>8, <3>1
  <2>1. ASSUME NEW f, Moves(f), f.kind # "package" \/ f.pc # "return" PROVE FALSE
    <3>1. Len(stack') = m /\ stack'[m] = f
      BY <1>1, <2>1 DEF Moves, Top
    <3>2. k = m
      BY <1>1, <2>0, <3>1
    <3> QED
      BY <1>3, <2>1, <3>1, <3>2
  <2>2. ASSUME NEW rc, Returns(rc) PROVE FALSE
    BY <1>1, <2>0, <2>2 DEF Returns
  <2>3. ASSUME stack' = stack PROVE Goal
    <3>1. k = m
      BY <1>1, <2>0, <2>3
    <3>2. Behind(k, S)
      BY <1>1, <1>3, <1>4, <1>5, <2>3, <3>1 DEF ListInv, IsPackage
    <3> QED
      BY <1>2, <2>3, <3>2 DEF Behind
  <2>4. ASSUME NEW pc, NEW c, NEW f, Calls(pc, c, f), f.pc = "enter"
        PROVE  k = m /\ Len(stack') = m + 1 /\ stack'[m + 1] = f /\ Top.kind = "package" /\ pc = "return"
               /\ p = Top.pkg
    <3>1. /\ Len(stack') = m + 1 /\ stack'[m + 1] = f
          /\ stack'[m] = [Top EXCEPT !.pc = pc, !.call = c]
      BY <1>1, <2>4 DEF Calls, Top
    <3>2. k = m \/ k = m + 1
      BY <1>1, <2>0, <3>1
    <3>3. k = m
      BY <1>3, <2>4, <3>1, <3>2
    <3>4. stack'[m].kind = Top.kind /\ stack'[m].pc = pc /\ stack'[m].pkg = Top.pkg
      BY <1>2, <3>1 DEF FrameType
    <3> QED
      BY <1>3, <1>4, <3>1, <3>3, <3>4
  <2>5. ASSUME NEW ps, NEW dir, NEW pc, NEW c, Calls(pc, c, List(ps, dir)), Top.kind # "package" PROVE FALSE
    <3>1. List(ps, dir).pc = "enter"
      BY DEF List, Call
    <3> QED
      BY <2>4, <2>5, <3>1
  <2>6. ASSUME NEW pc, NEW dir, PackageCalled(pc, dir) PROVE FALSE
    <3> DEFINE f == Call("package", Head(Top.items), <<>>, dir, Len(refs) + 1)
    <3>1. f.pc = "enter"
      BY DEF Call
    <3> HIDE DEF f
    <3>2. Calls(pc, Len(refs) + 1, f) /\ Top.kind # "package"
      BY <2>6 DEF PackageCalled, f
    <3> QED
      BY <2>4, <3>1, <3>2
  <2>7. ASSUME NEW pc, NEW dir, PackageCalls(pc, dir) PROVE Goal
    <3> DEFINE f == List(Info.dependencies, dir)
    <3>1. f.pc = "enter" /\ f.items = Info.dependencies
      BY DEF List, Call
    <3> HIDE DEF f
    <3>2. Calls(pc, Top.call, f)
      BY <2>7 DEF PackageCalls, f
    <3>3. k = m /\ Len(stack') = m + 1 /\ stack'[m + 1] = f /\ p = Top.pkg
      BY <2>4, <3>1, <3>2
    <3>4. S = Range(stack'[k + 1].items) /\ k < Len(stack')
      BY <1>1, <1>5, <3>1, <3>3 DEF Direct, Info
    <3> QED
      BY <3>4 DEF Behind
  <2>8. PackageShape => Goal
    <3>1. ASSUME NEW f \in FrameType, PackageGoesOn(f) PROVE FALSE
      BY <2>1, <3>1 DEF PackageGoesOn
    <3>2. ASSUME NEW pc, PackageEnters(pc) PROVE FALSE
      <4>1. [Top EXCEPT !.pc = pc].pc # "return"
        BY <1>2, <3>2 DEF PackageEnters, FrameType
      <4> DEFINE f == [Top EXCEPT !.pc = pc]
      <4> HIDE DEF f
      <4> QED
        BY <2>1, <3>2, <4>1 DEF PackageEnters, f
    <3> HIDE DEF Goal
    <3> QED
      BY <2>2, <2>3, <2>7, <3>1, <3>2 DEF PackageShape, PackageReturns, Overflows
  <2>9. ListShape => Goal
    <3>1. ASSUME ListPasses PROVE FALSE
      <4> DEFINE f == [Top EXCEPT !.pc = "enter", !.items = Tail(@), !.done = @ \cup {Top.call}]
      <4>1. f.pc = "enter" /\ Moves(f)
        BY <1>2, <3>1 DEF ListPasses, FrameType
      <4> HIDE DEF f
      <4> QED
        BY <2>1, <4>1
    <3> HIDE DEF Goal
    <3> QED
      BY <2>2, <2>3, <2>6, <3>1 DEF ListShape, ListEnds, Overflows
  <2>10. MainShape => Goal
    <3>1. ASSUME NEW f \in FrameType, MainPasses(f) PROVE FALSE
      BY <2>1, <3>1 DEF MainPasses
    <3>2. ASSUME NEW pc, MainCalls(pc) PROVE FALSE
      BY <2>5, <3>2 DEF MainCalls
    <3> HIDE DEF Goal
    <3> QED
      BY <2>3, <2>6, <3>1, <3>2 DEF MainShape, MainExits, Overflows
  <2> HIDE DEF Goal
  <2>11. Goal
    BY <2>8, <2>9, <2>10 DEF Shape
  <2> QED
    BY <2>11
<1> QED
  BY <1>7, <1>8

LEMMA ThroughStays ==
  ASSUME setup' = setup, visited \subseteq visited', saved \subseteq saved', NEW a, Through(a)
  PROVE  Through(a)'
<1>1. Named(a)' = Named(a) /\ Options' = Options
  BY DEF Named, Options, InstallOptions, UpdateOptions, UpgradeOptions
<1> QED
  BY <1>1 DEF Through

\* main is through with what ./ needs when the lists it waited for are.
LEMMA LocalThrough ==
  ASSUME TypeOK, StackInv, RcInv, ArgsInv, MainInv, Len(stack) = 1, NEW h \in {Here, File},
         \/ /\ setup.faults = {} /\ Top.pc = "enter" /\ Top.items # <<>>
            /\ Manifests[Top.n] \notin setup.manifests /\ Top.n >= Tried
         \/ Top.pc = "local" /\ Top.rc # -1 /\ ~Options.dev
         \/ Top.pc = "localDev" /\ Top.rc # -1
  PROVE  Through(h)
<1>1. Top = stack[1] /\ FrameInv(Top) /\ Top.kind = "main" /\ Top \in FrameType
  BY StackTop DEF TypeOK, StackInv, Top
<1>2. /\ setup.args \in Seq(Arguments) /\ setup.manifests \subseteq {"clib.json", "package.json"}
      /\ File \in Range(setup.args) => "clib.json" \in setup.manifests
      /\ setup.manifests = {} => setup.dependencies = <<>> /\ setup.development = <<>>
  <2>1. setup \in Setups
    BY DEF TypeOK, CallsType
  <2> QED
    BY <2>1, ClibFetchAssumption, Setup
<1>3. Manifests[1] = "clib.json" /\ Manifests[2] = "package.json" /\ Len(Manifests) = 2
  BY DEF Manifests
<1>4. Named(h) = Range(setup.dependencies) \cup (IF Options.dev THEN Range(setup.development) ELSE {})
  BY DEF Named
<1>5. SUFFICES Named(h) \subseteq visited
  BY DEF Through
<1>6. CASE /\ setup.faults = {} /\ Top.pc = "enter" /\ Top.items # <<>>
           /\ Manifests[Top.n] \notin setup.manifests /\ Top.n >= Tried
  <2>1. Top.n \in 1..2
    BY <1>1 DEF FrameInv, FrameOK
  <2>2. "clib.json" \notin setup.manifests
    <3>1. Top.n = 2 => Manifests[1] \notin setup.manifests
      BY <1>1, <1>6 DEF ArgsInv
    <3> QED
      BY <1>3, <1>6, <2>1, <3>1
  <2>3. Tried = 2
    <3>1. Head(Top.items) # File
      <4>1. Head(Top.items) \in Range(setup.args)
        BY <1>1, <1>6, HeadAndTail DEF ArgsInv, FrameType
      <4> QED
        BY <1>2, <2>2, <4>1
    <3> QED
      BY <1>3, <3>1 DEF Tried
  <2>4. Top.n = 2
    BY <1>6, <2>1, <2>3
  <2>5. setup.manifests = {}
    BY <1>2, <1>3, <1>6, <2>2, <2>4
  <2>6. Range(setup.dependencies) = {} /\ Range(setup.development) = {}
    <3>1. Range(<<>>) = {}
      BY DEF Range
    <3> QED
      BY <1>2, <2>5, <3>1
  <2> QED
    BY <1>4, <2>6
<1>7. ASSUME NEW S, Behind(1, S), Top.rc # -1 PROVE S \subseteq visited
  BY <1>1, <1>7 DEF Behind
<1>8. CASE Top.pc = "local" /\ Top.rc # -1 /\ ~Options.dev
  <2>1. Behind(1, Range(setup.dependencies))
    BY <1>1, <1>8 DEF MainInv
  <2>2. Range(setup.dependencies) \subseteq visited
    BY <1>7, <1>8, <2>1
  <2> QED
    BY <1>4, <1>8, <2>2
<1>9. CASE Top.pc = "localDev" /\ Top.rc # -1
  <2>1. Behind(1, Range(setup.development)) /\ Range(setup.dependencies) \subseteq visited
    BY <1>1, <1>9 DEF MainInv
  <2>2. Range(setup.development) \subseteq visited
    BY <1>7, <1>9, <2>1
  <2> QED
    BY <1>4, <2>1, <2>2
<1> QED
  BY <1>6, <1>8, <1>9

\* An argument whose call returned 0, and the list after it.
LEMMA ArgumentThrough ==
  ASSUME TypeOK, StackInv, RcInv, AwaitInv, MainInv, Clean, Len(stack) = 1,
         Top.items # <<>>, Head(Top.items) \in Packages, Top.pc \in {"argument", "argumentDev"},
         Top.rc # -1
  PROVE  /\ Top.rc = 0
         /\ Top.pc = "argumentDev" \/ ~HasDevelopment => Named(Head(Top.items)) \subseteq visited
<1>1. Top = stack[1] /\ Top.kind = "main" /\ Top \in FrameType
  BY StackTop DEF TypeOK, StackInv, Top
<1> DEFINE a == Head(Top.items)
<1>2. Named(a) = {a} \cup (IF Options.dev THEN Range(Describe[a].development) ELSE {})
  BY Constants DEF Named
<1>3. CASE Top.pc = "argument"
  <2>1. AwaitsPackage(Top)
    BY <1>1, <1>3 DEF AwaitsPackage
  <2>2. a \in visited /\ Top.rc = 0
    BY <2>1 DEF AwaitInv, StackInv, Clean
  <2>3. ~HasDevelopment => Named(a) \subseteq visited
    <3>1. Range(<<>>) = {}
      BY DEF Range
    <3> QED
      BY <1>2, <2>2, <3>1 DEF HasDevelopment
  <2> QED
    BY <1>3, <2>2, <2>3
<1>4. CASE Top.pc = "argumentDev"
  <2>1. Top.rc = 0
    <3>1. AwaitsList(Top)
      BY <1>1, <1>4 DEF AwaitsList
    <3> QED
      BY <3>1 DEF RcInv
  <2>2. a \in visited /\ Behind(1, Range(Describe[a].development))
    BY <1>1, <1>4 DEF MainInv
  <2>3. Range(Describe[a].development) \subseteq visited
    BY <1>1, <2>1, <2>2 DEF Behind
  <2> QED
    BY <1>2, <2>1, <2>2, <2>3
<1> QED
  BY <1>3, <1>4

LEMMA MainKept ==
  ASSUME TypeOK, StackInv, RcInv, ArgsInv, AwaitInv, MainInv, Shape, exit = Running,
         Clean, Clean', ~BadEnd
  PROVE  MainInv'
<1>1. PICK m \in Nat : m = Len(stack) /\ m # 0
  BY StackTop DEF TypeOK
<1>2. /\ setup' = setup /\ visited \subseteq visited' /\ saved \subseteq saved'
      /\ exit' = exit \/ Overflows \/ MainExits
  BY Constancy
<1>3. ~Ended0 /\ (exit' = exit => ~Ended0') /\ (Overflows => ~Ended0')
  BY DEF Running, Ended0, Overflows
<1>4. \A a : Through(a) => Through(a)'
  BY <1>2, ThroughStays
<1>5. stack[1].kind = "main"
  BY <1>1, StackTop DEF StackInv, TypeOK
<1> DEFINE Done == \A a \in Range(setup.args) : Through(a)' \/ a \in Range(stack'[1].items)
           Waits == /\ stack'[1].pc = "local" => Behind(1, Range(setup.dependencies))'
                    /\ stack'[1].pc = "localDev" =>
                         /\ Range(setup.dependencies) \subseteq visited'
                         /\ Behind(1, Range(setup.development))'
                    /\ stack'[1].pc = "argumentDev" =>
                         /\ Head(stack'[1].items) \in visited'
                         /\ Behind(1, Range(Describe[Head(stack[1].items)].development))'
           Answers == Ended0' => \A a \in Asked : Through(a)'
           Goal == Done /\ Waits /\ Answers
<1>6. SUFFICES Goal
  <2>1. Asked' = Asked
    BY <1>2 DEF Asked
  <2> QED
    BY <1>2, <2>1 DEF MainInv
<1>7. ASSUME stack'[1].items = stack[1].items PROVE Done
  BY <1>4, <1>7 DEF MainInv
<1>8. CASE m > 1
  <2>1. 1 \in 1..(m - 1)
    BY <1>8
  <2>2. stack'[1].items = stack[1].items /\ stack'[1].pc = stack[1].pc
    BY <1>1, <2>1, Lower
  <2>3. ASSUME NEW S, Behind(1, S), stack[1].pc \in {"local", "localDev", "argumentDev"} PROVE Behind(1, S)'
    <3>1. AwaitsList(stack[1])
      BY <1>5, <2>3 DEF AwaitsList
    <3> QED
      BY <1>1, <2>1, <2>3, <3>1, BehindKept
  <2>4. stack[1].pc = "local" => Behind(1, Range(setup.dependencies))'
    <3>1. PICK S : S = Range(setup.dependencies)
      OBVIOUS
    <3>2. stack[1].pc = "local" => Behind(1, S)'
      BY <2>3, <3>1 DEF MainInv
    <3> QED
      BY <1>2, <3>1, <3>2 DEF Behind
  <2>5. stack[1].pc = "localDev" => Behind(1, Range(setup.development))'
    <3>1. PICK S : S = Range(setup.development)
      OBVIOUS
    <3>2. stack[1].pc = "localDev" => Behind(1, S)'
      BY <2>3, <3>1 DEF MainInv
    <3> QED
      BY <1>2, <3>1, <3>2 DEF Behind
  <2>6. stack[1].pc = "argumentDev" => Behind(1, Range(Describe[Head(stack[1].items)].development))'
    <3>1. PICK S : S = Range(Describe[Head(stack[1].items)].development)
      OBVIOUS
    <3>2. stack[1].pc = "argumentDev" => Behind(1, S)'
      BY <2>3, <3>1 DEF MainInv
    <3> QED
      BY <2>2, <3>1, <3>2 DEF Behind
  <2>7. Waits
    BY <1>2, <2>2, <2>4, <2>5, <2>6 DEF MainInv
  <2>8. ~Ended0'
    <3>1. MainExits => Len(stack) = 1
      BY OtherTop DEF MainExits
    <3>2. m # 1
      BY <1>8
    <3> QED
      BY <1>1, <1>2, <1>3, <3>1, <3>2
  <2> QED
    BY <1>7, <2>2, <2>7, <2>8
<1>9. CASE m = 1
  <2>1. /\ MainShape /\ Top = stack[1] /\ Top.kind = "main" /\ Top \in FrameType /\ FrameInv(Top)
        /\ Top.items # <<>> => Range(Top.items) = {Head(Top.items)} \cup Range(Tail(Top.items))
    BY <1>1, <1>9, RootSteps
  <2>2. ASSUME NEW pc, NEW c, NEW f, Calls(pc, c, f)
        PROVE  stack'[1].items = Top.items /\ stack'[1].pc = pc /\ Len(stack') = 2 /\ stack'[2] = f
    <3>0. Len(stack) = 1 /\ 1 + 1 = 2
      BY <1>1, <1>9
    <3>1. stack'[1] = [Top EXCEPT !.pc = pc, !.call = c] /\ Len(stack') = 2
      BY <2>2, <3>0 DEF Calls
    <3>2. stack'[2] = f
      BY <2>2, <3>1 DEF Calls, Top
    <3>3. stack'[1].items = Top.items /\ stack'[1].pc = pc
      BY <2>1, <3>1 DEF FrameType
    <3> QED
      BY <3>1, <3>2, <3>3
  <2>3. ASSUME NEW pc, NEW dir, PackageCalled(pc, dir) PROVE Goal
    <3>1. stack'[1].items = Top.items /\ stack'[1].pc = pc /\ pc \notin {"local", "localDev", "argumentDev"}
      BY <2>2, <2>3 DEF PackageCalled
    <3>2. exit' = exit
      BY <2>3 DEF PackageCalled
    <3> QED
      BY <1>3, <1>7, <2>1, <3>1, <3>2
  <2>4. ASSUME NEW pc, MainCalls(pc) PROVE Goal
    <3> DEFINE f == List(NewList(pc), "deps")
    <3>1. f.items = NewList(pc)
      BY DEF List, Call
    <3> HIDE DEF f
    <3>2. Calls(pc, Top.call, f) /\ exit' = exit /\ visited' = visited
      BY <2>4 DEF MainCalls, f
    <3>3. stack'[1].items = Top.items /\ stack'[1].pc = pc /\ Len(stack') = 2 /\ stack'[2].items = NewList(pc)
      BY <2>2, <3>1, <3>2
    <3>4. ASSUME NEW S, S = Range(NewList(pc)) PROVE Behind(1, S)'
      BY <3>3, <3>4 DEF Behind
    <3>5. pc = "local" => Behind(1, Range(setup.dependencies))'
      <4>1. PICK S : S = Range(setup.dependencies)
        OBVIOUS
      <4>2. pc = "local" => Behind(1, S)'
        BY <3>4, <4>1 DEF NewList
      <4> QED
        BY <1>2, <4>1, <4>2 DEF Behind
    <3>6. pc = "localDev" => Range(setup.dependencies) \subseteq visited /\ Behind(1, Range(setup.development))'
      <4>1. PICK S : S = Range(setup.development)
        OBVIOUS
      <4>2. pc = "localDev" => Behind(1, S)'
        BY <3>4, <4>1 DEF NewList
      <4>3. pc = "localDev" => Range(setup.dependencies) \subseteq visited
        BY <1>1, <1>9, <2>1, <2>4 DEF MainCalls, MainInv, Behind
      <4> QED
        BY <1>2, <4>1, <4>2, <4>3 DEF Behind
    <3>7. pc = "argumentDev" => Behind(1, Range(Describe[Head(stack[1].items)].development))'
      <4>1. PICK S : S = Range(Describe[Head(Top.items)].development)
        OBVIOUS
      <4>2. pc = "argumentDev" => Behind(1, S)'
        BY <3>4, <4>1 DEF NewList
      <4>3. Head(stack'[1].items) = Head(stack[1].items)
        BY <2>1, <3>3
      <4> QED
        BY <2>1, <4>1, <4>2, <4>3 DEF Behind
    <3>8. pc = "argumentDev" => Head(Top.items) \in visited
      <4>1. pc = "argumentDev" => AwaitsPackage(Top)
        BY <2>4 DEF MainCalls, AwaitsPackage
      <4> QED
        BY <4>1 DEF AwaitInv
    <3>9. Waits
      BY <1>2, <2>1, <3>2, <3>3, <3>5, <3>6, <3>7, <3>8
    <3> QED
      BY <1>3, <1>7, <2>1, <3>2, <3>3, <3>9
  <2>5. ASSUME NEW f \in FrameType, MainPasses(f) PROVE Goal
    <3>1. stack'[1] = f /\ f.pc = "enter" /\ exit' = exit
      BY <1>1, <1>9, <2>5 DEF MainPasses, Moves, Top
    <3>2. CASE TakesSecond(f)
      BY <1>3, <1>7, <2>1, <3>1, <3>2 DEF TakesSecond
    <3>3. CASE LocalEnds(f)
      <4>1. Head(Top.items) \in {Here, File} /\ Top.items # <<>> /\ f.items = Tail(Top.items)
        BY <3>3 DEF LocalEnds
      <4>2. setup.faults = {}
        BY <2>1, <4>1 DEF ArgsInv, BadEnd
      <4>3. Top.pc \in {"local", "localDev"} => AwaitsList(Top)
        BY <2>1 DEF AwaitsList
      <4>4. Top.pc \in {"local", "localDev"} => Top.rc # -1
        BY <4>2, <4>3 DEF RcInv
      <4>5. Through(Head(Top.items))
        BY <1>1, <1>9, <3>3, <4>1, <4>2, <4>4, LocalThrough DEF LocalEnds
      <4>6. PICK h : h = Head(Top.items)
        OBVIOUS
      <4>7. Through(h)'
        BY <1>4, <4>5, <4>6
      <4>8. ASSUME NEW a \in Range(setup.args), a \in Range(Top.items)
            PROVE  Through(a)' \/ a \in Range(Tail(Top.items))
        BY <2>1, <4>1, <4>6, <4>7, <4>8
      <4>9. Done
        BY <1>4, <2>1, <3>1, <4>1, <4>8 DEF MainInv
      <4> QED
        BY <1>3, <3>1, <4>9
    <3>4. CASE ArgumentEnds(f)
      <4>1. Top.items # <<>> /\ f.items = Tail(Top.items) /\ Head(Top.items) \in Packages
            /\ Top.pc \in {"argument", "argumentDev"} /\ Top.rc # -1
        BY <3>4 DEF ArgumentEnds
      <4>2. /\ Top.rc = 0
            /\ Top.pc = "argumentDev" \/ ~HasDevelopment => Named(Head(Top.items)) \subseteq visited
        BY <1>1, <1>9, <4>1, ArgumentThrough
      <4>3. PICK h : h = Head(Top.items)
        OBVIOUS
      <4>4. Named(h) \subseteq visited /\ (Options.save => h \in saved')
        BY <3>4, <4>2, <4>3 DEF ArgumentEnds
      <4>5. Through(h)'
        <5>1. Named(h)' = Named(h) /\ Options' = Options
          BY <1>2 DEF Named, Options, InstallOptions, UpdateOptions, UpgradeOptions
        <5> QED
          BY <1>2, <4>4, <5>1 DEF Through
      <4>6. ASSUME NEW a \in Range(setup.args), a \in Range(Top.items)
            PROVE  Through(a)' \/ a \in Range(Tail(Top.items))
        BY <2>1, <4>1, <4>3, <4>5, <4>6
      <4>7. Done
        BY <1>4, <2>1, <3>1, <4>1, <4>6 DEF MainInv
      <4> QED
        BY <1>3, <3>1, <4>7
    <3> HIDE DEF Goal
    <3> QED
      BY <2>5, <3>2, <3>3, <3>4 DEF MainPasses
  <2>6. ASSUME stack' = stack, visited' = visited PROVE Done /\ Waits
    <3>1. Waits
      BY <1>2, <2>6 DEF MainInv, Behind
    <3> QED
      BY <1>7, <2>6, <3>1
  <2>7. ASSUME MainExits, exit'.rc = 0 => Finished, Ended0' PROVE \A a \in Asked : Through(a)
    <3>1. Finished
      BY <2>7 DEF MainExits, Ended0
    <3>2. CASE setup.args # <<>> /\ Top.pc = "enter" /\ Top.items = <<>>
      <4>1. Range(Top.items) = {}
        BY <3>2 DEF Range
      <4> QED
        BY <2>1, <3>2, <4>1 DEF Asked, MainInv
    <3>3. CASE /\ setup.args = <<>>
               /\ \/ Top.pc = "local" /\ Top.rc # -1 /\ ~Options.dev
                  \/ Top.pc = "localDev" /\ Top.rc # -1
      <4>1. Through(Here)
        BY <1>1, <1>9, <3>3, LocalThrough
      <4> QED
        BY <3>3, <4>1 DEF Asked
    <3>4. CASE setup.cmd = "upgrade" /\ Top.pc = "upgraded" /\ Top.rc = 0
      <4>1. setup \in Setups
        BY DEF TypeOK, CallsType
      <4>2. Len(setup.args) = 1 /\ Head(setup.args) \in Packages /\ setup.args \in Seq(Arguments)
        BY <3>4, <4>1, Setup, ClibFetchAssumption
      <4>3. setup.args # <<>> /\ Range(setup.args) = {Head(setup.args)}
        BY <4>2 DEF Range
      <4>4. Top.items = setup.args
        BY <2>1, <3>4 DEF FrameInv, FrameOK
      <4>5. Head(setup.args) \in visited
        <5>1. AwaitsPackage(Top)
          BY <2>1, <3>4 DEF AwaitsPackage
        <5> QED
          BY <4>4, <5>1 DEF AwaitInv
      <4>6. ~Options.dev /\ ~Options.save
        BY <3>4 DEF Options, UpgradeOptions
      <4>7. Through(Head(setup.args))
        BY <4>2, <4>5, <4>6, Constants DEF Through, Named
      <4> QED
        BY <4>3, <4>7 DEF Asked
    <3> QED
      BY <3>1, <3>2, <3>3, <3>4 DEF Finished
  <2>8. MainExits /\ (exit'.rc = 0 => Finished) => Goal
    BY <1>4, <2>6, <2>7 DEF MainExits
  <2>9. Overflows => Goal
    BY <1>3, <2>6 DEF Overflows
  <2> HIDE DEF Goal
  <2>10. Goal
    BY <2>1, <2>3, <2>4, <2>5, <2>8, <2>9 DEF MainShape
  <2> QED
    BY <2>10
<1>10. m > 1 \/ m = 1
  BY <1>1
<1> QED
  BY <1>8, <1>9, <1>10

LEMMA ReachKept ==
  ASSUME TypeOK, StackInv, ReachInv, Shape, exit = Running
  PROVE  ReachInv'
<1>1. RcInv /\ ArgsInv /\ FailInv /\ VisitInv
  BY DEF ReachInv
<1>2. RcInv' /\ ArgsInv' /\ FailInv' /\ VisitInv'
  BY <1>1, RcKept, ArgsKept, FailKept, VisitKept
<1>3. BadEnd' <=> BadEnd
  BY Constancy DEF BadEnd
<1>4. Clean' => Clean
  <2>1. ASSUME NEW rc \in Codes, PackageReturns(rc), Clean', NEW c \in DOMAIN results PROVE results[c] = 0
    <3>1. c # Top.call
      BY <2>1, PackageTop DEF PackageReturns
    <3> QED
      BY <2>1, <3>1 DEF PackageReturns, Clean
  <2>2. results' = results \/ \E rc \in Codes : PackageReturns(rc)
    BY Constancy
  <2> QED
    BY <2>1, <2>2 DEF Clean
<1>5. Clean' => AwaitInv' /\ PendInv' /\ ListInv'
  <2>1. SUFFICES ASSUME Clean' PROVE AwaitInv' /\ PendInv' /\ ListInv'
    OBVIOUS
  <2>2. AwaitInv /\ PendInv /\ ListInv
    BY <1>4, <2>1 DEF ReachInv
  <2> QED
    BY <1>1, <2>1, <2>2, AwaitKept, PendKept, ListKept
<1>6. Clean' /\ ~BadEnd' => MainInv'
  <2>1. SUFFICES ASSUME Clean', ~BadEnd PROVE MainInv'
    BY <1>3
  <2>2. Clean /\ AwaitInv /\ MainInv
    BY <1>4, <2>1 DEF ReachInv
  <2> QED
    BY <1>1, <2>1, <2>2, MainKept
<1> QED
  BY <1>2, <1>5, <1>6 DEF ReachInv

LEMMA ReachStill ==
  ASSUME ReachInv, UNCHANGED <<setup, installVars>>
  PROVE  ReachInv'
<1>1. UNCHANGED <<setup, stack, visited, results, saved, exit>> /\ Top' = Top /\ Options' = Options
  BY DEF installVars, Top, Options, InstallOptions, UpdateOptions, UpgradeOptions
<1>2. /\ (BadEnd' <=> BadEnd) /\ (Clean' <=> Clean) /\ (Failed' <=> Failed) /\ (Ended0' <=> Ended0)
      /\ Asked' = Asked
  BY <1>1 DEF BadEnd, Clean, Failed, Ended0, Asked
<1>3. \A k : (IsPackage(k)' <=> IsPackage(k)) /\ (Entered(k)' <=> Entered(k))
  BY <1>1 DEF IsPackage, Entered
<1>4. /\ \A p : Unfinished(p)' <=> Unfinished(p)
      /\ \A k, S : Behind(k, S)' <=> Behind(k, S)
      /\ \A a : Through(a) => Through(a)'
  BY <1>1, <1>3, ThroughStays DEF Unfinished, Behind
<1>5. RcInv => RcInv'
  BY <1>1, <1>2 DEF RcInv
<1>6. ArgsInv => ArgsInv'
  BY <1>1 DEF ArgsInv
<1>7. FailInv => FailInv'
  BY <1>1, <1>2 DEF FailInv, OnItsWay
<1>8. VisitInv => VisitInv'
  BY <1>1, <1>3 DEF VisitInv
<1>9. AwaitInv => AwaitInv'
  BY <1>1 DEF AwaitInv
<1>10. PendInv => PendInv'
  BY <1>1, <1>4 DEF PendInv, Direct
<1>11. ListInv => ListInv'
  BY <1>1, <1>3 DEF ListInv, Behind, Direct
<1>12. MainInv => MainInv'
  BY <1>1, <1>2, <1>4 DEF MainInv, Behind
<1> QED
  BY <1>2, <1>5, <1>6, <1>7, <1>8, <1>9, <1>10, <1>11, <1>12 DEF ReachInv

LEMMA ReachStarts == Fresh => ReachInv
<1>1. SUFFICES ASSUME Fresh PROVE ReachInv
  OBVIOUS
<1>2. /\ Main.kind = "main" /\ Main.pc = "enter" /\ Main.items = setup.args /\ Main.n = 1
  BY DEF Main, Call
<1>3. Len(stack) = 1 /\ stack[1] = Main /\ Top = Main
  BY <1>1 DEF Fresh, Top
<1>4. ~AwaitsList(Top) /\ ~AwaitsPackage(Top) /\ DOMAIN results = {} /\ exit.how = "no"
  BY <1>1, <1>2, <1>3 DEF AwaitsList, AwaitsPackage, Fresh, Running
<1>5. RcInv /\ FailInv
  BY <1>4 DEF RcInv, FailInv, Failed
<1>6. ArgsInv
  BY <1>2, <1>3, <1>4 DEF ArgsInv
<1>7. VisitInv /\ PendInv /\ ListInv
  BY <1>1, <1>2, <1>3 DEF VisitInv, PendInv, ListInv, Entered, IsPackage, Fresh
<1>8. AwaitInv /\ MainInv
  BY <1>2, <1>3, <1>4 DEF AwaitInv, MainInv, Ended0
<1> QED
  BY <1>5, <1>6, <1>7, <1>8 DEF ReachInv

LEMMA Reached == Spec => []ReachInv
<1>1. Init => ReachInv
  <2>1. Init => Fresh
    BY DEF Init, Fresh
  <2> QED
    BY <2>1, ReachStarts
<1>2. IInv /\ ReachInv /\ [Next]_vars => ReachInv'
  <2>1. SUFFICES ASSUME IInv, ReachInv, [Next]_vars PROVE ReachInv'
    OBVIOUS
  <2>2. CASE PackageStep \/ ListStep \/ MainStep
    <3>1. TypeOK /\ StackInv
      BY <2>1 DEF IInv
    <3>2. Shape
      BY <2>2, <3>1, PackageShapes, ListShapes, MainShapes DEF Shape
    <3> QED
      BY <2>1, <2>2, <3>1, <3>2, Runs, ReachKept
  <2>3. CASE ThreadStep
    BY <2>1, <2>3, ReachStill DEF ThreadStep, KeepRest
  <2>4. CASE \E p \in Packages : Expire(p)
    BY <2>1, <2>4, ReachStill DEF Expire
  <2>5. CASE Rerun
    <3>1. Fresh'
      BY <2>1, <2>5 DEF Rerun, Fresh, IInv, TypeOK, CallsType, Main, Call
    <3> QED
      BY <3>1, ReachStarts, PTL
  <2>6. CASE UNCHANGED vars
    BY <2>1, <2>6, ReachStill DEF vars
  <2> QED
    BY <2>1, <2>2, <2>3, <2>4, <2>5, <2>6 DEF Next, Work
<1> QED
  BY <1>1, <1>2, Invariant, PTL DEF Spec

\* A run that ends with 0, and in which no call gave anything but 0, has gone
\* through all it was asked for and all that needs; a result of -1 never ends
\* in 0, but for the two cases in which the failure of a manifest is forgotten.
THEOREM ZeroIsDone == Spec => []ZeroMeansInstalled
<1>1. IInv /\ ReachInv => ZeroMeansInstalled
  <2>1. SUFFICES ASSUME IInv, ReachInv, exit = [how |-> "returned", rc |-> 0], ~BadEnd
                 PROVE  /\ \A c \in DOMAIN results : results[c] # -1
                        /\ \/ \E c \in DOMAIN results : results[c] > 0
                           \/ /\ Needed \subseteq visited
                              /\ Options.save => Range(setup.args) \ {Here, File} \subseteq saved
    BY DEF ZeroMeansInstalled, BadEnd
  <2>2. exit.how = "returned" /\ Ended0
    BY <2>1 DEF Ended0
  <2>3. \A c \in DOMAIN results : results[c] # -1
    BY <2>1, <2>2 DEF ReachInv, FailInv, Failed
  <2>4. CASE ~Clean
    <3>1. PICK c \in DOMAIN results : results[c] # 0
      BY <2>4 DEF Clean
    <3>2. results[c] = 1
      BY <2>1, <2>3, <3>1 DEF IInv, TypeOK, CallsType, Codes
    <3>3. results[c] > 0
      BY <3>2
    <3> QED
      BY <2>3, <3>3
  <2>5. CASE Clean
    <3>1. MainInv /\ PendInv /\ Len(stack) = 1
      BY <2>1, <2>2, <2>5 DEF ReachInv, ArgsInv
    <3>2. \A a \in Asked : Named(a) \subseteq visited
      BY <2>2, <3>1 DEF MainInv, Through
    <3>3. stack[1].kind = "main"
      BY <2>1, <3>1 DEF IInv, StackInv
    <3>4. Closed(visited)
      <4>1. \A p : ~Unfinished(p)
        BY <3>1, <3>3 DEF Unfinished, Entered, IsPackage
      <4> QED
        BY <3>1, <4>1 DEF PendInv, Closed, Direct
    <3>5. visited \in SUBSET Packages
      BY <2>1 DEF IInv, TypeOK, CallsType
    <3>6. Needed \subseteq visited
      BY <3>2, <3>4, <3>5 DEF Needed
    <3>7. Options.save => Range(setup.args) \ {Here, File} \subseteq saved
      <4>1. Range(setup.args) \ {Here, File} \subseteq Asked
        <5>1. setup.args = <<>> => Range(setup.args) = {}
          BY DEF Range
        <5> QED
          BY <5>1 DEF Asked
      <4> QED
        BY <2>2, <3>1, <4>1 DEF MainInv, Through
    <3> QED
      BY <2>3, <3>6, <3>7
  <2> QED
    BY <2>4, <2>5
<1> QED
  BY <1>1, Invariant, Reached, PTL

-----------------------------------------------------------------------------
(* Waiting for the threads.  While a call fills slots, each below i has a  *)
(* thread of this call, and while it waits for the makefile its thread is  *)
(* there.                                                                  *)
InSlot(t, s) == t \in DOMAIN fetch /\ t[1] = Top.call /\ fetch[t].slot = s
FilledInv ==
  Top.kind = "package" =>
    /\ Top.pc = "joinMakefile" => <<Top.call, Makefile>> \in DOMAIN fetch
    /\ Top.pc \in Looping => \A s \in 0..(Top.i - 1) : \E t : InSlot(t, s)

LEMMA FilledKept ==
  ASSUME TypeOK, StackInv, ThreadInv, FilledInv, DataShape
  PROVE  FilledInv'
<1>1. Top.kind = "package" =>
        PackageInv(Top) /\ Top.i \in Nat /\ Concurrency \in Nat
  BY PackageTop, Constants DEF FrameType
<1>2. ASSUME Idle(Top') PROVE FilledInv'
  BY <1>2 DEF Idle, Busy, Looping, FilledInv
<1>3. CASE Calm \/ Abandons
  BY <1>2, <1>3 DEF Calm, Abandons
<1>4. CASE Loops
  <2>1. /\ Top.kind = "package" /\ Top'.call = Top.call /\ Top'.i = Top.i /\ fetch' = fetch
        /\ Top.pc \in Looping /\ Top'.pc # "joinMakefile"
    BY <1>4 DEF Loops, Stays, Quiet, Looping
  <2> QED
    BY <2>1 DEF FilledInv, InSlot
<1>5. CASE Copies \/ Loads \/ Saves \/ Saved
  BY <1>5 DEF Copies, Loads, Saves, Saved, FilledInv, Looping
<1>6. CASE Misses
  <2>1. Top.kind = "package" /\ Top.pc = "cache" /\ Top'.i = Top.i /\ Top'.pc = "download"
    BY <1>6 DEF Misses, Stays
  <2>2. Top'.i = 0
    BY <1>1, <2>1 DEF PackageInv, Early
  <2>3. 0..(Top'.i - 1) = {}
    BY <2>2
  <2> QED
    BY <2>1, <2>3 DEF FilledInv
<1>7. CASE MainExits
  BY <1>7 DEF MainExits, FilledInv, Top
<1>8. ASSUME NEW file, NEW slot, Starts(file, slot) PROVE FilledInv'
  <2>0. PICK u : u = <<Top.call, file>>
    OBVIOUS
  <2>1. /\ DOMAIN fetch' = DOMAIN fetch \cup {u} /\ fetch'[u].slot = slot /\ u[1] = Top.call
        /\ Top.kind = "package" /\ Top'.call = Top.call
        /\ \A t \in DOMAIN fetch : t # u => fetch'[t] = fetch[t]
    BY <1>8, <2>0 DEF Starts, Stays
  <2>2. CASE file = Makefile /\ Top'.pc = "joinMakefile"
    BY <2>0, <2>1, <2>2 DEF FilledInv, Looping
  <2>3. CASE /\ file = Top.n /\ slot = Top.i /\ Top.pc = "start" /\ Top'.pc \in {"download", "batch"}
             /\ Top'.i = IF Top.i < Concurrency THEN Top.i + 1 ELSE Top.i
    <3>1. SUFFICES ASSUME NEW s \in 0..(Top'.i - 1) PROVE \E t : InSlot(t, s)'
      BY <2>3 DEF FilledInv
    <3>2. s \in 0..(Top.i - 1) \/ s = slot
      BY <1>1, <2>1, <2>3, <3>1
    <3>3. CASE s = slot
      BY <2>1, <3>3 DEF InSlot
    <3>4. CASE s \in 0..(Top.i - 1)
      <4>1. PICK t : InSlot(t, s)
        BY <2>1, <2>3, <3>4 DEF FilledInv, Looping
      <4>2. Len(stack) \in 1..Len(stack) /\ Top = stack[Len(stack)] /\ Top.n \in Nat
        BY <2>1, PackageTop DEF Top, FrameType
      <4>3. t[2] < Top.n
        BY <2>1, <4>1, <4>2 DEF InSlot, ThreadInv, IsPackage
      <4>4. t # u
        BY <2>0, <2>3, <4>2, <4>3
      <4> QED
        BY <2>1, <4>1, <4>4 DEF InSlot
    <3> QED
      BY <3>2, <3>3, <3>4
  <2> QED
    BY <1>8, <2>2, <2>3 DEF Starts
<1>9. ASSUME NEW w, Joins(w) PROVE FilledInv'
  <2>1. /\ DOMAIN fetch' = DOMAIN fetch \ {w} /\ \A t \in DOMAIN fetch' : fetch'[t] = fetch[t]
        /\ Top.kind = "package" /\ Top'.call = Top.call
    BY <1>9 DEF Joins, Stays
  <2>2. CASE Top'.pc = "cache"
    BY <2>2 DEF FilledInv, Looping
  <2>3. CASE /\ Top.pc \in {"batch", "last"} /\ Top'.pc = Top.pc
             /\ fetch[w].slot = Top.i - 1 /\ Top'.i = Top.i - 1
    <3>1. SUFFICES ASSUME NEW s \in 0..(Top'.i - 1) PROVE \E t : InSlot(t, s)'
      BY <2>3 DEF FilledInv
    <3>2. s \in 0..(Top.i - 1) /\ s # Top.i - 1
      BY <1>1, <2>1, <2>3, <3>1
    <3>3. PICK t : InSlot(t, s)
      BY <2>1, <2>3, <3>2 DEF FilledInv, Looping
    <3>4. t # w
      BY <2>3, <3>2, <3>3 DEF InSlot
    <3> QED
      BY <2>1, <3>3, <3>4 DEF InSlot
  <2> QED
    BY <1>9, <2>2, <2>3 DEF Joins
<1> QED
  BY <1>3, <1>4, <1>5, <1>6, <1>7, <1>8, <1>9 DEF DataShape

LEMMA Filled == Spec => [](IInv /\ FilledInv)
<1>1. Init => FilledInv
  <2>1. Init => Top.kind = "main"
    BY FreshProcess DEF Init, Fresh, Started
  <2> QED
    BY <2>1 DEF FilledInv
<1>2. IInv /\ FilledInv /\ [Next]_vars => FilledInv'
  <2>1. SUFFICES ASSUME IInv, FilledInv, [Next]_vars PROVE FilledInv'
    OBVIOUS
  <2>2. ASSUME stack' = stack, DOMAIN fetch' = DOMAIN fetch,
               \A t \in DOMAIN fetch : fetch'[t].slot = fetch[t].slot
        PROVE  FilledInv'
    BY <2>1, <2>2 DEF FilledInv, InSlot, Top
  <2>3. CASE PackageStep \/ ListStep \/ MainStep
    <3>1. TypeOK /\ StackInv /\ ThreadInv /\ DataShape
      BY <2>1, <2>3, DataOfPackage, DataOfList, DataOfMain DEF IInv
    <3> QED
      BY <2>1, <3>1, FilledKept
  <2>4. CASE ThreadStep
    <3>1. PICK t \in DOMAIN fetch : FetchStep(t)
      BY <2>4 DEF ThreadStep
    <3>2. exit = Running /\ KeepRest /\ UNCHANGED installVars
      BY <2>4 DEF ThreadStep
    <3>3. Advances(t)
      BY <2>1, <3>1, <3>2, Advance DEF IInv
    <3> QED
      BY <2>2, <3>2, <3>3 DEF Advances, installVars
  <2>5. CASE (\E p \in Packages : Expire(p)) \/ UNCHANGED vars
    BY <2>2, <2>5 DEF Expire, KeepFetch, vars, fetchVars, installVars
  <2>6. CASE Rerun
    <3>1. Fresh'
      BY <2>1, <2>6 DEF Rerun, Fresh, IInv, TypeOK, CallsType, Main, Call
    <3>2. Started'
      BY <3>1, FreshProcess, PTL
    <3>3. Top'.kind = "main"
      BY <3>2 DEF Started
    <3> QED
      BY <3>3 DEF FilledInv
  <2> QED
    BY <2>1, <2>3, <2>4, <2>5, <2>6 DEF Next, Work
<1> QED
  BY <1>1, <1>2, Invariant, PTL DEF Spec

\* Every pthread_join of a package is of one thread, which this call started
\* and nobody joined: no slot of fetchs is joined twice or before it is filled
\* (clib-package.c:1465-1553).
JoinsOne ==
  /\ At("package", "joinMakefile") => <<Top.call, Makefile>> \in DOMAIN fetch
  /\ \A pc \in {"batch", "last"} : At("package", pc) =>
       \A s \in 0..(Top.i - 1) : \E t : InSlot(t, s) /\ \A u : InSlot(u, s) => u = t

LEMMA OneInSlot ==
  ASSUME IInv, FilledInv
  PROVE  JoinsOne
<1>1. ASSUME NEW pc \in {"batch", "last"}, At("package", pc), NEW s \in 0..(Top.i - 1)
      PROVE  \E t : InSlot(t, s) /\ \A u : InSlot(u, s) => u = t
  <2>1. Top.kind = "package" /\ Top.pc \in Looping
    BY <1>1 DEF At, Looping
  <2>2. PICK t : InSlot(t, s)
    BY <1>1, <2>1 DEF FilledInv
  <2>3. Top.i \in Nat /\ Top.i <= Concurrency /\ Concurrency \in Nat
    BY <2>1, PackageTop, Constants DEF IInv, PackageInv, FrameType
  <2>4. s # Concurrency
    BY <1>1, <2>3
  <2>5. \A u : InSlot(u, s) => u = t
    BY <2>2, <2>4 DEF InSlot, IInv, SlotInv
  <2> QED
    BY <2>2, <2>5
<1>2. At("package", "joinMakefile") => <<Top.call, Makefile>> \in DOMAIN fetch
  BY DEF At, FilledInv
<1> QED
  BY <1>1, <1>2 DEF JoinsOne

\* Every join finds its thread, and it alone.
THEOREM JoinsFindTheirThread == Spec => []JoinsOne
<1>1. IInv /\ FilledInv => JoinsOne
  BY OneInSlot
<1> QED
  BY <1>1, Filled, PTL

\* A call waits only in pthread_join, for a thread to end; that thread waits
\* for nobody.  These are the guards of the two, read as "has a step".
Joining(t) ==
  \/ At("package", "joinMakefile") /\ t = <<Top.call, Makefile>>
  \/ \E pc \in {"batch", "last"} : At("package", pc) /\ Top.i > 0 /\ InSlot(t, Top.i - 1)
WaitsInJoin == At("package", "joinMakefile") \/ \E pc \in {"batch", "last"} : At("package", pc) /\ Top.i > 0
CallMoves == exit = Running /\ (WaitsInJoin => \E t \in DOMAIN fetch : Joining(t) /\ fetch[t].pc = "ended")
ThreadMoves ==
  exit = Running /\ \E t \in DOMAIN fetch : fetch[t].pc \in {"look", "open", "get", "count", "end"}
NoDeadlock == exit = Running => CallMoves \/ ThreadMoves

\* While it runs somebody has a step: an installation never hangs in a join,
\* whatever fails (clib-package.c:1465-1553).
THEOREM SomebodyInstalls == Spec => []NoDeadlock
<1>1. IInv /\ JoinsOne => NoDeadlock
  <2>1. SUFFICES ASSUME IInv, JoinsOne, exit = Running, WaitsInJoin PROVE CallMoves \/ ThreadMoves
    BY DEF NoDeadlock, CallMoves
  <2>2. \E t \in DOMAIN fetch : Joining(t)
    <3>1. ASSUME NEW pc \in {"batch", "last"}, At("package", pc), Top.i > 0
          PROVE  \E t \in DOMAIN fetch : Joining(t)
      <4>1. Top.i - 1 \in 0..(Top.i - 1)
        BY <2>1, <3>1, PackageTop DEF IInv, At, FrameType
      <4>2. PICK t : InSlot(t, Top.i - 1)
        BY <2>1, <3>1, <4>1 DEF JoinsOne
      <4> QED
        BY <3>1, <4>2 DEF Joining, InSlot
    <3> QED
      BY <2>1, <3>1 DEF WaitsInJoin, JoinsOne, Joining
  <2>3. PICK t \in DOMAIN fetch : Joining(t)
    BY <2>2
  <2>4. fetch[t].pc \in {"look", "open", "get", "count", "end", "ended"}
    BY <2>1 DEF IInv, TypeOK, DataType, ThreadType
  <2> QED
    BY <2>1, <2>3, <2>4 DEF CallMoves, ThreadMoves
<1>2. IInv /\ FilledInv => JoinsOne
  BY OneInSlot
<1> QED
  BY <1>1, <1>2, Filled, PTL
=============================================================================
