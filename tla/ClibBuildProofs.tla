-------------------------- MODULE ClibBuildProofs --------------------------
(***************************************************************************)
(* Proofs about `clib build` and `clib configure` (ClibBuild and           *)
(* ClibConfigure), for any packages, dependencies, command lines, limits   *)
(* of the batches, answers of the registry and threads that cannot be      *)
(* created.                                                                *)
(***************************************************************************)
EXTENDS ClibConfigure, SequenceTheorems, FiniteSetTheorems, WellFoundedInduction, TLAPS

Dirs == {"in", "rel", "path", "slug", "gone", "here", "dot"} \X Packages
ManifestNames == {"clib.json", "package.json"}
Paths == Dirs \X ManifestNames
Places == {"start", "enter", "read", "flags", "prefix", "make", "making", "skip", "list", "done"}
Names == Seq(Nat)

FrameType ==
  [dir : Dirs, pc : Places, m : 1..2, last : 1..2, list : {"dependencies", "development"},
   k : Nat \ {0}, batch : SUBSET Names, strays : Nat, spawned : Nat,
   env : Packages \cup {None}, made : SUBSET Paths, rc : Nat]

TypeOK ==
  /\ setup \in Setups
  /\ DOMAIN built \subseteq Paths
  /\ root \in {None, Cwd} /\ env \in Packages \cup {None}
  /\ thr \in [DOMAIN thr -> FrameType] /\ DOMAIN thr \subseteq Names
  /\ cursor \in [i : Nat \ {0}, slug : BOOLEAN]
  /\ cut \subseteq DOMAIN thr /\ failed \in BOOLEAN /\ lost \subseteq Packages

\* The thread at depth i above t, or t.
Upto(t, i) == SubSeq(t, 1, i)

\* The threads are a tree below main.  A batch holds children of its thread,
\* while that is in its list.
TreeInv ==
  /\ <<>> \in DOMAIN thr
  /\ \A t \in DOMAIN thr :
       /\ \A i \in 1..Len(t) : LET s == Upto(t, i - 1) IN
            s \in DOMAIN thr /\ t[i] <= thr[s].spawned /\ t[i] # 0
       /\ \A c \in thr[t].batch : c \in DOMAIN thr /\ Len(c) = Len(t) + 1 /\ Upto(c, Len(t)) = t
       /\ thr[t].pc # "list" => thr[t].batch = {}
       /\ thr[t].pc \notin {"list", "done"} => thr[t].list = "dependencies" /\ thr[t].k = 1
       /\ t # <<>> => thr[t].dir[1] = "in"
       /\ thr[t].m <= thr[t].last /\ IsFiniteSet(thr[t].batch)
       /\ thr[t].pc = "start" => t # <<>> /\ thr[t].spawned = 0 /\ thr[t].rc = 0

\* A step of thread t alone, which leaves it with frame r.
Local(t, r) ==
  /\ t \in DOMAIN thr /\ r \in FrameType /\ thr' = [thr EXCEPT ![t] = r]
  /\ exit = Running /\ thr[t].pc # "done"
  /\ UNCHANGED <<setup, cursor, exit>>
  /\ r.dir = thr[t].dir /\ r.spawned = thr[t].spawned
  /\ r.last = thr[t].last /\ r.m <= r.last /\ r.pc # "start"
  /\ r.batch \subseteq thr[t].batch /\ (r.pc # "list" => r.batch = {})
  /\ r.pc \notin {"list", "done"} => r.list = "dependencies" /\ r.k = 1
  /\ cut' \in {cut, cut \cup thr[t].batch} /\ failed' \in {failed, TRUE}
  /\ lost \subseteq lost' /\ lost' \subseteq Packages
  /\ DOMAIN built' \in {DOMAIN built, DOMAIN built \cup {Path(t)}}
  /\ root' \in {root, Cwd} /\ env' \in Packages \cup {None}

Has(dir, m) == Manifests[m] \in OnDisk(dir)
IsMarked(dir, m) == <<dir, Manifests[m]>> \in DOMAIN built

\* The first manifest a directory has is marked.
Covered(dir) ==
  \E i \in 1..2 : Has(dir, i) /\ IsMarked(dir, i) /\ (i = 2 => ~Has(dir, 1))

\* What a thread makes is marked before it starts another one.
MarksOf(t) ==
  /\ \A p \in thr[t].made : p \in DOMAIN built \/ (thr[t].pc = "making" /\ p = Path(t))
  /\ thr[t].pc = "list" => Path(t) \in DOMAIN built
  /\ t # <<>> =>
       /\ \A p \in thr[t].made : p[1] = thr[t].dir
       /\ thr[t].pc \in {"flags", "prefix", "make", "making", "skip"} => Has(thr[t].dir, thr[t].m)
       /\ thr[t].pc = "list" => Covered(thr[t].dir)
       /\ thr[t].m = 2 => ~Has(thr[t].dir, 1) \/ IsMarked(thr[t].dir, 1)
MarkInv == \A t \in DOMAIN thr : MarksOf(t)

\* A thread on the directory of a thread above it has nothing to make.
Inert(t) ==
  /\ thr[t].made = {}
  /\ \/ thr[t].pc \in {"start", "enter", "done"}
     \/ thr[t].pc = "read" /\ ~Has(thr[t].dir, thr[t].m)
  /\ thr[t].m = 2 => ~Has(thr[t].dir, 1)
InertInv ==
  \A t \in DOMAIN thr : \A i \in 1..(Len(t) - 1) : LET s == Upto(t, i) IN
    Covered(thr[s].dir) /\ (thr[s].dir = thr[t].dir => Inert(t))

\* While a thread runs that nobody left behind, all above it wait for it.
JoinInv ==
  \A t \in DOMAIN thr : ~LeftBehind(t) /\ thr[t].pc # "done" =>
    \A i \in 0..(Len(t) - 1) :
      /\ thr[Upto(t, i)].pc = "list"
      /\ Upto(t, i + 1) \in thr[Upto(t, i)].batch

\* What main makes and what the threads it waits for make.
AboutToMake(t) == thr[t].pc \in {"read", "prefix", "make"}
MainInv ==
  \A t \in DOMAIN thr \ {<<>>} : ~LeftBehind(t) =>
    /\ thr[<<>>].made \cap thr[t].made = {}
    /\ AboutToMake(t) => Path(t) \notin thr[<<>>].made
    /\ AboutToMake(<<>>) => Path(<<>>) \notin thr[t].made

\* The prefix of the root package, or of the command line.
RootPrefix ==
  IF setup.here # {} /\ setup.prefix[Cwd] # None
  THEN setup.prefix[Cwd] ELSE setup.optPrefix
PrefixInv ==
  /\ root = Cwd => setup.here # {}
  /\ \A t \in DOMAIN thr :
       /\ thr[t].pc \in {"read", "prefix"} => (setup.here # {} => root = Cwd)
       /\ thr[t].pc = "make" => (RootPrefix # None => env = RootPrefix)
       /\ thr[t].pc = "making" => (RootPrefix # None => thr[t].env = RootPrefix)

\* A directory was gone through; each package that one needs has a thread, or
\* one could not be created for it.
Gone(dir) == \E m \in 1..2 : IsMarked(dir, m)
HasThread(q) == \E c \in DOMAIN thr : c # <<>> /\ thr[c].dir = Installed(q)
Taken(q) == q \in lost \/ HasThread(q)
Served(p) == \A q \in Needs(p) : Taken(q)

\* How far a thread has come in its list.
SoFar(t) ==
  /\ \A j \in 1..Len(Dependencies(t)) : j < thr[t].k => Taken(Dependencies(t)[j])
  /\ thr[t].list = "development" =>
       \A j \in 1..Len(setup.dependencies[Of(t)]) : Taken(setup.dependencies[Of(t)][j])

\* A result other than 0 comes of a manifest that is not there, while the next
\* one is tried, or of a thread that could not be created.
WalkOf(t) ==
  /\ lost = {} => /\ thr[t].rc \in {0, ENOMEM}
                  /\ thr[t].pc \in {"list", "done"} => thr[t].rc = 0
  /\ thr[t].pc \in {"enter", "read"} /\ thr[t].rc = EAGAIN => Gone(thr[t].dir)
  /\ thr[t].pc = "done" => Gone(thr[t].dir)
  /\ thr[t].pc = "list" => SoFar(t)

\* How far main has come.
Behind(j) == j < cursor.i \/ (j = cursor.i /\ cursor.slug)
MainSoFar ==
  /\ lost = {} => ~cursor.slug
  /\ thr[<<>>].dir = Target(cursor)
  /\ \A j \in 1..Len(setup.args) : Behind(j) => Gone(Directory(setup.args[j]))
WalkInv ==
  ~failed =>
    /\ cut = {} /\ MainSoFar
    /\ \A t \in DOMAIN thr : WalkOf(t)
    /\ \A d \in Dirs : Gone(d) =>
         \/ Served(Package(d))
         \/ \E t \in DOMAIN thr : thr[t].pc = "list" /\ thr[t].dir = d

IInv ==
  /\ TypeOK /\ TreeInv /\ MarkInv /\ InertInv /\ JoinInv /\ MainInv
  /\ PrefixInv /\ WalkInv /\ CompleteAtExit

-----------------------------------------------------------------------------
LEMMA UptoFacts ==
    ASSUME NEW t \in Names, NEW i \in 0..Len(t)
    PROVE  /\ Upto(t, i) \in Names /\ Len(Upto(t, i)) = i
           /\ \A j \in 1..i : Upto(t, i)[j] = t[j]
<1>1. Len(t) \in Nat
  BY LenProperties DEF Names
<1>2. \A j \in 1..i : t[j] \in Nat
  BY <1>1, ElementOfSeq DEF Names
<1>3. QED
  BY <1>1, <1>2, SubSeqProperties DEF Names, Upto

LEMMA UptoTwice ==
    ASSUME NEW t \in Names, NEW i \in 0..Len(t), NEW j \in 0..Len(t), i <= j
    PROVE  Upto(Upto(t, j), i) = Upto(t, i)
<1>1. PICK u : u = Upto(t, j)
  OBVIOUS
<1>2. u \in Names /\ Len(u) = j /\ \A x \in 1..j : u[x] = t[x]
  BY <1>1, UptoFacts
<1>3. PICK w : w = Upto(t, i)
  OBVIOUS
<1>4. w \in Names /\ Len(w) = i /\ \A x \in 1..i : w[x] = t[x]
  BY <1>3, UptoFacts
<1>5. PICK v : v = Upto(u, i)
  OBVIOUS
<1>6. v \in Names /\ Len(v) = i /\ \A x \in 1..i : v[x] = u[x]
  BY <1>2, <1>5, UptoFacts
<1>7. Len(t) \in Nat
  BY LenProperties DEF Names
<1>8. \A x \in 1..Len(v) : v[x] = w[x]
  BY <1>2, <1>4, <1>6, <1>7
<1>9. v = w
  BY <1>4, <1>6, <1>8, SeqEqual DEF Names
<1>10. QED
  BY <1>1, <1>3, <1>5, <1>9

LEMMA PathFacts ==
    ASSUME NEW t \in Names
    PROVE  /\ Len(t) \in Nat /\ Upto(t, 0) = <<>> /\ Upto(t, Len(t)) = t
           /\ \A i \in 1..Len(t) : Upto(t, i) # <<>>
           /\ \A i \in 0..(Len(t) - 1) : Upto(t, i) # t
<1>1. Len(t) \in Nat
  BY LenProperties DEF Names
<1>2. Upto(t, Len(t)) = t
  BY SubSeqFull DEF Names, Upto
<1>3. Upto(t, 0) = <<>>
  <2>1. SubSeq(t, 1, 0) = <<>>
    BY SubSeqEmpty
  <2>2. QED
    BY <2>1 DEF Upto
<1>4. \A i \in 0..Len(t) : Len(Upto(t, i)) = i
  BY UptoFacts
<1>5. Len(<<>>) = 0
  OBVIOUS
<1>6. QED
  BY <1>1, <1>2, <1>3, <1>4, <1>5

\* The name of a thread that t starts.
LEMMA Child ==
    ASSUME NEW t \in Names, NEW n \in Nat, NEW c, c = Append(t, n)
    PROVE  /\ c \in Names /\ c # <<>> /\ Len(c) = Len(t) + 1 /\ c[Len(t) + 1] = n
           /\ \A i \in 0..Len(t) : Upto(c, i) = Upto(t, i)
           /\ \A i \in 1..Len(t) : c[i] = t[i]
           /\ Upto(c, Len(t)) = t
<1>1. /\ c \in Names /\ c # <<>> /\ Len(c) = Len(t) + 1 /\ c[Len(t) + 1] = n
      /\ \A i \in 1..Len(t) : c[i] = t[i]
  BY AppendProperties DEF Names
<1>2. Len(t) \in Nat
  BY LenProperties DEF Names
<1>3. ASSUME NEW i \in 0..Len(t)
      PROVE  Upto(c, i) = Upto(t, i)
  <2>1. \A x \in 1..i : c[x] \in Nat /\ t[x] \in Nat
    BY <1>1, <1>2, ElementOfSeq DEF Names
  <2>2. /\ Upto(c, i) \in Names /\ Len(Upto(c, i)) = i /\ \A x \in 1..i : Upto(c, i)[x] = c[x]
        /\ Upto(t, i) \in Names /\ Len(Upto(t, i)) = i /\ \A x \in 1..i : Upto(t, i)[x] = t[x]
    BY <2>1, <1>2, SubSeqProperties DEF Names, Upto
  <2>3. \A x \in 1..Len(Upto(c, i)) : Upto(c, i)[x] = Upto(t, i)[x]
    BY <1>1, <1>2, <2>2
  <2>4. QED
    BY <2>2, <2>3, SeqEqual DEF Names
<1>4. Upto(c, Len(t)) = t
  <2>1. Len(t) \in 0..Len(t)
    BY <1>2
  <2>2. Upto(t, Len(t)) = t
    BY PathFacts
  <2>3. QED
    BY <2>1, <2>2, <1>3
<1>5. QED
  BY <1>1, <1>3, <1>4

LEMMA FrameFacts ==
    ASSUME TypeOK, NEW t \in DOMAIN thr
    PROVE  /\ thr[t] \in FrameType /\ t \in Names
           /\ thr[t].dir \in Dirs /\ thr[t].m \in {1, 2} /\ Of(t) \in Packages
           /\ Path(t) \in Paths /\ Path(t)[1] = thr[t].dir
           /\ Path(t) = <<thr[t].dir, Manifests[thr[t].m]>>
<1>1. thr[t] \in FrameType /\ t \in Names
  BY DEF TypeOK
<1>2. thr[t].dir \in Dirs /\ thr[t].m \in {1, 2}
  BY <1>1 DEF FrameType
<1>3. Of(t) \in Packages
  BY <1>2 DEF Of, Package, Dirs
<1>4. Manifests[thr[t].m] \in ManifestNames
  BY <1>2 DEF Manifests, ManifestNames
<1>5. Path(t) = <<thr[t].dir, Manifests[thr[t].m]>>
  BY DEF Path
<1>6. QED
  BY <1>1, <1>2, <1>3, <1>4, <1>5 DEF Paths

\* What a step of t alone leaves as it was.
LEMMA LocalFacts ==
    ASSUME TypeOK, NEW t, NEW r, Local(t, r)
    PROVE  /\ thr'[t] = r /\ DOMAIN thr' = DOMAIN thr /\ setup' = setup
           /\ \A u \in DOMAIN thr : u # t => thr'[u] = thr[u]
           /\ \A u \in DOMAIN thr : /\ thr'[u].dir = thr[u].dir
                                    /\ thr'[u].spawned = thr[u].spawned
           /\ DOMAIN built \subseteq DOMAIN built' /\ cut \subseteq cut' /\ lost \subseteq lost'
<1>1. t \in DOMAIN thr /\ thr' = [thr EXCEPT ![t] = r]
  BY DEF Local
<1>2. /\ thr'[t] = r /\ DOMAIN thr' = DOMAIN thr
      /\ \A u \in DOMAIN thr : u # t => thr'[u] = thr[u]
  BY <1>1
<1>3. QED
  BY <1>1, <1>2 DEF Local

LEMMA LocalTypes ==
    ASSUME TypeOK, TreeInv, NEW t, NEW r, Local(t, r)
    PROVE  TypeOK' /\ TreeInv'
<1>1. /\ thr'[t] = r /\ DOMAIN thr' = DOMAIN thr /\ setup' = setup
      /\ \A u \in DOMAIN thr : u # t => thr'[u] = thr[u]
      /\ \A u \in DOMAIN thr : thr'[u].dir = thr[u].dir /\ thr'[u].spawned = thr[u].spawned
  BY LocalFacts
<1>2. t \in DOMAIN thr /\ r \in FrameType /\ thr' = [thr EXCEPT ![t] = r]
  BY DEF Local
<1>3. Path(t) \in Paths
  BY <1>2, FrameFacts
<1>4. thr[t].batch \subseteq DOMAIN thr
  BY <1>2 DEF TreeInv
<1>5. thr' \in [DOMAIN thr' -> FrameType] /\ DOMAIN thr' \subseteq Names
  BY <1>1, <1>2 DEF TypeOK
<1>6. DOMAIN built' \subseteq Paths /\ cut' \subseteq DOMAIN thr' /\ failed' \in BOOLEAN
  BY <1>1, <1>3, <1>4 DEF Local, TypeOK
<1>7. TypeOK'
  BY <1>5, <1>6 DEF Local, TypeOK, TreeInv
<1>8. ASSUME NEW u \in DOMAIN thr
      PROVE  /\ \A c \in thr'[u].batch : c \in DOMAIN thr /\ Len(c) = Len(u) + 1 /\ Upto(c, Len(u)) = u
             /\ thr'[u].pc # "list" => thr'[u].batch = {}
             /\ thr'[u].pc \notin {"list", "done"} => thr'[u].list = "dependencies" /\ thr'[u].k = 1
             /\ thr'[u].m <= thr'[u].last /\ IsFiniteSet(thr'[u].batch)
             /\ thr'[u].pc = "start" => u # <<>> /\ thr'[u].spawned = 0 /\ thr'[u].rc = 0
  <2>1. thr'[u].batch \subseteq thr[u].batch
    BY <1>1 DEF Local
  <2>2. /\ thr'[u].pc # "list" => thr'[u].batch = {}
        /\ thr'[u].pc \notin {"list", "done"} => thr'[u].list = "dependencies" /\ thr'[u].k = 1
        /\ thr'[u].m <= thr'[u].last
        /\ thr'[u].pc = "start" => u # <<>> /\ thr'[u].spawned = 0 /\ thr'[u].rc = 0
    BY <1>1 DEF Local, TreeInv
  <2>3. IsFiniteSet(thr'[u].batch)
    BY <2>1, FS_Subset DEF TreeInv
  <2>4. QED
    BY <2>1, <2>2, <2>3 DEF TreeInv
<1>9. TreeInv'
  BY <1>1, <1>8 DEF TreeInv
<1>10. QED
  BY <1>7, <1>9

LEMMA MarksStay ==
    ASSUME TypeOK, TreeInv, MarkInv, InertInv, NEW t, NEW r, Local(t, r), MarksOf(t)',
           t # <<>> /\ Covered(thr[t].dir) /\ Inert(t) => Inert(t)'
    PROVE  MarkInv' /\ InertInv'
<1>1. /\ thr'[t] = r /\ DOMAIN thr' = DOMAIN thr /\ setup' = setup /\ t \in DOMAIN thr
      /\ \A u \in DOMAIN thr : u # t => thr'[u] = thr[u]
      /\ \A u \in DOMAIN thr : thr'[u].dir = thr[u].dir
      /\ DOMAIN built \subseteq DOMAIN built'
  BY LocalFacts DEF Local
<1>2. \A dir : Covered(dir) => Covered(dir)'
  BY <1>1 DEF Covered, Has, IsMarked, OnDisk
<1>3. ASSUME NEW u \in DOMAIN thr, u # t
      PROVE  MarksOf(u)' /\ (Inert(u) => Inert(u)')
  <2>1. thr'[u] = thr[u] /\ MarksOf(u)
    BY <1>1, <1>3 DEF MarkInv
  <2>2. Path(u)' = Path(u)
    BY <2>1 DEF Path
  <2>3. Has(thr[u].dir, thr[u].m)' = Has(thr[u].dir, thr[u].m) /\ Has(thr[u].dir, 1)' = Has(thr[u].dir, 1)
    BY <1>1, <2>1 DEF Has, OnDisk
  <2>4. IsMarked(thr[u].dir, 1) => IsMarked(thr[u].dir, 1)'
    BY <1>1, <2>1 DEF IsMarked
  <2>5. MarksOf(u)'
    BY <1>1, <1>2, <2>1, <2>2, <2>3, <2>4 DEF MarksOf
  <2>6. Inert(u) => Inert(u)'
    BY <2>1, <2>3 DEF Inert
  <2>7. QED
    BY <2>5, <2>6
<1>4. MarkInv'
  BY <1>1, <1>3 DEF MarkInv
<1>5. ASSUME NEW u \in DOMAIN thr, NEW i \in 1..(Len(u) - 1)
      PROVE  /\ Covered(thr[Upto(u, i)].dir)'
             /\ thr'[Upto(u, i)].dir = thr'[u].dir => Inert(u)'
  <2>1. Upto(u, i) \in DOMAIN thr /\ u # <<>>
    <3>1. u \in Names /\ Len(u) \in Nat
      BY FrameFacts, PathFacts
    <3>2. i + 1 \in 1..Len(u) /\ (i + 1) - 1 = i
      BY <3>1
    <3>3. QED
      BY <3>1, <3>2 DEF TreeInv
  <2>2. /\ Covered(thr[Upto(u, i)].dir)
        /\ thr[Upto(u, i)].dir = thr[u].dir => Inert(u)
    BY DEF InertInv
  <2>3. thr'[Upto(u, i)].dir = thr[Upto(u, i)].dir /\ thr'[u].dir = thr[u].dir
    BY <1>1, <2>1
  <2>4. Covered(thr[Upto(u, i)].dir)'
    BY <1>2, <2>2, <2>3
  <2>5. QED
    BY <1>3, <2>1, <2>2, <2>3, <2>4
<1>6. InertInv'
  BY <1>1, <1>5 DEF InertInv
<1>7. QED
  BY <1>4, <1>6

\* Who is above a thread that runs and was not left behind is in its list, and
\* has the thread on the way in its batch.
LEMMA JoinStays ==
    ASSUME TypeOK, TreeInv, JoinInv, NEW t, NEW r, Local(t, r),
           \/ r.pc = "list" /\ thr[t].pc = "list" /\ r.batch = thr[t].batch
           \/ \A c \in thr[t].batch : c \in cut' \/ thr[c].pc = "done"
    PROVE  JoinInv'
<1>1. /\ thr'[t] = r /\ DOMAIN thr' = DOMAIN thr /\ t \in DOMAIN thr
      /\ \A u \in DOMAIN thr : u # t => thr'[u] = thr[u]
      /\ cut \subseteq cut' /\ thr[t].pc # "done"
  BY LocalFacts DEF Local
<1> SUFFICES ASSUME NEW u \in DOMAIN thr, ~LeftBehind(u)', thr'[u].pc # "done",
                    NEW i \in 0..(Len(u) - 1)
             PROVE  /\ thr'[Upto(u, i)].pc = "list"
                    /\ Upto(u, i + 1) \in thr'[Upto(u, i)].batch
  BY <1>1 DEF JoinInv
<1> DEFINE s == Upto(u, i)
           c == Upto(u, i + 1)
<1>2. u \in Names /\ Len(u) \in Nat /\ Upto(u, Len(u)) = u
  BY FrameFacts, PathFacts
<1>3. i + 1 \in 1..Len(u) /\ (i + 1) - 1 = i
  BY <1>2
<1>4. s \in DOMAIN thr
  BY <1>3 DEF TreeInv
<1>5. ~LeftBehind(u) /\ c \notin cut'
  BY <1>1, <1>3 DEF LeftBehind, Upto
<1>6. thr[u].pc # "done"
  BY <1>1
<1>7. thr[s].pc = "list" /\ c \in thr[s].batch
  BY <1>5, <1>6 DEF JoinInv
<1>8. CASE s # t
  BY <1>1, <1>4, <1>7, <1>8
<1>9. CASE s = t
  <2>1. thr[c].pc # "done"
    <3>1. CASE i + 1 = Len(u)
      BY <1>2, <1>6, <3>1
    <3>2. CASE i + 1 # Len(u)
      <4>1. i + 1 \in 0..(Len(u) - 1)
        BY <1>2, <1>3, <3>2
      <4>2. QED
        BY <1>5, <1>6, <4>1 DEF JoinInv
    <3>3. QED
      BY <3>1, <3>2
  <2>2. QED
    BY <1>1, <1>5, <1>7, <1>9, <2>1
<1>10. QED
  BY <1>8, <1>9

\* While main is not in its list, all that it waits for have ended.
LEMMA MainWaits ==
    ASSUME TypeOK, JoinInv, NEW u \in DOMAIN thr \ {<<>>}, ~LeftBehind(u), thr[u].pc # "done"
    PROVE  thr[<<>>].pc = "list"
<1>1. u \in Names /\ Len(u) \in Nat /\ Upto(u, 0) = <<>> /\ Upto(u, Len(u)) = u
  BY FrameFacts, PathFacts
<1>2. 0 \in 0..(Len(u) - 1)
  BY <1>1
<1>3. QED
  BY <1>1, <1>2 DEF JoinInv

LEMMA MainStays ==
    ASSUME TypeOK, TreeInv, MarkInv, JoinInv, MainInv, NEW t, NEW r, Local(t, r),
           r.made = thr[t].made \/ (thr[t].pc = "make" /\ r.made = thr[t].made \cup {Path(t)}),
           r.pc \in {"read", "prefix", "make"} =>
             r.m = thr[t].m /\ (AboutToMake(t) \/ (thr[t].pc = "enter" /\ Path(t) \notin DOMAIN built))
    PROVE  MainInv'
<1>1. /\ thr'[t] = r /\ DOMAIN thr' = DOMAIN thr /\ t \in DOMAIN thr /\ r.dir = thr[t].dir
      /\ \A u \in DOMAIN thr : u # t => thr'[u] = thr[u]
      /\ cut \subseteq cut' /\ thr[t].pc # "done"
  BY LocalFacts DEF Local
<1> SUFFICES ASSUME NEW u \in DOMAIN thr \ {<<>>}, ~LeftBehind(u)'
             PROVE  /\ thr'[<<>>].made \cap thr'[u].made = {}
                    /\ AboutToMake(u)' => Path(u)' \notin thr'[<<>>].made
                    /\ AboutToMake(<<>>)' => Path(<<>>)' \notin thr'[u].made
  BY <1>1 DEF MainInv
<1>2. ~LeftBehind(u) /\ <<>> \in DOMAIN thr
  BY <1>1 DEF LeftBehind, TreeInv
<1>3. /\ thr[<<>>].made \cap thr[u].made = {}
      /\ AboutToMake(u) => Path(u) \notin thr[<<>>].made
      /\ AboutToMake(<<>>) => Path(<<>>) \notin thr[u].made
  BY <1>2 DEF MainInv
<1>4. thr[u].pc # "done" => thr[<<>>].pc = "list"
  BY <1>2, MainWaits
<1>5. AboutToMake(t)' => Path(t)' = Path(t)
  BY <1>1 DEF AboutToMake, Path
<1>6. \A x \in {<<>>, u} : /\ thr[x].pc # "making" => thr[x].made \subseteq DOMAIN built
  BY <1>2 DEF MarkInv, MarksOf
<1>7. CASE t = u
  <2>1. thr[<<>>].pc = "list" /\ thr'[<<>>] = thr[<<>>]
    BY <1>1, <1>2, <1>4, <1>7
  <2>2. thr[<<>>].made \subseteq DOMAIN built
    BY <1>6, <2>1
  <2>3. ~AboutToMake(<<>>)'
    BY <2>1 DEF AboutToMake
  <2>4. AboutToMake(u)' => Path(u)' \notin thr'[<<>>].made
    BY <1>1, <1>3, <1>5, <1>7, <2>1, <2>2 DEF AboutToMake
  <2>5. thr'[<<>>].made \cap thr'[u].made = {}
    BY <1>1, <1>3, <1>7, <2>1 DEF AboutToMake
  <2>6. QED
    BY <2>3, <2>4, <2>5
<1>8. CASE t = <<>>
  <2>1. thr'[u] = thr[u] /\ Path(u)' = Path(u) /\ (AboutToMake(u)' <=> AboutToMake(u))
    BY <1>1, <1>8 DEF Path, AboutToMake
  <2>2. CASE thr[<<>>].pc = "list"
    <3>1. ~AboutToMake(<<>>)' /\ thr'[<<>>].made = thr[<<>>].made
      BY <1>1, <1>8, <2>2 DEF AboutToMake
    <3>2. QED
      BY <1>3, <2>1, <3>1
  <2>3. CASE thr[<<>>].pc # "list"
    <3>1. thr[u].pc = "done" /\ thr[u].made \subseteq DOMAIN built
      BY <1>4, <1>6, <2>3
    <3>2. ~AboutToMake(u)'
      BY <2>1, <3>1 DEF AboutToMake
    <3>3. AboutToMake(<<>>)' => Path(<<>>)' \notin thr'[u].made
      BY <1>1, <1>3, <1>5, <1>8, <2>1, <3>1 DEF AboutToMake
    <3>4. thr'[<<>>].made \cap thr'[u].made = {}
      BY <1>1, <1>3, <1>8, <2>1 DEF AboutToMake
    <3>5. QED
      BY <3>2, <3>3, <3>4
  <2>4. QED
    BY <2>2, <2>3
<1>9. CASE t # u /\ t # <<>>
  <2>1. thr'[u] = thr[u] /\ thr'[<<>>] = thr[<<>>]
    BY <1>1, <1>2, <1>9
  <2>2. QED
    BY <1>3, <2>1 DEF AboutToMake, Path
<1>10. QED
  BY <1>7, <1>8, <1>9

\* A directory keeps its marks, a package its threads.
LEMMA WalkStays ==
    ASSUME TypeOK, TreeInv, WalkInv, NEW t, NEW r, Local(t, r),
           ~failed' => /\ ~failed /\ cut' = cut /\ WalkOf(t)'
                       /\ DOMAIN built' = DOMAIN built \/ r.pc = "list"
                       /\ thr[t].pc = "list" => r.pc = "list" \/ Served(Of(t))
    PROVE  WalkInv'
<1>1. /\ thr'[t] = r /\ DOMAIN thr' = DOMAIN thr /\ t \in DOMAIN thr /\ setup' = setup
      /\ \A u \in DOMAIN thr : u # t => thr'[u] = thr[u]
      /\ \A u \in DOMAIN thr : thr'[u].dir = thr[u].dir
      /\ DOMAIN built \subseteq DOMAIN built' /\ cursor' = cursor /\ lost \subseteq lost'
  BY LocalFacts DEF Local
<1> SUFFICES ASSUME ~failed'
             PROVE  /\ cut' = {} /\ MainSoFar'
                    /\ \A u \in DOMAIN thr : WalkOf(u)'
                    /\ \A d \in Dirs : Gone(d)' =>
                         \/ Served(Package(d))'
                         \/ \E u \in DOMAIN thr : thr'[u].pc = "list" /\ thr'[u].dir = d
  BY <1>1 DEF WalkInv
<1>2. /\ ~failed /\ cut' = {} /\ MainSoFar /\ \A u \in DOMAIN thr : WalkOf(u)
      /\ \A d \in Dirs : Gone(d) =>
           \/ Served(Package(d))
           \/ \E u \in DOMAIN thr : thr[u].pc = "list" /\ thr[u].dir = d
  BY DEF WalkInv
<1>3. \A d : Gone(d) => Gone(d)'
  BY <1>1 DEF Gone, IsMarked
<1>4. \A p : Taken(p) => Taken(p)'
  BY <1>1 DEF Taken, HasThread
<1>5. \A p : Served(p) => Served(p)'
  BY <1>1, <1>4 DEF Served, Needs
<1>6. \A u \in DOMAIN thr : Of(u)' = Of(u)
  BY <1>1 DEF Of, Package
<1>7. MainSoFar'
  <2>1. Target(cursor)' = Target(cursor)
    BY <1>1 DEF Target
  <2>2. thr'[<<>>].dir = thr[<<>>].dir
    BY <1>1 DEF TreeInv
  <2>3. \A j : Behind(j)' <=> Behind(j)
    BY <1>1 DEF Behind
  <2>4. lost' = {} => ~cursor.slug
    BY <1>1, <1>2 DEF MainSoFar
  <2>5. \A j \in 1..Len(setup.args) : Behind(j) => Gone(Directory(setup.args[j]))'
    BY <1>1, <1>2, <1>3 DEF MainSoFar, Gone, IsMarked
  <2>6. QED
    BY <1>1, <1>2, <2>1, <2>2, <2>3, <2>4, <2>5 DEF MainSoFar
<1>8. ASSUME NEW u \in DOMAIN thr
      PROVE  WalkOf(u)'
  <2>1. CASE u = t
    BY <2>1
  <2>2. CASE u # t
    <3>1. thr'[u] = thr[u] /\ Of(u)' = Of(u) /\ Dependencies(u)' = Dependencies(u)
      BY <1>1, <2>2 DEF Of, Package, Dependencies
    <3>2. SoFar(u) => SoFar(u)'
      BY <1>1, <1>4, <3>1 DEF SoFar
    <3>3. Gone(thr[u].dir) => Gone(thr[u].dir)'
      BY <1>1, <3>1 DEF Gone, IsMarked
    <3>4. lost' = {} => lost = {}
      BY <1>1
    <3>5. QED
      BY <1>2, <3>1, <3>2, <3>3, <3>4 DEF WalkOf
  <2>3. QED
    BY <2>1, <2>2
<1>9. ASSUME NEW d \in Dirs, Gone(d)', ~Served(Package(d))
      PROVE  \E u \in DOMAIN thr : thr'[u].pc = "list" /\ thr'[u].dir = d
  <2>1. CASE Gone(d)
    <3>1. PICK u \in DOMAIN thr : thr[u].pc = "list" /\ thr[u].dir = d
      BY <1>2, <1>9, <2>1
    <3>2. u = t => Of(t) = Package(d)
      BY <3>1 DEF Of
    <3>3. thr'[u].pc = "list"
      BY <1>1, <1>9, <3>1, <3>2
    <3>4. QED
      BY <1>1, <3>1, <3>3
  <2>2. CASE ~Gone(d)
    <3>1. PICK m \in 1..2 : /\ <<d, Manifests[m]>> \in DOMAIN built'
                            /\ <<d, Manifests[m]>> \notin DOMAIN built
      BY <1>9, <2>2 DEF Gone, IsMarked
    <3>2. Path(t) = <<d, Manifests[m]>> /\ r.pc = "list"
      BY <3>1 DEF Local
    <3>3. thr[t].dir = d
      BY <3>2, Zenon DEF Path
    <3>4. QED
      BY <1>1, <3>2, <3>3
  <2>3. QED
    BY <2>1, <2>2
<1>10. ASSUME NEW d \in Dirs PROVE Served(Package(d)) => Served(Package(d))'
  BY <1>5 DEF Package
<1>11. QED
  BY <1>2, <1>7, <1>8, <1>9, <1>10

LEMMA PrefixStays ==
    ASSUME TypeOK, PrefixInv, NEW t, NEW r, Local(t, r),
           root' = root \/ (root' = Cwd /\ setup.here # {}),
           env' = env \/ (RootPrefix # None => env' = RootPrefix),
           r.pc \in {"read", "prefix"} => (setup.here # {} => root' = Cwd),
           r.pc = "make" => (RootPrefix # None => env' = RootPrefix),
           r.pc = "making" => (RootPrefix # None => r.env = RootPrefix)
    PROVE  PrefixInv'
<1>1. /\ thr'[t] = r /\ DOMAIN thr' = DOMAIN thr /\ setup' = setup
      /\ \A u \in DOMAIN thr : u # t => thr'[u] = thr[u]
  BY LocalFacts
<1>2. RootPrefix' = RootPrefix
  BY <1>1 DEF RootPrefix
<1>3. root = Cwd => root' = Cwd
  OBVIOUS
<1>4. root' = Cwd => setup.here # {}
  BY DEF PrefixInv
<1>5. ASSUME NEW u \in DOMAIN thr
      PROVE  /\ thr'[u].pc \in {"read", "prefix"} => (setup.here # {} => root' = Cwd)
             /\ thr'[u].pc = "make" => (RootPrefix # None => env' = RootPrefix)
             /\ thr'[u].pc = "making" => (RootPrefix # None => thr'[u].env = RootPrefix)
  BY <1>1, <1>3 DEF PrefixInv
<1>6. QED
  BY <1>1, <1>2, <1>4, <1>5 DEF PrefixInv

\* All that a step of one thread has to keep.
LEMMA LocalStep ==
    ASSUME IInv, NEW t, NEW r, Local(t, r), MarksOf(t)',
           t # <<>> /\ Covered(thr[t].dir) /\ Inert(t) => Inert(t)',
           \/ r.pc = "list" /\ thr[t].pc = "list" /\ r.batch = thr[t].batch
           \/ \A c \in thr[t].batch : c \in cut' \/ thr[c].pc = "done",
           r.made = thr[t].made \/ (thr[t].pc = "make" /\ r.made = thr[t].made \cup {Path(t)}),
           r.pc \in {"read", "prefix", "make"} =>
             r.m = thr[t].m /\ (AboutToMake(t) \/ (thr[t].pc = "enter" /\ Path(t) \notin DOMAIN built)),
           ~failed' => /\ ~failed /\ cut' = cut /\ WalkOf(t)'
                       /\ DOMAIN built' = DOMAIN built \/ r.pc = "list"
                       /\ thr[t].pc = "list" => r.pc = "list" \/ Served(Of(t)),
           PrefixInv'
    PROVE  IInv'
<1>0. TypeOK /\ TreeInv /\ MarkInv /\ InertInv /\ JoinInv /\ MainInv /\ PrefixInv /\ WalkInv
  BY DEF IInv
<1>1. TypeOK' /\ TreeInv'
  BY <1>0, LocalTypes
<1>2. MarkInv' /\ InertInv'
  BY <1>0, MarksStay
<1>3. JoinInv'
  BY <1>0, JoinStays
<1>4. MainInv'
  BY <1>0, MainStays
<1>5. WalkInv'
  BY <1>0, WalkStays
<1>6. CompleteAtExit'
  BY DEF Local, CompleteAtExit, Running
<1>7. QED
  BY <1>1, <1>2, <1>3, <1>4, <1>5, <1>6 DEF IInv

\* build_package tries the next manifest or gives its result.
LEMMA ReturnedFacts ==
    ASSUME NEW r \in FrameType, NEW code \in Nat
    PROVE  LET q == Returned(r, code) IN
           /\ q \in FrameType /\ q.dir = r.dir /\ q.spawned = r.spawned /\ q.made = r.made
           /\ q.batch = {} /\ q.strays = 0 /\ q.env = r.env /\ q.last = r.last /\ q.rc = code
           /\ q.pc = "enter" => q.list = "dependencies" /\ q.k = 1
           /\ \/ code # 0 /\ r.m = 1 /\ r.last = 2 /\ q.m = 2 /\ q.pc = "enter"
              \/ ~(code # 0 /\ r.m < r.last) /\ q.m = r.m /\ q.pc = "done"
<1> SUFFICES ASSUME NEW q, q = Returned(r, code)
             PROVE  /\ q \in FrameType /\ q.dir = r.dir /\ q.spawned = r.spawned /\ q.made = r.made
                    /\ q.batch = {} /\ q.strays = 0 /\ q.env = r.env /\ q.last = r.last /\ q.rc = code
                    /\ q.pc = "enter" => q.list = "dependencies" /\ q.k = 1
                    /\ \/ code # 0 /\ r.m = 1 /\ r.last = 2 /\ q.m = 2 /\ q.pc = "enter"
                       \/ ~(code # 0 /\ r.m < r.last) /\ q.m = r.m /\ q.pc = "done"
  OBVIOUS
<1>1. r.m \in {1, 2} /\ r.last \in {1, 2}
  BY DEF FrameType
<1>2. CASE code # 0 /\ r.m < r.last
  <2>7. r.m + 1 = 2
    BY <1>1, <1>2
  <2>8. q = [r EXCEPT !.m = r.m + 1, !.pc = "enter", !.rc = code, !.batch = {}, !.strays = 0,
                      !.list = "dependencies", !.k = 1]
    BY <1>2, Zenon DEF Returned
  <2>1. q = [r EXCEPT !.m = 2, !.pc = "enter", !.rc = code, !.batch = {}, !.strays = 0,
                      !.list = "dependencies", !.k = 1]
    BY <2>7, <2>8, Zenon
  <2>2. /\ 2 \in 1..2 /\ "enter" \in Places /\ {} \in SUBSET Names /\ 1 \in Nat \ {0} /\ 0 \in Nat
        /\ "dependencies" \in {"dependencies", "development"}
    BY DEF Places
  <2>3. q \in FrameType
    <3>1. PICK x : x = [r EXCEPT !.m = 2, !.pc = "enter", !.rc = code]
      OBVIOUS
    <3>2. x \in FrameType
      BY <2>2, <3>1 DEF FrameType
    <3>3. q = [x EXCEPT !.batch = {}, !.strays = 0, !.list = "dependencies", !.k = 1]
      BY <2>1, <3>1 DEF FrameType
    <3>4. QED
      BY <2>2, <3>2, <3>3 DEF FrameType
  <2>4. /\ q.dir = r.dir /\ q.spawned = r.spawned /\ q.made = r.made /\ q.batch = {}
        /\ q.env = r.env /\ q.m = 2 /\ q.pc = "enter" /\ q.rc = code /\ q.strays = 0
        /\ q.list = "dependencies" /\ q.k = 1 /\ q.last = r.last
    BY <2>1 DEF FrameType
  <2>5. r.m = 1 /\ r.last = 2
    BY <1>1, <1>2
  <2>6. QED
    BY <1>2, <2>3, <2>4, <2>5
<1>3. CASE ~(code # 0 /\ r.m < r.last)
  <2>1. q = [r EXCEPT !.pc = "done", !.rc = code, !.batch = {}, !.strays = 0]
    BY <1>3 DEF Returned
  <2>2. "done" \in Places /\ {} \in SUBSET Names /\ 0 \in Nat
    BY DEF Places
  <2>3. q \in FrameType
    BY <2>1, <2>2 DEF FrameType
  <2>4. /\ q.dir = r.dir /\ q.spawned = r.spawned /\ q.made = r.made /\ q.batch = {}
        /\ q.env = r.env /\ q.m = r.m /\ q.pc = "done" /\ q.rc = code /\ q.strays = 0
        /\ q.last = r.last
    BY <2>1 DEF FrameType
  <2>5. QED
    BY <1>3, <2>3, <2>4
<1>4. QED
  BY <1>2, <1>3

LEMMA MarksKept ==
    ASSUME TypeOK, MarkInv, NEW t, NEW r, Local(t, r),
           \A p \in r.made : p \in thr[t].made \/ (r.pc = "making" /\ p = Path(t)),
           thr[t].pc = "making" => Path(t) \in DOMAIN built',
           r.pc = "making" => r.m = thr[t].m,
           r.pc = "list" => /\ r.m = thr[t].m /\ Path(t) \in DOMAIN built'
                            /\ t # <<>> => Covered(thr[t].dir)',
           t # <<>> /\ r.pc \in {"flags", "prefix", "make", "making", "skip"} =>
             Has(thr[t].dir, r.m),
           t # <<>> /\ r.m = 2 /\ thr[t].m # 2 => ~Has(thr[t].dir, 1) \/ IsMarked(thr[t].dir, 1)
    PROVE  MarksOf(t)'
<1>1. /\ thr'[t] = r /\ setup' = setup /\ t \in DOMAIN thr /\ r.dir = thr[t].dir
      /\ DOMAIN built \subseteq DOMAIN built'
  BY LocalFacts DEF Local
<1>2. MarksOf(t) /\ Path(t)[1] = thr[t].dir
  BY <1>1, FrameFacts DEF MarkInv
<1>3. r.m = thr[t].m => Path(t)' = Path(t)
  BY <1>1 DEF Path
<1>5. /\ \A m : Has(r.dir, m)' <=> Has(thr[t].dir, m)
      /\ \A m : IsMarked(thr[t].dir, m) => IsMarked(r.dir, m)'
  BY <1>1 DEF Has, OnDisk, IsMarked
<1>6. \A p \in r.made : p \in DOMAIN built' \/ (r.pc = "making" /\ p = Path(t)')
  BY <1>1, <1>2, <1>3 DEF MarksOf
<1>7. r.pc = "list" => Path(t)' \in DOMAIN built'
  BY <1>3
<1>8. t # <<>> => /\ \A p \in r.made : p[1] = r.dir
                  /\ r.pc = "list" => Covered(r.dir)'
  BY <1>1, <1>2 DEF MarksOf
<1>9. t # <<>> => (r.m = 2 => ~Has(r.dir, 1)' \/ IsMarked(r.dir, 1)')
  BY <1>1, <1>2, <1>5 DEF MarksOf
<1>10. t # <<>> => (r.pc \in {"flags", "prefix", "make", "making", "skip"} => Has(r.dir, r.m)')
  BY <1>5, <1>1
<1>11. QED
  BY <1>1, <1>6, <1>7, <1>8, <1>9, <1>10 DEF MarksOf

LEMMA MarkedPath ==
    ASSUME TypeOK, NEW t \in DOMAIN thr, Path(t) \in DOMAIN built
    PROVE  Gone(thr[t].dir)
<1>1. thr[t].m \in 1..2 /\ Path(t) = <<thr[t].dir, Manifests[thr[t].m]>>
  BY FrameFacts
<1>2. QED
  BY <1>1 DEF Gone, IsMarked

LEMMA BeginStep ==
    ASSUME IInv, exit = Running, NEW t \in DOMAIN thr, Begin(t), ~BeginElsewhere(t)
    PROVE  IInv'
<1> DEFINE r == [thr[t] EXCEPT !.pc = "enter"]
<1>0. TypeOK /\ TreeInv /\ MarkInv /\ PrefixInv /\ WalkInv
  BY DEF IInv
<1>1. /\ thr[t].pc = "start" /\ thr' = [thr EXCEPT ![t] = r]
      /\ UNCHANGED <<setup, built, root, env, cursor, cut, failed, lost, exit>>
  BY DEF Begin
<1>2. thr[t] \in FrameType
  BY <1>0 DEF TypeOK
<1>3. /\ r \in FrameType /\ r.pc = "enter" /\ r.dir = thr[t].dir /\ r.spawned = thr[t].spawned
      /\ r.batch = thr[t].batch /\ r.made = thr[t].made /\ r.m = thr[t].m /\ r.last = thr[t].last
      /\ r.rc = thr[t].rc /\ r.list = thr[t].list /\ r.k = thr[t].k
  BY <1>2 DEF FrameType, Places
<1> HIDE DEF r
<1>4. thr[t].batch = {}
  BY <1>0, <1>1 DEF TreeInv
<1>5. Local(t, r)
  BY <1>0, <1>1, <1>3, <1>4 DEF Local, TypeOK, TreeInv
<1>6. MarksOf(t)'
  BY <1>0, <1>1, <1>3, <1>5, MarksKept
<1>7. Inert(t) => Inert(t)'
  BY <1>0, <1>1, <1>3, <1>5, LocalFacts DEF Inert, Has, OnDisk
<1>8. PrefixInv'
  BY <1>0, <1>1, <1>3, <1>5, PrefixStays
<1>9. ~failed' => WalkOf(t)'
  <2> SUFFICES ASSUME ~failed PROVE WalkOf(t)'
    BY <1>1
  <2>1. thr'[t] = r
    BY <1>0, <1>5, LocalFacts
  <2>2. WalkOf(t)
    BY <1>0 DEF WalkInv
  <2>3. thr[t].rc # EAGAIN
    BY <1>0, <1>1 DEF TreeInv, EAGAIN
  <2>4. QED
    BY <1>1, <1>3, <2>1, <2>2, <2>3 DEF WalkOf
<1>10. QED
  BY <1>1, <1>3, <1>4, <1>5, <1>6, <1>7, <1>8, <1>9, LocalStep

\* A thread enters with a path nobody has marked, or leaves.
LEMMA EnterStep ==
    ASSUME IInv, exit = Running, NEW t \in DOMAIN thr, Enter(t)
    PROVE  IInv'
<1>0. TypeOK /\ TreeInv /\ MarkInv /\ PrefixInv /\ WalkInv
  BY DEF IInv
<1>1. /\ thr[t].pc = "enter" /\ UNCHANGED <<setup, built, env, cursor, cut, failed, lost, exit>>
      /\ root' = IF root = None /\ setup.here # {} THEN Cwd ELSE root
      /\ thr' = [thr EXCEPT ![t] = IF Seen(t) THEN Returned(thr[t], 0)
                                   ELSE [thr[t] EXCEPT !.pc = "read"]]
  BY DEF Enter
<1>2. thr[t] \in FrameType /\ thr[t].batch = {}
  BY <1>0, <1>1 DEF TypeOK, TreeInv
<1>4. /\ root' = root \/ (root' = Cwd /\ setup.here # {})
      /\ setup.here # {} => root' = Cwd
      /\ root' \in {root, Cwd}
  BY <1>0, <1>1 DEF TypeOK
<1>5. CASE Seen(t)
  <2> DEFINE r == Returned(thr[t], 0)
  <2>1. /\ r \in FrameType /\ r.dir = thr[t].dir /\ r.spawned = thr[t].spawned
        /\ r.made = thr[t].made /\ r.batch = {} /\ r.pc = "done" /\ r.m = thr[t].m /\ r.rc = 0
        /\ r.last = thr[t].last
    BY <1>2, ReturnedFacts
  <2>2. thr' = [thr EXCEPT ![t] = r]
    BY <1>1, <1>5
  <2> HIDE DEF r
  <2>3. Local(t, r)
    BY <1>0, <1>1, <1>2, <1>4, <2>1, <2>2 DEF Local, TypeOK, TreeInv
  <2>4. MarksOf(t)'
    BY <1>0, <1>1, <2>1, <2>3, MarksKept
  <2>5. Inert(t) => Inert(t)'
    <3>1. thr'[t] = r /\ setup' = setup
      BY <1>0, <2>3, LocalFacts
    <3>2. \A d, m : Has(d, m)' <=> Has(d, m)
      BY <3>1 DEF Has, OnDisk
    <3>3. QED
      BY <1>1, <2>1, <3>1, <3>2 DEF Inert
  <2>6. PrefixInv'
    BY <1>0, <1>1, <1>4, <2>1, <2>3, PrefixStays
  <2>7. ~failed' => WalkOf(t)'
    <3> SUFFICES ASSUME ~failed PROVE WalkOf(t)'
      BY <1>1
    <3>1. thr'[t] = r
      BY <1>0, <2>3, LocalFacts
    <3>2. Gone(thr[t].dir)
      BY <1>0, <1>5, MarkedPath DEF Seen
    <3>3. Gone(thr[t].dir)'
      BY <1>1, <2>1, <3>1, <3>2 DEF Gone, IsMarked
    <3>4. QED
      BY <2>1, <3>1, <3>3 DEF WalkOf
  <2>8. QED
    BY <1>1, <1>2, <2>1, <2>3, <2>4, <2>5, <2>6, <2>7, LocalStep
<1>6. CASE ~Seen(t)
  <2> DEFINE r == [thr[t] EXCEPT !.pc = "read"]
  <2>1. /\ r \in FrameType /\ r.dir = thr[t].dir /\ r.spawned = thr[t].spawned
        /\ r.made = thr[t].made /\ r.batch = {} /\ r.pc = "read" /\ r.m = thr[t].m /\ r.last = thr[t].last
        /\ r.rc = thr[t].rc /\ r.list = thr[t].list /\ r.k = thr[t].k
    BY <1>2 DEF FrameType, Places
  <2>2. thr' = [thr EXCEPT ![t] = r]
    BY <1>1, <1>6
  <2> HIDE DEF r
  <2>3. Local(t, r)
    BY <1>0, <1>1, <1>2, <1>4, <2>1, <2>2 DEF Local, TypeOK, TreeInv
  <2>4. MarksOf(t)'
    BY <1>0, <1>1, <2>1, <2>3, MarksKept
  <2>5. Covered(thr[t].dir) /\ Inert(t) => Inert(t)'
    <3>1. ~IsMarked(thr[t].dir, thr[t].m)
      BY <1>6 DEF Seen, Path, IsMarked
    <3>2. thr[t].m \in {1, 2}
      BY <1>2 DEF FrameType
    <3>3. Covered(thr[t].dir) /\ Inert(t) => ~Has(thr[t].dir, thr[t].m)
      BY <3>1, <3>2 DEF Covered, Inert
    <3>4. thr'[t] = r /\ setup' = setup
      BY <1>0, <2>3, LocalFacts
    <3>5. \A d, m : Has(d, m)' <=> Has(d, m)
      BY <3>4 DEF Has, OnDisk
    <3>6. QED
      BY <2>1, <3>3, <3>4, <3>5 DEF Inert
  <2>6. PrefixInv'
    BY <1>0, <1>1, <1>4, <2>1, <2>3, PrefixStays
  <2>7. ~failed' => WalkOf(t)'
    <3> SUFFICES ASSUME ~failed PROVE WalkOf(t)'
      BY <1>1
    <3>1. thr'[t] = r /\ WalkOf(t)
      BY <1>0, <2>3, LocalFacts DEF WalkInv
    <3>2. Gone(thr[t].dir) => Gone(thr[t].dir)'
      BY <1>1, <2>1, <3>1 DEF Gone, IsMarked
    <3>3. QED
      BY <1>1, <2>1, <3>1, <3>2 DEF WalkOf
  <2>8. Path(t) \notin DOMAIN built
    BY <1>6 DEF Seen
  <2>9. QED
    BY <1>1, <1>2, <2>1, <2>3, <2>4, <2>5, <2>6, <2>7, <2>8, LocalStep
<1>7. QED
  BY <1>5, <1>6

\* A package is read, or it fails and the next manifest is tried.
LEMMA LoadStep ==
    ASSUME IInv, exit = Running, NEW t \in DOMAIN thr, NEW next \in {"prefix", "skip", "flags"},
           Load(t, next)
    PROVE  IInv'
<1>0. TypeOK /\ TreeInv /\ MarkInv /\ PrefixInv /\ WalkInv
  BY DEF IInv
<1>1. thr[t].pc = "read" /\ UNCHANGED <<setup, built, root, env, cursor, cut, lost, exit>>
  BY DEF Load
<1>2. thr[t] \in FrameType /\ thr[t].batch = {} /\ thr[t].m \in {1, 2}
  BY <1>0, <1>1, FrameFacts DEF TreeInv
<1>3. t # <<>> => ~Slug(t)
  BY <1>0 DEF TreeInv, Slug
<1>4. CASE /\ Manifests[thr[t].m] \in OnDisk(thr[t].dir) \/ (Slug(t) /\ Of(t) \in setup.published)
           /\ thr' = [thr EXCEPT ![t].pc = next] /\ failed' = failed
  <2> DEFINE r == [thr[t] EXCEPT !.pc = next]
  <2>1. /\ r \in FrameType /\ r.dir = thr[t].dir /\ r.spawned = thr[t].spawned
        /\ r.made = thr[t].made /\ r.batch = {} /\ r.pc = next /\ r.m = thr[t].m /\ r.last = thr[t].last
        /\ r.rc = thr[t].rc /\ r.list = thr[t].list /\ r.k = thr[t].k
    BY <1>2 DEF FrameType, Places
  <2>2. thr' = [thr EXCEPT ![t] = r]
    BY <1>4
  <2> HIDE DEF r
  <2>3. Local(t, r)
    BY <1>0, <1>1, <1>2, <1>4, <2>1, <2>2 DEF Local, TypeOK, TreeInv
  <2>4. t # <<>> => Has(thr[t].dir, thr[t].m)
    BY <1>3, <1>4 DEF Has
  <2>5. MarksOf(t)'
    BY <1>0, <1>1, <2>1, <2>3, <2>4, MarksKept
  <2>6. t # <<>> => ~Inert(t)
    BY <1>1, <2>4 DEF Inert
  <2>7. PrefixInv'
    BY <1>0, <1>1, <2>1, <2>3, PrefixStays DEF PrefixInv
  <2>8. ~failed' => WalkOf(t)'
    <3> SUFFICES ASSUME ~failed PROVE WalkOf(t)'
      BY <1>4
    <3>1. thr'[t] = r /\ WalkOf(t)
      BY <1>0, <2>3, LocalFacts DEF WalkInv
    <3>2. QED
      BY <1>1, <2>1, <3>1 DEF WalkOf
  <2>9. r.pc \in {"read", "prefix", "make"} => AboutToMake(t)
    BY <1>1 DEF AboutToMake
  <2>10. QED
    BY <1>1, <1>2, <1>4, <2>1, <2>3, <2>5, <2>6, <2>7, <2>8, <2>9, LocalStep
<1>5. CASE /\ Manifests[thr[t].m] \notin OnDisk(thr[t].dir)
           /\ thr' = [thr EXCEPT ![t] = Returned(thr[t], ENOMEM)]
           /\ failed' = (failed \/ (thr[t].m = thr[t].last /\ thr[t].rc # EAGAIN))
  <2> DEFINE r == Returned(thr[t], ENOMEM)
  <2>1. /\ r \in FrameType /\ r.dir = thr[t].dir /\ r.spawned = thr[t].spawned
        /\ r.made = thr[t].made /\ r.batch = {} /\ r.last = thr[t].last /\ r.rc = ENOMEM
        /\ r.pc = "enter" => r.list = "dependencies" /\ r.k = 1
        /\ \/ thr[t].m = 1 /\ r.last = 2 /\ r.m = 2 /\ r.pc = "enter"
           \/ thr[t].m = thr[t].last /\ r.m = thr[t].m /\ r.pc = "done"
    <3>1. ENOMEM \in Nat /\ ENOMEM # 0
      BY DEF ENOMEM
    <3>2. thr[t].last \in {1, 2} /\ thr[t].m <= thr[t].last
      BY <1>0, <1>2 DEF TreeInv, FrameType
    <3>3. \/ thr[t].m = 1 /\ r.last = 2 /\ r.m = 2 /\ r.pc = "enter"
          \/ ~(thr[t].m < thr[t].last) /\ r.m = thr[t].m /\ r.pc = "done"
      BY <1>2, <3>1, ReturnedFacts
    <3>4. ~(thr[t].m < thr[t].last) => thr[t].m = thr[t].last
      BY <1>2, <3>2
    <3>5. QED
      BY <1>2, <3>1, <3>3, <3>4, ReturnedFacts
  <2>2. thr' = [thr EXCEPT ![t] = r]
    BY <1>5
  <2> HIDE DEF r
  <2>3. failed' \in {failed, TRUE}
    BY <1>0, <1>5 DEF TypeOK
  <2>4. Local(t, r)
    <3>1. lost' = lost /\ lost \subseteq Packages
      BY <1>0 DEF Load, TypeOK
    <3>2. r.m <= r.last /\ r.pc # "start" /\ r.pc \notin {"list"}
      BY <1>0, <1>2, <2>1 DEF TreeInv
    <3>3. QED
      BY <1>0, <1>1, <1>2, <2>1, <2>2, <2>3, <3>1, <3>2 DEF Local, TypeOK
  <2>5. ~Has(thr[t].dir, thr[t].m)
    BY <1>5 DEF Has
  <2>6. MarksOf(t)'
    BY <1>0, <1>1, <1>2, <2>1, <2>4, <2>5, MarksKept
  <2>7. Inert(t) => Inert(t)'
    <3>1. thr'[t] = r /\ setup' = setup
      BY <1>0, <2>4, LocalFacts
    <3>2. \A d, m : Has(d, m)' <=> Has(d, m)
      BY <3>1 DEF Has, OnDisk
    <3>3. QED
      BY <2>1, <2>5, <3>1, <3>2 DEF Inert
  <2>8. PrefixInv'
    BY <1>0, <1>1, <2>1, <2>4, PrefixStays
  <2>9. ~failed' => ~failed /\ WalkOf(t)'
    <3> SUFFICES ASSUME ~failed' PROVE ~failed /\ WalkOf(t)'
      OBVIOUS
    <3>1. ~failed /\ (thr[t].m = thr[t].last => thr[t].rc = EAGAIN)
      BY <1>5
    <3>2. thr'[t] = r /\ WalkOf(t) /\ lost' = lost
      BY <1>0, <2>4, <3>1, LocalFacts DEF WalkInv, Load
    <3>3. ENOMEM # EAGAIN /\ EAGAIN \notin {0, ENOMEM}
      BY DEF ENOMEM, EAGAIN
    <3>4. r.pc = "done" => Gone(thr[t].dir) /\ lost # {}
      BY <1>1, <2>1, <3>1, <3>2, <3>3 DEF WalkOf
    <3>5. Gone(thr[t].dir) => Gone(thr[t].dir)'
      BY <1>1, <2>1, <3>2 DEF Gone, IsMarked
    <3>6. r.pc \in {"enter", "done"}
      BY <2>1
    <3>7. QED
      BY <2>1, <3>1, <3>2, <3>3, <3>4, <3>5, <3>6 DEF WalkOf
  <2>10. QED
    BY <1>1, <1>2, <2>1, <2>4, <2>6, <2>7, <2>8, <2>9, LocalStep
<1>6. QED
  BY <1>4, <1>5 DEF Load

\* The prefix every make is to run with, once the root package was looked for.
LEMMA SetPrefixStep ==
    ASSUME IInv, exit = Running, NEW t \in DOMAIN thr, SetPrefix(t)
    PROVE  IInv'
<1> DEFINE r == [thr[t] EXCEPT !.pc = "make"]
<1>0. TypeOK /\ TreeInv /\ MarkInv /\ PrefixInv /\ WalkInv
  BY DEF IInv
<1>1. /\ thr[t].pc = "prefix" /\ thr' = [thr EXCEPT ![t] = r] /\ env' = Prefix(Of(t))
      /\ UNCHANGED <<setup, built, root, cursor, cut, failed, lost, exit>>
  BY DEF SetPrefix
<1>2. thr[t] \in FrameType /\ thr[t].batch = {} /\ Of(t) \in Packages
  BY <1>0, <1>1, FrameFacts DEF TypeOK, TreeInv
<1>3. /\ r \in FrameType /\ r.dir = thr[t].dir /\ r.spawned = thr[t].spawned
      /\ r.made = thr[t].made /\ r.batch = {} /\ r.pc = "make" /\ r.m = thr[t].m /\ r.last = thr[t].last
      /\ r.rc = thr[t].rc /\ r.list = thr[t].list /\ r.k = thr[t].k
  BY <1>2 DEF FrameType, Places
<1> HIDE DEF r
<1>4. /\ setup.prefix \in [Packages -> Packages \cup {None}]
      /\ setup.optPrefix \in Packages \cup {None}
      /\ Cwd \in Packages /\ None \notin Packages
  BY <1>0, ClibBuildAssumption DEF TypeOK
<1>5. env' \in Packages \cup {None}
  BY <1>0, <1>1, <1>2, <1>4 DEF Prefix, TypeOK
<1>6. RootPrefix # None => env' = RootPrefix
  <2>1. root \in {None, Cwd} /\ (root = Cwd <=> setup.here # {}) /\ Cwd # None
    BY <1>0, <1>1, <1>4 DEF PrefixInv, TypeOK
  <2>2. QED
    BY <1>1, <2>1 DEF Prefix, RootPrefix
<1>7. Local(t, r)
  BY <1>0, <1>1, <1>2, <1>3, <1>5 DEF Local, TypeOK, TreeInv
<1>8. t # <<>> => Has(thr[t].dir, thr[t].m)
  BY <1>0, <1>1 DEF MarkInv, MarksOf
<1>9. MarksOf(t)'
  BY <1>0, <1>1, <1>3, <1>7, <1>8, MarksKept
<1>10. ~Inert(t)
  BY <1>1 DEF Inert
<1>11. PrefixInv'
  BY <1>0, <1>1, <1>3, <1>6, <1>7, PrefixStays
<1>12. ~failed' => WalkOf(t)'
  <2>1. thr'[t] = r
    BY <1>0, <1>7, LocalFacts
  <2>2. ~failed => WalkOf(t)
    BY <1>0 DEF WalkInv
  <2>3. QED
    BY <1>1, <1>3, <2>1, <2>2 DEF WalkOf
<1>13. AboutToMake(t)
  BY <1>1 DEF AboutToMake
<1>14. QED
  BY <1>1, <1>2, <1>3, <1>7, <1>9, <1>10, <1>11, <1>12, <1>13, LocalStep

LEMMA MakeStep ==
    ASSUME IInv, exit = Running, NEW t \in DOMAIN thr, Make(t)
    PROVE  IInv'
<1> DEFINE r == [thr[t] EXCEPT !.pc = "making", !.env = env, !.made = thr[t].made \cup {Path(t)}]
<1>0. TypeOK /\ TreeInv /\ MarkInv /\ PrefixInv /\ WalkInv
  BY DEF IInv
<1>1. /\ thr[t].pc = "make" /\ UNCHANGED <<setup, built, root, env, cursor, cut, failed, lost, exit>>
  BY DEF Make
<1>2. thr[t] \in FrameType /\ thr[t].batch = {} /\ Path(t) \in Paths /\ env \in Packages \cup {None}
  BY <1>0, <1>1, FrameFacts DEF TypeOK, TreeInv
<1>3. thr' = [thr EXCEPT ![t] = r]
  BY DEF Make
<1>4. /\ r \in FrameType /\ r.dir = thr[t].dir /\ r.spawned = thr[t].spawned
      /\ r.made = thr[t].made \cup {Path(t)} /\ r.batch = {} /\ r.pc = "making" /\ r.m = thr[t].m /\ r.last = thr[t].last
      /\ r.rc = thr[t].rc /\ r.env = env /\ r.list = thr[t].list /\ r.k = thr[t].k
  <2>1. thr[t].made \cup {Path(t)} \in SUBSET Paths /\ "making" \in Places
    BY <1>2 DEF FrameType, Places
  <2>2. QED
    BY <1>2, <2>1 DEF FrameType
<1> HIDE DEF r
<1>5. Local(t, r)
  BY <1>0, <1>1, <1>2, <1>3, <1>4 DEF Local, TypeOK, TreeInv
<1>6. t # <<>> => Has(thr[t].dir, thr[t].m)
  BY <1>0, <1>1 DEF MarkInv, MarksOf
<1>7. MarksOf(t)'
  BY <1>0, <1>1, <1>4, <1>5, <1>6, MarksKept
<1>8. ~Inert(t)
  BY <1>1 DEF Inert
<1>9. PrefixInv'
  BY <1>0, <1>1, <1>4, <1>5, PrefixStays DEF PrefixInv
<1>10. ~failed' => WalkOf(t)'
  <2>1. thr'[t] = r
    BY <1>0, <1>5, LocalFacts
  <2>2. ~failed => WalkOf(t)
    BY <1>0 DEF WalkInv
  <2>3. QED
    BY <1>1, <1>4, <2>1, <2>2 DEF WalkOf
<1>11. QED
  BY <1>1, <1>2, <1>4, <1>5, <1>7, <1>8, <1>9, <1>10, LocalStep

\* The path is marked, and the thread starts on its list.
LEMMA MarkStep ==
    ASSUME IInv, exit = Running, NEW t \in DOMAIN thr, NEW how, Mark(t, how),
           thr[t].pc \in {"making", "skip", "flags"}
    PROVE  IInv'
<1> DEFINE r == [thr[t] EXCEPT !.pc = "list", !.rc = 0]
<1>0. TypeOK /\ TreeInv /\ MarkInv /\ PrefixInv /\ WalkInv
  BY DEF IInv
<1>1. /\ thr' = [thr EXCEPT ![t] = r] /\ UNCHANGED <<setup, root, env, cursor, cut, failed, lost, exit>>
      /\ DOMAIN built' = DOMAIN built \cup {Path(t)}
  BY DEF Mark
<1>2. thr[t] \in FrameType /\ thr[t].batch = {} /\ thr[t].m \in {1, 2}
      /\ thr[t].list = "dependencies" /\ thr[t].k = 1
  BY <1>0, FrameFacts DEF TreeInv
<1>3. /\ r \in FrameType /\ r.dir = thr[t].dir /\ r.spawned = thr[t].spawned
      /\ r.made = thr[t].made /\ r.batch = {} /\ r.pc = "list" /\ r.m = thr[t].m /\ r.last = thr[t].last
      /\ r.rc = 0 /\ r.list = "dependencies" /\ r.k = 1
  BY <1>2 DEF FrameType, Places
<1> HIDE DEF r
<1>4. Local(t, r)
  BY <1>0, <1>1, <1>2, <1>3 DEF Local, TypeOK, TreeInv
<1>5. t # <<>> => Covered(thr[t].dir)'
  <2> SUFFICES ASSUME t # <<>> PROVE Covered(thr[t].dir)'
    OBVIOUS
  <2>1. /\ Has(thr[t].dir, thr[t].m)
        /\ thr[t].m = 2 => ~Has(thr[t].dir, 1) \/ IsMarked(thr[t].dir, 1)
    BY <1>0 DEF MarkInv, MarksOf
  <2>2. /\ <<thr[t].dir, Manifests[thr[t].m]>> \in DOMAIN built'
        /\ \A d, m : IsMarked(d, m) => IsMarked(d, m)'
    BY <1>1 DEF Path, IsMarked
  <2>3. \A d, m : Has(d, m)' <=> Has(d, m)
    BY <1>1 DEF Has, OnDisk
  <2>4. thr'[t].dir = thr[t].dir
    BY <1>0, <1>4, LocalFacts
  <2>5. PICK d : d = thr[t].dir
    OBVIOUS
  <2>6. \E i \in 1..2 : Has(d, i) /\ IsMarked(d, i)' /\ (i = 2 => ~Has(d, 1))
    <3>1. IsMarked(d, thr[t].m)'
      BY <2>2, <2>4, <2>5, <1>0, <1>3, <1>4, LocalFacts DEF IsMarked
    <3>2. CASE thr[t].m = 1
      BY <2>1, <2>2, <2>5, <3>2 DEF IsMarked
    <3>3. CASE thr[t].m = 2 /\ ~Has(d, 1)
      BY <2>1, <2>2, <2>5, <3>3 DEF IsMarked
    <3>4. CASE thr[t].m = 2 /\ Has(d, 1)
      BY <2>1, <2>2, <2>5, <3>4
    <3>5. QED
      BY <1>2, <3>2, <3>3, <3>4
  <2>7. Covered(d)'
    BY <2>3, <2>6 DEF Covered
  <2>8. QED
    BY <2>4, <2>5, <2>7
<1>6. Path(t) \in DOMAIN built'
  BY <1>1
<1>7. t # <<>> => Covered(thr[t].dir)'
  BY <1>5
<1>8. MarksOf(t)'
  BY <1>0, <1>3, <1>4, <1>6, <1>7, MarksKept
<1>9. ~Inert(t)
  BY DEF Inert
<1>10. PrefixInv'
  BY <1>0, <1>1, <1>3, <1>4, PrefixStays
<1>11. ~failed' => WalkOf(t)'
  <2>1. thr'[t] = r
    BY <1>0, <1>4, LocalFacts
  <2>2. SoFar(t)'
    BY <1>3, <2>1 DEF SoFar
  <2>3. QED
    BY <1>3, <2>1, <2>2 DEF WalkOf
<1>12. QED
  BY <1>1, <1>2, <1>3, <1>4, <1>8, <1>9, <1>10, <1>11, LocalStep

\* The threads of a batch that is not waited for are left behind.
LEMMA LeaveStep ==
    ASSUME IInv, exit = Running, NEW t \in DOMAIN thr, LeaveDependencies(t)
    PROVE  IInv'
<1>0. TypeOK /\ TreeInv /\ MarkInv /\ PrefixInv /\ WalkInv
  BY DEF IInv
<1>1. PICK r : r = Returned(thr[t], ENOMEM)
  OBVIOUS
<1>2. /\ thr[t].pc = "list" /\ thr' = [thr EXCEPT ![t] = r]
      /\ UNCHANGED <<setup, built, root, env, cursor, lost, exit>>
      /\ failed' = TRUE /\ cut' = cut \cup thr[t].batch
  BY <1>1 DEF LeaveDependencies, Unknown, Listed
<1>3. thr[t] \in FrameType /\ thr[t].m \in {1, 2}
  BY <1>0, FrameFacts
<1>4. /\ r \in FrameType /\ r.dir = thr[t].dir /\ r.spawned = thr[t].spawned
      /\ r.made = thr[t].made /\ r.batch = {} /\ r.last = thr[t].last /\ r.m <= r.last
      /\ r.pc = "enter" => r.list = "dependencies" /\ r.k = 1
      /\ \/ thr[t].m = 1 /\ r.m = 2 /\ r.pc = "enter"
         \/ r.m = thr[t].m /\ r.pc = "done"
  <2>1. ENOMEM \in Nat
    BY DEF ENOMEM
  <2>2. thr[t].m <= thr[t].last
    BY <1>0 DEF TreeInv
  <2>3. QED
    BY <1>1, <1>3, <2>1, <2>2, ReturnedFacts
<1>5. Local(t, r)
  <2>1. r.pc \in {"enter", "done"}
    BY <1>4
  <2>2. QED
    BY <1>0, <1>2, <1>4, <2>1 DEF Local, TypeOK
<1>6. t # <<>> => ~Has(thr[t].dir, 1) \/ IsMarked(thr[t].dir, 1)
  <2> SUFFICES ASSUME t # <<>> PROVE ~Has(thr[t].dir, 1) \/ IsMarked(thr[t].dir, 1)
    OBVIOUS
  <2>1. Covered(thr[t].dir)
    BY <1>0, <1>2 DEF MarkInv, MarksOf
  <2>2. QED
    BY <2>1 DEF Covered
<1>7. MarksOf(t)'
  BY <1>0, <1>2, <1>4, <1>5, <1>6, MarksKept
<1>8. ~Inert(t)
  BY <1>2 DEF Inert
<1>9. PrefixInv'
  BY <1>0, <1>2, <1>4, <1>5, PrefixStays
<1>10. QED
  BY <1>2, <1>4, <1>5, <1>7, <1>8, <1>9, LocalStep

\* A batch is done with.
LEMMA JoinStep ==
    ASSUME IInv, exit = Running, NEW t \in DOMAIN thr, Join(t)
    PROVE  IInv'
<1> DEFINE r == [thr[t] EXCEPT !.batch = {}, !.strays = 0]
<1>0. TypeOK /\ TreeInv /\ MarkInv /\ PrefixInv /\ WalkInv
  BY DEF IInv
<1>1. /\ thr[t].pc = "list" /\ thr' = [thr EXCEPT ![t] = r]
      /\ UNCHANGED <<setup, built, root, env, cursor, cut, failed, lost, exit>>
      /\ \A c \in thr[t].batch : thr[c].pc = "done"
  BY DEF Join, AllDone
<1>2. thr[t] \in FrameType
  BY <1>0, FrameFacts
<1>3. /\ r \in FrameType /\ r.dir = thr[t].dir /\ r.spawned = thr[t].spawned
      /\ r.made = thr[t].made /\ r.batch = {} /\ r.pc = "list" /\ r.m = thr[t].m /\ r.last = thr[t].last
      /\ r.rc = thr[t].rc /\ r.list = thr[t].list /\ r.k = thr[t].k
  BY <1>1, <1>2 DEF FrameType, Places
<1> HIDE DEF r
<1>4. Local(t, r)
  BY <1>0, <1>1, <1>2, <1>3 DEF Local, TypeOK, TreeInv
<1>5. Path(t) \in DOMAIN built' /\ (t # <<>> => Covered(thr[t].dir))
  BY <1>0, <1>1 DEF MarkInv, MarksOf
<1>6. t # <<>> => Covered(thr[t].dir)'
  <2>1. \A d : Covered(d)' <=> Covered(d)
    BY <1>1 DEF Covered, Has, IsMarked, OnDisk
  <2>2. thr'[t].dir = thr[t].dir
    BY <1>0, <1>4, LocalFacts
  <2>3. QED
    BY <1>5, <2>1, <2>2
<1>7. MarksOf(t)'
  BY <1>0, <1>1, <1>3, <1>4, <1>5, <1>6, MarksKept
<1>8. ~Inert(t)
  BY <1>1 DEF Inert
<1>9. PrefixInv'
  BY <1>0, <1>1, <1>3, <1>4, PrefixStays
<1>10. ~failed' => WalkOf(t)'
  <2> SUFFICES ASSUME ~failed PROVE WalkOf(t)'
    BY <1>1
  <2>1. thr'[t] = r /\ \A u \in DOMAIN thr : thr'[u].dir = thr[u].dir
    BY <1>0, <1>4, LocalFacts
  <2>2. \A p : Taken(p)' <=> Taken(p)
    BY <1>0, <1>1, <1>4, <2>1, LocalFacts DEF Taken, HasThread
  <2>3. SoFar(t) /\ (lost = {} => thr[t].rc = 0)
    BY <1>0, <1>1 DEF WalkInv, WalkOf
  <2>4. Of(t)' = Of(t) /\ Dependencies(t)' = Dependencies(t)
    BY <1>1, <1>3, <2>1 DEF Of, Package, Dependencies
  <2>5. SoFar(t)'
    BY <1>1, <1>3, <2>1, <2>2, <2>3, <2>4 DEF SoFar
  <2>6. QED
    BY <1>1, <1>3, <2>1, <2>3, <2>5 DEF WalkOf
<1>11. QED
  BY <1>1, <1>3, <1>4, <1>7, <1>8, <1>9, <1>10, LocalStep

\* The lists of a package are sequences of packages.
LEMMA ListFacts ==
    ASSUME TypeOK, NEW t \in DOMAIN thr
    PROVE  /\ setup.dependencies[Of(t)] \in Seq(Packages)
           /\ setup.development[Of(t)] \in Seq(Packages)
           /\ thr[t].list = "dependencies" => Dependencies(t) = setup.dependencies[Of(t)]
           /\ thr[t].list = "development" => Dependencies(t) = setup.development[Of(t)]
           /\ Dependencies(t) \in Seq(Packages)
<1>1. Of(t) \in Packages /\ thr[t].list \in {"dependencies", "development"}
  BY FrameFacts DEF FrameType
<1>2. /\ setup.dependencies \in [Packages -> Seq(Packages)]
      /\ setup.development \in [Packages -> Seq(Packages)]
  BY ClibBuildAssumption DEF TypeOK
<1>3. /\ thr[t].list = "dependencies" => Dependencies(t) = setup.dependencies[Of(t)]
      /\ thr[t].list = "development" => Dependencies(t) = setup.development[Of(t)]
  BY DEF Dependencies
<1>4. QED
  BY <1>1, <1>2, <1>3

\* With no slot filled there is nobody to wait for.
LEMMA NoSlots ==
    ASSUME TypeOK, TreeInv, NEW t \in DOMAIN thr
    PROVE  /\ Cardinality(thr[t].batch) \in Nat /\ thr[t].strays \in Nat
           /\ Slots(t) = 0 => thr[t].batch = {} /\ thr[t].strays = 0
<1>1. IsFiniteSet(thr[t].batch) /\ thr[t].strays \in Nat
  BY FrameFacts DEF TreeInv, FrameType
<1>2. Cardinality(thr[t].batch) \in Nat
  BY <1>1, FS_CardinalityType
<1>3. Cardinality(thr[t].batch) = 0 => thr[t].batch = {}
  BY <1>1, FS_EmptySet
<1>4. QED
  BY <1>1, <1>2, <1>3 DEF Slots

\* After its lists a package has a thread for each package it needs.
LEMMA EndListStep ==
    ASSUME IInv, exit = Running, NEW t \in DOMAIN thr, EndList(t)
    PROVE  IInv'
<1>0. TypeOK /\ TreeInv /\ MarkInv /\ PrefixInv /\ WalkInv
  BY DEF IInv
<1>1. PICK r : r = IF thr[t].list = "dependencies" /\ setup.dev
                   THEN [thr[t] EXCEPT !.list = "development", !.k = 1]
                   ELSE Returned(thr[t], thr[t].rc)
  OBVIOUS
<1>2. /\ thr[t].pc = "list" /\ thr' = [thr EXCEPT ![t] = r]
      /\ UNCHANGED <<setup, built, root, env, cursor, cut, failed, lost, exit>>
      /\ thr[t].k > Len(Dependencies(t)) /\ Slots(t) = 0
  BY <1>1 DEF EndList, Ended
<1>3. /\ thr[t] \in FrameType /\ thr[t].m \in {1, 2} /\ thr[t].k \in Nat
      /\ thr[t].list \in {"dependencies", "development"} /\ thr[t].rc \in Nat
      /\ thr[t].m <= thr[t].last /\ thr[t].last \in {1, 2}
  BY <1>0, FrameFacts DEF FrameType, TreeInv
<1>4. Path(t) \in DOMAIN built /\ (t # <<>> => Covered(thr[t].dir))
  BY <1>0, <1>2 DEF MarkInv, MarksOf
<1>5. ~failed =>
        /\ \A j \in 1..Len(Dependencies(t)) : Taken(Dependencies(t)[j])
        /\ thr[t].list = "development" =>
             \A j \in 1..Len(setup.dependencies[Of(t)]) : Taken(setup.dependencies[Of(t)][j])
  <2>1. ~failed => SoFar(t)
    BY <1>0, <1>2 DEF WalkInv, WalkOf
  <2>2. \A j \in 1..Len(Dependencies(t)) : j < thr[t].k
    <3>1. Len(Dependencies(t)) \in Nat
      BY <1>0, ListFacts, LenProperties
    <3>2. QED
      BY <1>2, <1>3, <3>1
  <2>3. QED
    BY <2>1, <2>2 DEF SoFar
<1>6. CASE thr[t].list = "dependencies" /\ setup.dev
  <2>1. r = [thr[t] EXCEPT !.list = "development", !.k = 1]
    BY <1>1, <1>6
  <2>2. /\ r \in FrameType /\ r.dir = thr[t].dir /\ r.spawned = thr[t].spawned
        /\ r.made = thr[t].made /\ r.batch = thr[t].batch /\ r.pc = "list" /\ r.m = thr[t].m
        /\ r.last = thr[t].last /\ r.rc = thr[t].rc /\ r.list = "development" /\ r.k = 1
    <3>1. 1 \in Nat \ {0} /\ "development" \in {"dependencies", "development"}
      OBVIOUS
    <3>2. r \in FrameType
      BY <1>3, <2>1, <3>1 DEF FrameType
    <3>3. QED
      BY <1>2, <1>3, <2>1, <3>2 DEF FrameType
  <2>3. Local(t, r)
    BY <1>0, <1>2, <2>2 DEF Local, TypeOK, TreeInv
  <2>4. t # <<>> => Covered(thr[t].dir)'
    <3>1. \A d : Covered(d)' <=> Covered(d)
      BY <1>2 DEF Covered, Has, IsMarked, OnDisk
    <3>2. thr'[t].dir = thr[t].dir
      BY <1>0, <2>3, LocalFacts
    <3>3. QED
      BY <1>4, <3>1, <3>2
  <2>5. MarksOf(t)'
    BY <1>0, <1>2, <1>4, <2>2, <2>3, <2>4, MarksKept
  <2>6. ~Inert(t)
    BY <1>2 DEF Inert
  <2>7. PrefixInv'
    BY <1>0, <1>2, <2>2, <2>3, PrefixStays
  <2>8. ~failed' => WalkOf(t)'
    <3> SUFFICES ASSUME ~failed PROVE WalkOf(t)'
      BY <1>2
    <3>1. thr'[t] = r /\ \A u \in DOMAIN thr : thr'[u].dir = thr[u].dir
      BY <1>0, <2>3, LocalFacts
    <3>2. \A p : Taken(p)' <=> Taken(p)
      BY <1>0, <1>2, <2>3, <3>1, LocalFacts DEF Taken, HasThread
    <3>3. Of(t)' = Of(t) /\ Dependencies(t) = setup.dependencies[Of(t)]
      BY <1>0, <1>6, <2>2, <3>1, ListFacts DEF Of, Package
    <3>4. SoFar(t)'
      BY <1>2, <1>5, <2>2, <3>1, <3>2, <3>3 DEF SoFar
    <3>5. lost = {} => thr[t].rc = 0
      BY <1>0, <1>2 DEF WalkInv, WalkOf
    <3>6. QED
      BY <1>2, <2>2, <3>1, <3>4, <3>5 DEF WalkOf
  <2>9. QED
    BY <1>2, <2>2, <2>3, <2>5, <2>6, <2>7, <2>8, LocalStep
<1>7. CASE ~(thr[t].list = "dependencies" /\ setup.dev)
  <2>1. r = Returned(thr[t], thr[t].rc)
    BY <1>1, <1>7
  <2>2. /\ r \in FrameType /\ r.dir = thr[t].dir /\ r.spawned = thr[t].spawned
        /\ r.made = thr[t].made /\ r.batch = {} /\ r.last = thr[t].last /\ r.rc = thr[t].rc
        /\ r.pc = "enter" => r.list = "dependencies" /\ r.k = 1
        /\ \/ thr[t].rc # 0 /\ thr[t].m = 1 /\ r.last = 2 /\ r.m = 2 /\ r.pc = "enter"
           \/ r.m = thr[t].m /\ r.pc = "done"
    BY <1>3, <2>1, ReturnedFacts
  <2>3. Local(t, r)
    <3>1. r.pc \in {"enter", "done"} /\ r.m <= r.last
      BY <1>3, <2>2
    <3>2. QED
      BY <1>0, <1>2, <2>2, <3>1 DEF Local, TypeOK
  <2>10. t # <<>> => ~Has(thr[t].dir, 1) \/ IsMarked(thr[t].dir, 1)
    BY <1>4 DEF Covered
  <2>4. MarksOf(t)'
    BY <1>0, <1>2, <2>2, <2>3, <2>10, MarksKept
  <2>5. ~Inert(t)
    BY <1>2 DEF Inert
  <2>6. PrefixInv'
    BY <1>0, <1>2, <2>2, <2>3, PrefixStays
  <2>7. ~failed' => WalkOf(t)'
    <3> SUFFICES ASSUME ~failed PROVE WalkOf(t)'
      BY <1>2
    <3>1. thr'[t] = r
      BY <1>0, <2>3, LocalFacts
    <3>2. Gone(thr[t].dir)
      BY <1>0, <1>4, MarkedPath
    <3>3. Gone(thr[t].dir)'
      BY <1>2, <2>2, <3>1, <3>2 DEF Gone, IsMarked
    <3>4. lost = {} => thr[t].rc = 0
      BY <1>0, <1>2 DEF WalkInv, WalkOf
    <3>5. r.pc \in {"enter", "done"}
      BY <2>2
    <3>6. QED
      BY <1>2, <2>2, <3>1, <3>3, <3>4, <3>5 DEF WalkOf
  <2>8. ~failed => Served(Of(t))
    <3> SUFFICES ASSUME ~failed, NEW q \in Needs(Of(t)) PROVE Taken(q)
      BY DEF Served
    <3> DEFINE a == setup.dependencies[Of(t)]
               b == setup.development[Of(t)]
    <3>1. a \in Seq(Packages) /\ b \in Seq(Packages)
      BY <1>0, ListFacts
    <3>2. DOMAIN a = 1..Len(a) /\ DOMAIN b = 1..Len(b)
      BY <3>1, LenProperties
    <3>3. \A j \in 1..Len(a) : Taken(a[j])
      BY <1>0, <1>3, <1>5, ListFacts
    <3>4. setup.dev => \A j \in 1..Len(b) : Taken(b[j])
      BY <1>0, <1>3, <1>5, <1>7, ListFacts
    <3>5. (\E j \in DOMAIN a : q = a[j]) \/ (setup.dev /\ \E j \in DOMAIN b : q = b[j])
      BY DEF Needs, Range
    <3>6. QED
      BY <3>2, <3>3, <3>4, <3>5
  <2>9. \A c \in thr[t].batch : thr[c].pc = "done"
    BY <1>0, <1>2, NoSlots
  <2>11. r.pc \in {"enter", "done"}
    BY <2>2
  <2>12. QED
    BY <1>2, <2>2, <2>3, <2>4, <2>5, <2>6, <2>7, <2>8, <2>9, <2>11, LocalStep
<1>8. QED
  BY <1>6, <1>7

\* A thread is started on the copy of a dependency.
LEMMA StartStep ==
    ASSUME IInv, exit = Running, NEW t \in DOMAIN thr, NEW list, StartThread(t, list)
    PROVE  IInv'
<1>0. TypeOK /\ TreeInv /\ MarkInv /\ InertInv /\ JoinInv /\ MainInv /\ PrefixInv /\ WalkInv
  BY DEF IInv
<1> PICK p : p = Dependencies(t)[thr[t].k]
  OBVIOUS
<1> PICK n : n = thr[t].spawned + 1
  OBVIOUS
<1>1. PICK c : c = Append(t, n)
  OBVIOUS
<1>2. PICK f : f = Frame(Installed(p), "start")
  OBVIOUS
<1>3. PICK r : r = [thr[t] EXCEPT !.k = thr[t].k + 1, !.spawned = thr[t].spawned + 1,
                                  !.batch = thr[t].batch \cup {c}, !.rc = 0]
  OBVIOUS
<1>4. /\ thr[t].pc = "list" /\ ~Ended(t)
      /\ thr' = [x \in DOMAIN thr \cup {c} |-> IF x = c THEN f ELSE IF x = t THEN r ELSE thr[x]]
      /\ UNCHANGED <<setup, built, root, env, cursor, cut, failed, lost, exit>>
  BY <1>1, <1>2, <1>3 DEF StartThread, Listed
<1>5. /\ thr[t] \in FrameType /\ t \in Names /\ thr[t].spawned \in Nat /\ thr[t].k \in Nat \ {0}
      /\ n \in Nat /\ n = thr[t].spawned + 1 /\ thr[t].k + 1 \in Nat \ {0} /\ Len(t) \in Nat
  <2>1. thr[t] \in FrameType /\ t \in Names
    BY <1>0, FrameFacts
  <2>2. thr[t].spawned \in Nat /\ thr[t].k \in Nat \ {0}
    BY <2>1 DEF FrameType
  <2>3. QED
    BY <2>1, <2>2, PathFacts
<1>6. /\ c \in Names /\ c # <<>> /\ Len(c) = Len(t) + 1 /\ c[Len(t) + 1] = n
      /\ \A i \in 0..Len(t) : Upto(c, i) = Upto(t, i)
      /\ \A i \in 1..Len(t) : c[i] = t[i]
      /\ Upto(c, Len(t)) = t
  <2>1. t \in Names /\ n \in Nat
    BY <1>5
  <2>2. c = Append(t, n)
    BY <1>1
  <2>3. c \in Names
    BY <2>1, <2>2, Child
  <2>4. c # <<>> /\ Len(c) = Len(t) + 1
    BY <2>1, <2>2, Child
  <2>5. c[Len(t) + 1] = n
    BY <2>1, <2>2, Child
  <2>6. \A i \in 0..Len(t) : Upto(c, i) = Upto(t, i)
    BY <2>1, <2>2, Child, PathFacts DEF Upto
  <2>7. \A i \in 1..Len(t) : c[i] = t[i]
    BY <2>1, <2>2, Child
  <2>8. Upto(c, Len(t)) = t
    BY <2>1, <2>2, Child DEF Upto
  <2>9. QED
    BY <2>3, <2>4, <2>5, <2>6, <2>7, <2>8
<1>7. c \notin DOMAIN thr
  <2> SUFFICES ASSUME c \in DOMAIN thr PROVE FALSE
    OBVIOUS
  <2>1. Len(t) + 1 \in 1..Len(c) /\ (Len(t) + 1) - 1 = Len(t)
    BY <1>5, <1>6
  <2>2. c[Len(t) + 1] <= thr[Upto(c, Len(t))].spawned
    BY <1>0, <2>1 DEF TreeInv
  <2>3. QED
    BY <1>5, <1>6, <2>2
<1>8. p \in Packages /\ thr[t].k \in 1..Len(Dependencies(t))
  <2>1. Dependencies(t) \in Seq(Packages) /\ Len(Dependencies(t)) \in Nat
    BY <1>0, ListFacts, LenProperties
  <2>2. thr[t].k \in 1..Len(Dependencies(t))
    BY <1>4, <1>5, <2>1 DEF Ended
  <2>3. QED
    BY <2>1, <2>2, ElementOfSeq
<1>9. /\ f \in FrameType /\ f.dir = Installed(p) /\ f.dir[1] = "in" /\ f.pc = "start" /\ f.m = 1
      /\ f.last = 2
      /\ f.batch = {} /\ f.spawned = 0 /\ f.made = {} /\ f.rc = 0
      /\ f.list = "dependencies" /\ f.k = 1
  <2>1. /\ Installed(p) \in Dirs /\ Installed(p)[1] = "in" /\ "start" \in Places /\ 1 \in 1..2
        /\ Len(Manifests) = 2 /\ 2 \in 1..2
        /\ "dependencies" \in {"dependencies", "development"} /\ 1 \in Nat \ {0}
        /\ {} \in SUBSET Names /\ 0 \in Nat /\ None \in Packages \cup {None} /\ {} \in SUBSET Paths
    BY <1>8 DEF Installed, Dirs, Places, Manifests
  <2>2. f \in FrameType
    BY <1>2, <2>1 DEF Frame, FrameType
  <2>3. QED
    BY <1>2, <2>1, <2>2 DEF Frame
<1>10. /\ r \in FrameType /\ r.dir = thr[t].dir /\ r.pc = "list" /\ r.m = thr[t].m
       /\ r.list = thr[t].list /\ r.made = thr[t].made /\ r.rc = 0
       /\ r.last = thr[t].last
       /\ r.k = thr[t].k + 1 /\ r.spawned = thr[t].spawned + 1
       /\ r.batch = thr[t].batch \cup {c} /\ r.env = thr[t].env
  <2>1. thr[t].batch \cup {c} \in SUBSET Names
    BY <1>5, <1>6 DEF FrameType
  <2>2. QED
    BY <1>3, <1>4, <1>5, <2>1 DEF FrameType
<1>11. /\ DOMAIN thr' = DOMAIN thr \cup {c} /\ thr'[c] = f /\ thr'[t] = r
       /\ \A u \in DOMAIN thr : u # t => thr'[u] = thr[u]
  BY <1>4, <1>7
<1>12. \A u \in DOMAIN thr :
         /\ thr'[u].dir = thr[u].dir /\ thr'[u].pc = thr[u].pc /\ thr'[u].m = thr[u].m
         /\ thr'[u].made = thr[u].made /\ thr'[u].env = thr[u].env /\ thr'[u].last = thr[u].last
         /\ thr'[u].rc = IF u = t THEN 0 ELSE thr[u].rc
         /\ thr'[u].spawned >= thr[u].spawned /\ thr[u].batch \subseteq thr'[u].batch
  <2>1. \A u \in DOMAIN thr : thr[u].spawned \in Nat
    BY <1>0 DEF TypeOK, FrameType
  <2>2. QED
    BY <1>4, <1>10, <1>11, <2>1
<1>13. TypeOK'
  <2>1. thr' \in [DOMAIN thr' -> FrameType]
    BY <1>0, <1>4, <1>9, <1>10, <1>11 DEF TypeOK
  <2>2. DOMAIN thr' \subseteq Names /\ cut' \subseteq DOMAIN thr'
    BY <1>0, <1>4, <1>6, <1>11 DEF TypeOK
  <2>3. QED
    BY <1>0, <1>4, <2>1, <2>2 DEF TypeOK
<1>14. \A d : Covered(d)' <=> Covered(d)
  BY <1>4 DEF Covered, Has, IsMarked, OnDisk
<1>15. TreeInv'
  <2>1. ASSUME NEW u \in DOMAIN thr, NEW i \in 1..Len(u)
        PROVE  /\ Upto(u, i - 1) \in DOMAIN thr' /\ u[i] <= thr'[Upto(u, i - 1)].spawned
               /\ u[i] # 0
    <3>1. Upto(u, i - 1) \in DOMAIN thr /\ u[i] <= thr[Upto(u, i - 1)].spawned /\ u[i] # 0
      BY <1>0 DEF TreeInv
    <3>2. u[i] \in Nat /\ thr[Upto(u, i - 1)].spawned \in Nat /\ thr'[Upto(u, i - 1)].spawned \in Nat
      <4>1. u \in Seq(Nat)
        BY <1>0, FrameFacts DEF Names
      <4>2. QED
        BY <1>11, <1>13, <1>0, <3>1, <4>1, ElementOfSeq DEF TypeOK, FrameType
    <3>3. QED
      BY <1>11, <1>12, <3>1, <3>2
  <2>2. ASSUME NEW i \in 1..Len(c)
        PROVE  /\ Upto(c, i - 1) \in DOMAIN thr' /\ c[i] <= thr'[Upto(c, i - 1)].spawned
               /\ c[i] # 0
    <3>1. CASE i = Len(t) + 1
      <4>1. Upto(c, i - 1) = t /\ c[i] = thr[t].spawned + 1
        BY <1>5, <1>6, <3>1
      <4>2. QED
        BY <1>5, <1>10, <1>11, <4>1
    <3>2. CASE i \in 1..Len(t)
      <4>1. Upto(c, i - 1) = Upto(t, i - 1) /\ c[i] = t[i]
        BY <1>5, <1>6, <3>2
      <4>2. QED
        BY <2>1, <3>2, <4>1
    <3>3. QED
      BY <1>5, <1>6, <3>1, <3>2
  <2>3. ASSUME NEW u \in DOMAIN thr
        PROVE  /\ \A x \in thr'[u].batch : x \in DOMAIN thr' /\ Len(x) = Len(u) + 1 /\ Upto(x, Len(u)) = u
               /\ thr'[u].pc # "list" => thr'[u].batch = {}
               /\ thr'[u].pc \notin {"list", "done"} => thr'[u].list = "dependencies" /\ thr'[u].k = 1
               /\ u # <<>> => thr'[u].dir[1] = "in"
               /\ thr'[u].m <= thr'[u].last /\ IsFiniteSet(thr'[u].batch)
               /\ thr'[u].pc = "start" => u # <<>> /\ thr'[u].spawned = 0 /\ thr'[u].rc = 0
    <3>1. CASE u # t
      BY <1>0, <1>11, <3>1 DEF TreeInv
    <3>2. CASE u = t
      <4>1. IsFiniteSet(thr[t].batch \cup {c})
        BY <1>0, FS_AddElement DEF TreeInv
      <4>2. \A x \in r.batch : x \in DOMAIN thr' /\ Len(x) = Len(t) + 1 /\ Upto(x, Len(t)) = t
        BY <1>0, <1>6, <1>10, <1>11 DEF TreeInv
      <4>3. (t # <<>> => r.dir[1] = "in") /\ r.m <= r.last
        BY <1>0, <1>10 DEF TreeInv
      <4>4. QED
        BY <1>10, <1>11, <3>2, <4>1, <4>2, <4>3
    <3>3. QED
      BY <3>1, <3>2
  <2>4. <<>> \in DOMAIN thr'
    BY <1>0, <1>11 DEF TreeInv
  <2>5. IsFiniteSet(f.batch)
    BY <1>9, FS_EmptySet
  <2>6. /\ \A x \in thr'[c].batch : x \in DOMAIN thr' /\ Len(x) = Len(c) + 1 /\ Upto(x, Len(c)) = c
        /\ thr'[c].pc # "list" => thr'[c].batch = {}
        /\ thr'[c].pc \notin {"list", "done"} => thr'[c].list = "dependencies" /\ thr'[c].k = 1
        /\ c # <<>> => thr'[c].dir[1] = "in"
        /\ thr'[c].m <= thr'[c].last /\ IsFiniteSet(thr'[c].batch)
        /\ thr'[c].pc = "start" => c # <<>> /\ thr'[c].spawned = 0 /\ thr'[c].rc = 0
    <3>1. f.pc # "list" /\ f.m <= f.last /\ \A x \in f.batch : FALSE
      BY <1>9
    <3>2. thr'[c] = f
      BY <1>11
    <3>3. QED
      BY <1>6, <1>9, <2>5, <3>1, <3>2
  <2>7. QED
    BY <1>11, <2>1, <2>2, <2>3, <2>4, <2>6 DEF TreeInv
<1>16. MarkInv'
  <2>1. \A u \in DOMAIN thr : MarksOf(u)'
    <3> SUFFICES ASSUME NEW u \in DOMAIN thr PROVE MarksOf(u)'
      OBVIOUS
    <3>1. MarksOf(u)
      BY <1>0 DEF MarkInv
    <3>2. Path(u)' = Path(u)
      BY <1>12 DEF Path
    <3>3. /\ \A d, m : Has(d, m)' <=> Has(d, m)
          /\ \A d, m : IsMarked(d, m)' <=> IsMarked(d, m)
      BY <1>4 DEF Has, OnDisk, IsMarked
    <3>4. QED
      BY <1>4, <1>12, <1>14, <3>1, <3>2, <3>3 DEF MarksOf
  <2>2. MarksOf(c)'
    BY <1>9, <1>11 DEF MarksOf
  <2>3. QED
    BY <1>11, <2>1, <2>2 DEF MarkInv
<1>17. InertInv'
  <2>1. ASSUME NEW u \in DOMAIN thr, NEW i \in 1..(Len(u) - 1)
        PROVE  /\ Covered(thr[Upto(u, i)].dir)'
               /\ thr'[Upto(u, i)].dir = thr'[u].dir => Inert(u)'
    <3>1. Upto(u, i) \in DOMAIN thr
      <4>1. u \in Names /\ Len(u) \in Nat
        BY <1>0, FrameFacts, PathFacts
      <4>2. i + 1 \in 1..Len(u) /\ (i + 1) - 1 = i
        BY <4>1
      <4>3. QED
        BY <1>0, <4>2 DEF TreeInv
    <3>2. /\ Covered(thr[Upto(u, i)].dir)
          /\ thr[Upto(u, i)].dir = thr[u].dir => Inert(u)
      BY <1>0 DEF InertInv
    <3>3. \A d, m : Has(d, m)' <=> Has(d, m)
      BY <1>4 DEF Has, OnDisk
    <3>4. Inert(u) => Inert(u)'
      BY <1>12, <3>3 DEF Inert
    <3>5. QED
      BY <1>12, <1>14, <3>1, <3>2, <3>4
  <2>2. ASSUME NEW i \in 1..(Len(c) - 1)
        PROVE  Covered(thr[Upto(c, i)].dir)' /\ Inert(c)'
    <3>1. i \in 1..Len(t) /\ Upto(c, i) = Upto(t, i) /\ Upto(t, Len(t)) = t /\ t # <<>>
      BY <1>5, <1>6, PathFacts
    <3>2. Covered(thr[Upto(t, i)].dir) /\ Upto(t, i) \in DOMAIN thr
      <4>1. CASE i = Len(t)
        BY <1>0, <1>4, <3>1, <4>1 DEF MarkInv, MarksOf
      <4>2. CASE i # Len(t)
        <5>1. i \in 1..(Len(t) - 1) /\ i + 1 \in 1..Len(t) /\ (i + 1) - 1 = i
          BY <1>5, <3>1, <4>2
        <5>2. QED
          BY <1>0, <5>1 DEF InertInv, TreeInv
      <4>3. QED
        BY <4>1, <4>2
    <3>3. Inert(c)'
      BY <1>9, <1>11 DEF Inert
    <3>4. QED
      BY <1>12, <1>14, <3>1, <3>2, <3>3
  <2>3. QED
    BY <1>11, <2>1, <2>2 DEF InertInv
<1>18. JoinInv'
  <2>1. ASSUME NEW u \in DOMAIN thr, ~LeftBehind(u)', thr'[u].pc # "done", NEW i \in 0..(Len(u) - 1)
        PROVE  /\ thr'[Upto(u, i)].pc = "list"
               /\ Upto(u, i + 1) \in thr'[Upto(u, i)].batch
    <3>1. ~LeftBehind(u) /\ thr[u].pc # "done"
      BY <1>4, <1>12, <2>1 DEF LeftBehind
    <3>2. thr[Upto(u, i)].pc = "list" /\ Upto(u, i + 1) \in thr[Upto(u, i)].batch
      BY <1>0, <3>1 DEF JoinInv
    <3>3. Upto(u, i) \in DOMAIN thr
      <4>1. u \in Names /\ Len(u) \in Nat
        BY <1>0, FrameFacts, PathFacts
      <4>2. i + 1 \in 1..Len(u) /\ (i + 1) - 1 = i
        BY <4>1
      <4>3. QED
        BY <1>0, <4>2 DEF TreeInv
    <3>4. QED
      BY <1>12, <3>2, <3>3
  <2>2. ASSUME ~LeftBehind(c)', NEW i \in 0..(Len(c) - 1)
        PROVE  /\ thr'[Upto(c, i)].pc = "list"
               /\ Upto(c, i + 1) \in thr'[Upto(c, i)].batch
    <3>1. CASE i = Len(t)
      <4>1. Upto(c, i) = t /\ Upto(c, i + 1) = c
        BY <1>6, <3>1, PathFacts
      <4>2. QED
        BY <1>10, <1>11, <4>1
    <3>2. CASE i # Len(t)
      <4>1. i \in 0..(Len(t) - 1) /\ Upto(c, i) = Upto(t, i) /\ Upto(c, i + 1) = Upto(t, i + 1)
        BY <1>5, <1>6, <3>2
      <4>2. ~LeftBehind(t)'
        <5> SUFFICES ASSUME NEW j \in 1..Len(t), Upto(t, j) \in cut' PROVE FALSE
          BY DEF LeftBehind, Upto
        <5>1. j \in 1..Len(c) /\ Upto(c, j) \in cut'
          BY <1>5, <1>6
        <5>2. QED
          BY <2>2, <5>1 DEF LeftBehind, Upto
      <4>3. thr'[t].pc # "done"
        BY <1>10, <1>11
      <4>4. QED
        BY <2>1, <4>1, <4>2, <4>3
    <3>3. QED
      BY <3>1, <3>2
  <2>3. QED
    BY <1>11, <2>1, <2>2 DEF JoinInv
<1>19. MainInv'
  <2>1. \A u \in DOMAIN thr : Path(u)' = Path(u) /\ (AboutToMake(u)' <=> AboutToMake(u))
    BY <1>12 DEF Path, AboutToMake
  <2>2. <<>> \in DOMAIN thr
    BY <1>0 DEF TreeInv
  <2>3. ~AboutToMake(c)' /\ thr'[c].made = {}
    BY <1>9, <1>11 DEF AboutToMake
  <2>4. ASSUME NEW u \in DOMAIN thr \ {<<>>}, ~LeftBehind(u)'
        PROVE  /\ thr'[<<>>].made \cap thr'[u].made = {}
               /\ AboutToMake(u)' => Path(u)' \notin thr'[<<>>].made
               /\ AboutToMake(<<>>)' => Path(<<>>)' \notin thr'[u].made
    <3>1. ~LeftBehind(u)
      BY <1>4, <2>4 DEF LeftBehind
    <3>2. QED
      BY <1>0, <1>12, <2>1, <2>2, <3>1 DEF MainInv
  <2>5. QED
    BY <1>11, <2>3, <2>4 DEF MainInv
<1>20. PrefixInv'
  <2>1. RootPrefix' = RootPrefix
    BY <1>4 DEF RootPrefix
  <2>2. QED
    BY <1>0, <1>4, <1>9, <1>11, <1>12, <2>1 DEF PrefixInv
<1>21. WalkInv'
  <2> SUFFICES ASSUME ~failed
               PROVE  /\ cut' = {} /\ MainSoFar'
                      /\ \A u \in DOMAIN thr' : WalkOf(u)'
                      /\ \A d \in Dirs : Gone(d)' =>
                           \/ Served(Package(d))'
                           \/ \E u \in DOMAIN thr' : thr'[u].pc = "list" /\ thr'[u].dir = d
    BY <1>4 DEF WalkInv
  <2>1. /\ cut = {} /\ MainSoFar /\ \A u \in DOMAIN thr : WalkOf(u)
        /\ \A d \in Dirs : Gone(d) =>
             \/ Served(Package(d))
             \/ \E u \in DOMAIN thr : thr[u].pc = "list" /\ thr[u].dir = d
    BY <1>0 DEF WalkInv
  <2>2. \A d : Gone(d)' <=> Gone(d)
    BY <1>4 DEF Gone, IsMarked
  <2>3. \A q : Taken(q) => Taken(q)'
    BY <1>4, <1>11, <1>12 DEF Taken, HasThread
  <2>4. Taken(p)'
    BY <1>6, <1>9, <1>11 DEF Taken, HasThread
  <2>5. \A q : Served(q) => Served(q)'
    BY <1>4, <2>3 DEF Served, Needs
  <2>6. MainSoFar'
    <3>1. Target(cursor)' = Target(cursor) /\ thr'[<<>>].dir = thr[<<>>].dir
      BY <1>0, <1>4, <1>12 DEF Target, TreeInv
    <3>2. \A j : Behind(j)' <=> Behind(j)
      BY <1>4 DEF Behind
    <3>3. \A j \in 1..Len(setup.args) : Behind(j) => Gone(Directory(setup.args[j]))'
      BY <1>4, <2>1 DEF MainSoFar, Gone, IsMarked
    <3>4. QED
      BY <1>4, <2>1, <3>1, <3>2, <3>3 DEF MainSoFar
  <2>7. ASSUME NEW u \in DOMAIN thr
        PROVE  WalkOf(u)'
    <3>1. /\ Of(u)' = Of(u) /\ thr'[u].list = thr[u].list /\ Dependencies(u)' = Dependencies(u)
          /\ thr'[u].k = IF u = t THEN thr[t].k + 1 ELSE thr[u].k
      BY <1>4, <1>10, <1>11, <1>12 DEF Of, Package, Dependencies
    <3>2. WalkOf(u)
      BY <2>1
    <3>3. ASSUME SoFar(u), thr[u].pc = "list" PROVE SoFar(u)'
      <4>1. CASE u # t
        BY <1>4, <2>3, <3>1, <3>3, <4>1 DEF SoFar
      <4>2. CASE u = t
        <5>1. ASSUME NEW j \in 1..Len(Dependencies(t)), j < thr[t].k + 1
              PROVE  Taken(Dependencies(t)[j])'
          <6>1. Dependencies(t)'[j] = Dependencies(t)[j]
            BY <3>1, <4>2
          <6>2. CASE j = thr[t].k
            BY <2>4, <3>1, <4>2, <6>2, <6>1
          <6>3. CASE j # thr[t].k
            <7>1. j < thr[t].k
              BY <1>5, <1>8, <5>1, <6>3
            <7>2. Taken(Dependencies(t)[j])
              BY <3>3, <4>2, <7>1 DEF SoFar
            <7>3. QED
              BY <2>3, <3>1, <4>2, <7>2, <6>1
          <6>4. QED
            BY <6>2, <6>3
        <5>2. QED
          BY <1>4, <2>3, <3>1, <3>3, <4>2, <5>1 DEF SoFar
      <4>3. QED
        BY <4>1, <4>2
    <3>4. Gone(thr[u].dir) => Gone(thr[u].dir)'
      BY <1>4, <1>12 DEF Gone, IsMarked
    <3>5. CASE u # t
      BY <1>4, <1>12, <3>2, <3>3, <3>4, <3>5 DEF WalkOf
    <3>6. CASE u = t
      BY <1>4, <1>10, <1>11, <3>2, <3>3, <3>6 DEF WalkOf
    <3>7. QED
      BY <3>5, <3>6
  <2>8. WalkOf(c)'
    BY <1>9, <1>11 DEF WalkOf
  <2>9. ASSUME NEW d \in Dirs, Gone(d)', ~Served(Package(d))'
        PROVE  \E u \in DOMAIN thr' : thr'[u].pc = "list" /\ thr'[u].dir = d
    <3>1. Gone(d) /\ ~Served(Package(d))
      BY <2>2, <2>5, <2>9 DEF Package
    <3>2. PICK u \in DOMAIN thr : thr[u].pc = "list" /\ thr[u].dir = d
      BY <2>1, <3>1
    <3>3. QED
      BY <1>11, <1>12, <3>2
  <2>10. QED
    BY <1>4, <1>11, <2>1, <2>6, <2>7, <2>8, <2>9
<1>22. CompleteAtExit'
  BY <1>4 DEF CompleteAtExit, Running
<1>23. QED
  BY <1>13, <1>15, <1>16, <1>17, <1>18, <1>19, <1>20, <1>21, <1>22 DEF IInv

\* A thread could not be created: its package is lost, the slot is taken.
LEMMA ThreadFailsStep ==
    ASSUME IInv, exit = Running, NEW t \in DOMAIN thr, NEW list, ThreadFails(t, list)
    PROVE  IInv'
<1>0. TypeOK /\ TreeInv /\ MarkInv /\ PrefixInv /\ WalkInv
  BY DEF IInv
<1> PICK p : p = Dependencies(t)[thr[t].k]
  OBVIOUS
<1>1. PICK r : r = [thr[t] EXCEPT !.k = thr[t].k + 1, !.strays = thr[t].strays + 1, !.rc = EAGAIN]
  OBVIOUS
<1>2. /\ thr[t].pc = "list" /\ ~Ended(t) /\ thr' = [thr EXCEPT ![t] = r]
      /\ lost' = lost \cup {p}
      /\ UNCHANGED <<setup, built, root, env, cursor, cut, failed, exit>>
  BY <1>1 DEF ThreadFails, Listed
<1>3. thr[t] \in FrameType /\ thr[t].k \in Nat \ {0} /\ thr[t].strays \in Nat
  BY <1>0, FrameFacts DEF FrameType
<1>4. p \in Packages /\ thr[t].k \in 1..Len(Dependencies(t))
  <2>1. Dependencies(t) \in Seq(Packages) /\ Len(Dependencies(t)) \in Nat
    BY <1>0, ListFacts, LenProperties
  <2>2. thr[t].k \in 1..Len(Dependencies(t))
    BY <1>2, <1>3, <2>1 DEF Ended
  <2>3. QED
    BY <2>1, <2>2, ElementOfSeq
<1>5. /\ r \in FrameType /\ r.dir = thr[t].dir /\ r.spawned = thr[t].spawned
      /\ r.made = thr[t].made /\ r.batch = thr[t].batch /\ r.pc = "list" /\ r.m = thr[t].m
      /\ r.last = thr[t].last /\ r.list = thr[t].list /\ r.k = thr[t].k + 1
  <2>1. thr[t].k + 1 \in Nat \ {0} /\ thr[t].strays + 1 \in Nat /\ EAGAIN \in Nat
    BY <1>3 DEF EAGAIN
  <2>2. QED
    BY <1>1, <1>2, <1>3, <2>1 DEF FrameType
<1>6. Local(t, r)
  BY <1>0, <1>2, <1>4, <1>5 DEF Local, TypeOK, TreeInv
<1>7. Path(t) \in DOMAIN built' /\ (t # <<>> => Covered(thr[t].dir))
  BY <1>0, <1>2 DEF MarkInv, MarksOf
<1>8. t # <<>> => Covered(thr[t].dir)'
  <2>1. \A d : Covered(d)' <=> Covered(d)
    BY <1>2 DEF Covered, Has, IsMarked, OnDisk
  <2>2. thr'[t].dir = thr[t].dir
    BY <1>0, <1>6, LocalFacts
  <2>3. QED
    BY <1>7, <2>1, <2>2
<1>9. MarksOf(t)'
  BY <1>0, <1>2, <1>5, <1>6, <1>7, <1>8, MarksKept
<1>10. ~Inert(t)
  BY <1>2 DEF Inert
<1>11. PrefixInv'
  BY <1>0, <1>2, <1>5, <1>6, PrefixStays
<1>12. ~failed' => WalkOf(t)'
  <2> SUFFICES ASSUME ~failed PROVE WalkOf(t)'
    BY <1>2
  <2>1. thr'[t] = r /\ \A u \in DOMAIN thr : thr'[u].dir = thr[u].dir
    BY <1>0, <1>6, LocalFacts
  <2>2. \A q : Taken(q) => Taken(q)'
    BY <1>0, <1>2, <1>6, <2>1, LocalFacts DEF Taken, HasThread
  <2>3. Taken(p)'
    BY <1>2 DEF Taken
  <2>4. SoFar(t)
    BY <1>0, <1>2 DEF WalkInv, WalkOf
  <2>5. Of(t)' = Of(t) /\ Dependencies(t)' = Dependencies(t)
    BY <1>2, <1>5, <2>1 DEF Of, Package, Dependencies
  <2>6. ASSUME NEW j \in 1..Len(Dependencies(t)), j < thr[t].k + 1
        PROVE  Taken(Dependencies(t)[j])'
    <3>1. Dependencies(t)'[j] = Dependencies(t)[j]
      BY <2>5
    <3>2. CASE j = thr[t].k
      BY <2>3, <3>1, <3>2
    <3>3. CASE j # thr[t].k
      <4>1. j < thr[t].k
        BY <1>3, <2>6, <3>3
      <4>2. Taken(Dependencies(t)[j])
        BY <2>4, <4>1 DEF SoFar
      <4>3. QED
        BY <2>2, <3>1, <4>2
    <3>4. QED
      BY <3>2, <3>3
  <2>7. SoFar(t)'
    BY <1>2, <1>5, <2>1, <2>2, <2>4, <2>5, <2>6 DEF SoFar
  <2>8. lost' # {}
    BY <1>2
  <2>9. QED
    BY <1>5, <2>1, <2>7, <2>8 DEF WalkOf
<1>13. QED
  BY <1>2, <1>5, <1>6, <1>9, <1>10, <1>11, <1>12, LocalStep

\* Who has started no thread is above none.
LEMMA NoChild ==
    ASSUME TypeOK, TreeInv, NEW t \in DOMAIN thr, thr[t].spawned = 0,
           NEW u \in DOMAIN thr, NEW i \in 0..(Len(u) - 1)
    PROVE  Upto(u, i) \in DOMAIN thr /\ Upto(u, i) # t
<1>1. u \in Names /\ Len(u) \in Nat
  BY FrameFacts, PathFacts
<1>2. i + 1 \in 1..Len(u) /\ (i + 1) - 1 = i
  BY <1>1
<1>3. Upto(u, i) \in DOMAIN thr /\ u[i + 1] <= thr[Upto(u, i)].spawned /\ u[i + 1] # 0
  BY <1>2 DEF TreeInv
<1>4. u[i + 1] \in Nat
  BY <1>1, <1>2, ElementOfSeq DEF Names
<1>5. ~(u[i + 1] <= 0)
  BY <1>3, <1>4
<1>6. QED
  BY <1>3, <1>5

\* A thread left behind begins in the directory of another package.  It has
\* started no thread, and nobody waits for it.
LEMMA ElsewhereStep ==
    ASSUME IInv, exit = Running, NEW t \in DOMAIN thr, NEW p \in Packages,
           thr[t].pc = "start", t \in cut,
           thr' = [thr EXCEPT ![t] = Frame(Installed(p), "enter")],
           UNCHANGED <<setup, built, root, env, cursor, cut, failed, lost, exit>>
    PROVE  IInv'
<1>0. TypeOK /\ TreeInv /\ MarkInv /\ InertInv /\ JoinInv /\ MainInv /\ PrefixInv /\ WalkInv
  BY DEF IInv
<1>1. PICK f : f = Frame(Installed(p), "enter")
  OBVIOUS
<1>2. /\ f \in FrameType /\ f.dir = Installed(p) /\ f.dir[1] = "in" /\ f.pc = "enter" /\ f.m = 1
      /\ f.last = 2 /\ f.batch = {} /\ f.spawned = 0 /\ f.made = {} /\ f.rc = 0
      /\ f.list = "dependencies" /\ f.k = 1
  <2>1. /\ Installed(p) \in Dirs /\ Installed(p)[1] = "in" /\ "enter" \in Places /\ 1 \in 1..2
        /\ Len(Manifests) = 2 /\ 2 \in 1..2
        /\ "dependencies" \in {"dependencies", "development"} /\ 1 \in Nat \ {0}
        /\ {} \in SUBSET Names /\ 0 \in Nat /\ None \in Packages \cup {None} /\ {} \in SUBSET Paths
    BY DEF Installed, Dirs, Places, Manifests
  <2>2. f \in FrameType
    BY <1>1, <2>1 DEF Frame, FrameType
  <2>3. QED
    BY <1>1, <2>1, <2>2 DEF Frame
<1>3. /\ DOMAIN thr' = DOMAIN thr /\ thr'[t] = f
      /\ \A u \in DOMAIN thr : u # t => thr'[u] = thr[u]
  BY <1>1
<1>4. /\ t \in Names /\ Len(t) \in Nat /\ Upto(t, Len(t)) = t
      /\ thr[t].spawned = 0 /\ thr[t].batch = {}
  BY <1>0, FrameFacts, PathFacts DEF TreeInv
<1>5. ASSUME NEW u \in DOMAIN thr
      PROVE  /\ Len(u) \in Nat
             /\ \A i \in 0..(Len(u) - 1) : Upto(u, i) \in DOMAIN thr /\ Upto(u, i) # t
  BY <1>0, <1>4, NoChild, FrameFacts, PathFacts
<1>6. /\ \A d, m : Has(d, m)' <=> Has(d, m)
      /\ \A d, m : IsMarked(d, m)' <=> IsMarked(d, m)
      /\ \A d : Covered(d)' <=> Covered(d)
      /\ \A u : LeftBehind(u)' <=> LeftBehind(u)
      /\ \A u \in DOMAIN thr : u # t => Path(u)' = Path(u)
  BY <1>3 DEF Has, OnDisk, IsMarked, Covered, LeftBehind, Path
<1>7. t # <<>> /\ LeftBehind(t)
  <2>1. t # <<>>
    BY <1>0 DEF TreeInv
  <2>2. Len(t) \in 1..Len(t)
    BY <1>4, <2>1, EmptySeq DEF Names
  <2>3. QED
    BY <1>4, <2>1, <2>2 DEF LeftBehind, Upto
<1>8. TypeOK'
  BY <1>0, <1>2, <1>3 DEF TypeOK
<1>9. TreeInv'
  <2>1. IsFiniteSet(f.batch) /\ f.m <= f.last
    BY <1>2, FS_EmptySet
  <2>2. ASSUME NEW u \in DOMAIN thr, NEW i \in 1..Len(u)
        PROVE  /\ Upto(u, i - 1) \in DOMAIN thr' /\ u[i] <= thr'[Upto(u, i - 1)].spawned
               /\ u[i] # 0
    <3>1. i - 1 \in 0..(Len(u) - 1)
      BY <1>5
    <3>2. thr'[Upto(u, i - 1)] = thr[Upto(u, i - 1)]
      BY <1>3, <1>5, <3>1
    <3>3. QED
      BY <1>0, <1>3, <3>2 DEF TreeInv
  <2>3. ASSUME NEW u \in DOMAIN thr
        PROVE  /\ \A x \in thr'[u].batch : x \in DOMAIN thr' /\ Len(x) = Len(u) + 1 /\ Upto(x, Len(u)) = u
               /\ thr'[u].pc # "list" => thr'[u].batch = {}
               /\ thr'[u].pc \notin {"list", "done"} => thr'[u].list = "dependencies" /\ thr'[u].k = 1
               /\ u # <<>> => thr'[u].dir[1] = "in"
               /\ thr'[u].m <= thr'[u].last /\ IsFiniteSet(thr'[u].batch)
               /\ thr'[u].pc = "start" => u # <<>> /\ thr'[u].spawned = 0 /\ thr'[u].rc = 0
    <3>1. CASE u = t
      BY <1>2, <1>3, <2>1, <3>1
    <3>2. CASE u # t
      BY <1>0, <1>3, <3>2 DEF TreeInv
    <3>3. QED
      BY <3>1, <3>2
  <2>4. <<>> \in DOMAIN thr'
    BY <1>0, <1>3 DEF TreeInv
  <2>5. QED
    BY <1>3, <2>2, <2>3, <2>4 DEF TreeInv
<1>10. MarkInv'
  <2>1. ASSUME NEW u \in DOMAIN thr PROVE MarksOf(u)'
    <3>1. CASE u = t
      BY <1>2, <1>3, <3>1 DEF MarksOf
    <3>2. CASE u # t
      <4>1. MarksOf(u)
        BY <1>0 DEF MarkInv
      <4>2. QED
        BY <1>3, <1>6, <3>2, <4>1 DEF MarksOf
    <3>3. QED
      BY <3>1, <3>2
  <2>2. QED
    BY <1>3, <2>1 DEF MarkInv
<1>11. InertInv'
  <2>1. ASSUME NEW u \in DOMAIN thr, NEW i \in 1..(Len(u) - 1)
        PROVE  /\ Covered(thr[Upto(u, i)].dir)'
               /\ thr'[Upto(u, i)].dir = thr'[u].dir => Inert(u)'
    <3>1. i \in 0..(Len(u) - 1)
      BY <1>5
    <3>2. thr'[Upto(u, i)] = thr[Upto(u, i)]
      BY <1>3, <1>5, <3>1
    <3>3. Covered(thr[Upto(u, i)].dir)'
      BY <1>0, <1>6, <3>2 DEF InertInv
    <3>4. CASE u = t
      BY <1>2, <1>3, <3>3, <3>4 DEF Inert
    <3>5. CASE u # t
      <4>1. Inert(u)' <=> Inert(u)
        BY <1>3, <1>6, <3>5 DEF Inert
      <4>2. QED
        BY <1>0, <1>3, <3>2, <3>3, <3>5, <4>1 DEF InertInv
    <3>6. QED
      BY <3>4, <3>5
  <2>2. QED
    BY <1>3, <2>1 DEF InertInv
<1>12. JoinInv'
  <2>1. ASSUME NEW u \in DOMAIN thr, ~LeftBehind(u)', thr'[u].pc # "done", NEW i \in 0..(Len(u) - 1)
        PROVE  /\ thr'[Upto(u, i)].pc = "list"
               /\ Upto(u, i + 1) \in thr'[Upto(u, i)].batch
    <3>1. u # t /\ ~LeftBehind(u)
      BY <1>6, <1>7, <2>1
    <3>2. thr'[u] = thr[u] /\ thr'[Upto(u, i)] = thr[Upto(u, i)]
      BY <1>3, <1>5, <3>1
    <3>3. QED
      BY <1>0, <2>1, <3>1, <3>2 DEF JoinInv
  <2>2. QED
    BY <1>3, <2>1 DEF JoinInv
<1>13. MainInv'
  <2>1. ASSUME NEW u \in DOMAIN thr \ {<<>>}, ~LeftBehind(u)'
        PROVE  /\ thr'[<<>>].made \cap thr'[u].made = {}
               /\ AboutToMake(u)' => Path(u)' \notin thr'[<<>>].made
               /\ AboutToMake(<<>>)' => Path(<<>>)' \notin thr'[u].made
    <3>1. u # t /\ ~LeftBehind(u)
      BY <1>6, <1>7, <2>1
    <3>2. <<>> \in DOMAIN thr
      BY <1>0 DEF TreeInv
    <3>3. thr'[u] = thr[u] /\ thr'[<<>>] = thr[<<>>]
      BY <1>3, <1>7, <3>1, <3>2
    <3>4. /\ AboutToMake(u)' <=> AboutToMake(u)
          /\ AboutToMake(<<>>)' <=> AboutToMake(<<>>)
      BY <3>3 DEF AboutToMake
    <3>5. Path(u)' = Path(u) /\ Path(<<>>)' = Path(<<>>)
      BY <1>6, <1>7, <3>1, <3>2
    <3>6. QED
      BY <1>0, <3>1, <3>3, <3>4, <3>5 DEF MainInv
  <2>2. QED
    BY <1>3, <2>1 DEF MainInv
<1>14. PrefixInv'
  <2>1. RootPrefix' = RootPrefix
    BY DEF RootPrefix
  <2>2. ASSUME NEW u \in DOMAIN thr
        PROVE  /\ thr'[u].pc \in {"read", "prefix"} => (setup.here # {} => root = Cwd)
               /\ thr'[u].pc = "make" => (RootPrefix # None => env = RootPrefix)
               /\ thr'[u].pc = "making" => (RootPrefix # None => thr'[u].env = RootPrefix)
    <3>1. CASE u = t
      BY <1>2, <1>3, <3>1
    <3>2. CASE u # t
      BY <1>0, <1>3, <3>2 DEF PrefixInv
    <3>3. QED
      BY <3>1, <3>2
  <2>3. QED
    BY <1>0, <1>3, <2>1, <2>2 DEF PrefixInv
<1>15. WalkInv'
  <2>1. cut # {} /\ failed
    BY <1>0 DEF WalkInv
  <2>2. QED
    BY <2>1 DEF WalkInv
<1>16. CompleteAtExit'
  BY DEF CompleteAtExit, Running
<1>17. QED
  BY <1>8, <1>9, <1>10, <1>11, <1>12, <1>13, <1>14, <1>15, <1>16 DEF IInv

\* A word of the command line is a directory, or main makes one of it.
LEMMA WordFacts ==
    ASSUME NEW word \in Words
    PROVE  Directory(word) \in Dirs /\ (~IsFile(word) => word \in Dirs)
<1>1. Range(Manifests) = {"clib.json", "package.json"}
  <2>1. DOMAIN Manifests = {1, 2}
    BY DEF Manifests
  <2>2. Manifests[1] = "clib.json" /\ Manifests[2] = "package.json"
    BY DEF Manifests
  <2>3. QED
    BY <2>1, <2>2 DEF Range
<1>2. Cwd \in Packages
  BY ClibBuildAssumption
<1>3. CASE word = <<"dot", Cwd>>
  BY <1>1, <1>2, <1>3 DEF Directory, IsFile, Dirs
<1>4. CASE word \in {"in", "rel", "path", "slug", "gone"} \X Packages
  BY <1>1, <1>2, <1>4 DEF Directory, IsFile, Dirs, Installed, Package
<1>5. CASE word \in Range(Manifests) \X Packages
  BY <1>1, <1>2, <1>5 DEF Directory, IsFile, Dirs
<1>6. QED
  BY <1>3, <1>4, <1>5 DEF Words

LEMMA TargetFacts ==
    ASSUME setup \in Setups, NEW at, at.i \in Nat \ {0}, at.i <= Len(setup.args) \/ setup.args = <<>>,
           at.slug => ~OfFile(at)
    PROVE  /\ Target(at) \in Dirs /\ setup.args \in Seq(Words)
           /\ setup.args # <<>> /\ ~at.slug => Target(at) = Directory(setup.args[at.i])
           /\ setup.args = <<>> => Target(at) = <<"here", Cwd>>
<1>1. setup.args \in Seq(Words) /\ Cwd \in Packages
  BY ClibBuildAssumption
<1>2. CASE setup.args = <<>>
  BY <1>1, <1>2 DEF Target, Dirs
<1>3. CASE setup.args # <<>>
  <2>1. Len(setup.args) \in Nat
    BY <1>1, LenProperties
  <2>2. setup.args[at.i] \in Words
    BY <1>1, <1>3, <2>1, ElementOfSeq
  <2>3. Directory(setup.args[at.i]) \in Dirs /\ (at.slug => setup.args[at.i] \in Dirs)
    BY <1>3, <2>2, WordFacts DEF OfFile
  <2>4. QED
    BY <1>1, <1>3, <2>3 DEF Target
<1>4. QED
  BY <1>2, <1>3

\* main's frame on its target.
LEMMA MainFrameFacts ==
    ASSUME NEW at, Target(at) \in Dirs
    PROVE  LET r == MainFrame(at) IN
           /\ r \in FrameType /\ r.dir = Target(at) /\ r.pc = "enter" /\ r.m <= r.last
           /\ r.list = "dependencies" /\ r.k = 1 /\ r.batch = {} /\ r.strays = 0
           /\ r.spawned = 0 /\ r.made = {} /\ r.rc = 0 /\ r.env = None
<1>1. DOMAIN Manifests = {1, 2} /\ Manifests[1] = "clib.json" /\ Manifests[2] = "package.json"
  BY DEF Manifests
<1>2. PICK T : T = Tried(at)
  OBVIOUS
<1>3. T \subseteq {1, 2} /\ T # {}
  <2>1. CASE OfFile(at)
    <3>1. setup.args[at.i][1] \in Range(Manifests)
      BY <2>1 DEF OfFile, IsFile
    <3>2. PICK m \in {1, 2} : Manifests[m] = setup.args[at.i][1]
      BY <1>1, <3>1 DEF Range
    <3>3. QED
      BY <1>1, <1>2, <2>1, <3>2 DEF Tried
  <2>2. CASE ~OfFile(at)
    BY <1>1, <1>2, <2>2 DEF Tried
  <2>3. QED
    BY <2>1, <2>2
<1>4. PICK a : a = CHOOSE m \in T : \A n \in T : m <= n
  OBVIOUS
<1>5. PICK b : b = CHOOSE m \in T : \A n \in T : n <= m
  OBVIOUS
<1>6. T = {1} \/ T = {2} \/ T = {1, 2}
  BY <1>3
<1>7. a \in T /\ \A n \in T : a <= n
  <2>1. \E m \in T : \A n \in T : m <= n
    BY <1>6
  <2>2. QED
    BY <1>4, <2>1
<1>8. b \in T /\ \A n \in T : n <= b
  <2>1. \E m \in T : \A n \in T : n <= m
    BY <1>6
  <2>2. QED
    BY <1>5, <2>1
<1>9. a \in 1..2 /\ b \in 1..2 /\ a <= b
  BY <1>3, <1>7, <1>8
<1>10. PICK r : r = MainFrame(at)
  OBVIOUS
<1>11. r = [dir |-> Target(at), pc |-> "enter", m |-> a, last |-> b, list |-> "dependencies",
            k |-> 1, batch |-> {}, strays |-> 0, spawned |-> 0, env |-> None, made |-> {},
            rc |-> 0]
  BY <1>2, <1>4, <1>5, <1>10 DEF MainFrame, Frame
<1>12. /\ "enter" \in Places /\ "dependencies" \in {"dependencies", "development"}
       /\ 1 \in Nat \ {0} /\ {} \in SUBSET Names /\ 0 \in Nat /\ None \in Packages \cup {None}
       /\ {} \in SUBSET Paths
  BY DEF Places
<1>13. r \in FrameType
  BY <1>9, <1>11, <1>12 DEF FrameType
<1>14. /\ r.dir = Target(at) /\ r.pc = "enter" /\ r.m = a /\ r.last = b
       /\ r.list = "dependencies" /\ r.k = 1 /\ r.batch = {} /\ r.strays = 0
       /\ r.spawned = 0 /\ r.made = {} /\ r.rc = 0 /\ r.env = None
  BY <1>11
<1>15. QED
  BY <1>9, <1>10, <1>13, <1>14

\* main goes on: nothing it waits for still runs, and without a failure the
\* argument it leaves has been gone through.
LEMMA NextTargetStep ==
    ASSUME IInv, exit = Running, NextTarget
    PROVE  IInv'
<1>0. TypeOK /\ TreeInv /\ MarkInv /\ InertInv /\ JoinInv /\ MainInv /\ PrefixInv /\ WalkInv
  BY DEF IInv
<1>1. PICK at : at = IF Retries THEN [cursor EXCEPT !.slug = TRUE]
                     ELSE [i |-> cursor.i + 1, slug |-> FALSE]
  OBVIOUS
<1>31. PICK f : f = MainFrame(at)
  OBVIOUS
<1>2. PICK r : r = [f EXCEPT !.spawned = thr[<<>>].spawned, !.made = thr[<<>>].made]
  OBVIOUS
<1>3. /\ thr[<<>>].pc = "done" /\ at.i <= Len(setup.args) /\ cursor' = at
      /\ thr' = [thr EXCEPT ![<<>>] = r]
      /\ UNCHANGED <<setup, built, root, env, cut, failed, lost, exit>>
  BY <1>1, <1>31, <1>2 DEF NextTarget
<1>4. <<>> \in DOMAIN thr /\ thr[<<>>] \in FrameType
  BY <1>0, FrameFacts DEF TreeInv
<1>32. cursor \in [i : Nat \ {0}, slug : BOOLEAN] /\ cursor.i \in Nat \ {0}
  BY <1>0 DEF TypeOK
<1>5. at \in [i : Nat \ {0}, slug : BOOLEAN]
  <2>1. cursor.i + 1 \in Nat \ {0}
    BY <1>32
  <2>2. /\ [cursor EXCEPT !.slug = TRUE] \in [i : Nat \ {0}, slug : BOOLEAN]
        /\ [i |-> cursor.i + 1, slug |-> FALSE] \in [i : Nat \ {0}, slug : BOOLEAN]
    BY <1>32, <2>1
  <2>3. QED
    BY <1>1, <2>2
<1>33. at.slug => Retries /\ at.i = cursor.i /\ ~OfFile(at)
  <2>1. CASE Retries
    <3>1. at.i = cursor.i
      BY <1>1, <1>32, <2>1
    <3>2. ~OfFile(at)
      BY <2>1, <3>1 DEF Retries, OfFile
    <3>3. QED
      BY <2>1, <3>1, <3>2
  <2>2. CASE ~Retries
    BY <1>1, <2>2
  <2>3. QED
    BY <2>1, <2>2
<1>6. /\ Target(at) \in Dirs /\ setup.args \in Seq(Words)
  <2>1. at.i \in Nat \ {0} /\ setup \in Setups
    BY <1>0, <1>5 DEF TypeOK
  <2>2. QED
    BY <1>3, <1>33, <2>1, TargetFacts
<1>34. /\ f \in FrameType /\ f.dir = Target(at) /\ f.pc = "enter" /\ f.m <= f.last
       /\ f.list = "dependencies" /\ f.k = 1 /\ f.batch = {}
       /\ f.spawned = 0 /\ f.made = {} /\ f.rc = 0
  BY <1>6, <1>31, MainFrameFacts
<1>7. /\ r.dir = Target(at) /\ r.pc = "enter" /\ r.m <= r.last /\ r.list = "dependencies" /\ r.k = 1
      /\ r.batch = {} /\ r.spawned = thr[<<>>].spawned /\ r.made = thr[<<>>].made /\ r.rc = 0
      /\ r \in FrameType
  <2>1. thr[<<>>].spawned \in Nat /\ thr[<<>>].made \in SUBSET Paths
    BY <1>4 DEF FrameType
  <2>2. r \in FrameType
    BY <1>2, <1>34, <2>1 DEF FrameType
  <2>3. QED
    BY <1>2, <1>34, <2>2 DEF FrameType
<1>9. /\ DOMAIN thr' = DOMAIN thr /\ thr'[<<>>] = r
      /\ \A u \in DOMAIN thr : u # <<>> => thr'[u] = thr[u]
      /\ \A u \in DOMAIN thr : thr'[u].made = thr[u].made /\ thr'[u].spawned = thr[u].spawned
  BY <1>3, <1>4, <1>7
<1>10. /\ \A d, m : Has(d, m)' <=> Has(d, m)
       /\ \A d, m : IsMarked(d, m)' <=> IsMarked(d, m)
       /\ \A d : Covered(d)' <=> Covered(d)
       /\ \A u : LeftBehind(u)' <=> LeftBehind(u)
       /\ \A u \in DOMAIN thr : u # <<>> => Path(u)' = Path(u) /\ Of(u)' = Of(u)
  BY <1>3, <1>9 DEF Has, OnDisk, IsMarked, Covered, LeftBehind, Path, Of, Package
<1>11. TypeOK'
  BY <1>0, <1>3, <1>5, <1>7, <1>9 DEF TypeOK
<1>12. TreeInv'
  <2>0. IsFiniteSet(r.batch)
    BY <1>7, FS_EmptySet
  <2>1. ASSUME NEW u \in DOMAIN thr
        PROVE  /\ \A c \in thr'[u].batch : c \in DOMAIN thr' /\ Len(c) = Len(u) + 1 /\ Upto(c, Len(u)) = u
               /\ thr'[u].pc # "list" => thr'[u].batch = {}
               /\ thr'[u].pc \notin {"list", "done"} => thr'[u].list = "dependencies" /\ thr'[u].k = 1
               /\ u # <<>> => thr'[u].dir[1] = "in"
               /\ thr'[u].m <= thr'[u].last /\ IsFiniteSet(thr'[u].batch)
               /\ thr'[u].pc = "start" => u # <<>> /\ thr'[u].spawned = 0 /\ thr'[u].rc = 0
    <3>1. CASE u = <<>>
      BY <1>7, <1>9, <2>0, <3>1
    <3>2. CASE u # <<>>
      BY <1>0, <1>9, <3>2 DEF TreeInv
    <3>3. QED
      BY <3>1, <3>2
  <2>2. QED
    BY <1>0, <1>9, <2>1 DEF TreeInv
<1>13. MarkInv'
  <2>1. ASSUME NEW u \in DOMAIN thr PROVE MarksOf(u)'
    <3>1. MarksOf(u)
      BY <1>0 DEF MarkInv
    <3>2. CASE u = <<>>
      BY <1>3, <1>7, <1>9, <3>1, <3>2 DEF MarksOf
    <3>3. CASE u # <<>>
      BY <1>3, <1>9, <1>10, <3>1, <3>3 DEF MarksOf
    <3>4. QED
      BY <3>2, <3>3
  <2>2. QED
    BY <1>9, <2>1 DEF MarkInv
<1>14. ASSUME NEW u \in DOMAIN thr, u # <<>>
       PROVE  Len(u) \in Nat /\ u \in Names /\ \A i \in 1..(Len(u) - 1) : Upto(u, i) \in DOMAIN thr \ {<<>>}
  <2>1. u \in Names /\ Len(u) \in Nat /\ \A i \in 1..Len(u) : Upto(u, i) # <<>>
    BY <1>0, FrameFacts, PathFacts
  <2>2. ASSUME NEW i \in 1..(Len(u) - 1) PROVE Upto(u, i) \in DOMAIN thr
    <3>1. i + 1 \in 1..Len(u) /\ (i + 1) - 1 = i
      BY <2>1
    <3>2. QED
      BY <1>0, <3>1 DEF TreeInv
  <2>3. QED
    BY <2>1, <2>2
<1>15. InertInv'
  <2>1. ASSUME NEW u \in DOMAIN thr, NEW i \in 1..(Len(u) - 1)
        PROVE  /\ Covered(thr[Upto(u, i)].dir)'
               /\ thr'[Upto(u, i)].dir = thr'[u].dir => Inert(u)'
    <3>1. u # <<>>
      OBVIOUS
    <3>2. thr'[u] = thr[u] /\ thr'[Upto(u, i)] = thr[Upto(u, i)]
      BY <1>9, <1>14, <3>1
    <3>3. Inert(u)' <=> Inert(u)
      BY <1>10, <3>2 DEF Inert
    <3>4. QED
      BY <1>0, <1>10, <3>2, <3>3 DEF InertInv
  <2>2. QED
    BY <1>9, <2>1 DEF InertInv
<1>16. JoinInv'
  <2>1. ASSUME NEW u \in DOMAIN thr, ~LeftBehind(u)', thr'[u].pc # "done"
        PROVE  u = <<>>
    <3> SUFFICES ASSUME u # <<>> PROVE FALSE
      OBVIOUS
    <3>1. ~LeftBehind(u) /\ thr[u].pc # "done"
      BY <1>9, <1>10, <2>1
    <3>2. QED
      BY <1>0, <1>3, <3>1, MainWaits
  <2>2. QED
    BY <1>9, <2>1 DEF JoinInv
<1>17. MainInv'
  <2>1. ~AboutToMake(<<>>)'
    BY <1>7, <1>9 DEF AboutToMake
  <2>2. \A u \in DOMAIN thr : u # <<>> => (AboutToMake(u)' <=> AboutToMake(u))
    BY <1>9 DEF AboutToMake
  <2>3. QED
    BY <1>0, <1>4, <1>9, <1>10, <2>1, <2>2 DEF MainInv
<1>18. PrefixInv'
  <2>1. RootPrefix' = RootPrefix
    BY <1>3 DEF RootPrefix
  <2>2. QED
    BY <1>0, <1>3, <1>7, <1>9, <2>1 DEF PrefixInv
<1>19. WalkInv'
  <2> SUFFICES ASSUME ~failed
               PROVE  /\ cut' = {} /\ MainSoFar'
                      /\ \A u \in DOMAIN thr : WalkOf(u)'
                      /\ \A d \in Dirs : Gone(d)' =>
                           \/ Served(Package(d))'
                           \/ \E u \in DOMAIN thr : thr'[u].pc = "list" /\ thr'[u].dir = d
    BY <1>3, <1>9 DEF WalkInv
  <2>1. /\ cut = {} /\ MainSoFar /\ \A u \in DOMAIN thr : WalkOf(u)
        /\ \A d \in Dirs : Gone(d) =>
             \/ Served(Package(d))
             \/ \E u \in DOMAIN thr : thr[u].pc = "list" /\ thr[u].dir = d
    BY <1>0 DEF WalkInv
  <2>2. \A d : Gone(d)' <=> Gone(d)
    BY <1>3 DEF Gone, IsMarked
  <2>3. \A q \in Packages : Taken(q)' <=> Taken(q)
    BY <1>3, <1>9 DEF Taken, HasThread
  <2>31. \A q : Taken(q)' <=> Taken(q)
    BY <1>3, <1>9 DEF Taken, HasThread
  <2>4. \A q : Served(q)' <=> Served(q)
    BY <1>3, <2>31 DEF Served, Needs
  <2>5. ASSUME NEW u \in DOMAIN thr PROVE WalkOf(u)'
    <3>1. CASE u = <<>>
      <4>1. EAGAIN # 0
        BY DEF EAGAIN
      <4>2. QED
        BY <1>7, <1>9, <3>1, <4>1 DEF WalkOf
    <3>2. CASE u # <<>>
      <4>1. thr'[u] = thr[u] /\ Of(u)' = Of(u) /\ Dependencies(u)' = Dependencies(u)
        BY <1>3, <1>9, <1>10, <3>2 DEF Dependencies
      <4>2. SoFar(u) => SoFar(u)'
        BY <1>3, <2>31, <4>1 DEF SoFar
      <4>3. Gone(thr[u].dir) => Gone(thr[u].dir)'
        BY <1>3, <4>1 DEF Gone, IsMarked
      <4>4. QED
        BY <1>3, <2>1, <4>1, <4>2, <4>3 DEF WalkOf
    <3>3. QED
      BY <3>1, <3>2
  <2>6. Gone(thr[<<>>].dir) /\ thr[<<>>].dir = Target(cursor) /\ (lost = {} => thr[<<>>].rc = 0)
    BY <1>3, <1>4, <2>1 DEF WalkOf, MainSoFar
  <2>7. lost = {} => ~at.slug
    BY <1>33, <2>6 DEF Retries
  <2>8. ASSUME NEW j \in 1..Len(setup.args), j < at.i \/ (j = at.i /\ at.slug)
        PROVE  Gone(Directory(setup.args[j]))
    <3>1. CASE Behind(j)
      BY <2>1, <3>1 DEF MainSoFar
    <3>2. CASE ~Behind(j)
      <4>1. j = cursor.i /\ ~cursor.slug
        <5>1. CASE Retries
          <6>1. at.i = cursor.i /\ ~cursor.slug
            BY <1>1, <1>32, <5>1 DEF Retries
          <6>2. QED
            BY <1>32, <2>8, <3>2, <6>1 DEF Behind
        <5>2. CASE ~Retries
          <6>1. at.i = cursor.i + 1 /\ ~at.slug
            BY <1>1, <5>2
          <6>2. j < cursor.i + 1
            BY <2>8, <6>1
          <6>3. j = cursor.i
            BY <1>32, <3>2, <6>2 DEF Behind
          <6>4. cursor.slug \in BOOLEAN
            BY <1>32
          <6>5. QED
            BY <3>2, <6>3, <6>4 DEF Behind
        <5>3. QED
          BY <5>1, <5>2
      <4>2. setup.args # <<>>
        <5>1. Len(<<>>) = 0
          OBVIOUS
        <5>2. Len(setup.args) \in Nat
          BY <1>6, LenProperties
        <5>3. QED
          BY <5>1, <5>2
      <4>3. Target(cursor) = Directory(setup.args[j])
        BY <4>1, <4>2 DEF Target
      <4>4. QED
        BY <2>6, <4>3
    <3>3. QED
      BY <3>1, <3>2
  <2>9. MainSoFar'
    <3>1. Target(cursor)' = Target(at)
      BY <1>3 DEF Target
    <3>2. \A j \in 1..Len(setup.args) : Behind(j)' => Gone(Directory(setup.args[j]))
      BY <1>3, <2>8 DEF Behind
    <3>3. \A j \in 1..Len(setup.args) : Gone(Directory(setup.args[j])) => Gone(Directory(setup.args[j]))'
      BY <1>3 DEF Gone, IsMarked, Directory
    <3>4. QED
      BY <1>3, <1>7, <1>9, <2>7, <3>1, <3>2, <3>3 DEF MainSoFar
  <2>10. ASSUME NEW d \in Dirs, Gone(d)', ~Served(Package(d))'
         PROVE  \E u \in DOMAIN thr : thr'[u].pc = "list" /\ thr'[u].dir = d
    <3>1. Gone(d) /\ ~Served(Package(d))
      BY <2>2, <2>4, <2>10 DEF Package
    <3>2. PICK u \in DOMAIN thr : thr[u].pc = "list" /\ thr[u].dir = d
      BY <2>1, <3>1
    <3>3. u # <<>>
      BY <1>3, <3>2
    <3>4. QED
      BY <1>9, <3>2, <3>3
  <2>11. QED
    BY <1>3, <2>1, <2>5, <2>9, <2>10
<1>20. CompleteAtExit'
  BY <1>3 DEF CompleteAtExit, Running
<1>21. QED
  BY <1>11, <1>12, <1>13, <1>15, <1>16, <1>17, <1>18, <1>19, <1>20 DEF IInv

\* A step that ends the process.
LEMMA StillStep ==
    ASSUME IInv, UNCHANGED <<setup, built, root, env, thr, cursor, cut, lost>>,
           failed' \in {failed, TRUE}, CompleteAtExit'
    PROVE  IInv'
<1>0. TypeOK /\ TreeInv /\ MarkInv /\ InertInv /\ JoinInv /\ MainInv /\ PrefixInv /\ WalkInv
  BY DEF IInv
<1>1. TypeOK' /\ TreeInv'
  <2>1. TypeOK'
    BY <1>0 DEF TypeOK
  <2>2. TreeInv'
    BY <1>0 DEF TreeInv
  <2>3. QED
    BY <2>1, <2>2
<1>2. MarkInv' /\ InertInv'
  BY <1>0 DEF MarkInv, MarksOf, InertInv, Inert, Covered, Has, IsMarked, OnDisk, Path
<1>3. JoinInv' /\ MainInv'
  BY <1>0 DEF JoinInv, MainInv, LeftBehind, AboutToMake, Path
<1>4. PrefixInv'
  BY <1>0 DEF PrefixInv, RootPrefix
<1>5. WalkInv'
  <2>1. /\ \A d : Gone(d)' <=> Gone(d)
        /\ \A p : Taken(p)' <=> Taken(p)
        /\ \A p : Served(p)' <=> Served(p)
    BY DEF Gone, IsMarked, Served, Taken, HasThread, Needs
  <2>2. MainSoFar' <=> MainSoFar
    BY DEF MainSoFar, Target, Behind, Gone, IsMarked, Directory
  <2>3. ASSUME NEW t \in DOMAIN thr PROVE WalkOf(t)' <=> WalkOf(t)
    <3>1. Of(t)' = Of(t) /\ Dependencies(t)' = Dependencies(t)
      BY DEF Of, Package, Dependencies
    <3>2. SoFar(t)' <=> SoFar(t)
      BY <2>1, <3>1 DEF SoFar
    <3>3. Gone(thr[t].dir)' <=> Gone(thr[t].dir)
      BY DEF Gone, IsMarked
    <3>4. QED
      BY <3>1, <3>2, <3>3 DEF WalkOf
  <2>4. \A d : Served(Package(d))' <=> Served(Package(d))
    BY <2>1 DEF Package
  <2>5. QED
    BY <1>0, <2>1, <2>2, <2>3, <2>4 DEF WalkInv
<1>6. QED
  BY <1>1, <1>2, <1>3, <1>4, <1>5 DEF IInv

\* When main has ended without a failure, a directory gone through has its
\* dependencies gone through, those left out that got no thread.
LEMMA ExitStep ==
    ASSUME IInv, exit = Running, Exit
    PROVE  IInv'
<1>0. TypeOK /\ TreeInv /\ JoinInv /\ WalkInv
  BY DEF IInv
<1>1. /\ thr[<<>>].pc = "done" /\ cursor.i >= Len(setup.args)
      /\ UNCHANGED <<setup, built, root, env, thr, cursor, cut, failed, lost>>
      /\ exit'.rc = thr[<<>>].rc
  BY DEF Exit
<1>2. ASSUME ~failed
      PROVE  /\ thr[<<>>].rc = 0 \/ lost # {}
             /\ \A t \in DOMAIN thr : thr[t].pc = "done"
             /\ \A d \in Named : GoneThrough(d)
             /\ \A p \in Wanted : GoneThrough(Installed(p))
  <2>1. /\ cut = {} /\ MainSoFar /\ \A t \in DOMAIN thr : WalkOf(t)
        /\ \A d \in Dirs : Gone(d) =>
             \/ Served(Package(d))
             \/ \E t \in DOMAIN thr : thr[t].pc = "list" /\ thr[t].dir = d
    BY <1>0, <1>2 DEF WalkInv
  <2>2. <<>> \in DOMAIN thr /\ (lost = {} => thr[<<>>].rc = 0)
    BY <1>0, <1>1, <2>1 DEF TreeInv, WalkOf
  <2>3. ASSUME NEW t \in DOMAIN thr PROVE thr[t].pc = "done"
    <3>1. ~LeftBehind(t)
      BY <2>1 DEF LeftBehind
    <3>2. QED
      BY <1>0, <1>1, <3>1, MainWaits
  <2>4. \A t \in DOMAIN thr : Gone(thr[t].dir)
    BY <2>1, <2>3 DEF WalkOf
  <2>5. \A d \in Dirs : Gone(d) => Served(Package(d))
    BY <2>1, <2>3
  <2> DEFINE S == {p \in Packages : Gone(Installed(p))}
  <2>6. Named \subseteq Dirs /\ \A d \in Named : Gone(d)
    <3>1. cursor.i \in Nat \ {0} /\ thr[<<>>].dir = Target(cursor) /\ cursor.slug \in BOOLEAN
      BY <1>0, <2>1 DEF TypeOK, MainSoFar
    <3>2. setup.args \in Seq(Words) /\ Cwd \in Packages
      BY <1>0, ClibBuildAssumption DEF TypeOK
    <3>3. CASE setup.args = <<>>
      <4>1. thr[<<>>].dir = <<"here", Cwd>>
        BY <3>1, <3>3 DEF Target
      <4>2. <<"here", Cwd>> \in Dirs
        BY <3>2 DEF Dirs
      <4>3. QED
        BY <2>2, <2>4, <3>3, <4>1, <4>2 DEF Named
    <3>4. CASE setup.args # <<>>
      <4>1. Len(setup.args) \in Nat /\ DOMAIN setup.args = 1..Len(setup.args)
        BY <3>2, LenProperties
      <4>2. ASSUME NEW j \in 1..Len(setup.args)
            PROVE  Directory(setup.args[j]) \in Dirs /\ Gone(Directory(setup.args[j]))
        <5>1. Directory(setup.args[j]) \in Dirs
          BY <3>2, ElementOfSeq, WordFacts
        <5>2. CASE Behind(j)
          BY <2>1, <5>1, <5>2 DEF MainSoFar
        <5>3. CASE ~Behind(j)
          <6>1. j = cursor.i
            BY <1>1, <3>1, <4>1, <5>3 DEF Behind
          <6>2. ~cursor.slug
            BY <5>3, <6>1 DEF Behind
          <6>3. Target(cursor) = Directory(setup.args[j])
            BY <3>4, <6>1, <6>2 DEF Target
          <6>4. QED
            BY <2>2, <2>4, <3>1, <5>1, <6>3
        <5>4. QED
          BY <5>2, <5>3
      <4>3. Named = {Directory(setup.args[j]) : j \in 1..Len(setup.args)}
        BY <3>4, <4>1 DEF Named
      <4>4. QED
        BY <4>2, <4>3
    <3>5. QED
      BY <3>3, <3>4
  <2>7. \A q \in S \cup {Package(d) : d \in Named} : Needs(q) \ lost \subseteq S
    <3> SUFFICES ASSUME NEW q \in S \cup {Package(d) : d \in Named}, NEW x \in Needs(q), x \notin lost
                 PROVE  x \in S
      OBVIOUS
    <3>1. PICK d \in Dirs : Gone(d) /\ Package(d) = q
      <4>1. CASE q \in S
        <5>1. Installed(q) \in Dirs /\ Package(Installed(q)) = q /\ Gone(Installed(q))
          BY <4>1 DEF Installed, Package, Dirs
        <5>2. QED
          BY <5>1
      <4>2. CASE q \in {Package(d) : d \in Named}
        BY <2>6, <4>2
      <4>3. QED
        BY <4>1, <4>2
    <3>2. Taken(x)
      BY <2>5, <3>1 DEF Served
    <3>3. PICK c \in DOMAIN thr : thr[c].dir = Installed(x)
      BY <3>2 DEF Taken, HasThread
    <3>4. Gone(Installed(x)) /\ Installed(x) \in Dirs
      BY <1>0, <2>4, <3>3, FrameFacts
    <3>5. x \in Packages
      BY <3>4 DEF Installed, Dirs
    <3>6. QED
      BY <3>4, <3>5
  <2>8. \A d : Gone(d) => GoneThrough(d)
    <3> SUFFICES ASSUME NEW d, Gone(d) PROVE GoneThrough(d)
      OBVIOUS
    <3>1. PICK m \in 1..2 : <<d, Manifests[m]>> \in DOMAIN built
      BY DEF Gone, IsMarked
    <3>2. Manifests[m] \in Range(Manifests)
      BY DEF Manifests, Range
    <3>3. QED
      BY <3>1, <3>2 DEF GoneThrough
  <2>9. ASSUME NEW p \in Wanted PROVE GoneThrough(Installed(p))
    <3>1. S \in SUBSET Packages
      OBVIOUS
    <3>2. p \in S
      BY <2>7, <3>1 DEF Wanted
    <3>3. QED
      BY <2>8, <3>2
  <2>10. QED
    BY <2>2, <2>3, <2>6, <2>8, <2>9
<1>3. CompleteAtExit'
  <2>1. Wanted' = Wanted /\ Named' = Named
    BY <1>1 DEF Wanted, Named, Needs, Directory, Package
  <2>2. \A d : GoneThrough(d)' <=> GoneThrough(d)
    BY <1>1 DEF GoneThrough
  <2>3. QED
    BY <1>1, <1>2, <2>1, <2>2 DEF CompleteAtExit, Installed
<1>4. QED
  BY <1>1, <1>3, StillStep

LEMMA CrashStep ==
    ASSUME IInv, UNCHANGED <<setup, built, root, env, thr, cursor, cut, lost>>,
           failed' \in {failed, TRUE}, exit' \in {Crashed, Undefined}
    PROVE  IInv'
<1>1. exit'.how # "returned"
  BY DEF Crashed, Undefined, Running
<1>2. CompleteAtExit'
  BY <1>1 DEF CompleteAtExit
<1>3. QED
  BY <1>2, StillStep, Zenon

-----------------------------------------------------------------------------
LEMMA InitHolds == Init => IInv
<1> SUFFICES ASSUME NEW s \in Setups, Started(s) PROVE IInv
  BY DEF Init, BuildInit, ConfigureInit
<1>1. PICK at : at = [i |-> 1, slug |-> FALSE]
  OBVIOUS
<1>2. PICK r : r = MainFrame(at)
  OBVIOUS
<1>3. /\ setup = s /\ built = <<>> /\ root = None /\ env = setup.optPrefix /\ cursor = at
      /\ thr = [t \in {<<>>} |-> r] /\ cut = {} /\ failed = FALSE /\ lost = {} /\ exit = Running
  BY <1>1, <1>2 DEF Started
<1>4. DOMAIN thr = {<<>>} /\ thr[<<>>] = r /\ DOMAIN built = {}
  BY <1>3
<1>5. setup \in Setups /\ setup.args \in Seq(Words) /\ setup.optPrefix \in Packages \cup {None}
  BY <1>3, ClibBuildAssumption
<1>6. at.i = 1 /\ at.slug = FALSE /\ at \in [i : Nat \ {0}, slug : BOOLEAN]
  BY <1>1
<1>7. setup.args = <<>> \/ at.i <= Len(setup.args)
  <2>1. Len(setup.args) \in Nat
    BY <1>5, LenProperties
  <2>2. Len(setup.args) = 0 => setup.args = <<>>
    BY <1>5, EmptySeq
  <2>3. QED
    BY <1>6, <2>1, <2>2
<1>8. Target(at) \in Dirs
  BY <1>5, <1>6, <1>7, TargetFacts
<1>9. /\ r.dir = Target(at) /\ r.pc = "enter" /\ r.m <= r.last /\ r.list = "dependencies" /\ r.k = 1
      /\ r.batch = {} /\ r.spawned = 0 /\ r.made = {} /\ r.rc = 0 /\ r \in FrameType
  BY <1>2, <1>8, MainFrameFacts
<1>10. <<>> \in Names /\ Len(<<>>) = 0 /\ IsFiniteSet({})
  BY EmptySeq, FS_EmptySet DEF Names
<1>11. TypeOK
  BY <1>3, <1>4, <1>5, <1>6, <1>9, <1>10 DEF TypeOK
<1>12. TreeInv /\ MarkInv /\ InertInv /\ JoinInv /\ MainInv
  <2>1. TreeInv
    <3>1. IsFiniteSet(r.batch)
      BY <1>9, <1>10
    <3>2. /\ \A i \in 1..Len(<<>>) : FALSE
          /\ \A c \in r.batch : FALSE
      BY <1>9, <1>10
    <3>3. QED
      BY <1>4, <1>9, <3>1, <3>2 DEF TreeInv
  <2>2. QED
    BY <2>1, <1>4, <1>9, <1>10 DEF MarkInv, MarksOf, InertInv, JoinInv, MainInv
<1>13. PrefixInv
  BY <1>3, <1>4, <1>9, ClibBuildAssumption DEF PrefixInv
<1>14. WalkInv
  <2>1. MainSoFar
    <3>1. \A j \in 1..Len(setup.args) : ~Behind(j)
      BY <1>3, <1>6 DEF Behind
    <3>2. QED
      BY <1>3, <1>4, <1>6, <1>9, <3>1 DEF MainSoFar
  <2>2. \A d : ~Gone(d)
    BY <1>4 DEF Gone, IsMarked
  <2>3. WalkOf(<<>>)
    <3>1. EAGAIN # 0
      BY DEF EAGAIN
    <3>2. QED
      BY <1>4, <1>9, <3>1 DEF WalkOf
  <2>4. QED
    BY <1>3, <1>4, <2>1, <2>2, <2>3 DEF WalkInv
<1>15. CompleteAtExit
  BY <1>3 DEF CompleteAtExit, Running
<1>16. QED
  BY <1>11, <1>12, <1>13, <1>14, <1>15 DEF IInv

LEMMA Inductive == IInv /\ [Next]_vars => IInv'
<1> SUFFICES ASSUME IInv, [Next]_vars PROVE IInv'
  OBVIOUS
<1>1. CASE UNCHANGED vars
  <2>1. CompleteAtExit'
    <3>1. CompleteAtExit
      BY DEF IInv
    <3>2. Wanted' = Wanted /\ Named' = Named
      BY <1>1 DEF vars, Wanted, Named, Needs, Directory, Package
    <3>3. \A d : GoneThrough(d)' <=> GoneThrough(d)
      BY <1>1 DEF vars, GoneThrough
    <3>4. QED
      BY <1>1, <3>1, <3>2, <3>3 DEF vars, CompleteAtExit, Installed
  <2>2. QED
    BY <1>1, <2>1, StillStep DEF vars
<1>2. ASSUME exit = Running, NEW t \in DOMAIN thr, BuildStep(t)
      PROVE  IInv'
  <2>1. CASE Begin(t)
    <3>1. CASE ~BeginElsewhere(t)
      BY <1>2, <2>1, <3>1, BeginStep
    <3>2. CASE BeginElsewhere(t) /\ exit' = Crashed /\ thr' = thr
      BY <3>2, CrashStep DEF BeginElsewhere
    <3>3. CASE BeginElsewhere(t) /\ ~(exit' = Crashed /\ thr' = thr)
      <4>1. PICK p \in Packages : thr' = [thr EXCEPT ![t] = Frame(Installed(p), "enter")]
        BY <3>3 DEF BeginElsewhere
      <4>2. /\ thr[t].pc = "start" /\ t \in cut
            /\ UNCHANGED <<setup, built, root, env, cursor, cut, failed, lost, exit>>
        BY <3>3 DEF BeginElsewhere
      <4>3. QED
        BY <1>2, <4>1, <4>2, ElsewhereStep
    <3>4. QED
      BY <3>1, <3>2, <3>3
  <2>2. CASE Enter(t)
    BY <1>2, <2>2, EnterStep
  <2>3. CASE Read(t)
    <3>1. Chosen(Of(t)) \in {"prefix", "skip", "flags"} /\ Load(t, Chosen(Of(t)))
      BY <2>3 DEF Chosen, Read
    <3>2. QED
      BY <1>2, <3>1, LoadStep
  <2>4. CASE SetPrefix(t)
    BY <1>2, <2>4, SetPrefixStep
  <2>5. CASE Make(t)
    BY <1>2, <2>5, MakeStep
  <2>6. CASE Made(t)
    <3>1. thr[t].pc \in {"making", "skip", "flags"} /\ Mark(t, "t")
      BY <2>6 DEF Made
    <3>2. QED
      BY <1>2, <3>1, MarkStep
  <2>7. CASE Skip(t)
    <3>1. thr[t].pc \in {"making", "skip", "flags"} /\ Mark(t, "f")
      BY <2>7 DEF Skip
    <3>2. QED
      BY <1>2, <3>1, MarkStep
  <2>8. CASE StartDependency(t)
    BY <1>2, <2>8, StartStep, ThreadFailsStep DEF StartDependency
  <2>9. CASE LeaveDependencies(t)
    BY <1>2, <2>9, LeaveStep
  <2>10. CASE StartDevelopment(t)
    BY <1>2, <2>10, StartStep, ThreadFailsStep DEF StartDevelopment
  <2>11. CASE CrashInDevelopment(t)
    BY <2>11, CrashStep DEF CrashInDevelopment
  <2>12. CASE Join(t)
    BY <1>2, <2>12, JoinStep
  <2>13. CASE EndList(t)
    BY <1>2, <2>13, EndListStep
  <2>14. CASE CrashOnPath(t)
    BY <2>14, CrashStep DEF CrashOnPath
  <2>15. CASE JoinStray(t)
    BY <2>15, CrashStep DEF JoinStray
  <2>16. QED
    BY <1>2, <2>1, <2>2, <2>3, <2>4, <2>5, <2>6, <2>7, <2>8, <2>9, <2>10, <2>11, <2>12, <2>13,
       <2>14, <2>15
       DEF BuildStep
<1>3. ASSUME exit = Running, NEW t \in DOMAIN thr, ConfigureStep(t)
      PROVE  IInv'
  <2>1. CASE ConfigureRead(t)
    <3>1. /\ Configured(Of(t)) \in {"prefix", "skip", "flags"}
          /\ Load(t, Configured(Of(t)))
      BY <2>1 DEF Configured, Chosen, ConfigureRead
    <3>2. QED
      BY <1>3, <3>1, LoadStep
  <2>2. CASE PrintFlags(t)
    <3>1. thr[t].pc \in {"making", "skip", "flags"} /\ Mark(t, "t")
      BY <2>2 DEF PrintFlags
    <3>2. QED
      BY <1>3, <3>1, MarkStep
  <2>3. CASE CrashOnUnknown(t)
    BY <2>3, CrashStep DEF CrashOnUnknown
  <2>4. CASE \/ ConfigureBegin(t) \/ ConfigureEnter(t) \/ ConfigurePrefix(t) \/ Configure(t)
             \/ ConfigureDone(t) \/ ConfigureDependency(t) \/ ConfigureDevelopment(t)
             \/ ConfigureJoin(t) \/ ConfigureListEnd(t)
    <3>1. BuildStep(t)
      BY <2>4 DEF BuildStep, ConfigureBegin, ConfigureEnter, ConfigurePrefix, Configure,
                  ConfigureDone, ConfigureDependency, ConfigureDevelopment, ConfigureJoin,
                  ConfigureListEnd
    <3>2. QED
      BY <1>2, <1>3, <3>1
  <2>5. QED
    BY <1>3, <2>1, <2>2, <2>3, <2>4 DEF ConfigureStep
<1>4. CASE exit = Running /\ NextTarget
  BY <1>4, NextTargetStep
<1>5. CASE exit = Running /\ Exit
  BY <1>5, ExitStep
<1>6. QED
  BY <1>1, <1>2, <1>3, <1>4, <1>5
     DEF Next, BuildNext, ConfigureNext, ConfigureTarget, ConfigureExit

LEMMA Safe == Spec => []IInv
<1>1. QED
  BY InitHolds, Inductive, PTL DEF Spec

-----------------------------------------------------------------------------
\* The variables keep their types: no path, thread or list is out of range
\* (clib-build.c:91-396, 746-805).
THEOREM TypeCorrect == Spec => []TypeOK
<1>1. IInv => TypeOK
  BY DEF IInv
<1>2. QED
  BY <1>1, Safe, PTL

\* A build that returns and gave up on nothing went through every directory
\* named and left no thread.  It went through all they need, but for what only a
\* package needs whose thread could not be created: without such a one the
\* result is 0, with one it may be (clib-build.c:185-190, 326-396, 425-442,
\* 746-805).
THEOREM Complete == Spec => []CompleteAtExit
<1>1. IInv => CompleteAtExit
  BY DEF IInv
<1>2. QED
  BY <1>1, Safe, PTL

\* A make runs with the prefix of the root package or of the command line
\* (clib-build.c:244-262).
THEOREM OnePrefix == Spec => []PrefixOfRoot
<1>1. IInv => PrefixOfRoot
  BY DEF IInv, PrefixInv, RootPrefix, PrefixOfRoot
<1>2. QED
  BY <1>1, Safe, PTL

\* A thread does not make what a thread above it made (clib-build.c:185,
\* 302-316, 364-391, 746-805).
THEOREM CyclesEnd == Spec => []NeverMakesItsAncestor
<1>1. ASSUME IInv PROVE NeverMakesItsAncestor
  <2>0. TypeOK /\ TreeInv /\ MarkInv /\ InertInv /\ MainInv
    BY <1>1 DEF IInv
  <2> SUFFICES ASSUME NEW s \in DOMAIN thr, NEW t \in DOMAIN thr, Above(s, t),
                      s = <<>> => ~LeftBehind(t)
               PROVE  thr[s].made \cap thr[t].made = {}
    BY DEF NeverMakesItsAncestor
  <2>1. s \in Names /\ t \in Names /\ Len(s) \in Nat /\ Len(t) \in Nat /\ Upto(s, Len(s)) = s
        /\ Upto(t, Len(t)) = t
    BY <2>0, FrameFacts, PathFacts
  <2>2. s # t /\ Len(s) <= Len(t) /\ Upto(t, Len(s)) = Upto(s, Len(s))
    BY DEF Above, IsPrefix, Upto
  <2>3. CASE s = <<>>
    BY <2>0, <2>2, <2>3 DEF MainInv
  <2>4. CASE s # <<>>
    <3>1. Len(s) # 0 /\ Len(s) # Len(t)
      BY <2>1, <2>2, <2>4, EmptySeq DEF Names
    <3>2. Len(s) \in 1..(Len(t) - 1) /\ t # <<>>
      BY <2>1, <2>2, <3>1
    <3>3. thr[s].dir = thr[t].dir => thr[t].made = {}
      BY <2>0, <2>1, <2>2, <3>2 DEF InertInv, Inert
    <3>4. /\ \A p \in thr[s].made : p[1] = thr[s].dir
          /\ \A p \in thr[t].made : p[1] = thr[t].dir
      BY <2>0, <2>4, <3>2 DEF MarkInv, MarksOf
    <3>5. QED
      BY <3>3, <3>4
  <2>5. QED
    BY <2>3, <2>4
<1>2. QED
  BY <1>1, Safe, PTL

-----------------------------------------------------------------------------
(* How far the threads go, and that one of them can go on *)

\* A thread on the directory of a thread above it starts no other one, and
\* with that no chain of starts is longer than there are packages, plus one.
RepeatInv ==
  \A t \in DOMAIN thr : \A i \in 1..(Len(t) - 1) :
    thr[Upto(t, i)].dir = thr[t].dir => thr[t].spawned = 0

\* The batches are no larger than allowed, and the chains have an end.
BatchInv ==
  /\ \A t \in DOMAIN thr : Slots(t) <= Concurrency
  /\ \E n \in Nat : \A t \in DOMAIN thr : Len(t) <= n

Growth == IInv /\ RepeatInv /\ BatchInv

\* A step that starts no thread and does not go to another target.
Steady ==
  /\ DOMAIN thr' = DOMAIN thr
  /\ \A u \in DOMAIN thr : /\ thr'[u].dir = thr[u].dir /\ thr'[u].spawned = thr[u].spawned
                           /\ Slots(u)' = Slots(u) \/ Slots(u)' <= Concurrency

LEMMA SteadyFrame ==
    ASSUME NEW t \in DOMAIN thr, NEW r, thr' = [thr EXCEPT ![t] = r],
           r.dir = thr[t].dir, r.spawned = thr[t].spawned,
           \/ r.batch = thr[t].batch /\ r.strays = thr[t].strays
           \/ r.batch = {} /\ r.strays = 0
           \/ Cardinality(r.batch) + r.strays <= Concurrency
    PROVE  Steady
<1>1. DOMAIN thr' = DOMAIN thr /\ thr'[t] = r /\ \A u \in DOMAIN thr : u # t => thr'[u] = thr[u]
  OBVIOUS
<1>2. Cardinality({}) + 0 <= Concurrency
  BY FS_EmptySet, ClibBuildAssumption
<1>3. Slots(t)' = Cardinality(r.batch) + r.strays
  BY <1>1 DEF Slots
<1>4. Slots(t)' = Slots(t) \/ Slots(t)' <= Concurrency
  <2>1. CASE r.batch = thr[t].batch /\ r.strays = thr[t].strays
    BY <1>3, <2>1 DEF Slots
  <2>2. CASE r.batch = {} /\ r.strays = 0
    BY <1>2, <1>3, <2>2
  <2>3. CASE Cardinality(r.batch) + r.strays <= Concurrency
    BY <1>3, <2>3
  <2>4. QED
    BY <2>1, <2>2, <2>3
<1>5. \A u \in DOMAIN thr : u # t => Slots(u)' = Slots(u)
  BY <1>1 DEF Slots
<1>6. QED
  BY <1>1, <1>4, <1>5 DEF Steady

LEMMA SteadyReturn ==
    ASSUME TypeOK, NEW t \in DOMAIN thr, NEW code \in Nat,
           thr' = [thr EXCEPT ![t] = Returned(thr[t], code)]
    PROVE  Steady
<1>1. thr[t] \in FrameType
  BY FrameFacts
<1>2. PICK r : r = Returned(thr[t], code)
  OBVIOUS
<1>3. r.dir = thr[t].dir /\ r.spawned = thr[t].spawned /\ r.batch = {} /\ r.strays = 0
  BY <1>1, <1>2, ReturnedFacts
<1>4. QED
  BY <1>2, <1>3, SteadyFrame

LEMMA SteadyStill == thr' = thr => Steady
<1>1. QED
  BY DEF Steady, Slots

\* The steps of a thread that start none.
LEMMA SteadyEnter ==
    ASSUME TypeOK, NEW t \in DOMAIN thr, Enter(t)
    PROVE  Steady
<1>1. CASE Seen(t)
  BY <1>1, SteadyReturn DEF Enter
<1>2. CASE ~Seen(t)
  <2>1. PICK r : r = [thr[t] EXCEPT !.pc = "read"]
    OBVIOUS
  <2>2. thr' = [thr EXCEPT ![t] = r]
    BY <1>2, <2>1 DEF Enter
  <2>3. r.dir = thr[t].dir /\ r.spawned = thr[t].spawned /\ r.batch = thr[t].batch
         /\ r.strays = thr[t].strays
    BY <2>1, FrameFacts DEF FrameType
  <2>4. QED
    BY <2>2, <2>3, SteadyFrame
<1>3. QED
  BY <1>1, <1>2

LEMMA SteadyLoad ==
    ASSUME TypeOK, NEW t \in DOMAIN thr, NEW next, Load(t, next)
    PROVE  Steady
<1>1. CASE thr' = [thr EXCEPT ![t] = Returned(thr[t], ENOMEM)]
  <2>1. ENOMEM \in Nat
    BY DEF ENOMEM
  <2>2. QED
    BY <1>1, <2>1, SteadyReturn
<1>2. CASE thr' = [thr EXCEPT ![t].pc = next]
  <2>1. PICK r : r = [thr[t] EXCEPT !.pc = next]
    OBVIOUS
  <2>2. thr' = [thr EXCEPT ![t] = r]
    BY <1>2, <2>1
  <2>3. r.dir = thr[t].dir /\ r.spawned = thr[t].spawned /\ r.batch = thr[t].batch
         /\ r.strays = thr[t].strays
    BY <2>1, FrameFacts DEF FrameType
  <2>4. QED
    BY <2>2, <2>3, SteadyFrame
<1>3. QED
  BY <1>1, <1>2 DEF Load

LEMMA SteadyWork ==
    ASSUME TypeOK, NEW t \in DOMAIN thr,
           \/ Begin(t) /\ ~BeginElsewhere(t)
           \/ SetPrefix(t) \/ Make(t) \/ (\E how : Mark(t, how)) \/ Join(t)
    PROVE  Steady
<1>2. CASE \E to : thr' = [thr EXCEPT ![t].pc = to]
  <2>1. PICK to : thr' = [thr EXCEPT ![t].pc = to]
    BY <1>2
  <2>2. PICK r : r = [thr[t] EXCEPT !.pc = to]
    OBVIOUS
  <2>3. thr' = [thr EXCEPT ![t] = r]
    BY <2>1, <2>2
  <2>4. r.dir = thr[t].dir /\ r.spawned = thr[t].spawned /\ r.batch = thr[t].batch
         /\ r.strays = thr[t].strays
    BY <2>2, FrameFacts DEF FrameType
  <2>5. QED
    BY <2>3, <2>4, SteadyFrame
<1>3. CASE Make(t)
  <2>1. PICK r : r = [thr[t] EXCEPT !.pc = "making", !.env = env, !.made = thr[t].made \cup {Path(t)}]
    OBVIOUS
  <2>2. thr' = [thr EXCEPT ![t] = r]
    BY <1>3, <2>1 DEF Make
  <2>3. r.dir = thr[t].dir /\ r.spawned = thr[t].spawned /\ r.batch = thr[t].batch
         /\ r.strays = thr[t].strays
    BY <2>1, FrameFacts DEF FrameType
  <2>4. QED
    BY <2>2, <2>3, SteadyFrame
<1>4. CASE Join(t)
  <2>1. PICK r : r = [thr[t] EXCEPT !.batch = {}, !.strays = 0]
    OBVIOUS
  <2>2. thr' = [thr EXCEPT ![t] = r]
    BY <1>4, <2>1 DEF Join
  <2>3. r.dir = thr[t].dir /\ r.spawned = thr[t].spawned /\ r.batch = {} /\ r.strays = 0
    BY <2>1, FrameFacts DEF FrameType
  <2>4. QED
    BY <2>2, <2>3, SteadyFrame
<1>5. Begin(t) /\ ~BeginElsewhere(t) => \E to : thr' = [thr EXCEPT ![t].pc = to]
  BY DEF Begin
<1>6. SetPrefix(t) => \E to : thr' = [thr EXCEPT ![t].pc = to]
  BY DEF SetPrefix
<1>7. CASE \E how : Mark(t, how)
  <2>1. PICK r : r = [thr[t] EXCEPT !.pc = "list", !.rc = 0]
    OBVIOUS
  <2>2. thr' = [thr EXCEPT ![t] = r]
    BY <1>7, <2>1 DEF Mark
  <2>3. r.dir = thr[t].dir /\ r.spawned = thr[t].spawned /\ r.batch = thr[t].batch
         /\ r.strays = thr[t].strays
    BY <2>1, FrameFacts DEF FrameType
  <2>4. QED
    BY <2>2, <2>3, SteadyFrame
<1>8. QED
  BY <1>2, <1>3, <1>4, <1>5, <1>6, <1>7

\* A thread that could not be created fills a slot that was free.
LEMMA SteadyFails ==
    ASSUME TypeOK, TreeInv, NEW t \in DOMAIN thr, NEW list, ThreadFails(t, list)
    PROVE  Steady
<1>1. PICK r : r = [thr[t] EXCEPT !.k = thr[t].k + 1, !.strays = thr[t].strays + 1, !.rc = EAGAIN]
  OBVIOUS
<1>2. thr' = [thr EXCEPT ![t] = r]
  BY <1>1 DEF ThreadFails
<1>3. /\ r.dir = thr[t].dir /\ r.spawned = thr[t].spawned /\ r.batch = thr[t].batch
      /\ r.strays = thr[t].strays + 1
  BY <1>1, FrameFacts DEF FrameType
<1>4. Cardinality(thr[t].batch) \in Nat /\ thr[t].strays \in Nat
  BY NoSlots
<1>5. Cardinality(thr[t].batch) + thr[t].strays < Concurrency /\ Concurrency \in Nat
  BY ClibBuildAssumption DEF ThreadFails, Listed, Slots
<1>6. Cardinality(r.batch) + r.strays <= Concurrency
  BY <1>3, <1>4, <1>5
<1>7. QED
  BY <1>2, <1>3, <1>6, SteadyFrame

LEMMA SteadyEnd ==
    ASSUME TypeOK, NEW t \in DOMAIN thr, LeaveDependencies(t) \/ EndList(t)
    PROVE  Steady
<1>1. CASE thr' = [thr EXCEPT ![t] = Returned(thr[t], ENOMEM)]
  <2>1. ENOMEM \in Nat
    BY DEF ENOMEM
  <2>2. QED
    BY <1>1, <2>1, SteadyReturn
<1>2. CASE thr' = [thr EXCEPT ![t] = Returned(thr[t], thr[t].rc)]
  <2>1. thr[t].rc \in Nat
    BY FrameFacts DEF FrameType
  <2>2. QED
    BY <1>2, <2>1, SteadyReturn
<1>3. CASE thr' = [thr EXCEPT ![t] = [thr[t] EXCEPT !.list = "development", !.k = 1]]
  <2>1. PICK r : r = [thr[t] EXCEPT !.list = "development", !.k = 1]
    OBVIOUS
  <2>2. r.dir = thr[t].dir /\ r.spawned = thr[t].spawned /\ r.batch = thr[t].batch
         /\ r.strays = thr[t].strays
    BY <2>1, FrameFacts DEF FrameType
  <2>3. QED
    BY <1>3, <2>1, <2>2, SteadyFrame
<1>4. QED
  BY <1>1, <1>2, <1>3 DEF LeaveDependencies, EndList

\* The thread reads the directory of another package.
Elsewhere(t) ==
  /\ thr[t].pc = "start"
  /\ \E p : thr' = [thr EXCEPT ![t] = Frame(Installed(p), "enter")]

LEMMA StepKinds ==
    ASSUME IInv, [Next]_vars
    PROVE  \/ Steady
           \/ \E t \in DOMAIN thr, list \in {"dependencies", "development"} : StartThread(t, list)
           \/ \E t \in DOMAIN thr : Elsewhere(t)
           \/ NextTarget
<1>0. TypeOK /\ TreeInv
  BY DEF IInv
<1>1. CASE UNCHANGED vars
  BY <1>1, SteadyStill DEF vars
<1>2. ASSUME NEW t \in DOMAIN thr, BuildStep(t)
      PROVE  \/ Steady \/ Elsewhere(t)
             \/ \E list \in {"dependencies", "development"} : StartThread(t, list)
  <2>1. CASE (Begin(t) /\ ~BeginElsewhere(t)) \/ SetPrefix(t) \/ Make(t) \/ Join(t)
    BY <1>0, <2>1, SteadyWork
  <2>9. CASE BeginElsewhere(t)
    <3>1. CASE thr' = thr
      BY <3>1, SteadyStill
    <3>2. CASE thr' # thr
      BY <2>9, <3>2 DEF BeginElsewhere, Elsewhere
    <3>3. QED
      BY <3>1, <3>2
  <2>2. CASE Enter(t)
    BY <1>0, <2>2, SteadyEnter
  <2>3. CASE Read(t)
    BY <1>0, <2>3, SteadyLoad DEF Read
  <2>4. CASE Made(t) \/ Skip(t)
    <3>1. \E how : Mark(t, how)
      BY <2>4 DEF Made, Skip
    <3>2. QED
      BY <1>0, <3>1, SteadyWork
  <2>5. CASE StartDependency(t) \/ StartDevelopment(t)
    BY <1>0, <2>5, SteadyFails DEF StartDependency, StartDevelopment
  <2>6. CASE LeaveDependencies(t) \/ EndList(t)
    BY <1>0, <2>6, SteadyEnd
  <2>7. CASE CrashInDevelopment(t) \/ CrashOnPath(t) \/ JoinStray(t)
    BY <2>7, SteadyStill DEF CrashInDevelopment, CrashOnPath, JoinStray
  <2>8. QED
    BY <1>2, <2>1, <2>2, <2>3, <2>4, <2>5, <2>6, <2>7, <2>9 DEF BuildStep
<1>3. ASSUME NEW t \in DOMAIN thr, ConfigureStep(t)
      PROVE  \/ Steady \/ Elsewhere(t)
             \/ \E list \in {"dependencies", "development"} : StartThread(t, list)
  <2>1. CASE ConfigureRead(t)
    BY <1>0, <2>1, SteadyLoad DEF ConfigureRead
  <2>2. CASE PrintFlags(t)
    <3>1. \E how : Mark(t, how)
      BY <2>2 DEF PrintFlags
    <3>2. QED
      BY <1>0, <3>1, SteadyWork
  <2>3. CASE CrashOnUnknown(t)
    BY <2>3, SteadyStill DEF CrashOnUnknown
  <2>4. CASE ~(ConfigureRead(t) \/ PrintFlags(t) \/ CrashOnUnknown(t))
    <3>1. BuildStep(t)
      BY <1>3, <2>4
         DEF ConfigureStep, BuildStep, ConfigureBegin, ConfigureEnter, ConfigurePrefix, Configure,
             ConfigureDone, ConfigureDependency, ConfigureDevelopment, ConfigureJoin,
             ConfigureListEnd
    <3>2. QED
      BY <1>2, <3>1
  <2>5. QED
    BY <2>1, <2>2, <2>3, <2>4
<1>4. CASE Exit
  BY <1>4, SteadyStill DEF Exit
<1>5. QED
  BY <1>1, <1>2, <1>3, <1>4
     DEF Next, BuildNext, ConfigureNext, ConfigureTarget, ConfigureExit

LEMMA SteadyGrowth ==
    ASSUME TypeOK, TreeInv, RepeatInv, BatchInv, Steady
    PROVE  RepeatInv' /\ BatchInv'
<1>1. DOMAIN thr' = DOMAIN thr
  BY DEF Steady
<1>2. ASSUME NEW t \in DOMAIN thr, NEW i \in 1..(Len(t) - 1),
             thr'[Upto(t, i)].dir = thr'[t].dir
      PROVE  thr'[t].spawned = 0
  <2>1. Upto(t, i) \in DOMAIN thr
    <3>1. t \in Names /\ Len(t) \in Nat
      BY FrameFacts, PathFacts
    <3>2. i + 1 \in 1..Len(t) /\ (i + 1) - 1 = i
      BY <3>1
    <3>3. QED
      BY <3>2 DEF TreeInv
  <2>2. thr[Upto(t, i)].dir = thr[t].dir
    BY <1>2, <2>1 DEF Steady
  <2>3. QED
    BY <2>2 DEF RepeatInv, Steady
<1>3. RepeatInv'
  BY <1>1, <1>2 DEF RepeatInv
<1>4. ASSUME NEW t \in DOMAIN thr
      PROVE  Slots(t)' <= Concurrency
  <2>1. Slots(t) <= Concurrency
    BY DEF BatchInv
  <2>2. Slots(t)' = Slots(t) \/ Slots(t)' <= Concurrency
    BY DEF Steady
  <2>3. QED
    BY <2>1, <2>2
<1>5. BatchInv'
  BY <1>1, <1>4 DEF BatchInv
<1>6. QED
  BY <1>3, <1>5

\* A thread that reads another directory has started none.
LEMMA ElsewhereGrowth ==
    ASSUME TypeOK, TreeInv, RepeatInv, BatchInv, NEW t \in DOMAIN thr, Elsewhere(t)
    PROVE  RepeatInv' /\ BatchInv'
<1>1. PICK p : thr' = [thr EXCEPT ![t] = Frame(Installed(p), "enter")]
  BY DEF Elsewhere
<1>2. PICK f : f = Frame(Installed(p), "enter")
  OBVIOUS
<1>3. f.spawned = 0 /\ f.batch = {} /\ f.strays = 0
  BY <1>2 DEF Frame
<1>4. /\ DOMAIN thr' = DOMAIN thr /\ thr'[t] = f
      /\ \A u \in DOMAIN thr : u # t => thr'[u] = thr[u]
  BY <1>1, <1>2
<1>5. thr[t].spawned = 0
  BY DEF Elsewhere, TreeInv
<1>6. ASSUME NEW u \in DOMAIN thr, NEW i \in 1..(Len(u) - 1),
             thr'[Upto(u, i)].dir = thr'[u].dir
      PROVE  thr'[u].spawned = 0
  <2>1. CASE u = t
    BY <1>3, <1>4, <2>1
  <2>2. CASE u # t
    <3>1. i \in 0..(Len(u) - 1)
      BY FrameFacts, PathFacts
    <3>2. Upto(u, i) \in DOMAIN thr /\ Upto(u, i) # t
      BY <1>5, <3>1, NoChild
    <3>3. QED
      BY <1>4, <1>6, <2>2, <3>2 DEF RepeatInv
  <2>3. QED
    BY <2>1, <2>2
<1>7. RepeatInv'
  BY <1>4, <1>6 DEF RepeatInv
<1>8. ASSUME NEW u \in DOMAIN thr PROVE Slots(u)' <= Concurrency
  <2>1. CASE u = t
    <3>1. Cardinality({}) + 0 <= Concurrency
      BY FS_EmptySet, ClibBuildAssumption
    <3>2. QED
      BY <1>3, <1>4, <2>1, <3>1 DEF Slots
  <2>2. CASE u # t
    <3>1. Slots(u)' = Slots(u)
      BY <1>4, <2>2 DEF Slots
    <3>2. QED
      BY <3>1 DEF BatchInv
  <2>3. QED
    BY <2>1, <2>2
<1>9. BatchInv'
  BY <1>4, <1>8 DEF BatchInv
<1>10. QED
  BY <1>7, <1>9

\* A thread that starts another one is on a directory no thread above it is
\* on, the new one has started none.
LEMMA StartGrowth ==
    ASSUME TypeOK, TreeInv, InertInv, RepeatInv, BatchInv,
           NEW t \in DOMAIN thr, NEW list, StartThread(t, list)
    PROVE  RepeatInv' /\ BatchInv'
<1> PICK p : p = Dependencies(t)[thr[t].k]
  OBVIOUS
<1> PICK n : n = thr[t].spawned + 1
  OBVIOUS
<1>1. PICK c : c = Append(t, n)
  OBVIOUS
<1>2. PICK f : f = Frame(Installed(p), "start")
  OBVIOUS
<1>3. PICK r : r = [thr[t] EXCEPT !.k = thr[t].k + 1, !.spawned = thr[t].spawned + 1,
                                  !.batch = thr[t].batch \cup {c}, !.rc = 0]
  OBVIOUS
<1>4. /\ thr[t].pc = "list" /\ Slots(t) < Concurrency
      /\ thr' = [x \in DOMAIN thr \cup {c} |-> IF x = c THEN f ELSE IF x = t THEN r ELSE thr[x]]
  BY <1>1, <1>2, <1>3 DEF StartThread, Listed
<1>5. /\ thr[t] \in FrameType /\ t \in Names /\ thr[t].spawned \in Nat /\ n \in Nat
      /\ n = thr[t].spawned + 1 /\ Len(t) \in Nat
  BY FrameFacts, PathFacts DEF FrameType
<1>6. /\ Len(c) = Len(t) + 1 /\ c[Len(t) + 1] = n
      /\ \A i \in 1..Len(t) : c[i] = t[i]
      /\ Upto(c, Len(t)) = t
  <2>1. t \in Names /\ n \in Nat
    BY <1>5
  <2>2. c = Append(t, n)
    BY <1>1
  <2>3. Len(c) = Len(t) + 1
    BY <2>1, <2>2, Child
  <2>4. c[Len(t) + 1] = n
    BY <2>1, <2>2, Child
  <2>5. \A i \in 1..Len(t) : c[i] = t[i]
    BY <2>1, <2>2, Child
  <2>6. Upto(c, Len(t)) = t
    <3>1. \A x \in Names, m \in Nat : Upto(Append(x, m), Len(x)) = x
      BY Child
    <3>2. QED
      BY <2>1, <2>2, <3>1, Zenon
  <2>7. QED
    BY <2>3, <2>4, <2>5, <2>6
<1>7. c \notin DOMAIN thr
  <2> SUFFICES ASSUME c \in DOMAIN thr PROVE FALSE
    OBVIOUS
  <2>1. Len(t) + 1 \in 1..Len(c) /\ (Len(t) + 1) - 1 = Len(t)
    BY <1>5, <1>6
  <2>2. c[Len(t) + 1] <= thr[t].spawned
    BY <1>6, <2>1 DEF TreeInv
  <2>3. QED
    BY <1>5, <1>6, <2>2
<1>8. /\ r.dir = thr[t].dir /\ r.batch = thr[t].batch \cup {c} /\ r.strays = thr[t].strays
      /\ f.spawned = 0 /\ f.batch = {} /\ f.strays = 0
  BY <1>2, <1>3, <1>5 DEF FrameType, Frame
<1>9. /\ DOMAIN thr' = DOMAIN thr \cup {c} /\ thr'[c] = f /\ thr'[t] = r
      /\ \A u \in DOMAIN thr : u # t => thr'[u] = thr[u]
      /\ \A u \in DOMAIN thr : thr'[u].dir = thr[u].dir
  BY <1>4, <1>7, <1>8
<1>10. \A i \in 1..(Len(t) - 1) : thr[Upto(t, i)].dir # thr[t].dir
  BY <1>4 DEF InertInv, Inert
<1>11. ASSUME NEW u \in DOMAIN thr, NEW i \in 1..(Len(u) - 1),
              thr'[Upto(u, i)].dir = thr'[u].dir
       PROVE  thr'[u].spawned = 0
  <2>1. Upto(u, i) \in DOMAIN thr
    <3>1. u \in Names /\ Len(u) \in Nat
      BY FrameFacts, PathFacts
    <3>2. i + 1 \in 1..Len(u) /\ (i + 1) - 1 = i
      BY <3>1
    <3>3. QED
      BY <3>2 DEF TreeInv
  <2>2. thr[Upto(u, i)].dir = thr[u].dir
    BY <1>9, <1>11, <2>1
  <2>3. u # t
    BY <1>10, <2>2
  <2>4. QED
    BY <1>9, <2>2, <2>3 DEF RepeatInv
<1>13. RepeatInv'
  BY <1>8, <1>9, <1>11 DEF RepeatInv
<1>14. ASSUME NEW u \in DOMAIN thr \cup {c}
       PROVE  Slots(u)' <= Concurrency
  <2>1. CASE u = c
    <3>1. Cardinality({}) + 0 <= Concurrency
      BY FS_EmptySet, ClibBuildAssumption
    <3>2. QED
      BY <1>8, <1>9, <2>1, <3>1 DEF Slots
  <2>2. CASE u = t /\ u # c
    <3>1. Cardinality(thr[t].batch) \in Nat /\ thr[t].strays \in Nat /\ IsFiniteSet(thr[t].batch)
      BY NoSlots DEF TreeInv
    <3>2. Cardinality(thr[t].batch \cup {c}) \in
             {Cardinality(thr[t].batch), Cardinality(thr[t].batch) + 1}
      BY <3>1, FS_AddElement
    <3>3. Cardinality(thr[t].batch) + thr[t].strays < Concurrency /\ Concurrency \in Nat
      BY <1>4, ClibBuildAssumption DEF Slots
    <3>4. Cardinality(thr[t].batch \cup {c}) + thr[t].strays <= Concurrency
      BY <3>1, <3>2, <3>3
    <3>5. Slots(u)' = Cardinality(thr[t].batch \cup {c}) + thr[t].strays
      BY <1>8, <1>9, <2>2 DEF Slots
    <3>6. QED
      BY <3>4, <3>5
  <2>3. CASE u # t /\ u # c
    <3>1. Slots(u)' = Slots(u)
      BY <1>9, <2>3 DEF Slots
    <3>2. QED
      BY <2>3, <3>1 DEF BatchInv
  <2>4. QED
    BY <2>1, <2>2, <2>3
<1>15. \E b \in Nat : \A u \in DOMAIN thr' : Len(u) <= b
  <2>1. PICK b \in Nat : \A u \in DOMAIN thr : Len(u) <= b
    BY DEF BatchInv
  <2>2. b + 1 \in Nat /\ Len(c) <= b + 1
    BY <1>5, <1>6, <2>1
  <2>3. \A u \in DOMAIN thr : Len(u) \in Nat
    BY FrameFacts, PathFacts
  <2>4. \A u \in DOMAIN thr : Len(u) <= b + 1
    BY <2>1, <2>3
  <2>5. QED
    BY <1>9, <2>2, <2>4
<1>16. BatchInv'
  BY <1>9, <1>14, <1>15 DEF BatchInv
<1>17. QED
  BY <1>13, <1>16

LEMMA TargetGrowth ==
    ASSUME TypeOK, TreeInv, RepeatInv, BatchInv, NextTarget
    PROVE  RepeatInv' /\ BatchInv'
<1>0. PICK at : thr' = [thr EXCEPT ![<<>>] = [MainFrame(at) EXCEPT
                                                !.spawned = thr[<<>>].spawned,
                                                !.made = thr[<<>>].made]]
  <2>1. PICK at : at = IF Retries THEN [cursor EXCEPT !.slug = TRUE]
                       ELSE [i |-> cursor.i + 1, slug |-> FALSE]
    OBVIOUS
  <2>2. thr' = [thr EXCEPT ![<<>>] = [MainFrame(at) EXCEPT
                                        !.spawned = thr[<<>>].spawned,
                                        !.made = thr[<<>>].made]]
    BY <2>1 DEF NextTarget
  <2>3. QED
    BY <2>2
<1>1. PICK r : /\ thr' = [thr EXCEPT ![<<>>] = r] /\ r.batch = {} /\ r.strays = 0
               /\ r.spawned = thr[<<>>].spawned
  <2>1. PICK r : r = [MainFrame(at) EXCEPT !.spawned = thr[<<>>].spawned,
                                           !.made = thr[<<>>].made]
    OBVIOUS
  <2>2. r.batch = {} /\ r.strays = 0 /\ r.spawned = thr[<<>>].spawned
    BY <2>1 DEF MainFrame, Frame
  <2>3. QED
    BY <1>0, <2>1, <2>2
<1>2. /\ <<>> \in DOMAIN thr /\ DOMAIN thr' = DOMAIN thr /\ thr'[<<>>] = r
      /\ \A u \in DOMAIN thr : u # <<>> => thr'[u] = thr[u]
  BY <1>1 DEF TreeInv
<1>3. ASSUME NEW u \in DOMAIN thr, NEW i \in 1..(Len(u) - 1),
             thr'[Upto(u, i)].dir = thr'[u].dir
      PROVE  thr'[u].spawned = 0
  <2>1. u \in Names /\ Len(u) \in Nat
    BY FrameFacts, PathFacts
  <2>2. i + 1 \in 1..Len(u) /\ (i + 1) - 1 = i /\ i \in 1..Len(u)
    BY <2>1
  <2>3. Upto(u, i) \in DOMAIN thr
    BY <2>2 DEF TreeInv
  <2>4. Upto(u, i) # <<>> /\ u # <<>>
    BY <2>1, <2>2, PathFacts
  <2>5. QED
    BY <1>2, <1>3, <2>3, <2>4 DEF RepeatInv
<1>4. RepeatInv'
  BY <1>2, <1>3 DEF RepeatInv
<1>6. ASSUME NEW u \in DOMAIN thr PROVE Slots(u)' <= Concurrency
  <2>1. CASE u = <<>>
    <3>1. Cardinality({}) + 0 <= Concurrency
      BY FS_EmptySet, ClibBuildAssumption
    <3>2. QED
      BY <1>1, <1>2, <2>1, <3>1 DEF Slots
  <2>2. CASE u # <<>>
    <3>1. Slots(u)' = Slots(u)
      BY <1>2, <2>2 DEF Slots
    <3>2. QED
      BY <3>1 DEF BatchInv
  <2>3. QED
    BY <2>1, <2>2
<1>7. BatchInv'
  BY <1>2, <1>6 DEF BatchInv
<1>8. QED
  BY <1>4, <1>7

LEMMA Grows == Spec => []Growth
<1>1. Init => Growth
  <2> SUFFICES ASSUME Init PROVE RepeatInv /\ BatchInv
    BY InitHolds DEF Growth
  <2>1. PICK at : thr = [t \in {<<>>} |-> MainFrame(at)]
    BY DEF Init, BuildInit, ConfigureInit, Started
  <2>2. DOMAIN thr = {<<>>} /\ thr[<<>>].batch = {} /\ thr[<<>>].strays = 0 /\ Len(<<>>) = 0
    BY <2>1 DEF MainFrame, Frame
  <2>3. Slots(<<>>) <= Concurrency
    <3>1. Cardinality({}) + 0 <= Concurrency
      BY FS_EmptySet, ClibBuildAssumption
    <3>2. QED
      BY <2>2, <3>1 DEF Slots
  <2>4. RepeatInv
    BY <2>2 DEF RepeatInv
  <2>5. \E n \in Nat : \A t \in DOMAIN thr : Len(t) <= n
    BY <2>2
  <2>6. QED
    BY <2>2, <2>3, <2>4, <2>5 DEF BatchInv
<1>2. Growth /\ [Next]_vars => Growth'
  <2> SUFFICES ASSUME Growth, [Next]_vars PROVE Growth'
    OBVIOUS
  <2>1. TypeOK /\ TreeInv /\ InertInv /\ RepeatInv /\ BatchInv /\ IInv
    BY DEF Growth, IInv
  <2>2. IInv'
    BY <2>1, Inductive
  <2>3. CASE Steady
    BY <2>1, <2>2, <2>3, SteadyGrowth DEF Growth
  <2>4. CASE \E t \in DOMAIN thr, list \in {"dependencies", "development"} : StartThread(t, list)
    BY <2>1, <2>2, <2>4, StartGrowth DEF Growth
  <2>5. CASE NextTarget
    BY <2>1, <2>2, <2>5, TargetGrowth DEF Growth
  <2>7. CASE \E t \in DOMAIN thr : Elsewhere(t)
    BY <2>1, <2>2, <2>7, ElsewhereGrowth DEF Growth
  <2>6. QED
    BY <2>1, <2>3, <2>4, <2>5, <2>7, StepKinds
<1>3. QED
  BY <1>1, <1>2, PTL DEF Spec

\* A chain of threads that start one another is no longer than there are
\* packages, plus the thread that finds its package seen: what the list of a
\* cycle starts is bounded, main's stack and the threads with it, although a
\* thread is started before it is known whether its package was seen
\* (clib-build.c:185-190, 302-316, 364-391).
DepthBounded == \A t \in DOMAIN thr : Len(t) <= Cardinality(Packages) + 1

THEOREM ChainsEnd ==
    ASSUME IsFiniteSet(Packages)
    PROVE  Spec => []DepthBounded
<1>1. ASSUME Growth PROVE DepthBounded
  <2>0. TypeOK /\ TreeInv /\ RepeatInv
    BY <1>1 DEF Growth, IInv
  <2> SUFFICES ASSUME NEW t \in DOMAIN thr PROVE Len(t) <= Cardinality(Packages) + 1
    BY DEF DepthBounded
  <2>1. t \in Names /\ Len(t) \in Nat
    BY <2>0, FrameFacts, PathFacts
  <2>2. PICK n : n = Len(t) - 1
    OBVIOUS
  <2>3. ASSUME NEW i \in 1..n
        PROVE  /\ i \in 1..Len(t) /\ i + 1 \in 1..Len(t) /\ Upto(t, i) \in DOMAIN thr
               /\ thr[Upto(t, i)].spawned # 0
               /\ \E p \in Packages : thr[Upto(t, i)].dir = <<"in", p>>
    <3>1. i \in 1..Len(t) /\ i + 1 \in 1..Len(t) /\ (i + 1) - 1 = i
      BY <2>1, <2>2
    <3>2. Upto(t, i) \in DOMAIN thr /\ t[i + 1] <= thr[Upto(t, i)].spawned
      BY <2>0, <3>1 DEF TreeInv
    <3>3. t[i + 1] # 0 /\ t[i + 1] \in Nat
      BY <2>0, <2>1, <3>1, ElementOfSeq DEF TreeInv, Names
    <3>4. thr[Upto(t, i)].spawned \in Nat /\ thr[Upto(t, i)].dir \in Dirs
      BY <2>0, <3>2, FrameFacts DEF FrameType
    <3>5. Upto(t, i) # <<>>
      BY <2>1, <3>1, PathFacts
    <3>6. thr[Upto(t, i)].dir[1] = "in"
      BY <2>0, <3>2, <3>5 DEF TreeInv
    <3>7. thr[Upto(t, i)].spawned # 0
      BY <3>2, <3>3, <3>4
    <3>8. QED
      BY <3>1, <3>2, <3>4, <3>6, <3>7 DEF Dirs
  <2>4. ASSUME NEW j \in 1..n, NEW i \in 1..n, i < j
        PROVE  thr[Upto(t, i)].dir # thr[Upto(t, j)].dir
    <3>1. PICK u : u = Upto(t, j)
      OBVIOUS
    <3>2. u \in DOMAIN thr /\ thr[u].spawned # 0
      BY <2>3, <3>1
    <3>3. j \in 0..Len(t) /\ i \in 0..Len(t) /\ i <= j /\ n \in Int
      BY <2>1, <2>2, <2>4
    <3>4. Len(u) = j /\ Upto(u, i) = Upto(t, i)
      BY <2>1, <3>1, <3>3, UptoFacts, UptoTwice
    <3>5. i \in 1..(Len(u) - 1)
      BY <2>4, <3>3, <3>4
    <3>6. thr[Upto(u, i)].dir # thr[u].dir
      BY <2>0, <3>2, <3>5 DEF RepeatInv
    <3>7. QED
      BY <3>1, <3>4, <3>6
  <2>5. PICK f : f = [i \in 1..n |-> Of(Upto(t, i))]
    OBVIOUS
  <2>6. \A i \in 1..n : f[i] \in Packages /\ thr[Upto(t, i)].dir = <<"in", f[i]>>
    BY <2>3, <2>5 DEF Of, Package
  <2>7. ASSUME NEW i \in 1..n, NEW j \in 1..n, f[i] = f[j]
        PROVE  i = j
    <3>1. ~(i < j) /\ ~(j < i)
      BY <2>4, <2>6, <2>7
    <3>2. QED
      BY <3>1
  <2>8. f \in Injection(1..n, Packages)
    <3>1. f \in [1..n -> Packages]
      BY <2>5, <2>6
    <3>2. IsInjective(f)
      BY <2>5, <2>7 DEF IsInjective
    <3>3. QED
      BY <3>1, <3>2 DEF Injection
  <2>9. Cardinality(1..n) <= Cardinality(Packages)
    BY <1>1, <2>8, FS_Injection
  <2>10. n \in Int /\ Cardinality(1..n) = IF 1 > n THEN 0 ELSE n
    <3>1. n \in Int /\ 1 \in Int
      BY <2>1, <2>2
    <3>2. Cardinality(1..n) = IF 1 > n THEN 0 ELSE n - 1 + 1
      BY <3>1, FS_Interval
    <3>3. QED
      BY <3>1, <3>2
  <2>11. Cardinality(Packages) \in Nat
    BY FS_CardinalityType
  <2>12. QED
    BY <2>1, <2>2, <2>9, <2>10, <2>11
<1>2. QED
  BY <1>1, Grows, PTL

\* Thread t, or main, has a step it can take: outside its list always, in the
\* list when it may start a thread, when all it waits for have ended, and when
\* list and batch are at their end.
Moves(t) ==
  \/ thr[t].pc \notin {"list", "done"}
  \/ /\ thr[t].pc = "list"
     /\ \/ ~Ended(t) /\ Slots(t) < Concurrency
        \/ Slots(t) > 0 /\ Waits(t) /\ AllDone(t)
        \/ Ended(t) /\ Slots(t) = 0
  \/ t = <<>> /\ thr[t].pc = "done"

\* The threads wait for one another, never all of them: while the process
\* runs, some thread can take a step, whatever the dependencies and however
\* small the batches (clib-build.c:302-322, 364-386).
NoDeadlock == exit = Running => \E t \in DOMAIN thr : Moves(t)

LEMMA LeastNumber ==
    ASSUME NEW T \in SUBSET Nat, T # {}
    PROVE  \E x \in T : \A y \in T : x <= y
<1> DEFINE R == OpToRel(<, Nat)
<1>1. \E x \in T : \A y \in T : ~(<<y, x>> \in R)
  <2>1. IsWellFoundedOn(R, Nat)
    BY NatLessThanWellFounded
  <2> HIDE DEF R
  <2>2. QED
    BY <2>1, WFMin
<1>2. PICK x \in T : \A y \in T : ~(<<y, x>> \in R)
  BY <1>1
<1>3. \A y \in T : ~(y < x)
  BY <1>2 DEF OpToRel
<1>4. QED
  BY <1>3

\* The longest name of a thread that runs: those it waits for have longer ones.
THEOREM SomebodyMoves == Spec => []NoDeadlock
<1>1. ASSUME Growth PROVE NoDeadlock
  <2>0. TypeOK /\ TreeInv /\ BatchInv
    BY <1>1 DEF Growth, IInv
  <2>1. <<>> \in DOMAIN thr
    BY <2>0 DEF TreeInv
  <2>2. CASE thr[<<>>].pc = "done"
    BY <2>1, <2>2 DEF NoDeadlock, Moves
  <2>3. CASE thr[<<>>].pc # "done"
    <3> DEFINE Longer == {n \in Nat : \A t \in DOMAIN thr : thr[t].pc # "done" => Len(t) <= n}
    <3>1. Longer \in SUBSET Nat /\ Longer # {}
      BY <2>0 DEF BatchInv
    <3>2. PICK n \in Longer : \A m \in Longer : n <= m
      BY <3>1, LeastNumber
    <3>3. n \in Nat /\ \A t \in DOMAIN thr : thr[t].pc # "done" => Len(t) <= n
      BY <3>2
    <3>4. \A t \in DOMAIN thr : Len(t) \in Nat
      BY <2>0, FrameFacts, PathFacts
    <3>5. \E t \in DOMAIN thr : thr[t].pc # "done" /\ Len(t) = n
      <4>1. CASE n = 0
        BY <2>1, <2>3, <4>1
      <4>2. CASE n # 0
        <5>1. n - 1 \in Nat /\ ~(n <= n - 1)
          BY <3>3, <4>2
        <5>2. n - 1 \notin Longer
          BY <3>2, <5>1
        <5>3. PICK t \in DOMAIN thr : thr[t].pc # "done" /\ ~(Len(t) <= n - 1)
          BY <5>1, <5>2
        <5>4. Len(t) = n
          BY <3>3, <3>4, <5>3
        <5>5. QED
          BY <5>3, <5>4
      <4>3. QED
        BY <4>1, <4>2
    <3>6. PICK t \in DOMAIN thr : thr[t].pc # "done" /\ Len(t) = n
      BY <3>5
    <3>7. AllDone(t)
      <4>1. ASSUME NEW c \in thr[t].batch, thr[c].pc # "done" PROVE FALSE
        <5>1. c \in DOMAIN thr /\ Len(c) = n + 1
          BY <2>0, <3>6 DEF TreeInv
        <5>2. n + 1 <= n
          BY <3>3, <4>1, <5>1
        <5>3. QED
          BY <3>3, <5>2
      <4>2. QED
        BY <4>1 DEF AllDone
    <3>8. CASE thr[t].pc = "list"
      <4>1. Slots(t) <= Concurrency /\ Slots(t) \in Nat /\ Concurrency \in Nat \ {0}
        BY <2>0, NoSlots, ClibBuildAssumption DEF BatchInv, Slots
      <4>2. CASE Slots(t) = Concurrency
        BY <3>7, <3>8, <4>1, <4>2 DEF Moves, Waits, NoDeadlock
      <4>3. CASE Slots(t) < Concurrency
        BY <3>7, <3>8, <4>1, <4>3 DEF Moves, Waits, NoDeadlock
      <4>4. QED
        BY <4>1, <4>2, <4>3
    <3>9. CASE thr[t].pc # "list"
      BY <3>6, <3>9 DEF NoDeadlock, Moves
    <3>10. QED
      BY <3>8, <3>9
  <2>4. QED
    BY <2>2, <2>3
<1>2. QED
  BY <1>1, Grows, PTL
=============================================================================
