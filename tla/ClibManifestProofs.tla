------------------------- MODULE ClibManifestProofs -------------------------
(***************************************************************************)
(* Proofs about ClibManifest, for any number of threads and calls, any     *)
(* registry and any number of kills.                                       *)
(***************************************************************************)
EXTENDS ClibManifest, TLAPS

Json == Published \cup {Torn, None}
Places == {"lock", "has", "read", "download", "share", "init", "connect", "shared", "get",
           "parse", "write", "done"}

ThreadType ==
  [pc : Places, n : Nat \ {0}, m : 1..2, tries : Nat, json : Json, hit : BOOLEAN,
   mixed : BOOLEAN]
Entry == [json : Json, as : Keys \cup {None}, mixed : BOOLEAN]

TypeOK ==
  /\ lock \in Threads \cup {None}
  /\ {share, skip, stolen} \subseteq BOOLEAN /\ kills \in Nat /\ short \subseteq Paths
  /\ cache \in [Paths -> Entry]
  /\ thr \in [Threads -> ThreadType]

\* c may lie in the cache under the author, the name and the version k.
Matches(c, k) ==
  /\ c.author = k[1] /\ NameIn(c) = k[2]
  /\ \/ c.version = k[3]
     \/ c.version = Master /\ Declared(c) = k[3]

\* Whoever is between lock and unlock holds the mutex.
Inside(t) == thr[t].pc \in {"has", "read", "shared", "write"}
LockInv == \A t \in Threads : Inside(t) => lock = t \/ stolen

\* What a thread has in its hands is what it asked for.
ThreadInv(t) ==
  /\ ~At(t, "done") => thr[t].n \in 1..Len(Calls[t])
  /\ thr[t].pc \notin {"parse", "write", "done"} => ~thr[t].hit
  /\ At(t, "parse") => thr[t].json \in Published \cup {Torn}
  /\ At(t, "write") => thr[t].json \in Published
  /\ thr[t].pc \in {"parse", "write"} /\ thr[t].json # Torn =>
       IF thr[t].hit THEN ~thr[t].mixed => Matches(thr[t].json, Key(t))
       ELSE thr[t].json.version = Slug(t).version /\ thr[t].json.author = Slug(t).author
ThreadsInv == \A t \in Threads : ThreadInv(t)

\* A file that is cut off is being written, or was written short.
TornInv ==
  \A p \in Paths : cache[p].json = Torn =>
    \/ stolen \/ kills > 0 \/ p \in short
    \/ \E t \in Threads : At(t, "write") /\ SaveFile(t) = p

\* Every whole file that goes back to no shared one is what a call for the key
\* it was saved under asks for.
CacheInv ==
  \A p \in Paths : cache[p].json \in Published /\ ~cache[p].mixed =>
    Matches(cache[p].json, cache[p].as)

\* What a call took from the cache is whole.
HitWhole ==
  \A t \in Threads : At(t, "parse") /\ thr[t].hit /\ thr[t].json = Torn =>
    stolen \/ kills > 0 \/ File(t) \in short

IInv == TypeOK /\ LockInv /\ ThreadsInv /\ TornInv /\ CacheInv /\ HitWhole
-----------------------------------------------------------------------------
LEMMA Constants ==
    /\ Retries \in Nat /\ MaxKills \in Nat /\ MaxShort \in Nat
    /\ \A t \in Threads : Len(Calls[t]) \in Nat
    /\ None \notin Threads /\ None \notin Published /\ Torn # None /\ Torn \notin Published
<1>1. Torn.file = "torn"
  BY DEF Torn
<1>2. \A c \in Published : c.file # "torn"
  BY ClibManifestAssumption
<1>3. QED
  BY <1>1, <1>2, ClibManifestAssumption

\* The cache has a place for every key the calls and the registry give.
LEMMA SlugKey ==
    ASSUME NEW t \in Threads, thr[t].n \in 1..Len(Calls[t])
    PROVE  Slug(t) \in Slugs /\ Key(t) \in Keys /\ File(t) \in Paths
<1>1. Slug(t) \in Slugs
  BY DEF Slug, Slugs
<1>2. Key(t) \in Keys
  BY <1>1 DEF Key, Keys
<1>3. QED
  BY <1>1, <1>2 DEF File, Paths

\* The key under which a thread saves what it has: a place of the cache, where
\* what it has may lie.
LEMMA SavesWhereItBelongs ==
    ASSUME NEW t \in Threads, ThreadInv(t), thr[t].pc \in {"parse", "write"},
           thr[t].json \in Published
    PROVE  /\ SaveKey(t) \in Keys /\ SaveFile(t) \in Paths
           /\ ~thr[t].mixed => Matches(thr[t].json, SaveKey(t))
<1> DEFINE c == thr[t].json
<1>1. /\ Slug(t) \in Slugs /\ c # Torn /\ c \in Published
      /\ IF thr[t].hit THEN ~thr[t].mixed => Matches(c, Key(t))
         ELSE c.version = Slug(t).version /\ c.author = Slug(t).author
  BY SlugKey, Constants DEF ThreadInv, At
<1>2. Key(t)[1] = Slug(t).author /\ Key(t)[2] = Slug(t).repo /\ Key(t)[3] = Slug(t).version
  BY DEF Key
<1>3. /\ SaveKey(t) = <<Slug(t).author, NameIn(c), ForceVersion(t)>>
      /\ SaveKey(t)[1] = Slug(t).author /\ SaveKey(t)[2] = NameIn(c)
      /\ SaveKey(t)[3] = ForceVersion(t)
  BY DEF SaveKey
<1>4. \/ Declared(c) # None /\ Slug(t).version = Master /\ ForceVersion(t) = Declared(c)
      \/ ForceVersion(t) = Slug(t).version
  BY DEF ForceVersion
<1>5. SaveKey(t) \in Keys
  <2>1. CASE Declared(c) # None /\ ForceVersion(t) = Declared(c)
    <3>1. c \in {d \in Published : Declared(d) # None}
      BY <1>1, <2>1
    <3>2. QED
      BY <1>1, <1>3, <2>1, <3>1 DEF Keys
  <2>2. CASE ForceVersion(t) = Slug(t).version
    BY <1>1, <1>3, <2>2 DEF Keys
  <2>3. QED
    BY <1>4, <2>1, <2>2
<1>6. ASSUME ~thr[t].mixed PROVE Matches(c, SaveKey(t))
  <2>1. c.author = Slug(t).author
    BY <1>1, <1>2, <1>6 DEF Matches
  <2>2. \/ c.version = Slug(t).version
        \/ c.version = Master /\ Declared(c) = Slug(t).version
    BY <1>1, <1>2, <1>6 DEF Matches
  <2>3. \/ c.version = ForceVersion(t)
        \/ c.version = Master /\ Declared(c) = ForceVersion(t)
    BY <1>4, <2>2
  <2>4. QED
    BY <1>3, <2>1, <2>3 DEF Matches
<1>7. QED
  BY <1>5, <1>6 DEF SaveFile, Paths

\* A call that begins, and a thread that has none.
LEMMA Fresh ==
    ASSUME NEW n \in Nat \ {0}
    PROVE  Call(n) \in ThreadType /\ [Call(n) EXCEPT !.pc = "done"] \in ThreadType
<1>1. None \in Json /\ {"lock", "done"} \subseteq Places /\ Retries \in Nat
  BY Constants DEF Json, Places
<1>2. Call(n) \in ThreadType
  BY <1>1 DEF Call, ThreadType
<1>3. QED
  BY <1>1, <1>2 DEF ThreadType

LEMMA Begins ==
    ASSUME NEW t \in Threads
    PROVE  /\ Started(t).n = 1 /\ ~Started(t).hit
           /\ \/ Started(t).pc = "lock" /\ Calls[t] # <<>>
              \/ Started(t).pc = "done"
<1>1. CASE Calls[t] = <<>>
  BY <1>1 DEF Started, Call
<1>2. CASE Calls[t] # <<>>
  BY <1>2 DEF Started, Call
<1>3. QED
  BY <1>1, <1>2

LEMMA InitHolds == Init => IInv
<1> SUFFICES ASSUME Init PROVE IInv
  OBVIOUS
<1>1. \A t \in Threads : thr[t] = Started(t) /\ Calls[t] \in Seq([author : Text, repo : Text, version : Text])
  BY ClibManifestAssumption DEF Init
<1>2. \A t \in Threads : Started(t) \in ThreadType
  BY Fresh DEF Started
<1>3. TypeOK
  BY <1>2 DEF Init, TypeOK, Nothing, Json, Entry
<1>4. ASSUME NEW t \in Threads
      PROVE  /\ (At(t, "lock") /\ Calls[t] # <<>>) \/ At(t, "done")
             /\ thr[t].n = 1 /\ ~thr[t].hit
  BY <1>1, Begins DEF At
<1>6. ThreadsInv /\ LockInv /\ HitWhole
  <2>1. \A t \in Threads : Calls[t] # <<>> => 1 \in 1..Len(Calls[t])
    BY <1>1
  <2>2. QED
    BY <1>4, <2>1 DEF ThreadsInv, ThreadInv, LockInv, Inside, HitWhole, At
<1>7. TornInv /\ CacheInv
  BY Constants DEF Init, TornInv, CacheInv, Nothing
<1>8. QED
  BY <1>3, <1>6, <1>7 DEF IInv

-----------------------------------------------------------------------------
\* A step of thread t that writes no file and frees no mutex of another
\* thread, unless it is stolen, disturbs nothing of the others.
LEMMA OthersKeep ==
    ASSUME IInv, NEW t \in Threads, TypeOK', ThreadInv(t)', ~At(t, "write"),
           \A u \in Threads \ {t} : thr'[u] = thr[u],
           kills' = kills, short' = short, stolen => stolen',
           lock' = lock \/ lock \in {None, t} \/ stolen',
           Inside(t)' => lock' = t \/ stolen',
           At(t, "parse")' /\ thr'[t].hit /\ thr'[t].json = Torn =>
             stolen' \/ kills > 0 \/ File(t)' \in short,
           \A p \in Paths : cache'[p] \in {cache[p], Nothing}
    PROVE  IInv'
<1>1. LockInv'
  BY Constants DEF IInv, LockInv, Inside
<1>2. ThreadsInv'
  <2>1. \A u \in Threads \ {t} : ThreadInv(u)'
    BY DEF IInv, ThreadsInv, ThreadInv, At, Key, Slug, File
  <2>2. QED
    BY <2>1 DEF ThreadsInv
<1>3. TornInv'
  <2> SUFFICES ASSUME NEW k \in Paths, cache'[k].json = Torn, ~stolen', ~(kills' > 0),
                      k \notin short
               PROVE  \E u \in Threads : At(u, "write")' /\ SaveFile(u)' = k
    BY DEF TornInv
  <2>1. PICK u \in Threads : At(u, "write") /\ SaveFile(u) = k
    BY Constants DEF IInv, TypeOK, TornInv, Nothing
  <2>2. thr'[u] = thr[u]
    BY <2>1
  <2>3. QED
    BY <2>1, <2>2 DEF At, SaveFile, SaveKey, ForceVersion, Slug
<1>4. CacheInv'
  BY Constants DEF IInv, CacheInv, Nothing
<1>5. HitWhole'
  BY DEF IInv, HitWhole, At, File, Key, Slug
<1>6. QED
  BY <1>1, <1>2, <1>3, <1>4, <1>5 DEF IInv

\* The call after this one, and the one in its place when it failed, begin
\* with empty hands.
LEMMA CallAfter ==
    ASSUME TypeOK, NEW t \in Threads, ThreadInv(t), ~At(t, "done"),
           NEW r, r \in {NextCall(t), Failed(t)}
    PROVE  /\ r \in ThreadType
           /\ \/ r.pc = "lock" /\ r.n \in 1..Len(Calls[t]) /\ ~r.hit
              \/ r.pc = "done"
<1>1. /\ thr[t] \in ThreadType /\ thr[t].n \in 1..Len(Calls[t]) /\ Len(Calls[t]) \in Nat
      /\ thr[t].n \in Nat \ {0} /\ thr[t].m \in 1..2
  BY Constants DEF TypeOK, ThreadInv, ThreadType
<1>2. /\ NextCall(t) \in ThreadType
      /\ \/ NextCall(t).pc = "lock" /\ NextCall(t).n \in 1..Len(Calls[t]) /\ ~NextCall(t).hit
         \/ NextCall(t).pc = "done"
  <2>1. CASE thr[t].n < Len(Calls[t])
    <3>1. NextCall(t) = Call(thr[t].n + 1) /\ thr[t].n + 1 \in Nat \ {0}
      BY <1>1, <2>1 DEF NextCall
    <3>2. Call(thr[t].n + 1).pc = "lock" /\ Call(thr[t].n + 1).n = thr[t].n + 1
          /\ ~Call(thr[t].n + 1).hit
      BY DEF Call
    <3>3. thr[t].n + 1 \in 1..Len(Calls[t])
      BY <1>1, <2>1
    <3>4. QED
      BY <3>1, <3>2, <3>3, Fresh
  <2>2. CASE ~(thr[t].n < Len(Calls[t]))
    <3>1. NextCall(t) = [thr[t] EXCEPT !.pc = "done"]
      BY <2>2 DEF NextCall
    <3>2. NextCall(t) \in ThreadType /\ NextCall(t).pc = "done"
      BY <1>1, <3>1 DEF ThreadType, Places
    <3>3. QED
      BY <3>2
  <2>3. QED
    BY <2>1, <2>2
<1>3. CASE thr[t].m < Len(manifest_names)
  <2> DEFINE c == Call(thr[t].n)
  <2>1. c \in ThreadType /\ c.pc = "lock" /\ c.n = thr[t].n /\ ~c.hit
    BY <1>1, Fresh DEF Call
  <2>2. Failed(t) = [c EXCEPT !.m = thr[t].m + 1] /\ thr[t].m + 1 \in 1..2
    BY <1>1, <1>3 DEF Failed, manifest_names
  <2> HIDE DEF c
  <2>3. Failed(t) \in ThreadType /\ Failed(t).pc = "lock" /\ Failed(t).n = thr[t].n /\ ~Failed(t).hit
    BY <2>1, <2>2 DEF ThreadType
  <2>4. QED
    BY <1>1, <1>2, <2>3
<1>4. CASE ~(thr[t].m < Len(manifest_names))
  BY <1>2, <1>4 DEF Failed
<1>5. QED
  BY <1>3, <1>4

\* Thread t goes from one place to another and nothing else changes for it.
LEMMA Goes ==
    ASSUME TypeOK, NEW t \in Threads, ThreadInv(t),
           NEW pc \in Places, Goto(t, pc), pc \notin {"parse", "write", "done"},
           thr[t].pc \notin {"parse", "write", "done"}
    PROVE  /\ thr' \in [Threads -> ThreadType] /\ ThreadInv(t)' /\ thr'[t].pc = pc
           /\ \A u \in Threads \ {t} : thr'[u] = thr[u]
<1>1. thr[t] \in ThreadType /\ thr' = [thr EXCEPT ![t] = [thr[t] EXCEPT !.pc = pc]]
  BY DEF TypeOK, Goto
<1>2. [thr[t] EXCEPT !.pc = pc] \in ThreadType
  BY <1>1 DEF ThreadType
<1>3. /\ thr'[t] = [thr[t] EXCEPT !.pc = pc] /\ thr' \in [Threads -> ThreadType]
      /\ \A u \in Threads \ {t} : thr'[u] = thr[u]
  BY <1>1, <1>2 DEF TypeOK
<1>4. thr'[t].pc = pc /\ thr'[t].n = thr[t].n /\ thr'[t].hit = thr[t].hit
  BY <1>1, <1>3 DEF ThreadType
<1>5. ThreadInv(t)'
  BY <1>4 DEF ThreadInv, At
<1>6. QED
  BY <1>3, <1>4, <1>5

LEMMA LockStep ==
    ASSUME IInv, NEW t \in Threads, Lock(t) \/ Connect(t)
    PROVE  IInv'
<1>1. PICK pc \in {"has", "shared"} : Goto(t, pc)
  BY DEF Lock, Connect
<1>2. /\ thr[t].pc \in {"lock", "connect"} /\ lock = None /\ lock' = t
      /\ UNCHANGED <<share, skip, cache, stolen, short, kills>>
  BY DEF Lock, Connect, Free, At
<1>3. /\ thr' \in [Threads -> ThreadType] /\ ThreadInv(t)' /\ thr'[t].pc = pc
      /\ \A u \in Threads \ {t} : thr'[u] = thr[u]
  BY <1>1, <1>2, Goes DEF IInv, ThreadsInv, Places
<1>4. TypeOK'
  BY <1>2, <1>3 DEF IInv, TypeOK
<1>5. QED
  BY <1>2, <1>3, <1>4, OthersKeep DEF At

LEMMA LookStep ==
    ASSUME IInv, NEW t \in Threads, LookInCache(t)
    PROVE  IInv'
<1>1. PICK pc \in {"read", "download"} : Goto(t, pc)
  BY DEF LookInCache
<1>2. thr[t].pc = "has" /\ UNCHANGED <<lock, share, skip, stolen, short, kills>>
  BY DEF LookInCache, At
<1>3. /\ thr' \in [Threads -> ThreadType] /\ ThreadInv(t)' /\ thr'[t].pc = pc
      /\ \A u \in Threads \ {t} : thr'[u] = thr[u]
  BY <1>1, <1>2, Goes DEF IInv, ThreadsInv, Places
<1>4. cache' = cache \/ cache' = [cache EXCEPT ![File(t)] = Nothing]
  BY DEF LookInCache
<1>5. /\ cache' \in [Paths -> Entry]
      /\ \A p \in Paths : cache'[p] \in {cache[p], Nothing}
  <2>1. Nothing \in Entry
    BY DEF Nothing, Json, Entry
  <2>2. QED
    BY <1>4, <2>1 DEF IInv, TypeOK
<1>6. TypeOK'
  BY <1>2, <1>3, <1>5 DEF IInv, TypeOK
<1>7. lock = t \/ stolen
  BY <1>2 DEF IInv, LockInv, Inside
<1>8. QED
  BY <1>2, <1>3, <1>5, <1>6, <1>7, OthersKeep DEF At

\* What a thread reads under the lock is whole.
LEMMA ReadStep ==
    ASSUME IInv, NEW t \in Threads, ReadCache(t)
    PROVE  IInv'
<1>1. thr[t].pc = "read" /\ UNCHANGED <<share, skip, cache, stolen, short, kills>>
  BY DEF ReadCache, At
<1>2. /\ thr[t] \in ThreadType /\ thr[t].n \in 1..Len(Calls[t])
      /\ Key(t) \in Keys /\ File(t) \in Paths /\ (lock = t \/ stolen)
  BY <1>1, SlugKey DEF IInv, TypeOK, ThreadsInv, ThreadInv, At, LockInv, Inside
<1>3. ASSUME HasJson(File(t)), lock' = None,
             NEW e \in Entry, e = cache[File(t)],
             thr' = [thr EXCEPT ![t].pc = "parse", ![t].json = e.json, ![t].hit = TRUE,
                                ![t].mixed = e.mixed \/ e.as # Key(t)]
      PROVE  IInv'
  <2> DEFINE c == e.json
  <2>1. PICK mx \in BOOLEAN : mx = (e.mixed \/ e.as # Key(t))
    BY DEF Entry
  <2>2. c \in Published \cup {Torn}
    BY <1>3 DEF HasJson, Entry, Json
  <2>3. PICK r : r = [thr[t] EXCEPT !.pc = "parse", !.json = c, !.hit = TRUE, !.mixed = mx]
    OBVIOUS
  <2>4. /\ r \in ThreadType /\ r.pc = "parse" /\ r.json = c /\ r.hit = TRUE /\ r.n = thr[t].n
        /\ r.mixed = mx
    BY <1>2, <2>2, <2>3 DEF ThreadType, Places, Json
  <2>5. /\ thr' = [thr EXCEPT ![t] = r]
    BY <1>3, <2>1, <2>3 DEF IInv, TypeOK
  <2>6. /\ thr'[t] = r /\ thr' \in [Threads -> ThreadType]
        /\ \A u \in Threads \ {t} : thr'[u] = thr[u]
    BY <2>4, <2>5 DEF IInv, TypeOK
  <2>7. Key(t)' = Key(t) /\ File(t)' = File(t)
    BY <2>4, <2>6 DEF File, Key, Slug
  <2>8. ThreadInv(t)'
    <3>1. c # Torn /\ ~mx => Matches(c, Key(t))
      BY <1>2, <1>3, <2>1, <2>2 DEF IInv, CacheInv
    <3>2. QED
      BY <1>2, <2>2, <2>4, <2>6, <2>7, <3>1 DEF ThreadInv, At
  <2>9. c = Torn => stolen \/ kills > 0 \/ File(t) \in short
    <3> SUFFICES ASSUME c = Torn, ~stolen, ~(kills > 0), File(t) \notin short PROVE FALSE
      OBVIOUS
    <3>1. PICK u \in Threads : At(u, "write")
      BY <1>2, <1>3 DEF IInv, TornInv
    <3>2. lock = u
      BY <3>1 DEF IInv, LockInv, Inside, At
    <3>3. QED
      BY <1>1, <1>2, <3>1, <3>2 DEF At
  <2>10. TypeOK'
    BY <1>1, <1>3, <2>6 DEF IInv, TypeOK
  <2>11. QED
    BY <1>1, <1>2, <1>3, <2>4, <2>6, <2>7, <2>8, <2>9, <2>10, OthersKeep DEF At, Inside
<1>4. CASE Goto(t, "download") /\ lock' = lock
  <2>1. /\ thr' \in [Threads -> ThreadType] /\ ThreadInv(t)' /\ thr'[t].pc = "download"
        /\ \A u \in Threads \ {t} : thr'[u] = thr[u]
    BY <1>1, <1>4, Goes DEF IInv, ThreadsInv, Places
  <2>2. TypeOK'
    BY <1>1, <1>4, <2>1 DEF IInv, TypeOK
  <2>3. QED
    BY <1>1, <1>2, <1>4, <2>1, <2>2, OthersKeep DEF At, Inside
<1>5. cache[File(t)] \in Entry
  BY <1>2 DEF IInv, TypeOK
<1>6. QED
  BY <1>3, <1>4, <1>5 DEF ReadCache, Unlock

\* A retry may free the mutex another thread holds: it is stolen then.
LEMMA DownloadStep ==
    ASSUME IInv, NEW t \in Threads, Download(t)
    PROVE  IInv'
<1>1. /\ thr[t].pc = "download" /\ lock' = None /\ UNCHANGED <<share, skip, cache, short, kills>>
      /\ stolen' = (stolen \/ lock \notin {None, t})
      /\ thr' = [thr EXCEPT ![t] = IF thr[t].tries = 0 THEN Failed(t) ELSE Try(t)]
  BY DEF Download, At, Unlock, IInv, TypeOK
<1>2. thr[t] \in ThreadType /\ ThreadInv(t) /\ thr[t].tries \in Nat
  BY DEF IInv, TypeOK, ThreadsInv, ThreadType
<1>3. PICK r \in ThreadType :
        /\ thr' = [thr EXCEPT ![t] = r]
        /\ \/ r.pc \in {"lock", "share"} /\ r.n \in 1..Len(Calls[t]) /\ ~r.hit
           \/ r.pc = "done"
  <2>1. CASE thr[t].tries = 0
    BY <1>1, <1>2, <2>1, CallAfter DEF IInv, At
  <2>2. CASE thr[t].tries # 0
    <3>1. /\ Try(t) \in ThreadType /\ Try(t).pc = "share" /\ Try(t).n = thr[t].n
          /\ Try(t).hit = thr[t].hit
      <4>1. thr[t].tries - 1 \in Nat /\ "share" \in Places
        BY <1>2, <2>2 DEF Places
      <4>2. QED
        BY <1>2, <4>1 DEF Try, ThreadType
    <3>2. thr[t].n \in 1..Len(Calls[t]) /\ ~thr[t].hit
      BY <1>1, <1>2 DEF ThreadInv, At
    <3>3. QED
      BY <1>1, <2>2, <3>1, <3>2
  <2>3. QED
    BY <2>1, <2>2
<1>4. /\ thr'[t] = r /\ thr' \in [Threads -> ThreadType]
      /\ \A u \in Threads \ {t} : thr'[u] = thr[u]
  BY <1>3 DEF IInv, TypeOK
<1>5. ThreadInv(t)'
  BY <1>3, <1>4 DEF ThreadInv, At
<1>6. TypeOK'
  BY <1>1, <1>4 DEF IInv, TypeOK
<1>7. QED
  BY <1>1, <1>3, <1>4, <1>5, <1>6, OthersKeep DEF At, Inside

LEMMA ShareStep ==
    ASSUME IInv, NEW t \in Threads, SharePresent(t) \/ InitShare(t)
    PROVE  IInv'
<1>1. PICK pc \in {"connect", "init"} : Goto(t, pc)
  BY DEF SharePresent, InitShare
<1>2. /\ thr[t].pc \in {"share", "init"} /\ share' \in {share, TRUE}
      /\ UNCHANGED <<lock, skip, cache, stolen, short, kills>>
  BY DEF SharePresent, InitShare, At
<1>3. /\ thr' \in [Threads -> ThreadType] /\ ThreadInv(t)' /\ thr'[t].pc = pc
      /\ \A u \in Threads \ {t} : thr'[u] = thr[u]
  BY <1>1, <1>2, Goes DEF IInv, ThreadsInv, Places
<1>4. TypeOK'
  BY <1>2, <1>3 DEF IInv, TypeOK
<1>5. QED
  BY <1>2, <1>3, <1>4, OthersKeep DEF At, Inside

LEMMA ConnectedStep ==
    ASSUME IInv, NEW t \in Threads, Connected(t)
    PROVE  IInv'
<1>1. /\ thr[t].pc = "shared" /\ lock' = None /\ Goto(t, "get")
      /\ UNCHANGED <<share, skip, cache, stolen, short, kills>>
  BY DEF Connected, At, Unlock
<1>2. lock = t \/ stolen
  BY <1>1 DEF IInv, LockInv, Inside
<1>3. /\ thr' \in [Threads -> ThreadType] /\ ThreadInv(t)' /\ thr'[t].pc = "get"
      /\ \A u \in Threads \ {t} : thr'[u] = thr[u]
  BY <1>1, Goes DEF IInv, ThreadsInv, Places
<1>4. TypeOK'
  BY <1>1, <1>3 DEF IInv, TypeOK
<1>5. QED
  BY <1>1, <1>2, <1>3, <1>4, OthersKeep DEF At, Inside

LEMMA GetStep ==
    ASSUME IInv, NEW t \in Threads, Get(t)
    PROVE  IInv'
<1>1. thr[t].pc = "get" /\ UNCHANGED <<lock, share, skip, cache, stolen, short, kills>>
  BY DEF Get, At
<1>2. thr[t] \in ThreadType /\ thr[t].n \in 1..Len(Calls[t]) /\ ~thr[t].hit
  BY <1>1 DEF IInv, TypeOK, ThreadsInv, ThreadInv, At
<1>3. ASSUME Wanted(t) \in Published, NEW c \in {Wanted(t), Torn},
             thr' = [thr EXCEPT ![t].pc = "parse", ![t].json = c]
      PROVE  IInv'
  <2> DEFINE r == [thr[t] EXCEPT !.pc = "parse", !.json = c]
  <2>1. thr' = [thr EXCEPT ![t] = r]
    BY <1>3 DEF IInv, TypeOK
  <2>2. r \in ThreadType /\ r.pc = "parse" /\ r.json = c /\ ~r.hit /\ r.n = thr[t].n
    BY <1>2, <1>3 DEF ThreadType, Places, Json
  <2> HIDE DEF r
  <2>3. /\ thr'[t] = r /\ thr' \in [Threads -> ThreadType]
        /\ \A u \in Threads \ {t} : thr'[u] = thr[u]
    BY <2>1, <2>2 DEF IInv, TypeOK
  <2>4. /\ Wanted(t).version = Slug(t).version /\ Wanted(t).author = Slug(t).author
        /\ Slug(t)' = Slug(t)
    BY <2>2, <2>3 DEF Wanted, Slug
  <2>5. ThreadInv(t)'
    BY <1>2, <1>3, <2>2, <2>3, <2>4 DEF ThreadInv, At
  <2>6. TypeOK'
    BY <1>1, <2>3 DEF IInv, TypeOK
  <2>7. QED
    BY <1>1, <2>2, <2>3, <2>5, <2>6, OthersKeep DEF At, Inside
<1>4. CASE Goto(t, "download")
  <2>1. /\ thr' \in [Threads -> ThreadType] /\ ThreadInv(t)' /\ thr'[t].pc = "download"
        /\ \A u \in Threads \ {t} : thr'[u] = thr[u]
    BY <1>1, <1>4, Goes DEF IInv, ThreadsInv, Places
  <2>2. TypeOK'
    BY <1>1, <2>1 DEF IInv, TypeOK
  <2>3. QED
    BY <1>1, <2>1, <2>2, OthersKeep DEF At, Inside
<1>5. QED
  BY <1>3, <1>4 DEF Get

\* The call ends: what was read does not parse, or the file to save it in
\* cannot be opened.
LEMMA FailsStep ==
    ASSUME IInv, NEW t \in Threads, ParseFails(t) \/ SaveFails(t)
    PROVE  IInv'
<1>1. /\ thr[t].pc = "parse" /\ UNCHANGED <<lock, share, skip, cache, stolen, short, kills>>
      /\ \E r \in {NextCall(t), Failed(t)} : thr' = [thr EXCEPT ![t] = r]
  BY DEF ParseFails, SaveFails, At
<1>2. PICK r \in ThreadType :
        /\ thr' = [thr EXCEPT ![t] = r]
        /\ \/ r.pc = "lock" /\ r.n \in 1..Len(Calls[t]) /\ ~r.hit
           \/ r.pc = "done"
  BY <1>1, CallAfter DEF IInv, ThreadsInv, At
<1>3. /\ thr'[t] = r /\ thr' \in [Threads -> ThreadType]
      /\ \A u \in Threads \ {t} : thr'[u] = thr[u]
  BY <1>2 DEF IInv, TypeOK
<1>4. ThreadInv(t)'
  BY <1>2, <1>3 DEF ThreadInv, At
<1>5. TypeOK'
  BY <1>1, <1>3 DEF IInv, TypeOK
<1>6. QED
  BY <1>1, <1>2, <1>3, <1>4, <1>5, OthersKeep DEF At, Inside

\* A file is opened for writing under the lock.
LEMMA SaveStep ==
    ASSUME IInv, NEW t \in Threads, Save(t)
    PROVE  IInv'
<1> DEFINE torn == Written(t, Torn)
<1>1. /\ thr[t].pc = "parse" /\ thr[t].json # Torn /\ lock = None /\ lock' = t
      /\ Goto(t, "write") /\ cache' = [cache EXCEPT ![SaveFile(t)] = torn]
      /\ UNCHANGED <<share, skip, stolen, short, kills>>
  BY DEF Save, At, Free
<1>2. /\ thr[t] \in ThreadType /\ ThreadInv(t) /\ thr[t].json \in Published
  BY <1>1 DEF IInv, TypeOK, ThreadsInv, ThreadInv, At
<1>3. SaveKey(t) \in Keys /\ SaveFile(t) \in Paths
  BY <1>1, <1>2, SavesWhereItBelongs
<1> DEFINE r == [thr[t] EXCEPT !.pc = "write"]
<1>4. thr' = [thr EXCEPT ![t] = r]
  BY <1>1 DEF Goto
<1>5. /\ r \in ThreadType /\ r.pc = "write" /\ r.json = thr[t].json /\ r.n = thr[t].n
      /\ r.hit = thr[t].hit /\ r.mixed = thr[t].mixed
  BY <1>2 DEF ThreadType, Places
<1> HIDE DEF r
<1>6. /\ thr'[t] = r /\ thr' \in [Threads -> ThreadType]
      /\ \A u \in Threads \ {t} : thr'[u] = thr[u]
  BY <1>4, <1>5 DEF IInv, TypeOK
<1>7. /\ cache' \in [Paths -> Entry]
      /\ cache'[SaveFile(t)].json = Torn
      /\ \A k \in Paths \ {SaveFile(t)} : cache'[k] = cache[k]
  <2>1. torn \in Entry /\ torn.json = Torn
    BY <1>2, <1>3 DEF Json, Entry, Written, ThreadType
  <2> HIDE DEF torn
  <2>2. QED
    BY <1>1, <1>3, <2>1 DEF IInv, TypeOK
<1>8. TypeOK'
  BY <1>1, <1>6, <1>7 DEF IInv, TypeOK
<1>9. LockInv'
  BY <1>1, <1>6, Constants DEF IInv, LockInv, Inside
<1>10. ThreadsInv'
  <2>1. \A u \in Threads \ {t} : ThreadInv(u)'
    BY <1>6 DEF IInv, ThreadsInv, ThreadInv, At, Key, Slug, File
  <2>2. ThreadInv(t)'
    BY <1>1, <1>2, <1>5, <1>6 DEF ThreadInv, At, Key, Slug, File
  <2>3. QED
    BY <2>1, <2>2 DEF ThreadsInv
<1>11. TornInv'
  <2> SUFFICES ASSUME NEW k \in Paths, cache'[k].json = Torn, ~stolen', ~(kills' > 0),
                      k \notin short'
               PROVE  \E u \in Threads : At(u, "write")' /\ SaveFile(u)' = k
    BY DEF TornInv
  <2>1. CASE k = SaveFile(t)
    BY <1>5, <1>6, <2>1 DEF At, SaveFile, SaveKey, ForceVersion, Slug
  <2>2. CASE k # SaveFile(t)
    <3>1. PICK u \in Threads : At(u, "write") /\ SaveFile(u) = k
      BY <1>1, <1>7, <2>2 DEF IInv, TornInv
    <3>2. thr'[u] = thr[u]
      BY <1>1, <1>6, <3>1 DEF At
    <3>3. QED
      BY <3>1, <3>2 DEF At, SaveFile, SaveKey, ForceVersion, Slug
  <2>3. QED
    BY <2>1, <2>2
<1>12. CacheInv'
  BY <1>7, Constants DEF IInv, CacheInv
<1>13. HitWhole'
  BY <1>1, <1>5, <1>6 DEF IInv, HitWhole, At, File, Key, Slug
<1>14. QED
  BY <1>8, <1>9, <1>10, <1>11, <1>12, <1>13 DEF IInv

\* What is written whole lies where a call for it looks.
LEMMA SavedStep ==
    ASSUME IInv, NEW t \in Threads, Saved(t)
    PROVE  IInv'
<1> DEFINE c == thr[t].json
<1>1. /\ thr[t].pc = "write" /\ lock' = None
      /\ thr' = [thr EXCEPT ![t] = NextCall(t)]
      /\ UNCHANGED <<share, skip, stolen, kills>>
  BY DEF Saved, At, Unlock
<1>0. PICK x \in {c, Torn} :
        /\ cache' = [cache EXCEPT ![SaveFile(t)] = Written(t, x)]
        /\ short' = IF x = Torn THEN short \cup {SaveFile(t)} ELSE short
  BY DEF Saved
<1>2. /\ ThreadInv(t) /\ c \in Published /\ c # Torn /\ (lock = t \/ stolen)
  BY <1>1, Constants DEF IInv, ThreadsInv, ThreadInv, At, LockInv, Inside
<1>3. /\ SaveKey(t) \in Keys /\ SaveFile(t) \in Paths
      /\ ~thr[t].mixed => Matches(c, SaveKey(t))
  BY <1>1, <1>2, SavesWhereItBelongs
<1>4. PICK r \in ThreadType :
        /\ thr' = [thr EXCEPT ![t] = r]
        /\ \/ r.pc = "lock" /\ r.n \in 1..Len(Calls[t]) /\ ~r.hit
           \/ r.pc = "done"
  BY <1>1, <1>2, CallAfter DEF IInv, At
<1>5. /\ thr'[t] = r /\ thr' \in [Threads -> ThreadType]
      /\ \A u \in Threads \ {t} : thr'[u] = thr[u]
  BY <1>4 DEF IInv, TypeOK
<1>6. /\ cache' \in [Paths -> Entry]
      /\ cache'[SaveFile(t)] = Written(t, x)
      /\ \A k \in Paths \ {SaveFile(t)} : cache'[k] = cache[k]
      /\ short' \subseteq Paths /\ short \subseteq short'
      /\ x = Torn => SaveFile(t) \in short'
  <2>1. Written(t, x) \in Entry
    BY <1>0, <1>2, <1>3 DEF Json, Entry, Written, IInv, TypeOK, ThreadType
  <2>2. QED
    BY <1>0, <1>3, <2>1 DEF IInv, TypeOK
<1>7. TypeOK'
  BY <1>1, <1>5, <1>6 DEF IInv, TypeOK
<1>8. LockInv'
  BY <1>1, <1>2, <1>4, <1>5 DEF IInv, LockInv, Inside
<1>9. ThreadsInv'
  <2>1. \A u \in Threads \ {t} : ThreadInv(u)'
    BY <1>5 DEF IInv, ThreadsInv, ThreadInv, At, Key, Slug, File
  <2>2. ThreadInv(t)'
    BY <1>4, <1>5 DEF ThreadInv, At
  <2>3. QED
    BY <2>1, <2>2 DEF ThreadsInv
<1>10. TornInv'
  <2> SUFFICES ASSUME NEW k \in Paths, cache'[k].json = Torn, ~stolen', ~(kills' > 0),
                      k \notin short'
               PROVE  \E u \in Threads : At(u, "write")' /\ SaveFile(u)' = k
    BY DEF TornInv
  <2>1. k # SaveFile(t)
    BY <1>0, <1>2, <1>6 DEF Written
  <2>2. PICK u \in Threads : At(u, "write") /\ SaveFile(u) = k
    BY <1>1, <1>6, <2>1 DEF IInv, TornInv
  <2>3. thr'[u] = thr[u]
    BY <1>5, <2>1, <2>2
  <2>4. QED
    BY <2>2, <2>3 DEF At, SaveFile, SaveKey, ForceVersion, Slug
<1>11. CacheInv'
  BY <1>0, <1>3, <1>6, Constants DEF IInv, CacheInv, Written
<1>12. HitWhole'
  BY <1>1, <1>4, <1>5, <1>6 DEF IInv, HitWhole, At, File, Key, Slug
<1>13. QED
  BY <1>7, <1>8, <1>9, <1>10, <1>11, <1>12 DEF IInv

LEMMA ExpireStep ==
    ASSUME IInv, NEW x \in Paths, Expire(x)
    PROVE  IInv'
<1>1. cache' = [cache EXCEPT ![x] = Nothing] /\ UNCHANGED <<lock, share, skip, thr, stolen, short, kills>>
  BY DEF Expire
<1>2. /\ cache' \in [Paths -> Entry]
      /\ \A k \in Paths : cache'[k] \in {cache[k], Nothing}
  <2>1. Nothing \in Entry
    BY DEF Nothing, Entry, Json
  <2>2. QED
    BY <1>1, <2>1 DEF IInv, TypeOK
<1>3. TypeOK'
  BY <1>1, <1>2 DEF IInv, TypeOK
<1>4. LockInv' /\ ThreadsInv' /\ HitWhole'
  BY <1>1 DEF IInv, LockInv, Inside, ThreadsInv, ThreadInv, HitWhole, At, Key, Slug, File
<1>5. TornInv' /\ CacheInv'
  BY <1>1, <1>2, Constants DEF IInv, TornInv, CacheInv, Nothing, At, SaveFile, SaveKey, ForceVersion, Slug
<1>6. QED
  BY <1>3, <1>4, <1>5 DEF IInv

\* A new process finds the cache as the killed one left it.
LEMMA KillStep ==
    ASSUME IInv, Kill
    PROVE  IInv'
<1>1. /\ kills' = kills + 1 /\ kills \in Nat /\ lock' = None /\ share' = FALSE
      /\ thr' = [t \in Threads |-> Started(t)] /\ UNCHANGED <<skip, cache, stolen, short>>
  BY DEF Kill, IInv, TypeOK
<1>2. \A t \in Threads : thr'[t] = Started(t) /\ Started(t) \in ThreadType
  BY <1>1, Fresh DEF Started
<1>3. kills' \in Nat /\ kills' > 0
  BY <1>1
<1>4. TypeOK'
  BY <1>1, <1>2, <1>3 DEF IInv, TypeOK
<1>5. ASSUME NEW t \in Threads
      PROVE  /\ (thr'[t].pc = "lock" /\ 1 \in 1..Len(Calls[t])) \/ thr'[t].pc = "done"
             /\ thr'[t].n = 1 /\ ~thr'[t].hit
  <2>1. Calls[t] \in Seq([author : Text, repo : Text, version : Text])
    BY ClibManifestAssumption
  <2>2. Calls[t] # <<>> => 1 \in 1..Len(Calls[t])
    BY <2>1
  <2>3. QED
    BY <1>2, <2>2, Begins
<1>6. ThreadsInv' /\ LockInv'
  BY <1>5 DEF ThreadsInv, ThreadInv, LockInv, Inside, At
<1>7. TornInv' /\ HitWhole'
  BY <1>3 DEF TornInv, HitWhole
<1>8. CacheInv'
  BY <1>1 DEF IInv, CacheInv
<1>9. QED
  BY <1>4, <1>6, <1>7, <1>8 DEF IInv

LEMMA Inductive == Spec => []IInv
<1>1. IInv /\ [Next]_vars => IInv'
  <2> SUFFICES ASSUME IInv, [Next]_vars PROVE IInv'
    OBVIOUS
  <2>1. CASE UNCHANGED vars
    BY <2>1 DEF vars, IInv, TypeOK, LockInv, Inside, ThreadsInv, ThreadInv, TornInv, CacheInv,
       HitWhole, At, File, Key, SaveFile, SaveKey, ForceVersion, Slug
  <2>2. ASSUME NEW t \in Threads, Step(t) PROVE IInv'
    BY <2>2, LockStep, LookStep, ReadStep, DownloadStep, ShareStep, GetStep, FailsStep, ConnectedStep,
       SaveStep, SavedStep DEF Step, Own
  <2>3. QED
    BY <2>1, <2>2, ExpireStep, KillStep DEF Next
<1>2. QED
  BY <1>1, InitHolds, PTL DEF Spec

-----------------------------------------------------------------------------
\* Every variable keeps its type: the retries never go below 0 and no call
\* beyond the last one is made (clib-package.c:643-670).
THEOREM TypeCorrect == Spec => []TypeOK
<1>1. IInv => TypeOK
  BY DEF IInv
<1>2. QED
  BY <1>1, Inductive, PTL

\* What is torn lies in the cache only while it is written, and no thread takes
\* it from there, whatever transfers break off: unless a retry freed the mutex
\* of another thread, a process was killed, or a write of this very file fell
\* short (clib-package.c:632-682, 746-762, fs.c:229).
THEOREM Whole == Spec => []ManifestsWhole
<1>1. IInv => ManifestsWhole
  BY DEF IInv, TornInv, HitWhole, ManifestsWhole
<1>2. QED
  BY <1>1, Inductive, PTL

\* What a call takes from the cache is the package and the version it asked
\* for, also after a kill, unless it goes back to a file whose name two keys
\* share (clib-package.c:701-722, 746-748, clib-cache.c:34).
THEOREM HitIsAskedFor == Spec => []HitMatchesSlug
<1>1. ASSUME IInv, NEW t \in Threads,
             At(t, "parse"), thr[t].hit, thr[t].json # Torn, ~thr[t].mixed
      PROVE  Matches(thr[t].json, Key(t))
  BY <1>1 DEF IInv, ThreadsInv, ThreadInv, At
<1>2. ASSUME NEW t \in Threads
      PROVE  Key(t)[1] = Slug(t).author /\ Key(t)[2] = Slug(t).repo /\ Key(t)[3] = Slug(t).version
  BY DEF Key
<1>3. IInv => HitMatchesSlug
  BY <1>1, <1>2 DEF HitMatchesSlug, Matches
<1>4. QED
  BY <1>3, Inductive, PTL

-----------------------------------------------------------------------------
(* Waiting for the mutex *)

\* Who holds the mutex is where it goes on to an unlock.
Holding == {"has", "read", "download", "shared", "write"}
HolderInv == lock # None => thr[lock].pc \in Holding

LEMMA StepFacts ==
    ASSUME TypeOK, NEW t \in Threads, Step(t)
    PROVE  /\ \A u \in Threads : u # t => thr'[u] = thr[u]
           /\ \/ lock' = None
              \/ lock' = t /\ thr'[t].pc \in Holding
              \/ lock' = lock /\ (thr[t].pc \in Holding => thr'[t].pc \in Holding)
<1>1. thr \in [Threads -> ThreadType] /\ thr[t] \in ThreadType
  BY DEF TypeOK
<1>2. ASSUME NEW r, thr' = [thr EXCEPT ![t] = r]
      PROVE  thr'[t] = r /\ \A u \in Threads : u # t => thr'[u] = thr[u]
  BY <1>1, <1>2
<1>3. ASSUME NEW pc, Goto(t, pc)
      PROVE  thr'[t].pc = pc /\ \A u \in Threads : u # t => thr'[u] = thr[u]
  <2>1. PICK r : r = [thr[t] EXCEPT !.pc = pc]
    OBVIOUS
  <2>2. thr' = [thr EXCEPT ![t] = r] /\ r.pc = pc
    BY <1>1, <1>3, <2>1 DEF Goto, ThreadType
  <2>3. QED
    BY <1>2, <2>2
<1>4. CASE Lock(t) \/ Connect(t)
  <2>1. PICK pc \in {"has", "shared"} : Goto(t, pc) /\ lock' = t
    BY <1>4 DEF Lock, Connect
  <2>2. QED
    BY <1>3, <2>1 DEF Holding
<1>5. CASE LookInCache(t)
  <2>1. PICK pc \in {"read", "download"} : Goto(t, pc) /\ lock' = lock
    BY <1>5 DEF LookInCache
  <2>2. QED
    BY <1>3, <2>1 DEF Holding
<1>6. CASE ReadCache(t)
  <2>1. CASE Goto(t, "download") /\ lock' = lock
    BY <1>3, <2>1 DEF Holding
  <2>2. CASE lock' = None /\ ~(Goto(t, "download") /\ lock' = lock)
    <3>1. PICK r : r = [thr[t] EXCEPT !.pc = "parse", !.json = cache[File(t)].json, !.hit = TRUE,
                                 !.mixed = cache[File(t)].mixed \/ cache[File(t)].as # Key(t)]
      OBVIOUS
    <3>2. thr' = [thr EXCEPT ![t] = r]
      BY <1>1, <1>6, <2>2, <3>1 DEF ReadCache
    <3>3. QED
      BY <1>2, <2>2, <3>2
  <2>3. QED
    BY <1>6, <2>1, <2>2 DEF ReadCache, Unlock
<1>7. CASE Download(t)
  <2>1. PICK r : thr' = [thr EXCEPT ![t] = r]
    BY <1>7 DEF Download
  <2>2. lock' = None
    BY <1>7 DEF Download, Unlock
  <2>3. QED
    BY <1>2, <2>1, <2>2
<1>8. CASE SharePresent(t) \/ InitShare(t)
  <2>1. PICK pc : Goto(t, pc) /\ lock' = lock /\ thr[t].pc \in {"share", "init"}
    BY <1>8 DEF SharePresent, InitShare, At
  <2>2. QED
    BY <1>3, <2>1 DEF Holding
<1>9. CASE Get(t)
  <2>1. lock' = lock /\ thr[t].pc \notin Holding
    BY <1>9 DEF Get, At, Holding
  <2>2. CASE Goto(t, "download")
    BY <1>3, <2>1, <2>2
  <2>3. ASSUME NEW c, thr' = [thr EXCEPT ![t].pc = "parse", ![t].json = c]
        PROVE  \A u \in Threads : u # t => thr'[u] = thr[u]
    BY <1>1, <2>3
  <2>4. QED
    BY <1>9, <2>1, <2>2, <2>3 DEF Get
<1>10. CASE ParseFails(t) \/ SaveFails(t)
  <2>1. PICK r : thr' = [thr EXCEPT ![t] = r]
    BY <1>10 DEF ParseFails, SaveFails
  <2>2. lock' = lock /\ thr[t].pc \notin Holding
    BY <1>10 DEF ParseFails, SaveFails, At, Holding
  <2>3. QED
    BY <1>2, <2>1, <2>2
<1>14. CASE Connected(t)
  <2>1. Goto(t, "get") /\ lock' = None
    BY <1>14 DEF Connected, Unlock
  <2>2. QED
    BY <1>3, <2>1
<1>11. CASE Save(t)
  <2>1. Goto(t, "write") /\ lock' = t
    BY <1>11 DEF Save
  <2>2. QED
    BY <1>3, <2>1 DEF Holding
<1>12. CASE Saved(t)
  <2>1. PICK r : thr' = [thr EXCEPT ![t] = r]
    BY <1>12 DEF Saved
  <2>2. lock' = None
    BY <1>12 DEF Saved, Unlock
  <2>3. QED
    BY <1>2, <2>1, <2>2
<1>13. QED
  BY <1>4, <1>5, <1>6, <1>7, <1>8, <1>9, <1>10, <1>11, <1>12, <1>14 DEF Step, Own

LEMMA HolderKept == Spec => []HolderInv
<1>1. Init => HolderInv
  BY DEF Init, HolderInv
<1>2. ASSUME TypeOK, HolderInv, [Next]_vars PROVE HolderInv'
  <2>1. CASE UNCHANGED vars
    BY <1>2, <2>1 DEF vars, HolderInv
  <2>2. ASSUME NEW t \in Threads, Step(t) PROVE HolderInv'
    <3>1. /\ \A u \in Threads : u # t => thr'[u] = thr[u]
          /\ \/ lock' = None
             \/ lock' = t /\ thr'[t].pc \in Holding
             \/ lock' = lock /\ (thr[t].pc \in Holding => thr'[t].pc \in Holding)
      BY <1>2, <2>2, StepFacts
    <3>2. lock \in Threads \cup {None}
      BY <1>2 DEF TypeOK
    <3>3. QED
      BY <1>2, <3>1, <3>2 DEF HolderInv
  <2>3. ASSUME NEW p \in Paths, Expire(p) PROVE HolderInv'
    BY <1>2, <2>3 DEF Expire, HolderInv
  <2>4. CASE Kill
    BY <2>4 DEF Kill, HolderInv
  <2>5. QED
    BY <1>2, <2>1, <2>2, <2>3, <2>4 DEF Next
<1>3. IInv => TypeOK
  BY DEF IInv
<1>4. QED
  BY <1>1, <1>2, <1>3, Inductive, PTL DEF Spec

\* Thread t has a step it can take by itself: it has calls left, does not wait
\* for the registry, and where it is to lock the mutex, that is free.
Locks(t) == thr[t].pc \in {"lock", "init", "connect"} \/ (At(t, "parse") /\ thr[t].json # Torn)
CanStep(t) == thr[t].pc \notin {"get", "done"} /\ (Locks(t) => Free(t))

\* The retries may free a mutex that is not theirs, but never leave one that
\* nobody frees, and a registry that stays silent keeps it from nobody: while
\* a thread has calls left and waits for no answer, some thread can take a
\* step (clib-package.c:632-682, 746-762).
NoDeadlock ==
  (\E t \in Threads : thr[t].pc \notin {"get", "done"}) => \E t \in Threads : CanStep(t)

THEOREM SomebodySteps == Spec => []NoDeadlock
<1>1. ASSUME TypeOK, HolderInv PROVE NoDeadlock
  <2> SUFFICES ASSUME NEW t \in Threads, thr[t].pc \notin {"get", "done"}
               PROVE  \E u \in Threads : CanStep(u)
    BY DEF NoDeadlock
  <2>1. CASE lock = None
    BY <2>1 DEF CanStep, Free
  <2>2. CASE lock # None
    <3>1. lock \in Threads /\ thr[lock].pc \in Holding
      BY <1>1, <2>2 DEF TypeOK, HolderInv
    <3>2. CanStep(lock)
      BY <3>1 DEF CanStep, Locks, At, Holding
    <3>3. QED
      BY <3>1, <3>2
  <2>3. QED
    BY <2>1, <2>2
<1>2. IInv => TypeOK
  BY DEF IInv
<1>3. QED
  BY <1>1, <1>2, HolderKept, Inductive, PTL
=============================================================================
