---------------------------- MODULE ClibManifest ----------------------------
(***************************************************************************)
(* clib_package_new_from_slug of src/hw8/clib/src/common/clib-package.c    *)
(* and the cache of manifests of clib-cache.c, called by the threads of    *)
(* one process: `clib build` and `clib configure` ask for the name of      *)
(* every dependency this way.  A call looks into the cache under the lock, *)
(* else downloads, with retries that go through the unlocking again, and   *)
(* saves what it parsed into the cache.  Writing a file takes two steps,   *)
(* and may fail or fall short; the process may be killed between them, and *)
(* started again.  A transfer may break off after its status came, or      *)
(* never end.                                                              *)
(***************************************************************************)
EXTENDS Naturals, Sequences, FiniteSets

CONSTANTS
  Threads,     \* the threads of the process
  Calls,       \* what each asks for: a sequence of slugs
  Published,   \* manifests the registry serves
  NameIn(_),   \* the name a manifest gives its package
  Declared(_), \* the version it declares, or None
  Retries,     \* 3 in the code
  MaxKills,    \* bound: how often the process is killed
  MaxShort,    \* bound: for how many files a write falls short
  None         \* nobody, nothing

manifest_names == <<"clib.json", "package.json">>

\* An author, a name, a version: the words between its underscores.
Text == Seq(STRING)
Master == <<"master">>
Slugs == UNION {{Calls[t][i] : i \in 1..Len(Calls[t])} : t \in Threads}

\* Author, name and version of the slugs and of what is saved for them.
Keys == {<<s.author, s.repo, s.version>> : s \in Slugs}
          \cup {<<s.author, NameIn(c), s.version>> : s \in Slugs, c \in Published}
          \cup {<<s.author, NameIn(c), Declared(c)>> :
                   s \in Slugs, c \in {d \in Published : Declared(d) # None}}

\* %s_%s_%s.json joins them with underscores: other keys may give the same.
JsonCache(key) == key[1] \o key[2] \o key[3]
Paths == {JsonCache(key) : key \in Keys}

\* A cached file: nothing, or nothing that counts since its time is over; cut
\* off; a manifest.  as: the key it was saved under; mixed: it goes back to a
\* hit on a file that was saved under another key.
Nothing == [json |-> None, as |-> None, mixed |-> FALSE]
Torn == [repo |-> "torn", version |-> "torn", file |-> "torn"]

ASSUME ClibManifestAssumption ==
  /\ Retries \in Nat \ {0} /\ MaxKills \in Nat /\ MaxShort \in Nat
  /\ Calls \in [Threads -> Seq([author : Text, repo : Text, version : Text])]
  /\ Published \subseteq [author : Text, repo : Text, version : Text,
                          file : {"clib.json", "package.json"}]
  /\ None \notin Threads /\ None \notin Published /\ None # Torn

VARIABLES
  lock,    \* the holder of lock.mutex
  share,   \* clib_package_curl_share is set
  skip,    \* opts.skip_cache
  cache,   \* the JSON cache on the disk
  thr,     \* the calls in progress
  stolen,  \* a retry released the lock another thread held
  short,   \* the files a write fell short for, once
  kills    \* how often the process was killed

vars == <<lock, share, skip, cache, thr, stolen, short, kills>>

\* The n-th call of a thread begins, with the name of the first manifest.
Call(n) == [pc |-> "lock", n |-> n, m |-> 1, tries |-> Retries, json |-> None,
            hit |-> FALSE, mixed |-> FALSE]

Started(t) == IF Calls[t] = <<>> THEN [Call(1) EXCEPT !.pc = "done"] ELSE Call(1)
Slug(t) == Calls[t][thr[t].n]

\* author/name@version of the slug names the file looked for.
Key(t) == <<Slug(t).author, Slug(t).repo, Slug(t).version>>
File(t) == JsonCache(Key(t))

Init ==
  /\ lock = None /\ share = FALSE /\ skip \in BOOLEAN
  /\ cache = [p \in Paths |-> Nothing]
  /\ thr = [t \in Threads |-> Started(t)]
  /\ stolen = FALSE /\ short = {} /\ kills = 0

At(t, pc) == thr[t].pc = pc
Goto(t, pc) == thr' = [thr EXCEPT ![t].pc = pc]

\* A mutant: the mutex does not exclude.
AnyTime(t) == t \in Threads

\* pthread_mutex_lock returns.
Free(t) == lock = None

\* pthread_mutex_unlock frees the mutex whoever holds it.
Unlock == lock' = None

\* The call gives a package, or NULL: then the next name is tried.
NextCall(t) == IF thr[t].n < Len(Calls[t]) THEN Call(thr[t].n + 1)
               ELSE [thr[t] EXCEPT !.pc = "done"]
Failed(t) == IF thr[t].m < Len(manifest_names)
             THEN [Call(thr[t].n) EXCEPT !.m = thr[t].m + 1]
             ELSE NextCall(t)

Lock(t) ==
  /\ At(t, "lock") /\ Free(t)
  /\ lock' = t /\ Goto(t, "has")
  /\ UNCHANGED <<share, skip, cache, stolen, short, kills>>

\* The file is there and not expired.
HasJson(p) == cache[p].json # None

\* With skip_cache a cached manifest is deleted.
LookInCache(t) ==
  /\ At(t, "has")
  /\ Goto(t, IF HasJson(File(t)) /\ ~skip THEN "read" ELSE "download")
  /\ cache' = IF HasJson(File(t)) /\ skip THEN [cache EXCEPT ![File(t)] = Nothing] ELSE cache
  /\ UNCHANGED <<lock, share, skip, stolen, short, kills>>

\* It may have expired since, or been deleted by who got the lock, or not be
\* readable.
ReadCache(t) ==
  /\ At(t, "read")
  /\ \/ /\ HasJson(File(t))
        /\ thr' = [thr EXCEPT ![t].pc = "parse", ![t].json = cache[File(t)].json, ![t].hit = TRUE,
                     ![t].mixed = cache[File(t)].mixed \/ cache[File(t)].as # Key(t)]
        /\ Unlock
     \/ Goto(t, "download") /\ UNCHANGED lock
  /\ UNCHANGED <<share, skip, cache, stolen, short, kills>>

\* A mutant: the tries are not counted.
TryForever(t) == [thr[t] EXCEPT !.pc = "share"]

\* One try less.
Try(t) == [thr[t] EXCEPT !.pc = "share", !.tries = @ - 1]

\* The label download.  Each retry comes here again and unlocks what this
\* thread no longer holds.
Download(t) ==
  /\ At(t, "download")
  /\ Unlock
  /\ stolen' = (stolen \/ lock \notin {None, t})
  /\ thr' = [thr EXCEPT ![t] = IF @.tries = 0 THEN Failed(t) ELSE Try(t)]
  /\ UNCHANGED <<share, skip, cache, short, kills>>

\* init_curl_share: the test is outside the lock.
SharePresent(t) ==
  /\ At(t, "share")
  /\ Goto(t, IF share THEN "connect" ELSE "init")
  /\ UNCHANGED <<lock, share, skip, cache, stolen, short, kills>>
InitShare(t) ==
  /\ At(t, "init") /\ Free(t)
  /\ share' = TRUE /\ Goto(t, "connect")
  /\ UNCHANGED <<lock, skip, cache, stolen, short, kills>>

\* libcurl takes and releases the same lock around its shared connections.
Connect(t) ==
  /\ At(t, "connect") /\ Free(t)
  /\ lock' = t /\ Goto(t, "shared")
  /\ UNCHANGED <<share, skip, cache, stolen, short, kills>>
Connected(t) ==
  /\ At(t, "shared")
  /\ Unlock /\ Goto(t, "get")
  /\ UNCHANGED <<share, skip, cache, stolen, short, kills>>

\* The registry answers.  A manifest that breaks off after status 200 is ok
\* as well; any other answer is not.
Wanted(t) == [author |-> Slug(t).author, repo |-> Slug(t).repo, version |-> Slug(t).version,
              file |-> manifest_names[thr[t].m]]
Get(t) ==
  /\ At(t, "get")
  /\ \/ /\ Wanted(t) \in Published
        /\ \E json \in {Wanted(t), Torn} :
             thr' = [thr EXCEPT ![t].pc = "parse", ![t].json = json]
     \/ Goto(t, "download")
  /\ UNCHANGED <<lock, share, skip, cache, stolen, short, kills>>

\* clib_package_new does not parse a file cut off.
ParseFails(t) ==
  /\ At(t, "parse") /\ thr[t].json = Torn
  /\ thr' = [thr EXCEPT ![t] = Failed(t)]
  /\ UNCHANGED <<lock, share, skip, cache, stolen, short, kills>>

\* A mutant: the version the manifest declares always wins.
KeepVersion(t) == IF Declared(thr[t].json) # None THEN Declared(thr[t].json) ELSE Slug(t).version

\* The version asked for replaces the declared one, unless it is master.
ForceVersion(t) ==
  IF Declared(thr[t].json) # None /\ Slug(t).version = Master
  THEN Declared(thr[t].json) ELSE Slug(t).version

\* The package is saved under the author asked for, and the name and the
\* version it has now.
SaveKey(t) == <<Slug(t).author, NameIn(thr[t].json), ForceVersion(t)>>
SaveFile(t) == JsonCache(SaveKey(t))
Written(t, json) == [json |-> json, as |-> SaveKey(t), mixed |-> thr[t].mixed]

Save(t) ==
  /\ At(t, "parse") /\ thr[t].json # Torn /\ Free(t)
  /\ lock' = t /\ Goto(t, "write")
  /\ cache' = [cache EXCEPT ![SaveFile(t)] = Written(t, Torn)]
  /\ UNCHANGED <<share, skip, stolen, short, kills>>

\* The file cannot be opened: -1.
SaveFails(t) ==
  /\ At(t, "parse") /\ thr[t].json # Torn /\ Free(t)
  /\ thr' = [thr EXCEPT ![t] = NextCall(t)]
  /\ UNCHANGED <<lock, share, skip, cache, stolen, short, kills>>

\* fwrite may write less than all: its count is not -1.
Saved(t) ==
  /\ At(t, "write")
  /\ \E json \in {thr[t].json, Torn} :
       /\ cache' = [cache EXCEPT ![SaveFile(t)] = Written(t, json)]
       /\ short' = IF json = Torn THEN short \cup {SaveFile(t)} ELSE short
       /\ Cardinality(short') <= MaxShort
  /\ Unlock
  /\ thr' = [thr EXCEPT ![t] = NextCall(t)]
  /\ UNCHANGED <<share, skip, stolen, kills>>

\* What a thread does by itself.
Own(t) ==
  \/ Lock(t) \/ LookInCache(t) \/ ReadCache(t) \/ Download(t)
  \/ SharePresent(t) \/ InitShare(t) \/ Connect(t) \/ Connected(t)
  \/ ParseFails(t) \/ Save(t) \/ SaveFails(t) \/ Saved(t)
Step(t) == Own(t) \/ Get(t)

\* 30 days pass for a file.
Expire(p) ==
  /\ HasJson(p)
  /\ cache' = [cache EXCEPT ![p] = Nothing]
  /\ UNCHANGED <<lock, share, skip, thr, stolen, short, kills>>

\* The process is killed, another one started.
Kill ==
  /\ kills < MaxKills /\ kills' = kills + 1
  /\ lock' = None /\ share' = FALSE
  /\ thr' = [t \in Threads |-> Started(t)]
  /\ UNCHANGED <<skip, cache, stolen, short>>

Next == (\E t \in Threads : Step(t)) \/ (\E p \in Paths : Expire(p)) \/ Kill

\* Nothing makes the registry answer: no time out is set.
Spec == Init /\ [][Next]_vars /\ \A t \in Threads : WF_vars(Own(t))

-----------------------------------------------------------------------------
\* A manifest taken from the cache was read whole, although threads read and
\* write the same file and a transfer that broke off counts as ok: what is
\* torn lies in the cache only while it is written.  Unless a retry has
\* released the lock another thread held, a process was killed while it
\* wrote, or a write of this file fell short, which nobody notices
\* (clib-package.c:632-682, 746-762, http-get.c:62, fs.c:229).
ManifestsWhole ==
  stolen \/ kills > 0 \/
    /\ \A t \in Threads : At(t, "parse") /\ thr[t].hit /\ thr[t].json = Torn => File(t) \in short
    /\ \A p \in Paths \ short : cache[p].json = Torn =>
         \E t \in Threads : At(t, "write") /\ SaveFile(t) = p

\* What a call takes from the cache is of its author, names itself as the slug
\* does, and is of the version asked for or is the master's that declares this
\* version: unless it goes back to a file that two keys share
\* (clib-package.c:701-722, 746-748, clib-cache.c:34).
HitMatchesSlug ==
  \A t \in Threads :
    At(t, "parse") /\ thr[t].hit /\ thr[t].json # Torn /\ ~thr[t].mixed =>
      LET c == thr[t].json IN
      /\ c.author = Slug(t).author /\ NameIn(c) = Slug(t).repo
      /\ \/ c.version = Slug(t).version
         \/ c.version = Master /\ Declared(c) = Slug(t).version

\* Every thread gets an answer to each of its calls, or waits for a registry
\* that stays silent (clib-package.c:643-670, http-get.c:43-66).  Whoever
\* waits there keeps nobody else from the cache.
CallsEnd == \A t \in Threads : <>At(t, "done") \/ <>[]At(t, "get")
=============================================================================
