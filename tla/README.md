# TLA+ models of otus_c

The repository is a collection of C programs, one directory per exercise. Most
are sequential filters; the ones below `hw6`, `hw8`, `hw9`, `hw11`, `hw12` and `hw13` have
threads, shared buffers, signals, sockets, timeouts or error paths that a unit test
hardly reaches. This directory models those, checks the models with TLC and proves some
of their properties with TLAPS. Line numbers refer to the files under `src/`.

- [Inventory](#inventory)
- [Modules](#modules)
- [Log analyser: the pool](#log-analyser-the-pool-logpool-logtally)
- [Log analyser: cutting a file](#log-analyser-cutting-a-file-blocksplit)
- [Log analyser: the hashmap](#log-analyser-the-hashmap-openhashmap-countermap)
- [Logger](#logger)
- [Inotify daemon](#inotify-daemon-inotifyd)
- [Web server](#web-server-webserver)
- [clib: the cache of manifests](#clib-the-cache-of-manifests-clibmanifest)
- [clib: install, update, upgrade](#clib-install-update-upgrade-clibfetch-clibinstall-clibcommands)
- [clib: build and configure](#clib-build-and-configure-clibbuild-clibconfigure)
- [Figlet client](#figlet-client-figletclient)
- [What the models show of the code](#what-the-models-show-of-the-code)
- [Runs](#runs)
- [Proofs](#proofs)
- [What is only model-checked, and what is not modelled](#what-is-only-model-checked-and-what-is-not-modelled)
- [What is left to prove](#what-is-left-to-prove)

## Inventory

| Component | State | Operations | Hard behaviours | What makes it correct |
|---|---|---|---|---|
| hw11 log analyser, `main.c` | list of paths, job channel, one `JobResult` per worker, the combined result | cut, send, close, join, combine, report; receive, open, read, parse | worker threads on a bounded channel; workers that die; error paths that release what threads use | each block counted once; a printed report holds every block; nothing is released under a running worker; the program ends |
| hw11 cutting of a file, `main.c` | offset, length, limit; the worker's buffer | search the newline, send a block, read it | a log that grows or is truncated; off-by-ones at block ends; `char` and `EOF` | blocks fit the buffer; each line is parsed by one worker |
| hw11 `lib/open_hashmap.c` | buckets, number of elements | set, get (allocates a vacant node where it misses), realloc, delete, traverse | probe chains across growth and failure of an allocation | a key has one node and is found; the map is a table of counters |
| hw11 `lib/darray.c` | a vector | push, set, get | growth | used by one thread only |
| hw6 logger | sinks, mutex, backtrace buffer | init, enable sink, log, fatal log with backtrace, deinit | threads; a mutex taken in one function and released in another; failing sinks | records whole, one order in all sinks, own backtrace |
| hw9 inotify daemon | configuration, watch, table of clients, flags | start, reload on SIGHUP, accept, tell an event, end | signals, clients that leave or stall, failed reloads, restart after being killed | clients keep their slot, hear the same news, are answered |
| hw13 web server | per worker: epoll set; per client: parse and send state | accept, read, parse, open, send header, send file | edge-triggered events, partial writes, half-closed clients, worker threads | each request answered once and completely, then nothing more |
| hw8 `clib`, manifests | cache of manifests on the disk, one mutex, the shared curl handle | look up, download with retries, parse, save, expire | threads on one lock that a retry releases; cut transfers and writes; kills while a file is written | what is parsed was read whole; a hit is what was asked for; every call is answered |
| hw8 `clib install`, `update`, `upgrade` | names visited, copies on the disk, cache of packages, reference counts | install a list, a package, its sources by threads, its dependencies; copy from and to the cache | threads in slots, failures nobody looks at, cyclic dependencies, kills in a copy | the cache holds whole packages; no thread outlives what it uses; 0 means done; the end |
| hw8 `clib build`, `configure` | hash of what was built, environment, threads per package | read, set PREFIX, make, start dependencies in batches, join | threads that start threads along a graph with cycles, one environment | nothing is made below itself; a result of 0 means all; the root's prefix; the end |
| hw12 figlet client | socket, timeout, buffers | connect, read prompt, send, read answer | three polling loops on one timeout | ends within the timeout; the answer is whole |
| hw14 database wrapper | handler, result vectors | connect, query, print, close | two back ends | a result is printed as fetched and released once |
| hw3 containers | hashmap over FArray, radix map, open hashmap | set, get, delete, sort, find, count words | capacity limits, order of deletes | map laws; sorted contents |
| hw4 GStreamer source | file descriptor, offset | open, read, close | short reads | the bytes of the file in order |
| hw1, hw2, hw5, hw7, hw10 | none beyond one pass over the input | scan, recode, fetch, map and filter, CRC | none | pure functions of the input |

How they interact: the log analyser's workers use the hashmap for their results,
the master combines them through the same hashmap; the master's cutting feeds
the channel. All others are programs of their own. The logger is exercised by
the threads of `hw6/bin/main.c`. The programs of `clib` are separate processes that
share the two caches on the disk and `common/clib-package.c`: `build` and `configure`
use its manifests, `install`, `update` and `upgrade` its packages as well.

`PROJECT.json` lists the hazards of this code, each at its line, with the
properties that watch it.

## Modules

| Module | Models | Kind |
|---|---|---|
| `LogTally` | what the analyser promises: a set of blocks counted, then a report of all of them, or failure | abstract specification |
| `LogPool` | master, channel and workers of `hw11/main.c` | implements `LogTally` |
| `BlockSplit` | cutting one file and reading its blocks | refines the "block" of `LogPool` to bytes |
| `CounterMap` | a table of counters with operations that may be refused | abstract specification |
| `OpenHashmap` | `hw11/lib/open_hashmap.c` as its callers use it | implements `CounterMap` |
| `Logger` | `hw6` | |
| `Inotifyd` | `hw9/main.c` and the world around it | |
| `WebServer` | the workers of `hw13/main.c`, their clients and epoll | |
| `ClibManifest` | `clib_package_new_from_slug` and the cache of manifests, called by threads | |
| `ClibFetch` | the threads that fetch files, the options | used by `ClibInstall` |
| `ClibInstall` | `clib_package_install`, `install_packages` and the cache of packages | extends `ClibFetch` |
| `ClibCommands` | the mains of `clib install`, `update`, `upgrade`; kills and reruns | composes the two above |
| `ClibBuild` | `clib build` | |
| `ClibConfigure` | `clib configure`, by what it does differently | extends `ClibBuild` |
| `FigletClient` | `hw12/main.c` and the server it talks to | |
| `*MC` | constants and symmetry for TLC | |
| `*Proofs` | theorems with TLAPS proofs | |

Data is abstracted to what the properties tell apart: a job's contribution is
the block it came from, a record is the call that wrote it, a message is the
event it tells. Control is kept: every early return, error path and order of
assignments that changes shared state. Each definition that stands for code is
in the `map` of `PROJECT.json` with its lines. A definition called a mutant in its
comment is not used by the model: it is a plausible bug, kept to show that a
property notices it.

## Log analyser: the pool (LogPool, LogTally)

`mpc` is the master's place in `main` and `wpc` a worker's place in `worker`.
`queue`, `closed` and `disposed` are the channel (an external library: a bounded
FIFO; receivers drain it after the close). `hand` is the job a worker received,
`curPath` and `pos` its open file and position, `result` its three maps and
`merged` the master's. A map counts how often each block went into it.

Where the code tests a call, the model has a fault of that name in `Faults`, so
the same module describes the fault-free program and each failure. One master
step is one iteration of the outer loop, one block, one send or one join; the two
maps of a worker are combined in separate steps, because each can stop
half-way without anybody noticing (506-516). With one worker the master takes
the worker's maps as they are (477-489).

Properties:

- `CountedOnce`: no block is in two places (channel, hand) at a time or counted
  twice in any map.
- `ReportComplete`: if the report was printed and no combining was cut short,
  every map holds every block exactly once. It takes the check for NULL results
  (500) to hold.
- `ReleaseAfterQuiet`: on the normal path the paths and the channel go only after
  all workers have exited. On the error path they go under running workers;
  `TouchReleased` is the crash this can lead to.
- `ReadsOwnBlock`: the missing `fseek` at offset 0 (239) does no harm, because a
  worker gets its jobs of a file in ascending order.
- `EndsUnlessAbandoned`: the program ends, unless every worker is dead and the
  master waits for room in the channel.
- `ImplementsTally`: all of it as a refinement, for the total of bytes, whose
  combining cannot be cut short: a block is counted once, what a failing worker
  loses is never counted again, and a report needs every block.

`DeadWorkerIsNoticed` is what the messages at 466 and 500 suggest, and is violated:
with all workers dead the master blocks in `chan_send`.

Fairness: the master's thread and each worker's thread are scheduled (weak
fairness of each), as the operating system does.

## Log analyser: cutting a file (BlockSplit)

The file is a sequence of bytes: newline, 0xFF, any other. `NextBlock`, `Expand`
and `SendBlock` are the loop of 439-467, one byte of the search at a time;
`ReadBlock` is a worker's `fread`, the terminating zero and the split into lines
(245-269). `Grow` and `Truncate` are the program that writes the log.

`JobFitsBuffer` says the limit on the search is right for every block and page
size. `LinesParsedOnce` says that the odd arithmetic works: an extended block
ends with the first byte of the next line (the README of hw11, lines 33-35,
says: at the line break), the zero is written over that byte, and every line without a 0xFF byte and longer than three bytes is parsed
exactly once, at most its first byte missing. `WildWriteNeedsTruncation` says that `buf[read - 1]`
is outside the buffer only if the file was truncated.

## Log analyser: the hashmap (OpenHashmap, CounterMap)

`hash` is any function from keys to hashes, chosen in `Init`. The step `Count` is
what both callers do with a map (322-348 in the worker, 103-122 in the
combination): get, then add to the value found or set a new one; every
allocation inside may fail once it is named in `Faults`. Growth
(`OpenHashmap_realloc`) rehashes into 3n/2 buckets when more than nine tenths are
used. When the new table cannot be created, set succeeds and the old one stays;
when a node cannot be copied, set reports an error although the pair is stored.

`EveryNodeFound` is the invariant of open addressing across growth and failures: the
search for a key stops at the node that holds it, so that there is one. `ImplementsCounters`: as counters, the map adds
each amount exactly once or not at all, never to another key, and an amount that
is not added is reported (one that is added may be reported as failed too).

`DeleteKeepsOthers` is checked with deletes allowed and is violated: `delete`
leaves a vacant node that ends the probe chains through it. The analyser never deletes.

## Logger

`stage` is the place in `hw6/bin/main.c`, `pc` each thread's place in a logging
call; `m` is the mutex, `btbuf` the shared backtrace buffer, `out` what was
written through each sink, one entry per stdio call. A call may fail and is not
repeated (`drops`). `LOGGER_FATAL` locks, captures, logs and unlocks in three
functions; each is a step of its own.

`RecordsUnbroken`, `OwnBacktrace`: what the mutex is for.
`FatalIsNewest`: a fatal record, stamped under the mutex, is newer than anything
before it in a sink; ordinary records are stamped before the lock and need not
be. `NothingLost`: without failing writes every call of a thread is in every
sink when the program ends. `Terminates`: deinit destroys the mutex it holds,
which fails, and leaves it locked: the program ends nevertheless, because nothing
logs after it.

The number of sinks is limited twice: by 8 slots in the library and, in `main`, by
the error code `LOGGER_MAX_SINKS`, which is 3. The instance has `MaxArgs` 3 and
`MaxSinks` 2, so both limits are met.

Fairness: each thread is scheduled. The mutex need not be fair: threads make
finitely many calls.

## Inotify daemon (Inotifyd)

`pc` is the place in the loop (262-366); the steps are cut where something from
outside can change what the next one reads: between the test of the flag and
`select`, between the parts of a reload, between two clients of a notification.
`conf` holds paths, NULL or freed memory. `Gone` is the end of the process,
`Start` the next one. SIGHUP may arrive at every step; in `select` it interrupts,
in a blocked `send` it makes `send` fail, which ends the server.

A path is a name. `names` says what each one bears: a file, a symbolic link or nothing;
`Remove`, `Rename` and `Create` change that under the server. `inotify_add_watch` follows a
link and from then on watches the file, whatever it is called (`Found`, `watch`); `lstat`
takes the path as it is at that moment and does not follow (`Stats`). So a renamed file is
still watched, without an event; one that lost its last name is deleted, with its watch.

`told` (the events handled) and `since` are history: what the clients should have
heard. The messages about one event to one client are one step: a client either gets
them, or has left (EPIPE at some of them), or blocks the server. The size of the
table is one of the values up to `MaxClients`, so that it fills up.

- `KeepsItsSlot`: a client that was told Ready is in one slot until it leaves.
- `SameNews`: it is told every event handled since, also when others leave
  during the notification.
- `NewsAboutOneFile`: the size it is told is of the file the event is of, across
  renames and reloads, unless the last reload failed half-way, the path has come to name
  something else since the watch was made (`moved`), or it is a link. A reload that succeeds
  sets it right; TLC finds a state for each of the exceptions.
- `Answered`, `RemovalEnds`: liveness, unless a client stalls the server.

An event that arrives with others in one read is lost unless it is the first:
`ret` is overwritten by the result of `lstat` (325). So `RemovalEnds` demands that the
removal is the first event.

Fairness: only the server's thread. Clients, files and signals do what they like;
`accept` fails finitely often (a busy server whose `accept` fails tries again at once, 306-312), and
connections are finitely many, since an endless stream of them keeps the
server from reading events (the `continue` at 312).

## Web server (WebServer)

`wpc` is a worker's place in `worker`, `cur` the event in hand, `events` the rest of what
`epoll_wait` returned, `last` the variable `ch`, which the label `error` frees. `ch[c]` is a
client's handle: `ec` is 0 until the request was parsed, `prepared` is
MS_PREPARED_HEADER, and the other bits of `state` follow from `ec`, `header_sent` and
`content_sent`. `stream` is everything written to the client's socket, unit by unit.
A read takes all there is up to EAGAIN in one step; each `write` and each `sendfile` is
a step, so that a client can read, send, leave or connect in between.

The kernel is external. `ready` is the ready list of each epoll instance, as a set, so
events come in any order; an item is reported with what it is ready for at that
moment. EPOLL_CTL_MOD looks at the socket again, EPOLL_CTL_DEL takes it off the
list, and `Woken` is EPOLLEXCLUSIVE: a connection is announced to some instances,
one with a waiting worker among them if there is one.

- `AnswerIntact`: a client receives header and content in order, nothing twice,
  across any number of interrupted writes and later requests.
- `NoLostEvent`: in every state, what a socket is ready for, and the server still
  wants, is announced or about to be looked at. This is what reading up to EAGAIN and
  asking for EPOLLOUT after it are for.
- `NoDanglingEvent`: no pointer in an event outlives its handle.
- `ClosedWhenDone`: the server closes only after a whole answer, or when the
  client has ended its side. A client that shuts down its writing side with the
  request is closed without an answer (393).
- `Answered`: every request of a patient client is answered.

What the properties excuse, because no text promises otherwise: a failed `accept`
ends its worker and frees the handle of the client it looked at last, a second
time if that was closed (`AcceptFails`); a file that shrinks during `sendfile`
makes its worker loop for ever (`Spinning`); a header that cannot be prepared
counts as sent, because `rc` is still 0 (316, 338; `dirty`). A path that is not a
regular file is answered with 500: CHECKRC at 443 sets WS_NOT_FOUND, which the
label `error` overwrites (464; `StatusOf`).

Fairness: the workers are scheduled, and clients read. Nothing is assumed of when
they send, leave or connect.

## clib: the cache of manifests (ClibManifest)

`thr[t]` is a thread's call: its place, the manifest name it is at, the tries left. A
thread is in `clib_package_new_from_slug` from the lock to the answer; the calls that
change shared state (the lock, the share, the files) are steps of their own. Writing a
file takes two, so that it can be read or the process killed between them; opening it may
fail (`SaveFails`), and the write may fall short, which `clib_cache_save_json` does not tell
from success (`Saved`, `short`). The registry is external: it serves `Published`, or refuses,
or breaks off after status 200, which `http_get_shared` calls ok (http-get.c:62), so that the
torn text is parsed and not tried again; or it stays silent for ever, since no time out is
set (43-66). A file whose 30 days are over counts as none everywhere, and is none in the model.

Authors, names and versions are sequences of words without underscores, and `JsonCache`
joins them, as `%s_%s_%s.json` does: kit_x@v1 and kit@x_v1 of one author share a file. `cache`
is a function of files; each remembers the key it was saved under (`as`), and whether its
content goes back to a hit on a file of another key (`mixed`). Both only serve the property.

The label `download` unlocks the mutex, and a retry comes back to it (652, 670). By then
another thread may hold the mutex, or libcurl on its behalf (408): `stolen` remembers
that it was released. `ManifestsWhole` says that this, a kill and a short write of the very
file are the only ways for a torn manifest to stay in the cache and to be taken from there;
a transfer that broke off is none. The file is looked for under the name and the version of
the slug but saved under those the manifest declares (620, 747); `HitMatchesSlug` says which
mistakes that allows: the master, where a version it declares was asked for; another
repository of the same author that gives its package the same name; and the shared file
names, whose effect spreads, since what is hit is saved again under the name it declares and the version
asked for. `CallsEnd`: every call is answered, unless its thread waits for a silent
registry; that keeps nobody else from the cache, because the lock is not held meanwhile.

Fairness: each thread is scheduled (`Own`); nothing makes the registry answer. libcurl takes
its lock more than once in a transfer; the model has it once, before the answer.

## clib: install, update, upgrade (ClibFetch, ClibInstall, ClibCommands)

The calls nest along the graph of dependencies, so `stack` holds what is in progress:
`main`, lists (`install_packages`) and packages (`clib_package_install`); `StackLimit` is the
stack of the process, and running out of it a crash. A package object is named by the
number of its call; `refs` and `freed` are its reference count and its end. `fetch` holds
the threads: each looks for the file, empties it, writes it, and counts the
reference down in a read and a write; the installing thread counts up in the same way.
`disk` says of each file whether it is absent, cut or whole, and `cache` the same of the
cached package.

`ClibCommands` has the mains. `clib update` is `clib install` with other options, so their
steps share definitions; `Exit` takes all threads with it. `Rerun` starts the
program again, after its end or in the middle (a kill), on the disk as it is.

- `CacheWhole`: what is cached is whole, unless a fetch failed or a copy was cut (nobody
  looks at the result of a fetch), the package has more sources than slots, or it was
  fetched again by force while threads of an attempt that failed to start one still wrote.
- `LateThreadIsOverflow`: the only thread that outlives its call is that of slot
  `opts.concurrency`, which the loop fills and never joins (1492-1495); or one left by a later
  `pthread_create` that failed.
- `ZeroMeansInstalled`: what an exit code of 0 means, with the cases where it means
  nothing.
- `NestingBounded`: not more calls are past the test for visited names than there are packages.
- `Ends`, and `NestingBounded`: visited names end cyclic dependencies; with `--force`, and in
  `clib update`, which sets it, the recursion does not end until the stack does.

Fairness: of everything the process does (`Work`), as one: when something can run,
something does. The threads do finitely many steps and the main thread waits for
them, so this is less than the scheduler gives.

## clib: build and configure (ClibBuild, ClibConfigure)

A thread is named by the path of starts that led to it, `main` is the empty one. A
thread's frame is one call of `build_package` with `build_package_with_manifest_name`
inside. What the mutex covers is a step (`Enter`, `Made`); `setenv` and `system` are two
steps, because the environment is shared. The data passed to a thread lies in the frame
of its parent (`wraps`): `cut` marks the threads whose parent returned before they
read it; such a thread may find there what it was given, the directory of another dependency,
or nothing (`BeginElsewhere`). The registry may be flaky: then any lookup may fail. In a starved
setup a thread may not be created (`ThreadFails`): its slot of the batch counts as filled (`strays`),
nothing tests `rc`, and the next create overwrites it. The join of such a slot is of no thread: it
returns at once (`Join`), or the process is `undefined` from there on (`JoinStray`).
An argument is a word, since `main` tells them apart by their form: a slug, a path with a dot or without,
the dot, a manifest file (of which only the name is kept, so that it is read in the working directory),
or a path to nothing, of which `realpath` makes NULL (`CrashOnPath`). The working directory and a copy of
it under `deps` are two directories.

- `NeverMakesItsAncestor`: two threads may make one package, but never one below the
  other, which is what ends cycles; only a thread left behind by a failed lookup may meet
  `main`, which has gone on to its next argument.
- `CompleteAtExit`: a build without a failed lookup that returns has gone through every directory
  named, and all its threads ended; it has gone through all they need, too, except for what lies behind
  a thread that could not be created. For that its result may be 0 or not, as the next create decides.
- `PrefixOfRoot`: make runs with the prefix of the root package or the command
  line if there is one; two packages with prefixes of their own may disturb each other.
- `Terminates`: the process ends, or comes to a join of no thread.

Fairness: some thread runs (`WF_vars(Next)`); each waits only for threads it started.

## Figlet client (FigletClient)

`pc` is the loop of `main`. A read takes any number of bytes that are there; one that
would block costs a second. The server greets, echoes, answers and may close. Each
`write` starts with the first byte of the message (160), so after a partial one the server
gets a command it does not know. `PrintedIsAnswer`: with time left, what is printed is the server's picture, unless a
banner contains what looks like the prompt, or the picture does after the echo of the command. `EndsUnlessClosed`: the client
ends, unless the server closes: then `read` returns 0 without an error and the loop
does not end (143-154).

Fairness: only the client's.

## What the models show of the code

Two things contradict what the repository says of itself and are runs that
expect a violation (see `findings` in `PROJECT.json`): the analyser whose workers all failed
hangs in `chan_send` (hw11 `main.c:465`), and a delete in the hashmap hides other keys
(`open_hashmap.c:229`). The others are stated as exceptions of properties that hold:

- hw9: `clients_num` is never reduced, so that a daemon with free slots says it is busy
  (`main.c:298`, against `README.md:32`); a reload that fails has already destroyed the
  configuration it claims to go on with (271); the size told is that of the path's bearer, or
  of a link itself, not of the file watched (325 against 94).
- hw13: one failed `accept` ends a worker and its clients (562); a file that shrinks while
  it is sent makes the worker spin (281).
- clib, manifests: an unlock too many on every retry (`clib-package.c:652`); torn and
  mismatched files in the cache, from kills, short writes and file names that two keys share.
- clib, install: a thread per full batch is never joined and works on freed memory
  (1495); the results of fetches are lost (1498), and incomplete packages cached; a failed
  `clib install .` ends with 0 (`clib-install.c:347`); with two manifests the second
  attempt always succeeds; `clib update` never ends on cyclic dependencies; a package with a
  `configure` script cannot be installed globally.
- clib, build: what make or a thread returned is lost (`clib-build.c:287, 304, 364`); a
  failed lookup leaves threads behind with pointers into a dead frame (352); a thread that could not
  be created is joined all the same, and the result may be 0 with its package not built (361-391).
- hw12: a timeout counts as success (155), a closed connection as silence (143).

## Runs

| Run | Instance | Shows | Why these bounds |
|---|---|---|---|
| `pool` | 1 or 2 workers, files of 3, 0 and 2 blocks, every fault | all of the pool's properties | two workers race for every job; a file larger than the channel, an empty one, and one after it to move on to |
| `pool_abandoned` | only `fopen` fails | `DeadWorkerIsNoticed` violated | |
| `split` | every file up to 7 bytes, blocks of 2, a page of 4, one change of the file | all of the cutting's properties | up to three blocks; the search may end in a newline, 0xFF, the end of the file or the limit |
| `hashmap` | 4 keys, each hash in {0, 2, 5}, 3 buckets | `EveryNodeFound` and `ImplementsCounters` | collisions, wrap-around, and two growths (3 to 4 to 6) |
| `hashmap_delete` | the same with deletes | `DeleteKeepsOthers` violated | |
| `logger` | main and 2 threads of one call each, up to 2 sinks, one failing write | all of the logger's properties | two records contend for the mutex |
| `inotify` | 2 clients, 1 or 2 slots, 2 files, a link, 3 outside events, 3 configurations | safety and liveness of the daemon | the table is full or not; three events: modify, rewrite, SIGHUP in any order, or a file moved away, a link in its place, and a modification; starts after a first one are left to the theorems, which hold for any number |
| `web` | 2 workers, a client that sends in 3 pieces and may leave, one that sends nothing, 1 unit per socket, an answer of up to 4 units, one fault of any kind | safety and liveness of the server | a header and a file need several writes each, every one broken off by a full socket; a request comes in pieces, with a third behind it; both workers compete for the listening socket |
| `clib_manifest` | 2 threads with 3 calls, 3 versions of a repository, 2 tries, 1 kill, 1 file written short | all of `ClibManifest` | a retry while the other thread holds the lock; a master and a tag that declare one version; two keys with one file; a registry that refuses, breaks off or stays silent |
| `clib_install` | 12 command lines, 3 packages, 2 runs | all of `ClibCommands` | a cycle of two packages, one with more sources than the 2 slots, one that is an executable; with each kind of fault where it matters; the second run finds what the first left |
| `clib_build` | 27 setups of 4 packages, batches of 2; 210,668 states | all of `ClibBuild` and `ClibConfigure` | a diamond, cycles, three dependencies in two batches, one that is not there, a registry that fails, a thread left behind while main goes on, threads not created in a full and a last batch, the same files by several names |
| `figlet` | 2 banners, 3 pictures, 3 seconds, 2 addresses | all of `FigletClient` | each of the loops can meet the timeout; a prompt inside banner or picture; more bytes than the buffer |

`CHECK_DEADLOCK FALSE` is set where the program ends, or where a bound stops the
environment. Every property of a passing run has a mutant in `PROJECT.json`: one definition
of the model replaced by a plausible bug, under which TLC finds the property
violated.

## Proofs

The theorems hold for every value of the constants that satisfies the module's
`ASSUME`; the only other assumptions are the definitions themselves. Each
module of proofs follows one pattern: an inductive invariant `IInv`, whose conjuncts
are named for what they are about; a lemma that `Init` implies it; lemmas by action or by
conjunct that every step keeps it; and theorems `Spec => []P` by PTL. TLC checked each
`IInv` as an invariant of small instances before it was proved. None of the properties is inductive
alone: what each of them needs beside it is below. `FailuresExplained`, `NoDeadlock`, `JoinsOne` and
`DepthBounded` are no property of a run; they are defined where they are proved.

| Module | Theorems | For any |
|---|---|---|
| `LogPoolProofs` | `TypeOK`, `ReadsOwnBlock`, `ReleaseAfterQuiet`, `CountedOnce`, `ReportComplete`, `OpensEachFileOnce`, the refinement `ImplementsTally`; `NoDeadlock` | number of workers, files, set of faults |
| `LogParsingProofs` | of `BlockSplit`: `TypeOK`, `JobFitsBuffer`, `GivesUpOnLongLineOnly`, `WildWriteNeedsTruncation`, `LinesParsedOnce` | file, block and page size, changes of the file |
| | of `OpenHashmap`: `MapTypeOK`, `EveryNodeFound`, `GrowsOnce`, `FailuresExplained`, the refinement `ImplementsCounters` | set of keys, hash function, first size of the table, set of faults |
| `LoggerProofs` | `TypeOK`, `RecordsUnbroken`, `OwnBacktrace`, `FatalIsNewest`, `NothingLost`, `NoDeadlock` | number of threads, sinks, calls, failing writes |
| `InotifydProofs` | `TypeOK`, `KeepsItsSlot`, `SameNews`, `NewsAboutOneFile` | clients, size of the table, files, links, paths, configurations, events, restarts |
| `SocketProofs` | of `WebServer`: `TypeOK`, `AnswerIntact`, `NoDanglingEvent`, `ClosedWhenDone`, `NoLostEvent` | workers, clients, sizes, batches of events, faults |
| | of `FigletClient`: `PrintedIsAnswer` | command, banner, answer, timeout, cut of the bytes |
| `ClibManifestProofs` | `TypeOK`, `ManifestsWhole`, `HitMatchesSlug`, `NoDeadlock` | threads, calls, registry, retries, kills |
| `ClibInstallProofs` | `TypeOK`, `CacheWhole`, `LateThreadIsOverflow`, `NestingBounded`, `ZeroMeansInstalled`, `JoinsOne`, `NoDeadlock` | registry, command line, faults, number of slots, depth of the stack, reruns |
| `ClibBuildProofs` | `TypeOK`, `NeverMakesItsAncestor`, `CompleteAtExit`, `PrefixOfRoot`, `DepthBounded` (for a finite graph), `NoDeadlock` | graph of dependencies, batch size, setup of `build` or `configure` |

**LogPoolProofs.** The invariant places every block that was sent: `PlaceInv` says
it is in exactly one of the channel, a hand, a result, the master's maps, or lost with a
worker that failed; `OrderInv` that a worker has only seen jobs before the ones
still queued, which is why its file position is right at offset 0 and why it
never turns back; `MergeInv` that the master's maps hold exactly the workers
already joined; `CompleteInv` that after the last join without a failure nothing is left
elsewhere. `ImplementsTally` is then shown step by step: a step of the pool counts the block in a
worker's hand, loses what a failing worker had, reports, gives up, or is a stutter;
`GivenUpInv` says that a master that gave up is on its way out, so no report follows.

**LogParsingProofs, the blocks.** `SearchInv` ties `len` to the number of bytes searched and `limit` to
what is left of the page, `PassedInv` says that the bytes passed hold no newline. For
`LinesParsedOnce`, `CutInv` says that a block ends only right behind the byte after a newline,
at a 0xFF, or behind what `stat` saw, `TileInv` that the blocks cover the file without
overlapping, and `ParsedInv` that each worker makes of its block the lines that end in
it. Because `stat` is taken once, growth does not disturb this; after a truncation nothing
is promised.

**LogParsingProofs, the map.** (The names of `OpenHashmap` begin with `Map` where `BlockSplit` has
the same ones, so that one module can extend both.) `MapInv` says that the table is `Whole`: of some
size, with every node where get stops for its key (`Chains`). A node is put where no chain passes, because the chains stop at
vacant buckets (`NodeAdded`), and its key has no other node, or get would have found it; this is
where set, which compares no keys, relies on the get before it. For growth, `Copying` unfolds the
recursive function `CopiedUpTo`, and `CopyKeeps` is an induction over the old buckets: after `i` of them the new
table has the keys of the first `i` buckets and at most `i` nodes, so there is a vacant bucket for the
next, and no load that would make the new table grow in its turn (`GrowsOnce`), which is why
`Copied` has no recursion of that kind. The induction is by a least counterexample (`LeastNumber`), since the library's
induction theorems cannot be used. `Has(m, k, v)` says which key has which number whatever the
size of the table, which turns the refinement into a statement about `Has`. `FailuresExplained` has
an invariant of its own, `LoadInv`: the field `elements` is the number of nodes (`Sized`), and as
long as realloc could allocate, the table is not at its load factor. So there is a vacant bucket by
counting, and "Map seems to be full" of set (open_hashmap.c:154) is always the late effect of a
failed allocation.

**LoggerProofs.** The thread inside a record holds the mutex (`LockInv`), calls are numbered
without repetition so two records differ (`CallInv`), the buffer is its
holder's (`TraceInv`) and nothing written is newer than the clock (`StampInv`). For
`NothingLost`, `LineInv` and `ThereInv` say of each line exactly when it is in a sink,
`FirstInv` that the record with the backtrace begins at the first sink again, and `StageInv`
that no thread logs before the sinks are open or after they are closed.

**InotifydProofs.** `SlotInv`: the table is filled from below and a client has one slot.
`NewsInv`: a client in slot `k` was told exactly the events since it came, less the last one
when the loop over the clients has not come to `k` yet; `DownInv` and `LoopInv` say where
that loop can be. `PathInv`: what is in the queue is of the file watched, and this what the path in use names,
unless one of the exceptions holds, except between two steps of a reload; this needs `Gone` and
`Rewatch` to have emptied the queue, and every change of `names` to leave `moved` behind.

**SocketProofs, the server.** `AnswerInv` says that what was written is what the two counters say,
`EventInv` that a batch holds one event of each client and none of the one in hand, which is why
closing a handle leaves no pointer to it behind (`NoDanglingEvent`); `LastInv` that a worker
frees on its error path only a handle of its own. `NoLostEvent` is inductive only with
`InterestInv` (the epoll instance watches for what is still to do), `OutInv` (nobody hears of
EPOLLOUT before there is an answer) and `StageInv` (how far the answer is at each place).

**SocketProofs, the client.** `StreamInv`: while there is
time, what was read and what is on its way make up the text up to the prompt the client waits for. A
prompt can only begin in such a text where the prompt at its end begins (`WholeText`), because its last byte is
neither of the two before it; so the client leaves the first loop with nothing on its way
and the second with the whole answer. The proofs write `Bytes` for a set that holds the strings and the
three bytes of the prompt, because the provers do not know that a literal is a string.

**ClibManifestProofs.** `LockInv`: whoever is between lock and unlock holds the mutex, unless
`stolen`. `TornInv`: a file that is cut is being written by a thread at `write`, unless stolen,
killed or written short. `CacheInv`: a whole file that is not `mixed` is what a call for the key it was
saved under asks for, with the mistakes spelled out by `Matches`; a thread that hits it with the
same key has what it asked for, and one that hits it with another is `mixed` from there on.

**ClibInstallProofs.** The steps are first sorted by what they do to the stack of calls (a
call, a return, a step in place) and to the data, so that each conjunct is shown for
some ten shapes and not for sixty actions. `StackInv` says which calls can lie on which and
that object numbers grow with depth; `NestInv` that names entered are visited and differ, from which
`NestingBounded` follows by counting; `SlotInv` and `ThreadInv` that every thread is in a slot
its call waits for, in the one past the batch, or was left by a failed start;
`OwnInv` that the threads of one package belong to one call; `DiskInv` and `LoadInv` that a
file that is cut is being written, and that what is not whole is on its way, so that at the
time of saving nothing is missing. Two excuses of `CacheWhole` and the form of `NestingBounded`
came out of these proofs: with `--force` and a `pthread_create` that fails, a package can be fetched again
while threads of the first attempt still write, and the call on top of the stack has not yet
met the test for names visited.

`ZeroMeansInstalled` has an invariant of its own, `ReachInv`. Its first part holds in every run:
`FailInv` says that a result of -1 climbs the stack to `main`, or `main` is at a manifest it
will not find, and no run with such a result has ended with 0. The other parts hold as long as no call
gave a result other than 0 (`Clean`): `PendInv` says that what a visited package depends
on is visited, or a call of that package is still on the stack; `ListInv` that a call waiting for a
list has all its dependencies visited or in that list (`Behind`); `MainInv` says the
same of the arguments of `main`, and that those it has passed are done with (`Through`). When the run
ends only `main` is left on the stack, so the names visited are closed under dependencies,
and hold the least such set (`Needed`) whatever the graph. Without `Clean` none of this is inductive:
a positive result ends no loop, and the list it came from goes on with dependencies missing
(clib-package.c:373-389), which is why the property has that case.

**ClibBuildProofs.** `TreeInv`: the threads are a tree, batches hold children. `MarkInv` and
`InertInv`: what a thread made is marked before it starts another, so that a thread on the
directory of one above it has nothing to make. `JoinInv`: while a thread runs that nobody left
behind, all above it wait for it. The attempt without this exception failed: when a lookup fails,
main goes on to its next argument while the threads it left behind still run, and both may make
one package (clib-build.c:352, 746-805). So `NeverMakesItsAncestor` excludes main as the ancestor of
a thread left behind, and the setup `Late` in `ClibBuildMC` reaches that case. `WalkInv`: without a
failed lookup, whatever is marked has threads for all it needs but what is `lost`, or a thread still at its
list, which gives `CompleteAtExit`. The walk of a thread whose batch has a slot without a thread is as good as
any other's as long as the join of that slot returns. `PrefixInv` follows PREFIX from the root's manifest to the
environment of each make.

**Waiting.** Liveness is out of the prover's reach, but one half of it is safety: that never
everybody waits for somebody. Where threads lock and join, `NoDeadlock` says that while the process runs,
some thread can take a step. The provers know nothing of ENABLED, so it is stated by the guards of the
steps that wait; on the instances of the runs TLC compared these guards with ENABLED of
the actions and found no state in which they differ.

- The pool: the master waits for room or for a worker's end, a worker for a job. From `IInv`
  alone, `NoDeadlock` holds but for the case the run `pool_abandoned` shows.
- The logger: `HolderInv` says that whoever holds the mutex is inside a call or is main at its
  sinks, or main has ended with it; `RunInv` that main joins only what it created and a fuzzer
  inside its loop has a record left.
- The cache of manifests: `HolderInv` says that the holder is at a place from which it
  goes on to an unlock. This holds although a retry unlocks what another thread holds: the mutex may be
  free while a thread believes to have it, but never locked by one that is through with it, nor by
  one that waits for the registry.
- clib install: `FilledInv` says that while a call fills slots, each below `i` has a thread of this
  call. With `SlotInv` it is the only one, which is `JoinsOne`: no slot is joined twice, or before
  it is filled. What a join waits for is therefore there, and waits for nobody.
- clib build: each thread waits for threads it started, so the last of a longest chain can move;
  a batch of size 1 is enough. `BatchInv` says that batches are finite and no larger than allowed and that
  there is a longest chain. `DepthBounded` says how long it is, when there are finitely many packages:
  `RepeatInv` says that a thread on the directory of one above it started nothing, so all threads of a chain
  but the last have directories of their own.

## What is only model-checked, and what is not modelled

Only checked by TLC:

- all liveness (`EndsUnlessAbandoned`, `Terminates`, `Answered` of both
  servers, `RemovalEnds`, `CallsEnd`, `Ends`, `EndsUnlessClosed`): liveness under fairness and
  ENABLED are out of the prover's reach. Of those about threads that wait for each other, the
  `NoDeadlock` above is the part that is proved; that every call comes to its end also
  takes an argument by a measure, and fairness.

No proof was given up for a step the provers do not find.

The two runs that expect a violation are refutations and have no theorem. The type invariants
`TypeOK` of modules without proofs are documentation and no run's property; those of the
modules with proofs are theorems.

Not modelled:

- the parsing of a log line, the decoding of a URL and the top-ten list of hw11:
  pure functions of a line, or of the final maps;
- `chan` (hw11), pthreads, stdio, inotify, sockets, libcurl, make and the registry:
  external, modelled by how the code uses them;
- numbers: the counters are `uint64_t` and do not overflow for any log that
  exists, so they are naturals;
- daemonising and size formatting in hw9; two daemons at one time; a removed file that
  somebody keeps open, whose deletion inotify tells only at the close;
- `main` of hw13 and the text of its requests;
- of `clib build`: options after the names, with which `main`, which takes the first words of the
  line, goes to other ones; what an undefined join does;
- of `clib`: the fields of a manifest besides name and version, the text of commands
  and of what `--save` writes, PREFIX in `install`; two processes on one cache at a time; the vendored
  libraries; `clib`, `clib-init` and `clib-search`, which are one pass by one thread;
- hw3, hw4 and hw14: containers, a read and a query by one thread, with unit tests or a
  library's state behind them; hw1, hw2, hw5, hw7, hw10: one pass over an input,
  without state.

## What is left to prove

What TLC checks and no theorem states is liveness, which is out of the provers' reach. Every
invariant, every action property and both refinements that a passing run checks are theorems. A fact
of a lesser kind that no theorem states: what the figlet server received is a beginning of the command,
unless a write was cut short, which explains when no answer comes.
