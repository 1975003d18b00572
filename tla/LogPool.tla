------------------------------- MODULE LogPool ------------------------------
(***************************************************************************)
(* The thread pool of the log analyser, src/hw11/main.c: a master cuts     *)
(* each log file into blocks and sends them as jobs through a bounded      *)
(* channel, workers read and parse the blocks into maps of their own, the  *)
(* master joins the workers in order, merges their maps, prints the report *)
(* and releases everything.                                                *)
(*                                                                         *)
(* Data abstraction.  A map is the number of times each block of a file    *)
(* contributed its lines to it, so that counting a block twice, dropping   *)
(* it or reading another block in its place all show.  Offsets are counted *)
(* in blocks (BlockSplit models how a block's bytes are chosen).           *)
(*                                                                         *)
(* Every call that may fail is named in Faults; a fault is a choice made   *)
(* where the code tests for it.  The initial state is the one main reaches *)
(* when the list of paths and the channel exist (main.c:423).              *)
(***************************************************************************)
EXTENDS Naturals, Sequences

CONSTANTS
    MaxWorkers,      \* bound of argv[1], 64 in the code (main.c:402)
    NBlocks,         \* NBlocks[f]: blocks in file f, from the stat size
    Faults           \* which calls may fail

FaultKinds ==
    {"create",       \* pthread_create fails (426)
     "logf",         \* the master's fopen returns NULL, which nothing tests (438)
     "cut",          \* fseek, the newline search or malloc fails (444-458)
     "maps",         \* the master's OpenHashmap_create fails (491-496)
     "combine",      \* an allocation in traverse_combine fails (109-115)
     "init",         \* calloc, OpenHashmap_create or malloc of a worker (190-201)
     "fopen",        \* the worker's fopen fails (234)
     "read"}         \* fseek, fread, bstrcpy or calloc while parsing (240-345)

ASSUME PoolAssumption ==
    /\ MaxWorkers \in Nat \ {0}
    /\ NBlocks \in Seq(Nat)
    /\ Faults \subseteq FaultKinds

NFiles == Len(NBlocks)

\* A job names a file and an offset in it.
Jobs == UNION {[path : {f}, offset : 0..(NBlocks[f] - 1)] : f \in 1..NFiles}

NoJob == [path |-> 0, offset |-> 0]

\* The three accumulators of struct JobResult, filled line by line together.
Maps == {"referers", "urls", "bytes"}

EmptyMap == [j \in Jobs |-> 0]

VARIABLES
    number_of_workers,   \* argv[1]
    mpc,                 \* where the master is
    created,             \* threads created so far
    file, block,         \* the path index i and the offset of the outer loops
    joined,              \* workers joined and merged so far
    merged,              \* jrc: the master's three maps
    rc,                  \* exit status
    printed,             \* the report went to stdout
    ignored,             \* maps whose traversal failed, which main does not look at
    pathsFreed,          \* path strings are released
    queue, closed, disposed,  \* the channel jc.new_jobs
    wpc,                 \* where each worker is
    hand,                \* the job each worker holds (j)
    curPath,             \* the path each worker has open, 0 for none (cur_path, f)
    pos,                 \* the position of its file, in blocks
    result               \* jr: a worker's maps, which agree with each other

masterVars == <<number_of_workers, created, file, block, joined, merged, rc,
                printed, ignored, pathsFreed>>
workerVars == <<wpc, hand, curPath, pos, result>>
chanVars == <<queue, closed, disposed>>
vars == <<mpc, masterVars, chanVars, workerVars>>

Workers == 1..MaxWorkers

\* The process runs until main returns or something crashes it.
Alive == mpc \notin {"returned", "crashed"}

Init ==
    /\ number_of_workers \in Workers
    /\ mpc = "create"
    /\ created = 0
    /\ file = 1 /\ block = 0
    /\ joined = 0
    /\ merged = [m \in Maps |-> EmptyMap]
    /\ rc = 0
    /\ printed = FALSE /\ ignored = {}
    /\ pathsFreed = FALSE
    /\ queue = <<>> /\ closed = FALSE /\ disposed = FALSE
    /\ wpc = [w \in Workers |-> "none"]
    /\ hand = [w \in Workers |-> NoJob]
    /\ curPath = [w \in Workers |-> 0]
    /\ pos = [w \in Workers |-> 0]
    /\ result = [w \in Workers |-> EmptyMap]

-----------------------------------------------------------------------------
(* The master *)

\* CHECK failed: goto error, which sets rc and falls into the clean-up.
Abort ==
    /\ mpc' = "free"
    /\ rc' = 1

\* pthread_create of the next worker.
CreateWorker ==
    /\ mpc = "create"
    /\ \/ /\ wpc' = [wpc EXCEPT ![created + 1] = "init"]
          /\ created' = created + 1
          /\ mpc' = IF created + 1 = number_of_workers THEN "open" ELSE "create"
          /\ rc' = rc
       \/ /\ "create" \in Faults
          /\ Abort
          /\ UNCHANGED <<wpc, created>>
    /\ UNCHANGED <<number_of_workers, file, block, joined, merged, printed,
                   ignored, pathsFreed, chanVars, hand, curPath, pos, result>>

\* The head of the outer loop: open the next log, or leave the loop.  A NULL
\* logf is passed to fseek when the file has a block, and to nothing else.
OpenLog ==
    /\ mpc = "open"
    /\ \/ file > NFiles /\ mpc' = "close"
       \/ file <= NFiles /\ mpc' = "cut"
       \/ /\ file <= NFiles
          /\ "logf" \in Faults
          /\ NBlocks[file] > 0
          /\ mpc' = "crashed"
    /\ UNCHANGED <<masterVars, chanVars, workerVars>>

\* The offset reached the size stat gave: next file.
NextLog ==
    /\ mpc = "cut"
    /\ block >= NBlocks[file]
    /\ file' = file + 1
    /\ block' = 0
    /\ mpc' = "open"
    /\ UNCHANGED <<number_of_workers, created, joined, merged, rc, printed,
                   ignored, pathsFreed, chanVars, workerVars>>

\* Find the end of the block and fill in the job.
CutBlock ==
    /\ mpc = "cut"
    /\ block < NBlocks[file]
    /\ \/ mpc' = "send" /\ rc' = rc
       \/ "cut" \in Faults /\ Abort
    /\ UNCHANGED <<number_of_workers, created, file, block, joined, merged, printed,
                   ignored, pathsFreed, chanVars, workerVars>>

\* The channel was created for number_of_workers jobs (422).
HasRoom == Len(queue) < number_of_workers

\* chan_send blocks while the channel is full.
SendJob ==
    /\ mpc = "send"
    /\ HasRoom
    /\ queue' = Append(queue, [path |-> file, offset |-> block])
    /\ block' = block + 1
    /\ mpc' = "cut"
    /\ UNCHANGED <<number_of_workers, created, file, joined, merged, rc, printed,
                   ignored, pathsFreed, closed, disposed, workerVars>>

\* chan_close, then the master's own maps when there is something to merge.
CloseJobs ==
    /\ mpc = "close"
    /\ closed' = TRUE
    /\ \/ mpc' = "join" /\ rc' = rc
       \/ "maps" \in Faults /\ number_of_workers > 1 /\ Abort
    /\ UNCHANGED <<number_of_workers, created, file, block, joined, merged, printed,
                   ignored, pathsFreed, queue, disposed, workerVars>>

\* Mutants: a join that does not look at the result, and one that does not
\* wait for it.
ReturnedAnything(w) == wpc[w] \in {"exited", "failed"}
ReturnedOrRuns(w) == wpc[w] # "failed"

\* pthread_join gave the worker's JobResult.
Returned(w) == wpc[w] = "exited"

\* pthread_join of the next worker.  A NULL result is an error; the result of
\* a single worker becomes the report as it is.
JoinWorker ==
    /\ mpc = "join"
    /\ \/ /\ wpc[joined + 1] = "failed"
          /\ Abort
          /\ UNCHANGED <<joined, merged, result>>
       \/ /\ Returned(joined + 1)
          /\ rc' = rc
          /\ IF number_of_workers = 1
             THEN /\ merged' = [m \in Maps |-> result[1]]
                  /\ result' = [result EXCEPT ![1] = EmptyMap]
                  /\ joined' = 1
                  /\ mpc' = "report"
             ELSE /\ mpc' = "referers"
                  /\ UNCHANGED <<joined, merged, result>>
    /\ UNCHANGED <<number_of_workers, created, file, block, printed, ignored,
                   pathsFreed, chanVars, wpc, hand, curPath, pos>>

\* OpenHashmap_traverse(.., traverse_combine, ..) over one map of the joined
\* worker.  The traversal stops at the first entry it cannot copy, and main
\* ignores its result.
Combine(m, next) ==
    /\ mpc = m
    /\ \/ merged' = [merged EXCEPT ![m] =
                       [j \in Jobs |-> @[j] + result[joined + 1][j]]]
          /\ ignored' = ignored
       \/ /\ "combine" \in Faults
          /\ \E S \in SUBSET Jobs :
                merged' = [merged EXCEPT ![m] =
                   [j \in Jobs |-> @[j] + IF j \in S THEN result[joined + 1][j] ELSE 0]]
          /\ ignored' = ignored \cup {m}
    /\ mpc' = next
    /\ UNCHANGED <<number_of_workers, created, file, block, joined, rc, printed,
                   pathsFreed, chanVars, workerVars>>

CombineReferers == Combine("referers", "urls")
CombineUrls == Combine("urls", "bytes")

\* sum_bytes_send, then free(jr) and the next turn of the join loop.
AddBytes ==
    /\ mpc = "bytes"
    /\ merged' = [merged EXCEPT !["bytes"] =
                    [j \in Jobs |-> @[j] + result[joined + 1][j]]]
    /\ result' = [result EXCEPT ![joined + 1] = EmptyMap]
    /\ joined' = joined + 1
    /\ mpc' = IF joined + 1 = number_of_workers THEN "report" ELSE "join"
    /\ UNCHANGED <<number_of_workers, created, file, block, rc, printed, ignored, pathsFreed,
                   chanVars, wpc, hand, curPath, pos>>

\* qsort, the two top tens and the total; rc = 0; goto exit.
PrintReport ==
    /\ mpc = "report"
    /\ printed' = TRUE
    /\ rc' = 0
    /\ mpc' = "free"
    /\ UNCHANGED <<number_of_workers, created, file, block, joined, merged,
                   ignored, pathsFreed, chanVars, workerVars>>

\* exit: the path strings go first,
FreePaths ==
    /\ mpc = "free"
    /\ pathsFreed' = TRUE
    /\ mpc' = "dispose"
    /\ UNCHANGED <<number_of_workers, created, file, block, joined, merged, rc,
                   printed, ignored, chanVars, workerVars>>

\* then the channel and the maps,
DisposeChannel ==
    /\ mpc = "dispose"
    /\ disposed' = TRUE
    /\ mpc' = "exit"
    /\ UNCHANGED <<masterVars, queue, closed, workerVars>>

\* and returning from main ends every thread that is left.
ReturnFromMain ==
    /\ mpc = "exit"
    /\ mpc' = "returned"
    /\ UNCHANGED <<masterVars, chanVars, workerVars>>

Master ==
    \/ CreateWorker \/ OpenLog \/ NextLog \/ CutBlock \/ SendJob \/ CloseJobs
    \/ JoinWorker \/ CombineReferers \/ CombineUrls \/ AddBytes
    \/ PrintReport \/ FreePaths \/ DisposeChannel \/ ReturnFromMain

-----------------------------------------------------------------------------
(* A worker *)

\* CHECK failed: jr is freed and set to NULL, the job is freed, NULL returned.
Die(w) ==
    /\ wpc' = [wpc EXCEPT ![w] = "failed"]
    /\ hand' = [hand EXCEPT ![w] = NoJob]
    /\ result' = [result EXCEPT ![w] = EmptyMap]

\* The two maps and the buffer.
StartWorker(w) ==
    /\ Alive
    /\ wpc[w] = "init"
    /\ \/ wpc' = [wpc EXCEPT ![w] = "recv"] /\ UNCHANGED <<hand, result>>
       \/ "init" \in Faults /\ Die(w)
    /\ UNCHANGED <<mpc, masterVars, chanVars, curPath, pos>>

\* A mutant: the job stays in the channel.
DequeuePeek(w) ==
    /\ hand' = [hand EXCEPT ![w] = Head(queue)]
    /\ queue' = queue

\* The oldest job leaves the channel for the worker.
Dequeue(w) ==
    /\ hand' = [hand EXCEPT ![w] = Head(queue)]
    /\ queue' = Tail(queue)

\* A mutant: an empty channel ends the worker, closed or not.
NothingQueued == queue = <<>>

\* chan_recv fails: the channel is closed and empty.
NoMoreJobs == queue = <<>> /\ closed

\* chan_recv: the oldest job, or failure when the channel is closed and empty,
\* which ends the loop and returns jr.
Receive(w) ==
    /\ Alive
    /\ wpc[w] = "recv"
    /\ ~disposed
    /\ \/ /\ queue # <<>>
          /\ Dequeue(w)
          /\ wpc' = [wpc EXCEPT ![w] = "open"]
       \/ /\ NoMoreJobs
          /\ wpc' = [wpc EXCEPT ![w] = "exited"]
          /\ UNCHANGED <<queue, hand>>
    /\ UNCHANGED <<mpc, masterVars, closed, disposed, curPath, pos, result>>

\* Switch files when the job's path is not the open one.
OpenFile(w) ==
    /\ Alive
    /\ wpc[w] = "open"
    /\ IF curPath[w] = hand[w].path
       THEN /\ wpc' = [wpc EXCEPT ![w] = "read"]
            /\ UNCHANGED <<hand, curPath, pos, result>>
       ELSE \/ /\ curPath' = [curPath EXCEPT ![w] = hand[w].path]
               /\ pos' = [pos EXCEPT ![w] = 0]
               /\ wpc' = [wpc EXCEPT ![w] = "read"]
               /\ UNCHANGED <<hand, result>>
            \/ /\ "fopen" \in Faults
               /\ Die(w)
               /\ UNCHANGED <<curPath, pos>>
    /\ UNCHANGED <<mpc, masterVars, chanVars>>

\* A mutant: no seek at all.
ReadFromCurrent(w) == pos[w]

\* Where the block is read: only a positive offset seeks.
ReadFrom(w) == IF hand[w].offset > 0 THEN hand[w].offset ELSE pos[w]

\* Read and parse a block, counting its lines in the worker's maps, and free
\* the job.
ReadBlock(w) ==
    /\ Alive
    /\ wpc[w] = "read"
    /\ \/ LET got == [path |-> curPath[w], offset |-> ReadFrom(w)]
          IN  /\ result' = [result EXCEPT ![w] =
                              [j \in Jobs |-> IF j = got THEN @[j] + 1 ELSE @[j]]]
              /\ pos' = [pos EXCEPT ![w] = ReadFrom(w) + 1]
              /\ hand' = [hand EXCEPT ![w] = NoJob]
              /\ wpc' = [wpc EXCEPT ![w] = "recv"]
       \/ /\ "read" \in Faults
          /\ Die(w)
          /\ UNCHANGED pos
    /\ UNCHANGED <<mpc, masterVars, chanVars, curPath>>

\* A worker that reaches for the released channel or a released path: among
\* the outcomes of the undefined behaviour is a crash of the process (the
\* others are that it goes on as above, or stays where it is).
TouchReleased(w) ==
    /\ Alive
    /\ \/ wpc[w] = "recv" /\ disposed
       \/ wpc[w] = "open" /\ pathsFreed
    /\ mpc' = "crashed"
    /\ UNCHANGED <<masterVars, chanVars, workerVars>>

Worker(w) ==
    StartWorker(w) \/ Receive(w) \/ OpenFile(w) \/ ReadBlock(w) \/ TouchReleased(w)

-----------------------------------------------------------------------------
Next == Master \/ \E w \in Workers : Worker(w)

Spec == Init /\ [][Next]_vars

\* Every thread the kernel can run does run.
FairSpec == Spec /\ WF_vars(Master) /\ \A w \in Workers : WF_vars(Worker(w))

-----------------------------------------------------------------------------
(* Properties *)

MasterPC == {"create", "open", "cut", "send", "close", "join", "referers", "urls",
             "bytes", "report", "free", "dispose", "exit", "returned", "crashed"}
WorkerPC == {"none", "init", "recv", "open", "read", "exited", "failed"}

MasterTypeOK ==
    /\ number_of_workers \in Workers
    /\ mpc \in MasterPC
    /\ created \in 0..number_of_workers
    /\ file \in 1..(NFiles + 1)
    /\ block \in Nat
    /\ joined \in 0..number_of_workers
    /\ rc \in {0, 1}
    /\ ignored \subseteq {"referers", "urls"}
    /\ printed \in BOOLEAN /\ pathsFreed \in BOOLEAN

ChannelTypeOK ==
    /\ queue \in Seq(Jobs)
    /\ Len(queue) <= number_of_workers
    /\ closed \in BOOLEAN /\ disposed \in BOOLEAN

WorkerTypeOK ==
    /\ wpc \in [Workers -> WorkerPC]
    /\ hand \in [Workers -> Jobs \cup {NoJob}]
    /\ curPath \in [Workers -> 0..NFiles]
    /\ pos \in [Workers -> Nat]

MapTypeOK ==
    /\ merged \in [Maps -> [Jobs -> Nat]]
    /\ result \in [Workers -> [Jobs -> Nat]]

\* The variables have their types, and the channel never holds more jobs than
\* it was created for (main.c:422).
TypeOK == MasterTypeOK /\ ChannelTypeOK /\ WorkerTypeOK /\ MapTypeOK

\* The jobs the master has put into the channel, in the order of its loops.
Sent == {j \in Jobs : j.path < file \/ (j.path = file /\ j.offset < block)}

Queued(j) == \E i \in 1..Len(queue) : queue[i] = j
Pending(j) == Queued(j) \/ \E w \in Workers : hand[w] = j
InResult(j) == \E w \in Workers : result[w][j] > 0
Merged(j) == \E m \in Maps : merged[m][j] > 0

\* A block's lines enter a map once: no block is counted twice by a worker, by
\* two workers, by a worker and again after the merge of that worker, or while
\* its job is still in the channel or in a worker's hands, whatever fails
\* (the receive loop 204-351 and the merge 497-524).
CountedOnce ==
    \A j \in Jobs :
        /\ \A m \in Maps : merged[m][j] <= 1
        /\ \A w \in Workers : result[w][j] <= 1
        /\ \A v, w \in Workers : v # w => result[v][j] = 0 \/ result[w][j] = 0
        /\ InResult(j) => merged["bytes"][j] = 0
        /\ Pending(j) => ~InResult(j) /\ ~Merged(j)

\* A printed report stands for every block of every file, once, whatever
\* thread failed before: in the total, and in each map none of whose merges
\* was cut short (497-556).
ReportComplete ==
    printed => \A m \in Maps \ ignored, j \in Jobs : merged[m][j] = 1

\* On the path that prints, no thread is left that could use the path strings
\* or the channel when the clean-up (563-590) releases them.
ReleaseAfterQuiet ==
    printed => /\ \A w \in 1..created : wpc[w] = "exited"
               /\ mpc # "crashed"

\* A worker reads the block its job names: the open file is the job's file and
\* the read starts at the job's offset, although offset 0 does not seek
\* (224-247).
ReadsOwnBlock ==
    \A w \in Workers :
        wpc[w] = "read" => /\ curPath[w] = hand[w].path
                           /\ ReadFrom(w) = hand[w].offset

\* A worker opens each file at most once, and leaves it only for a later file
\* (README.md of hw11, line 26).
OpensEachFileOnce ==
    [][\A w \in Workers : curPath'[w] # curPath[w] => curPath'[w] > curPath[w]]_vars

\* Every worker has failed and the master waits for room in a full channel.
Abandoned ==
    /\ mpc = "send"
    /\ Len(queue) = number_of_workers
    /\ \A w \in 1..number_of_workers : wpc[w] = "failed"

\* The analyser ends, unless its workers all fail while the channel is full:
\* no other order of faults, sends, receives and joins blocks it (435-526).
EndsUnlessAbandoned == <>(~Alive \/ Abandoned)

\* What the check at main.c:500 assumes: a worker that fails is noticed, and
\* the analyser ends.
DeadWorkerIsNoticed == (\E w \in Workers : wpc[w] = "failed") ~> ~Alive

\* The pool implements the tally of LogTally: receiving, switching files and
\* merging change nothing it can see, reading a block counts it, a failing
\* worker loses what it counted, and a report needs everything counted.
countedBlocks == {j \in Jobs : InResult(j) \/ merged["bytes"][j] > 0}
Tally == INSTANCE LogTally WITH
    Blocks <- Jobs,
    counted <- countedBlocks,
    lost <- {j \in Sent : ~Pending(j) /\ j \notin countedBlocks},
    status <- IF printed THEN "reported"
              ELSE IF rc = 1 \/ mpc = "crashed" THEN "failed"
              ELSE "running"
ImplementsTally == Tally!Spec
=============================================================================
