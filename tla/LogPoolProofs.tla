--------------------------- MODULE LogPoolProofs ----------------------------
(***************************************************************************)
(* Proofs about LogPool, for every number of workers, every list of log    *)
(* files and every set of faults.                                          *)
(*                                                                         *)
(* The inductive invariant says where the master is allowed to be with     *)
(* respect to the channel and the threads (MasterInv), what a worker's     *)
(* state implies (WorkerInv), that a job is in at most one place           *)
(* (PlaceInv) and, while no worker failed, in one (CompleteInv), that the  *)
(* channel holds the jobs in the order of the master's loops (OrderInv),   *)
(* and how far each map is merged (MergeInv).                              *)
(***************************************************************************)
EXTENDS LogPool, TLAPS

MergingPC == {"referers", "urls", "bytes"}
LoopPC == {"open", "cut", "send", "close", "join", "report"} \cup MergingPC
ExitPC == {"dispose", "exit", "returned", "crashed"}

MasterInv ==
    /\ \A w \in Workers : wpc[w] = "none" <=> w > created
    /\ mpc = "create" => created < number_of_workers
    /\ mpc \in LoopPC => created = number_of_workers
    /\ mpc \in {"cut", "send"} => file <= NFiles
    /\ mpc = "send" => block < NBlocks[file]
    /\ mpc = "close" \/ closed => file = NFiles + 1
    /\ mpc \in {"create", "open", "cut", "send", "close"} => ~closed /\ joined = 0
    /\ mpc \in {"join"} \cup MergingPC => closed /\ joined < number_of_workers
    /\ mpc = "report" => closed /\ joined = number_of_workers
    /\ printed => /\ mpc \in {"free", "dispose", "exit", "returned"}
                  /\ joined = number_of_workers
                  /\ created = number_of_workers
                  /\ closed
    /\ pathsFreed \/ disposed => mpc \in ExitPC

WorkerInvOf(w) ==
    /\ w <= joined => wpc[w] = "exited"
    /\ mpc \in MergingPC /\ w = joined + 1 => wpc[w] = "exited"
    /\ wpc[w] = "exited" => closed /\ queue = <<>>
    /\ hand[w] = NoJob <=> wpc[w] \notin {"open", "read"}
    /\ wpc[w] \in {"none", "init", "failed"} \/ w <= joined =>
          \A j \in Jobs : result[w][j] = 0

WorkerInv == \A w \in Workers : WorkerInvOf(w)

\* Jobs no map has anything of,
Unseen ==
    {j \in Jobs : /\ merged["bytes"][j] = 0
                  /\ \A w \in Workers : result[w][j] = 0}

\* and jobs that no two maps have, and no map has twice.
Once ==
    {j \in Jobs :
        /\ merged["bytes"][j] <= 1
        /\ \A w \in Workers : result[w][j] <= 1
        /\ \A v, w \in Workers : v # w => result[v][j] = 0 \/ result[w][j] = 0
        /\ \A w \in Workers : result[w][j] > 0 => merged["bytes"][j] = 0}

PlaceInv ==
    /\ \A i \in 1..Len(queue) : queue[i] \in Sent /\ queue[i] \in Unseen
    /\ \A w \in Workers : hand[w] # NoJob => hand[w] \in Sent /\ hand[w] \in Unseen
    /\ \A v, w \in Workers : v # w /\ hand[v] # NoJob => hand[v] # hand[w]
    /\ \A j \in Jobs : j \in Once /\ (j \in Sent \/ j \in Unseen)

CompleteInv ==
    \A j \in Sent : \/ \E i \in 1..Len(queue) : queue[i] = j
                    \/ \E w \in Workers : hand[w] = j
                    \/ \E w \in Workers : result[w][j] > 0
                    \/ merged["bytes"][j] > 0
                    \/ \E w \in Workers : wpc[w] = "failed"

Before(j, k) == j.path < k.path \/ (j.path = k.path /\ j.offset < k.offset)
FirstOf(f) == [path |-> f, offset |-> 0]

\* The open file of a worker, and its position in it.
FileInvOf(w) ==
    /\ curPath[w] # 0 => /\ FirstOf(curPath[w]) \in Sent
                        /\ \A i \in 1..Len(queue) : queue[i] # FirstOf(curPath[w])
    /\ \A i \in 1..Len(queue) : curPath[w] <= queue[i].path
    /\ hand[w] # NoJob => curPath[w] <= hand[w].path
    /\ wpc[w] = "open" /\ hand[w].offset = 0 => curPath[w] # hand[w].path
    /\ wpc[w] = "read" => /\ curPath[w] = hand[w].path
                          /\ hand[w].offset = 0 => pos[w] = 0

OrderInv ==
    /\ \A i, k \in 1..Len(queue) : i < k => Before(queue[i], queue[k])
    /\ \A w \in Workers, i \in 1..Len(queue) :
          hand[w] # NoJob => Before(hand[w], queue[i])
    /\ \A w \in Workers : FileInvOf(w)

\* What map m already has of the worker being merged.
Ahead(m, j) ==
    IF \/ m = "referers" /\ mpc \in {"urls", "bytes"}
       \/ m = "urls" /\ mpc = "bytes"
    THEN result[joined + 1][j] ELSE 0

MergeInv ==
    /\ joined = 0 => \A j \in Jobs : merged["bytes"][j] = 0
    /\ \A m \in {"referers", "urls"}, j \in Jobs :
          /\ merged[m][j] <= merged["bytes"][j] + Ahead(m, j)
          /\ m \notin ignored => merged[m][j] = merged["bytes"][j] + Ahead(m, j)

IInv == TypeOK /\ MasterInv /\ WorkerInv /\ PlaceInv /\ CompleteInv /\ OrderInv /\ MergeInv

-----------------------------------------------------------------------------
\* A job is a file and an offset below the file's number of blocks.
LEMMA JobsElements ==
    /\ \A j \in Jobs : /\ j.path \in 1..NFiles /\ j.offset \in Nat
                       /\ j.offset < NBlocks[j.path]
                       /\ j = [path |-> j.path, offset |-> j.offset]
    /\ \A f \in 1..NFiles, o \in Nat :
          o < NBlocks[f] => [path |-> f, offset |-> o] \in Jobs
    /\ NoJob \notin Jobs
    /\ NFiles \in Nat
    /\ \A f \in 1..NFiles : NBlocks[f] \in Nat
<1>1. NFiles \in Nat /\ \A f \in 1..NFiles : NBlocks[f] \in Nat
  BY PoolAssumption DEF NFiles
<1>2. ASSUME NEW j \in Jobs
      PROVE  /\ j.path \in 1..NFiles /\ j.offset \in Nat
             /\ j.offset < NBlocks[j.path]
             /\ j = [path |-> j.path, offset |-> j.offset]
  <2>1. PICK f \in 1..NFiles : j \in [path : {f}, offset : 0..(NBlocks[f] - 1)]
    BY DEF Jobs
  <2>2. /\ j.path = f /\ j.offset \in 0..(NBlocks[f] - 1)
        /\ j = [path |-> j.path, offset |-> j.offset]
    BY <2>1
  <2>3. QED
    BY <1>1, <2>2
<1>3. ASSUME NEW f \in 1..NFiles, NEW o \in Nat, o < NBlocks[f]
      PROVE  [path |-> f, offset |-> o] \in Jobs
  <2>1. [path |-> f, offset |-> o] \in [path : {f}, offset : 0..(NBlocks[f] - 1)]
    BY <1>1, <1>3
  <2>2. QED
    BY <2>1 DEF Jobs
<1>4. NoJob \notin Jobs
  BY <1>1, <1>2 DEF NoJob
<1>5. QED
  BY <1>1, <1>2, <1>3, <1>4

LEMMA Counters ==
    ASSUME TypeOK
    PROVE  /\ MaxWorkers \in Nat /\ number_of_workers \in Nat
           /\ created \in Nat /\ joined \in Nat
           /\ 1 <= number_of_workers /\ number_of_workers <= MaxWorkers
           /\ created <= number_of_workers /\ joined <= number_of_workers
           /\ \A w \in Workers : w \in Nat /\ 1 <= w
           /\ \A n \in Nat : 1 <= n /\ n <= number_of_workers => n \in Workers
BY PoolAssumption DEF TypeOK, MasterTypeOK, Workers

\* Every action keeps the types: first the master's variables,
LEMMA MasterTypeStep ==
    ASSUME TypeOK, MasterInv, WorkerInv, [Next]_vars
    PROVE  MasterTypeOK'
<1> USE PoolAssumption DEF TypeOK, MasterTypeOK, masterVars, Workers, MasterPC
<1>1. CASE CreateWorker
  <2>1. created' \in 0..number_of_workers
    BY <1>1 DEF CreateWorker, MasterInv
  <2>2. mpc' \in MasterPC /\ rc' \in {0, 1}
    BY <1>1 DEF CreateWorker, Abort
  <2>3. QED
    BY <1>1, <2>1, <2>2 DEF CreateWorker
<1>2. CASE OpenLog
  BY <1>2 DEF OpenLog
<1>3. CASE NextLog
  BY <1>3, JobsElements DEF NextLog, MasterInv
<1>4. CASE CutBlock
  BY <1>4 DEF CutBlock, Abort
<1>5. CASE SendJob
  BY <1>5 DEF SendJob
<1>6. CASE CloseJobs
  BY <1>6 DEF CloseJobs, Abort
<1>7. CASE JoinWorker
  BY <1>7 DEF JoinWorker, Abort
<1>8. CASE CombineReferers \/ CombineUrls
  BY <1>8 DEF CombineReferers, CombineUrls, Combine
<1>9. CASE AddBytes
  <2>1. joined' \in 0..number_of_workers
    BY <1>9 DEF AddBytes, MasterInv, MergingPC
  <2>2. QED
    BY <1>9, <2>1 DEF AddBytes
<1>10. CASE PrintReport
  BY <1>10 DEF PrintReport
<1>11. CASE FreePaths \/ DisposeChannel \/ ReturnFromMain
  BY <1>11 DEF FreePaths, DisposeChannel, ReturnFromMain
<1>12. CASE \E w \in Workers : Worker(w)
  BY <1>12 DEF Worker, StartWorker, Receive, OpenFile, ReadBlock, TouchReleased
<1>13. CASE UNCHANGED vars
  BY <1>13 DEF vars
<1>14. QED
  BY <1>1, <1>2, <1>3, <1>4, <1>5, <1>6, <1>7, <1>8, <1>9, <1>10, <1>11, <1>12,
     <1>13 DEF Next, Master

\* then the channel,
LEMMA ChannelTypeStep ==
    ASSUME TypeOK, MasterInv, WorkerInv, [Next]_vars
    PROVE  ChannelTypeOK'
<1> USE DEF TypeOK, ChannelTypeOK, masterVars, chanVars
<1>1. CASE SendJob
  <2>1. [path |-> file, offset |-> block] \in Jobs
    BY <1>1, JobsElements DEF SendJob, MasterInv, MasterTypeOK
  <2>2. Len(queue') <= number_of_workers'
    BY <1>1, <2>1 DEF SendJob, HasRoom, MasterTypeOK, Workers
  <2>3. QED
    BY <1>1, <2>1, <2>2 DEF SendJob
<1>2. ASSUME NEW w \in Workers, Receive(w)
      PROVE  ChannelTypeOK'
  <2>1. CASE queue # <<>> /\ Dequeue(w)
    <3>1. Len(queue') <= number_of_workers'
      BY <1>2, <2>1 DEF Receive, Dequeue, MasterTypeOK, Workers
    <3>2. QED
      BY <1>2, <2>1, <3>1 DEF Receive, Dequeue
  <2>2. CASE UNCHANGED queue
    BY <1>2, <2>2 DEF Receive
  <2>3. QED
    BY <1>2, <2>1, <2>2 DEF Receive
<1>3. CASE CreateWorker \/ OpenLog \/ NextLog \/ CutBlock
  BY <1>3 DEF CreateWorker, OpenLog, NextLog, CutBlock
<1>4. CASE CloseJobs \/ JoinWorker \/ CombineReferers \/ CombineUrls \/ AddBytes
  BY <1>4 DEF CloseJobs, JoinWorker, CombineReferers, CombineUrls, Combine, AddBytes
<1>5. CASE PrintReport \/ FreePaths \/ DisposeChannel \/ ReturnFromMain
  BY <1>5 DEF PrintReport, FreePaths, DisposeChannel, ReturnFromMain
<1>6. ASSUME NEW w \in Workers,
             StartWorker(w) \/ OpenFile(w) \/ ReadBlock(w) \/ TouchReleased(w)
      PROVE  ChannelTypeOK'
  BY <1>6 DEF StartWorker, OpenFile, ReadBlock, TouchReleased
<1>7. CASE UNCHANGED vars
  BY <1>7 DEF vars
<1>8. QED
  BY <1>1, <1>2, <1>3, <1>4, <1>5, <1>6, <1>7 DEF Next, Master, Worker

\* the workers,
LEMMA WorkerTypeStep ==
    ASSUME TypeOK, MasterInv, WorkerInv, [Next]_vars
    PROVE  WorkerTypeOK'
<1> USE DEF TypeOK, WorkerTypeOK, workerVars, WorkerPC
<1>1. CASE CreateWorker
  BY <1>1 DEF CreateWorker
<1>2. CASE OpenLog \/ NextLog \/ CutBlock \/ SendJob \/ CloseJobs
  BY <1>2 DEF OpenLog, NextLog, CutBlock, SendJob, CloseJobs
<1>3. CASE JoinWorker \/ CombineReferers \/ CombineUrls \/ AddBytes
  BY <1>3 DEF JoinWorker, CombineReferers, CombineUrls, Combine, AddBytes
<1>4. CASE PrintReport \/ FreePaths \/ DisposeChannel \/ ReturnFromMain
  BY <1>4 DEF PrintReport, FreePaths, DisposeChannel, ReturnFromMain
<1>5. ASSUME NEW w \in Workers, StartWorker(w)
      PROVE  WorkerTypeOK'
  BY <1>5 DEF StartWorker, Die
<1>6. ASSUME NEW w \in Workers, Receive(w)
      PROVE  WorkerTypeOK'
  <2>1. queue # <<>> => Head(queue) \in Jobs
    BY DEF ChannelTypeOK
  <2>2. hand' \in [Workers -> Jobs \cup {NoJob}]
    BY <1>6, <2>1 DEF Receive, Dequeue
  <2>3. QED
    BY <1>6, <2>2 DEF Receive
<1>7. ASSUME NEW w \in Workers, OpenFile(w)
      PROVE  WorkerTypeOK'
  <2>1. hand[w] \in Jobs /\ hand[w].path \in 0..NFiles
    BY <1>7, JobsElements DEF OpenFile, WorkerInv, WorkerInvOf
  <2>2. QED
    BY <1>7, <2>1 DEF OpenFile, Die
<1>8. ASSUME NEW w \in Workers, ReadBlock(w)
      PROVE  WorkerTypeOK'
  <2>1. hand[w] \in Jobs /\ hand[w].offset \in Nat
    BY <1>8, JobsElements DEF ReadBlock, WorkerInv, WorkerInvOf
  <2>2. ReadFrom(w) + 1 \in Nat
    BY <2>1 DEF ReadFrom
  <2>3. QED
    BY <1>8, <2>2 DEF ReadBlock, Die
<1>9. ASSUME NEW w \in Workers, TouchReleased(w)
      PROVE  WorkerTypeOK'
  BY <1>9 DEF TouchReleased
<1>10. CASE UNCHANGED vars
  BY <1>10 DEF vars
<1>11. QED
  BY <1>1, <1>2, <1>3, <1>4, <1>5, <1>6, <1>7, <1>8, <1>9, <1>10
     DEF Next, Master, Worker

\* and the maps.
LEMMA MapTypeStep ==
    ASSUME TypeOK, MasterInv, WorkerInv, [Next]_vars
    PROVE  MapTypeOK'
<1> USE DEF TypeOK, MapTypeOK, masterVars, workerVars, EmptyMap
<1>1. CASE CreateWorker \/ OpenLog \/ NextLog \/ CutBlock \/ SendJob \/ CloseJobs
  BY <1>1 DEF CreateWorker, OpenLog, NextLog, CutBlock, SendJob, CloseJobs
<1>2. CASE JoinWorker
  <2>1. 1 \in Workers
    BY PoolAssumption DEF Workers
  <2>2. QED
    BY <1>2, <2>1 DEF JoinWorker
<1>3. ASSUME NEW m \in Maps, NEW next, Combine(m, next)
      PROVE  MapTypeOK'
  <2>1. joined + 1 \in Workers
    BY <1>3, PoolAssumption
       DEF Combine, MasterInv, Maps, MergingPC, MasterTypeOK, Workers
  <2>2. ASSUME NEW S \in SUBSET Jobs
        PROVE  /\ [j \in Jobs |-> merged[m][j] + result[joined + 1][j]] \in [Jobs -> Nat]
               /\ [j \in Jobs |-> merged[m][j] +
                     IF j \in S THEN result[joined + 1][j] ELSE 0] \in [Jobs -> Nat]
    BY <2>1
  <2>3. merged' \in [Maps -> [Jobs -> Nat]]
    BY <1>3, <2>2 DEF Combine
  <2>4. QED
    BY <1>3, <2>3 DEF Combine
<1>4. CASE AddBytes
  <2>1. joined + 1 \in Workers /\ "bytes" \in Maps
    BY <1>4, PoolAssumption
       DEF AddBytes, MasterInv, Maps, MergingPC, MasterTypeOK, Workers
  <2>2. [j \in Jobs |-> merged["bytes"][j] + result[joined + 1][j]] \in [Jobs -> Nat]
    BY <2>1
  <2>3. QED
    BY <1>4, <2>1, <2>2 DEF AddBytes
<1>5. CASE PrintReport \/ FreePaths \/ DisposeChannel \/ ReturnFromMain
  BY <1>5 DEF PrintReport, FreePaths, DisposeChannel, ReturnFromMain
<1>6. ASSUME NEW w \in Workers,
             StartWorker(w) \/ Receive(w) \/ OpenFile(w) \/ TouchReleased(w)
      PROVE  MapTypeOK'
  <2>1. EmptyMap \in [Jobs -> Nat]
    OBVIOUS
  <2>2. result' = result \/ result' = [result EXCEPT ![w] = EmptyMap]
    BY <1>6 DEF StartWorker, Receive, OpenFile, TouchReleased, Die
  <2>3. merged' = merged
    BY <1>6 DEF StartWorker, Receive, OpenFile, TouchReleased
  <2>4. QED
    BY <2>1, <2>2, <2>3
<1>7. ASSUME NEW w \in Workers, ReadBlock(w)
      PROVE  MapTypeOK'
  <2>1. ASSUME NEW got
        PROVE  [j \in Jobs |-> IF j = got THEN result[w][j] + 1 ELSE result[w][j]]
                  \in [Jobs -> Nat]
    OBVIOUS
  <2>2. merged' = merged
    BY <1>7 DEF ReadBlock
  <2>3. CASE Die(w)
    BY <2>2, <2>3 DEF Die
  <2>4. CASE ~Die(w)
    <3> DEFINE got == [path |-> curPath[w], offset |-> ReadFrom(w)]
    <3>1. result' = [result EXCEPT ![w] =
                       [j \in Jobs |-> IF j = got THEN result[w][j] + 1 ELSE result[w][j]]]
      BY <1>7, <2>4 DEF ReadBlock
    <3> HIDE DEF got
    <3>2. QED
      BY <2>1, <2>2, <3>1
  <2>5. QED
    BY <2>3, <2>4
<1>8. CASE UNCHANGED vars
  BY <1>8 DEF vars
<1>9. QED
  BY <1>1, <1>2, <1>3, <1>4, <1>5, <1>6, <1>7, <1>8
     DEF Next, Master, Worker, CombineReferers, CombineUrls, Maps

LEMMA TypeStep ==
    ASSUME TypeOK, MasterInv, WorkerInv, [Next]_vars
    PROVE  TypeOK'
BY MasterTypeStep, ChannelTypeStep, WorkerTypeStep, MapTypeStep DEF TypeOK

-----------------------------------------------------------------------------
\* The master is where its loops, the joins and the clean-up allow.
LEMMA MasterStep ==
    ASSUME TypeOK, MasterInv, WorkerInv, [Next]_vars
    PROVE  MasterInv'
<1> USE PoolAssumption
    DEF TypeOK, MasterTypeOK, WorkerTypeOK, Workers, MasterInv, masterVars, chanVars,
        LoopPC, MergingPC, ExitPC
<1>1. CASE CreateWorker
  <2>1. CASE "create" \in Faults /\ Abort /\ UNCHANGED <<wpc, created>>
    BY <1>1, <2>1 DEF CreateWorker, Abort
  <2>2. CASE wpc' = [wpc EXCEPT ![created + 1] = "init"] /\ created' = created + 1
    <3>1. \A w \in Workers : wpc'[w] = "none" <=> w > created'
      BY <1>1, <2>2
    <3>2. QED
      BY <1>1, <2>2, <3>1 DEF CreateWorker, Abort
  <2>3. QED
    BY <1>1, <2>1, <2>2 DEF CreateWorker
<1>2. CASE OpenLog
  BY <1>2, JobsElements DEF OpenLog, workerVars
<1>3. CASE NextLog
  BY <1>3 DEF NextLog, workerVars
<1>4. CASE CutBlock
  BY <1>4 DEF CutBlock, Abort, workerVars
<1>5. CASE SendJob
  BY <1>5 DEF SendJob, workerVars
<1>6. CASE CloseJobs
  BY <1>6 DEF CloseJobs, Abort, workerVars
<1>7. CASE JoinWorker
  BY <1>7 DEF JoinWorker, Abort
<1>8. CASE CombineReferers
  BY <1>8 DEF CombineReferers, Combine, workerVars
<1>9. CASE CombineUrls
  BY <1>9 DEF CombineUrls, Combine, workerVars
<1>10. CASE AddBytes
  BY <1>10 DEF AddBytes
<1>11. CASE PrintReport
  BY <1>11 DEF PrintReport, workerVars
<1>12. CASE FreePaths \/ DisposeChannel \/ ReturnFromMain
  <2>1. CASE FreePaths
    BY <2>1 DEF FreePaths, workerVars
  <2>2. CASE DisposeChannel
    BY <2>2 DEF DisposeChannel, workerVars
  <2>3. CASE ReturnFromMain
    BY <2>3 DEF ReturnFromMain, workerVars
  <2>4. QED
    BY <1>12, <2>1, <2>2, <2>3
<1>13. ASSUME NEW w \in Workers,
              StartWorker(w) \/ Receive(w) \/ OpenFile(w) \/ ReadBlock(w)
       PROVE  MasterInv'
  <2>1. wpc[w] # "none" /\ wpc'[w] # "none"
        /\ \A v \in Workers : v # w => wpc'[v] = wpc[v]
    BY <1>13 DEF StartWorker, Receive, Dequeue, OpenFile, ReadBlock, Die
  <2>2. UNCHANGED <<mpc, masterVars, closed, disposed>>
    BY <1>13 DEF StartWorker, Receive, OpenFile, ReadBlock
  <2>3. \A v \in Workers : wpc'[v] = "none" <=> v > created'
    BY <2>1, <2>2
  <2>4. QED
    BY <2>2, <2>3
<1>14. ASSUME NEW w \in Workers, TouchReleased(w)
       PROVE  MasterInv'
  <2>1. ~printed
    <3>1. wpc[w] # "none" /\ wpc[w] # "exited"
      BY <1>14 DEF TouchReleased
    <3>2. w <= created
      BY <3>1
    <3>3. ~(w <= joined)
      BY <3>1 DEF WorkerInv, WorkerInvOf
    <3>4. QED
      BY <3>2, <3>3
  <2>2. QED
    BY <1>14, <2>1 DEF TouchReleased, workerVars
<1>15. CASE UNCHANGED vars
  BY <1>15 DEF vars, workerVars
<1>16. QED
  BY <1>1, <1>2, <1>3, <1>4, <1>5, <1>6, <1>7, <1>8, <1>9, <1>10, <1>11, <1>12,
     <1>13, <1>14, <1>15 DEF Next, Master, Worker

\* What a worker's state says of the channel, of its hand and of its maps.
LEMMA WorkerStep ==
    ASSUME TypeOK, MasterInv, WorkerInv, [Next]_vars
    PROVE  WorkerInv'
<1> USE Counters DEF TypeOK, WorkerTypeOK, WorkerInv, MergingPC
<1>1. ASSUME UNCHANGED <<wpc, hand, result, joined, queue, closed>>,
             mpc' \in MergingPC => mpc \in MergingPC
      PROVE  WorkerInv'
  BY <1>1 DEF WorkerInvOf
<1>2. CASE CreateWorker
  <2>1. created + 1 \in Workers /\ wpc[created + 1] = "none"
    BY <1>2 DEF CreateWorker, MasterInv
  <2>2. UNCHANGED <<joined, closed, queue, hand, result>> /\ mpc' \notin MergingPC
    BY <1>2 DEF CreateWorker, Abort, chanVars
  <2>3. wpc' = wpc \/ wpc' = [wpc EXCEPT ![created + 1] = "init"]
    BY <1>2 DEF CreateWorker
  <2>4. ASSUME NEW w \in Workers
        PROVE  WorkerInvOf(w)'
    BY <2>1, <2>2, <2>3 DEF WorkerInvOf
  <2>5. QED
    BY <2>4
<1>3. CASE OpenLog \/ NextLog \/ CutBlock
  BY <1>1, <1>3 DEF OpenLog, NextLog, CutBlock, Abort, workerVars, masterVars, chanVars
<1>4. CASE PrintReport \/ FreePaths \/ DisposeChannel \/ ReturnFromMain
  BY <1>1, <1>4 DEF PrintReport, FreePaths, DisposeChannel, ReturnFromMain, workerVars,
     masterVars, chanVars
<1>5. CASE SendJob
  <2>1. ~closed /\ mpc' \notin MergingPC
    BY <1>5 DEF SendJob, MasterInv
  <2>2. QED
    BY <1>5, <2>1 DEF SendJob, workerVars, WorkerInvOf
<1>6. CASE CloseJobs
  BY <1>6 DEF CloseJobs, Abort, workerVars, WorkerInvOf
<1>7. CASE JoinWorker
  <2>1. joined + 1 \in Workers /\ joined < number_of_workers
    BY <1>7 DEF JoinWorker, MasterInv
  <2>2. UNCHANGED <<wpc, hand, queue, closed>>
    BY <1>7 DEF JoinWorker, chanVars
  <2>3. CASE mpc' = "free" /\ UNCHANGED <<joined, result>>
    BY <1>1, <2>2, <2>3
  <2>4. CASE mpc' = "referers" /\ Returned(joined + 1) /\ UNCHANGED <<joined, result>>
    BY <2>2, <2>4 DEF WorkerInvOf, Returned
  <2>5. CASE /\ number_of_workers = 1 /\ Returned(joined + 1)
             /\ joined' = 1 /\ mpc' = "report"
             /\ result' = [result EXCEPT ![1] = EmptyMap]
    <3>1. joined = 0
      BY <2>1, <2>5
    <3>2. ASSUME NEW w \in Workers
          PROVE  WorkerInvOf(w)'
      BY <2>1, <2>2, <2>5, <3>1 DEF WorkerInvOf, Returned, MapTypeOK, EmptyMap
    <3>3. QED
      BY <3>2
  <2>6. QED
    BY <1>7, <2>3, <2>4, <2>5 DEF JoinWorker, Abort
<1>8. CASE CombineReferers \/ CombineUrls
  <2>1. UNCHANGED <<wpc, hand, result, joined, queue, closed>> /\ mpc \in MergingPC
    BY <1>8 DEF CombineReferers, CombineUrls, Combine, workerVars, chanVars
  <2>2. QED
    BY <1>1, <2>1
<1>9. CASE AddBytes
  <2>1. /\ joined + 1 \in Workers /\ joined' = joined + 1
        /\ mpc \in MergingPC /\ mpc' \notin MergingPC
        /\ result' = [result EXCEPT ![joined + 1] = EmptyMap]
    BY <1>9 DEF AddBytes, MasterInv
  <2>2. UNCHANGED <<wpc, closed, queue, hand>>
    BY <1>9 DEF AddBytes, chanVars
  <2>3. ASSUME NEW w \in Workers
        PROVE  WorkerInvOf(w)'
    <3>1. CASE w = joined + 1
      <4>1. wpc[w] = "exited" /\ result'[w] = EmptyMap
        BY <2>1, <3>1 DEF WorkerInvOf, MapTypeOK
      <4>2. /\ wpc'[w] = "exited" /\ closed' /\ queue' = <<>>
            /\ hand'[w] = NoJob <=> wpc'[w] \notin {"open", "read"}
        BY <2>2, <4>1 DEF WorkerInvOf
      <4>3. \A j \in Jobs : result'[w][j] = 0
        BY <4>1 DEF EmptyMap
      <4>4. QED
        BY <4>2, <4>3 DEF WorkerInvOf
    <3>2. CASE w # joined + 1
      <4>1. result'[w] = result[w] /\ (w <= joined' => w <= joined)
        BY <2>1, <3>2 DEF MapTypeOK
      <4>2. QED
        BY <2>1, <2>2, <3>2, <4>1 DEF WorkerInvOf
    <3>3. QED
      BY <3>1, <3>2
  <2>4. QED
    BY <2>3
<1>10. ASSUME NEW w \in Workers, TouchReleased(w)
       PROVE  WorkerInv'
  BY <1>1, <1>10 DEF TouchReleased, workerVars, masterVars, chanVars
<1>11. ASSUME NEW w \in Workers,
              UNCHANGED <<mpc, joined, closed, queue>>,
              \A v \in Workers : v # w => /\ wpc'[v] = wpc[v] /\ hand'[v] = hand[v]
                                          /\ result'[v] = result[v],
              wpc[w] # "exited", wpc'[w] # "exited",
              hand'[w] = NoJob <=> wpc'[w] \notin {"open", "read"},
              wpc'[w] \in {"recv", "open", "read"} \/ result'[w] = EmptyMap
       PROVE  WorkerInv'
  <2>1. WorkerInvOf(w)'
    <3>1. ~(w <= joined) /\ ~(mpc \in MergingPC /\ w = joined + 1)
      BY <1>11 DEF WorkerInvOf
    <3>2. QED
      BY <1>11, <3>1 DEF WorkerInvOf, EmptyMap
  <2>2. ASSUME NEW v \in Workers, v # w
        PROVE  WorkerInvOf(v)'
    <3>1. /\ UNCHANGED <<mpc, joined, closed, queue>>
          /\ wpc'[v] = wpc[v] /\ hand'[v] = hand[v] /\ result'[v] = result[v]
      BY <1>11, <2>2
    <3>2. QED
      BY <3>1 DEF WorkerInvOf
  <2>3. QED
    BY <2>1, <2>2
<1>12. ASSUME NEW w \in Workers, StartWorker(w)
       PROVE  WorkerInv'
  <2>1. hand[w] = NoJob
    BY <1>12 DEF StartWorker, WorkerInvOf
  <2>2. wpc'[w] = "recv" \/ Die(w)
    BY <1>12 DEF StartWorker
  <2>3. QED
    BY <1>11, <1>12, <2>1, <2>2 DEF StartWorker, Die, MapTypeOK, masterVars, chanVars
<1>13. ASSUME NEW w \in Workers, Receive(w)
       PROVE  WorkerInv'
  <2>1. UNCHANGED <<mpc, joined, closed, result>> /\ wpc[w] = "recv" /\ hand[w] = NoJob
    BY <1>13 DEF Receive, masterVars, WorkerInvOf
  <2>2. CASE queue # <<>> /\ Dequeue(w) /\ wpc' = [wpc EXCEPT ![w] = "open"]
    <3>1. Head(queue) \in Jobs
      BY <2>2 DEF ChannelTypeOK
    <3>2. hand'[w] # NoJob /\ \A v \in Workers : v # w => hand'[v] = hand[v]
      BY <2>2, <3>1, JobsElements DEF Dequeue
    <3>3. ASSUME NEW v \in Workers
          PROVE  WorkerInvOf(v)'
      BY <2>1, <2>2, <3>2 DEF WorkerInvOf
    <3>4. QED
      BY <3>3
  <2>3. CASE NoMoreJobs /\ wpc' = [wpc EXCEPT ![w] = "exited"] /\ UNCHANGED <<queue, hand>>
    BY <2>1, <2>3 DEF NoMoreJobs, WorkerInvOf
  <2>4. QED
    BY <1>13, <2>2, <2>3 DEF Receive
<1>14. ASSUME NEW w \in Workers, OpenFile(w)
       PROVE  WorkerInv'
  <2>1. UNCHANGED <<mpc, joined, closed, queue>> /\ wpc[w] = "open" /\ hand[w] # NoJob
    BY <1>14 DEF OpenFile, masterVars, chanVars, WorkerInvOf
  <2>2. CASE wpc' = [wpc EXCEPT ![w] = "read"] /\ UNCHANGED <<hand, result>>
    BY <1>11, <2>1, <2>2
  <2>3. CASE Die(w)
    BY <1>11, <2>1, <2>3 DEF Die, MapTypeOK
  <2>4. QED
    BY <1>14, <2>2, <2>3 DEF OpenFile
<1>15. ASSUME NEW w \in Workers, ReadBlock(w)
       PROVE  WorkerInv'
  <2>1. UNCHANGED <<mpc, joined, closed, queue>> /\ wpc[w] = "read"
    BY <1>15 DEF ReadBlock, masterVars, chanVars
  <2>2. CASE Die(w)
    BY <1>11, <2>1, <2>2 DEF Die, MapTypeOK
  <2>3. CASE /\ wpc' = [wpc EXCEPT ![w] = "recv"]
             /\ hand' = [hand EXCEPT ![w] = NoJob]
             /\ \A v \in Workers : v # w => result'[v] = result[v]
    BY <1>11, <2>1, <2>3
  <2>4. QED
    BY <1>15, <2>2, <2>3 DEF ReadBlock, MapTypeOK
<1>16. CASE UNCHANGED vars
  BY <1>1, <1>16 DEF vars, workerVars, masterVars, chanVars
<1>17. QED
  BY <1>2, <1>3, <1>4, <1>5, <1>6, <1>7, <1>8, <1>9, <1>10, <1>12, <1>13, <1>14,
     <1>15, <1>16 DEF Next, Master, Worker

-----------------------------------------------------------------------------
NewJob == [path |-> file, offset |-> block]

\* Sent grows by the job that is sent, and by nothing else.
LEMMA SentStep ==
    ASSUME TypeOK, MasterInv, [Next]_vars
    PROVE  /\ SendJob => /\ NewJob \in Jobs /\ NewJob \notin Sent
                         /\ Sent' = Sent \cup {NewJob}
                         /\ \A j \in Sent : Before(j, NewJob)
           /\ ~SendJob => Sent' = Sent
<1> USE DEF TypeOK, MasterTypeOK
<1>1. CASE SendJob
  <2>1. file \in 1..NFiles /\ block < NBlocks[file] /\ file' = file /\ block' = block + 1
    BY <1>1 DEF SendJob, MasterInv
  <2>2. NewJob \in Jobs /\ NewJob.path = file /\ NewJob.offset = block
    BY <2>1, JobsElements DEF NewJob
  <2>3. ASSUME NEW j \in Jobs
        PROVE  (j \in Sent') <=> (j \in Sent \cup {NewJob})
    <3>1. /\ j.path \in Nat /\ j.offset \in Nat
          /\ j = [path |-> j.path, offset |-> j.offset]
      BY JobsElements
    <3>2. j = NewJob <=> j.path = file /\ j.offset = block
      BY <3>1, <2>2 DEF NewJob
    <3>3. j \in Sent <=> (j.path < file \/ (j.path = file /\ j.offset < block))
      BY DEF Sent
    <3>4. j \in Sent' <=> (j.path < file \/ (j.path = file /\ j.offset < block + 1))
      BY <2>1 DEF Sent
    <3>5. QED
      BY <3>1, <3>2, <3>3, <3>4
  <2>4. Sent \subseteq Jobs /\ Sent' \subseteq Jobs
    BY DEF Sent
  <2>5. NewJob \notin Sent /\ \A j \in Sent : Before(j, NewJob)
    BY <2>1, <2>2 DEF Sent, Before
  <2>6. QED
    BY <1>1, <2>2, <2>3, <2>4, <2>5
<1>2. CASE NextLog
  <2>1. file \in 1..NFiles /\ block >= NBlocks[file] /\ file' = file + 1 /\ block' = 0
    BY <1>2 DEF NextLog, MasterInv
  <2>2. ASSUME NEW j \in Jobs
        PROVE  (j \in Sent') <=> (j \in Sent)
    <3>1. /\ j.path \in Nat /\ j.offset \in Nat /\ j.offset < NBlocks[j.path]
          /\ NBlocks[file] \in Nat
      BY <2>1, JobsElements
    <3>2. j.path = file => j.offset < block
      BY <2>1, <3>1
    <3>3. QED
      BY <2>1, <3>1, <3>2 DEF Sent
  <2>3. ~SendJob
    BY <1>2 DEF NextLog, SendJob
  <2>4. QED
    BY <2>2, <2>3 DEF Sent
<1>3. CASE CreateWorker \/ OpenLog \/ CutBlock \/ CloseJobs
  BY <1>3 DEF CreateWorker, OpenLog, CutBlock, CloseJobs, SendJob, Sent, masterVars
<1>4. CASE JoinWorker \/ CombineReferers \/ CombineUrls \/ AddBytes
  BY <1>4 DEF JoinWorker, CombineReferers, CombineUrls, Combine, AddBytes, SendJob, Sent,
     masterVars
<1>5. CASE PrintReport \/ FreePaths \/ DisposeChannel \/ ReturnFromMain
  BY <1>5 DEF PrintReport, FreePaths, DisposeChannel, ReturnFromMain, SendJob, Sent,
     masterVars
<1>6. ASSUME NEW w \in Workers, Worker(w)
      PROVE  Sent' = Sent
  BY <1>6 DEF Worker, StartWorker, Receive, OpenFile, ReadBlock, TouchReleased, Sent,
     masterVars
<1>7. CASE UNCHANGED vars
  BY <1>7 DEF vars, SendJob, Sent, masterVars
<1>8. QED
  BY <1>1, <1>2, <1>3, <1>4, <1>5, <1>6, <1>7 DEF Next, Master

\* What a step does to the places a job can be in: one of six effects.
StillEffect ==
    UNCHANGED <<queue, hand, result>> /\ merged'["bytes"] = merged["bytes"]
SendEffect ==
    /\ queue' = Append(queue, NewJob)
    /\ UNCHANGED <<hand, result>> /\ merged'["bytes"] = merged["bytes"]
ReceiveEffect(w) ==
    /\ queue # <<>> /\ queue' = Tail(queue)
    /\ hand' = [hand EXCEPT ![w] = Head(queue)]
    /\ hand[w] = NoJob
    /\ UNCHANGED result /\ merged'["bytes"] = merged["bytes"]
CountEffect(w) ==
    /\ hand[w] # NoJob
    /\ hand' = [hand EXCEPT ![w] = NoJob]
    /\ result' = [result EXCEPT ![w] =
                     [j \in Jobs |-> IF j = hand[w] THEN @[j] + 1 ELSE @[j]]]
    /\ UNCHANGED queue /\ merged'["bytes"] = merged["bytes"]
LoseEffect(w) ==
    /\ wpc'[w] = "failed"
    /\ hand' = [hand EXCEPT ![w] = NoJob]
    /\ result' = [result EXCEPT ![w] = EmptyMap]
    /\ UNCHANGED queue /\ merged'["bytes"] = merged["bytes"]
MergeEffect(w) ==
    /\ result' = [result EXCEPT ![w] = EmptyMap]
    /\ UNCHANGED <<queue, hand>>
    /\ merged'["bytes"] = [j \in Jobs |-> merged["bytes"][j] + result[w][j]]

LEMMA Effects ==
    ASSUME IInv, [Next]_vars
    PROVE  \/ ~SendJob /\ StillEffect
           \/ SendJob /\ SendEffect
           \/ \E w \in Workers :
                 ~SendJob /\ \/ ReceiveEffect(w) \/ CountEffect(w) \/ LoseEffect(w)
                             \/ MergeEffect(w)
<1> USE DEF IInv
<1>1. CASE SendJob
  BY <1>1 DEF SendJob, SendEffect, NewJob, workerVars
<1>2. CASE CreateWorker \/ OpenLog \/ NextLog \/ CutBlock \/ CloseJobs
  BY <1>2 DEF CreateWorker, OpenLog, NextLog, CutBlock, CloseJobs, SendJob, StillEffect,
     masterVars, chanVars, workerVars
<1>3. CASE PrintReport \/ FreePaths \/ DisposeChannel \/ ReturnFromMain \/ UNCHANGED vars
  BY <1>3 DEF PrintReport, FreePaths, DisposeChannel, ReturnFromMain, SendJob, StillEffect,
     vars, masterVars, chanVars, workerVars
<1>4. CASE JoinWorker
  <2>1. CASE UNCHANGED <<merged, result>>
    BY <1>4, <2>1 DEF JoinWorker, SendJob, StillEffect, chanVars
  <2>2. CASE /\ number_of_workers = 1
             /\ merged' = [m \in Maps |-> result[1]]
             /\ result' = [result EXCEPT ![1] = EmptyMap]
    <3>1. 1 \in Workers /\ joined = 0
      BY <1>4, <2>2, Counters DEF JoinWorker, MasterInv
    <3>2. \A j \in Jobs : merged["bytes"][j] = 0
      BY <3>1 DEF MergeInv
    <3>3. merged'["bytes"] = result[1] /\ result[1] \in [Jobs -> Nat]
      BY <2>2, <3>1 DEF Maps, TypeOK, MapTypeOK
    <3>4. merged'["bytes"] = [j \in Jobs |-> merged["bytes"][j] + result[1][j]]
      BY <3>2, <3>3
    <3>5. MergeEffect(1) /\ ~SendJob
      BY <1>4, <2>2, <3>4 DEF JoinWorker, MergeEffect, SendJob, chanVars
    <3>6. QED
      BY <3>1, <3>5
  <2>3. QED
    BY <1>4, <2>1, <2>2 DEF JoinWorker
<1>5. CASE CombineReferers \/ CombineUrls
  <2>1. merged'["bytes"] = merged["bytes"]
    BY <1>5 DEF CombineReferers, CombineUrls, Combine, TypeOK, MapTypeOK, Maps
  <2>2. QED
    BY <1>5, <2>1 DEF CombineReferers, CombineUrls, Combine, SendJob, StillEffect,
       chanVars, workerVars
<1>6. CASE AddBytes
  <2>1. joined + 1 \in Workers
    BY <1>6, Counters DEF AddBytes, MasterInv, MergingPC
  <2>2. MergeEffect(joined + 1) /\ ~SendJob
    BY <1>6 DEF AddBytes, MergeEffect, SendJob, chanVars, TypeOK, MapTypeOK, Maps
  <2>3. QED
    BY <2>1, <2>2
<1>7. ASSUME NEW w \in Workers, Worker(w)
      PROVE  \/ StillEffect \/ ReceiveEffect(w) \/ CountEffect(w) \/ LoseEffect(w)
  <2>1. merged' = merged
    BY <1>7 DEF Worker, StartWorker, Receive, OpenFile, ReadBlock, TouchReleased, masterVars
  <2>2. CASE Die(w) /\ queue' = queue
    BY <2>1, <2>2 DEF Die, LoseEffect, TypeOK, WorkerTypeOK
  <2>3. CASE StartWorker(w)
    BY <2>1, <2>2, <2>3 DEF StartWorker, StillEffect, chanVars
  <2>4. CASE Receive(w)
    <3>1. hand[w] = NoJob
      BY <2>4 DEF Receive, WorkerInv, WorkerInvOf
    <3>2. QED
      BY <2>1, <2>4, <3>1 DEF Receive, Dequeue, ReceiveEffect, StillEffect
  <2>5. CASE OpenFile(w)
    BY <2>1, <2>2, <2>5 DEF OpenFile, StillEffect, chanVars
  <2>6. CASE ReadBlock(w)
    <3>1. wpc[w] = "read" /\ hand[w] \in Jobs
      BY <2>6 DEF ReadBlock, WorkerInv, WorkerInvOf, TypeOK, WorkerTypeOK
    <3>2. curPath[w] = hand[w].path /\ ReadFrom(w) = hand[w].offset
      BY <3>1, JobsElements DEF OrderInv, FileInvOf, ReadFrom
    <3>3. [path |-> curPath[w], offset |-> ReadFrom(w)] = hand[w]
      BY <3>1, <3>2, JobsElements
    <3>4. hand[w] # NoJob
      BY <3>1, JobsElements
    <3>5. queue' = queue
      BY <2>6 DEF ReadBlock, chanVars
    <3>6. CASE ~Die(w)
      BY <2>1, <2>6, <3>3, <3>4, <3>5, <3>6 DEF ReadBlock, CountEffect
    <3>7. QED
      BY <2>2, <3>5, <3>6
  <2>7. CASE TouchReleased(w)
    BY <2>1, <2>7 DEF TouchReleased, StillEffect, chanVars, workerVars
  <2>8. QED
    BY <1>7, <2>3, <2>4, <2>5, <2>6, <2>7 DEF Worker
<1>8. QED
  BY <1>1, <1>2, <1>3, <1>4, <1>5, <1>6, <1>7 DEF Next, Master

\* The facts about places that the proofs below use, without their types.
LEMMA PlaceTypes ==
    ASSUME TypeOK
    PROVE  /\ Sent \subseteq Jobs /\ NoJob \notin Jobs
           /\ queue \in Seq(Jobs) /\ Len(queue) \in Nat
           /\ \A i \in 1..Len(queue) : queue[i] \in Jobs
           /\ hand \in [Workers -> Jobs \cup {NoJob}]
           /\ result \in [Workers -> [Jobs -> Nat]]
           /\ merged["bytes"] \in [Jobs -> Nat]
BY JobsElements DEF TypeOK, ChannelTypeOK, WorkerTypeOK, MapTypeOK, Sent, Maps

\* The first job of a channel that is not empty, and the others.
LEMMA QueueFront ==
    ASSUME TypeOK, queue # <<>>, queue' = Tail(queue)
    PROVE  /\ 1 \in 1..Len(queue) /\ Head(queue) = queue[1]
           /\ Len(queue') = Len(queue) - 1
           /\ \A i \in 1..Len(queue') :
                 /\ i + 1 \in 1..Len(queue) /\ queue'[i] = queue[i + 1]
BY DEF TypeOK, ChannelTypeOK

\* A job in a worker's hand is older than every job in the channel.
LEMMA HandNotQueued ==
    ASSUME TypeOK, OrderInv, NEW w \in Workers, hand[w] # NoJob,
           NEW i \in 1..Len(queue)
    PROVE  hand[w] # queue[i]
<1>1. Before(hand[w], queue[i])
  BY DEF OrderInv
<1>2. queue[i].path \in Nat /\ queue[i].offset \in Nat
  <2>1. queue[i] \in Jobs
    BY PlaceTypes
  <2>2. QED
    BY <2>1, JobsElements
<1>3. QED
  BY <1>1, <1>2 DEF Before

\* A job is in at most one place.
LEMMA PlaceStep ==
    ASSUME IInv, [Next]_vars
    PROVE  PlaceInv'
<1> USE DEF IInv
<1>t. /\ Sent \subseteq Jobs /\ NoJob \notin Jobs
      /\ \A i \in 1..Len(queue) : queue[i] \in Jobs
      /\ hand \in [Workers -> Jobs \cup {NoJob}]
      /\ result \in [Workers -> [Jobs -> Nat]]
      /\ merged["bytes"] \in [Jobs -> Nat]
  BY PlaceTypes
<1>1. CASE ~SendJob /\ StillEffect
  BY <1>1, SentStep DEF StillEffect, PlaceInv, Unseen, Once
<1>2. CASE SendJob /\ SendEffect
  <2>1. /\ NewJob \in Jobs /\ NewJob \notin Sent /\ Sent' = Sent \cup {NewJob}
    BY <1>2, SentStep
  <2>2. /\ merged'["bytes"] = merged["bytes"] /\ UNCHANGED <<hand, result>>
        /\ queue' = Append(queue, NewJob)
    BY <1>2 DEF SendEffect
  <2>3. Unseen' = Unseen /\ Once' = Once
    BY <2>2 DEF Unseen, Once
  <2>4. \A i \in 1..Len(queue') : \/ i \in 1..Len(queue) /\ queue'[i] = queue[i]
                                 \/ queue'[i] = NewJob
    BY <2>1, <2>2, PlaceTypes
  <2>5. \A i \in 1..Len(queue') : queue'[i] \in Sent' /\ queue'[i] \in Unseen'
    BY <2>1, <2>3, <2>4 DEF PlaceInv
  <2>6. \A w \in Workers : hand'[w] # NoJob => hand'[w] \in Sent' /\ hand'[w] \in Unseen'
    BY <1>t, <2>1, <2>2, <2>3 DEF PlaceInv
  <2>7. \A j \in Jobs : j \in Once' /\ (j \in Sent' \/ j \in Unseen')
    BY <2>1, <2>3 DEF PlaceInv
  <2>8. QED
    BY <2>2, <2>5, <2>6, <2>7 DEF PlaceInv
<1>3. ASSUME NEW w \in Workers, ~SendJob, ReceiveEffect(w)
      PROVE  PlaceInv'
  <2>1. Sent' = Sent
    BY <1>3, SentStep
  <2>2. /\ merged'["bytes"] = merged["bytes"] /\ result' = result
        /\ hand'[w] = queue[1] /\ 1 \in 1..Len(queue)
        /\ \A v \in Workers : v # w => hand'[v] = hand[v]
    BY <1>3, <1>t, QueueFront DEF ReceiveEffect
  <2>3. \A i \in 1..Len(queue') : \E k \in 1..Len(queue) : queue'[i] = queue[k]
    BY <1>3, QueueFront DEF ReceiveEffect
  <2>4. Unseen' = Unseen /\ Once' = Once
    BY <2>2 DEF Unseen, Once
  <2>5. \A v \in Workers : hand[v] # NoJob => hand[v] # queue[1]
    BY <2>2, HandNotQueued
  <2>6. \A u, v \in Workers : u # v /\ hand'[u] # NoJob => hand'[u] # hand'[v]
    <3>1. \A u, v \in Workers : u # v /\ hand[u] # NoJob => hand[u] # hand[v]
      BY DEF PlaceInv
    <3>2. QED
      BY <2>2, <2>5, <3>1, <1>t
  <2>7. \A i \in 1..Len(queue') : queue'[i] \in Sent' /\ queue'[i] \in Unseen'
    BY <2>1, <2>3, <2>4 DEF PlaceInv
  <2>8. \A v \in Workers : hand'[v] # NoJob => hand'[v] \in Sent' /\ hand'[v] \in Unseen'
    BY <2>1, <2>2, <2>4 DEF PlaceInv
  <2>9. \A j \in Jobs : j \in Once' /\ (j \in Sent' \/ j \in Unseen')
    BY <2>1, <2>4 DEF PlaceInv
  <2>10. QED
    BY <2>6, <2>7, <2>8, <2>9 DEF PlaceInv
<1>4. ASSUME NEW w \in Workers, ~SendJob, CountEffect(w)
      PROVE  PlaceInv'
  <2>1. Sent' = Sent
    BY <1>4, SentStep
  <2>2. /\ merged'["bytes"] = merged["bytes"] /\ queue' = queue
        /\ hand[w] # NoJob /\ hand[w] \in Jobs
        /\ hand'[w] = NoJob
        /\ \A v \in Workers : v # w => hand'[v] = hand[v] /\ result'[v] = result[v]
        /\ \A j \in Jobs : result'[w][j] = IF j = hand[w] THEN result[w][j] + 1
                                                       ELSE result[w][j]
    BY <1>4, <1>t DEF CountEffect
  <2>3. \A j \in Jobs : j # hand[w] =>
           (j \in Unseen' <=> j \in Unseen) /\ (j \in Once' <=> j \in Once)
    BY <2>2 DEF Unseen, Once
  <2>4. hand[w] \in Sent /\ hand[w] \in Unseen
    BY <2>2 DEF PlaceInv
  <2>5. hand[w] \in Once'
    <3>1. result'[w][hand[w]] = 1
      BY <2>2, <2>4 DEF Unseen
    <3>2. \A v \in Workers : v # w => result'[v][hand[w]] = 0
      BY <2>2, <2>4 DEF Unseen
    <3>3. merged'["bytes"][hand[w]] = 0
      BY <2>2, <2>4 DEF Unseen
    <3>4. /\ merged'["bytes"][hand[w]] <= 1
          /\ \A v \in Workers : result'[v][hand[w]] <= 1
          /\ \A u, v \in Workers :
                u # v => result'[u][hand[w]] = 0 \/ result'[v][hand[w]] = 0
          /\ \A v \in Workers : result'[v][hand[w]] > 0 => merged'["bytes"][hand[w]] = 0
      BY <3>1, <3>2, <3>3
    <3>5. QED
      BY <2>2, <3>4 DEF Once
  <2>6. \A i \in 1..Len(queue') : queue'[i] \in Sent' /\ queue'[i] \in Unseen'
    BY <1>t, <2>1, <2>2, <2>3, HandNotQueued DEF PlaceInv
  <2>7. \A v \in Workers : hand'[v] # NoJob => hand'[v] \in Sent' /\ hand'[v] \in Unseen'
    BY <1>t, <2>1, <2>2, <2>3 DEF PlaceInv
  <2>8. \A u, v \in Workers : u # v /\ hand'[u] # NoJob => hand'[u] # hand'[v]
    BY <2>2 DEF PlaceInv
  <2>9. \A j \in Jobs : j \in Once' /\ (j \in Sent' \/ j \in Unseen')
    BY <2>1, <2>3, <2>4, <2>5 DEF PlaceInv
  <2>10. QED
    BY <2>6, <2>7, <2>8, <2>9 DEF PlaceInv
<1>5. ASSUME NEW w \in Workers, ~SendJob, LoseEffect(w)
      PROVE  PlaceInv'
  <2>1. Sent' = Sent
    BY <1>5, SentStep
  <2>2. /\ merged'["bytes"] = merged["bytes"] /\ queue' = queue
        /\ \A v \in Workers : hand'[v] = hand[v] \/ hand'[v] = NoJob
        /\ \A v \in Workers, j \in Jobs :
              result'[v][j] = result[v][j] \/ result'[v][j] = 0
    BY <1>5, <1>t DEF LoseEffect, EmptyMap
  <2>3. \A j \in Jobs : (j \in Unseen => j \in Unseen') /\ (j \in Once => j \in Once')
    <3>1. \A j \in Jobs : j \in Unseen => j \in Unseen'
      BY <2>2 DEF Unseen
    <3>2. ASSUME NEW j \in Once
          PROVE  j \in Once'
      <4>1. j \in Jobs /\ \A v \in Workers : result[v][j] \in Nat
        BY <1>t DEF Once
      <4>2. \A v \in Workers : result'[v][j] <= 1
        BY <2>2, <4>1 DEF Once
      <4>3. \A v \in Workers : result[v][j] = 0 => result'[v][j] = 0
        BY <2>2, <4>1
      <4>4. \A v \in Workers : result'[v][j] > 0 => result[v][j] > 0
        BY <2>2, <4>1
      <4>5. \A u, v \in Workers : u # v => result'[u][j] = 0 \/ result'[v][j] = 0
        BY <4>3 DEF Once
      <4>6. QED
        BY <2>2, <4>1, <4>2, <4>4, <4>5 DEF Once
    <3>3. QED
      BY <3>1, <3>2
  <2>4. \A i \in 1..Len(queue') : queue'[i] \in Sent' /\ queue'[i] \in Unseen'
    BY <1>t, <2>1, <2>2, <2>3 DEF PlaceInv
  <2>5. \A v \in Workers : hand'[v] # NoJob => hand'[v] \in Sent' /\ hand'[v] \in Unseen'
    BY <1>t, <2>1, <2>2, <2>3 DEF PlaceInv
  <2>6. \A u, v \in Workers : u # v /\ hand'[u] # NoJob => hand'[u] # hand'[v]
    BY <2>2 DEF PlaceInv
  <2>7. \A j \in Jobs : j \in Once' /\ (j \in Sent' \/ j \in Unseen')
    BY <2>1, <2>3 DEF PlaceInv
  <2>8. QED
    BY <2>4, <2>5, <2>6, <2>7 DEF PlaceInv
<1>6. ASSUME NEW w \in Workers, ~SendJob, MergeEffect(w)
      PROVE  PlaceInv'
  <2>1. Sent' = Sent
    BY <1>6, SentStep
  <2>2. /\ UNCHANGED <<queue, hand>>
        /\ \A j \in Jobs : merged'["bytes"][j] = merged["bytes"][j] + result[w][j]
        /\ \A j \in Jobs : result'[w][j] = 0
        /\ \A v \in Workers : v # w => result'[v] = result[v]
    BY <1>6, <1>t DEF MergeEffect, EmptyMap
  <2>3. \A j \in Unseen : j \in Unseen'
    BY <2>2 DEF Unseen
  <2>4. ASSUME NEW j \in Once
        PROVE  j \in Once'
    <3>1. j \in Jobs /\ result[w][j] \in Nat /\ merged["bytes"][j] \in Nat
      BY <1>t DEF Once
    <3>2. merged'["bytes"][j] <= 1
      BY <2>2, <3>1 DEF Once
    <3>3. \A v \in Workers : result'[v][j] <= 1
      BY <2>2, <3>1 DEF Once
    <3>4. \A u, v \in Workers : u # v => result'[u][j] = 0 \/ result'[v][j] = 0
      BY <2>2, <3>1 DEF Once
    <3>5. ASSUME NEW v \in Workers, result'[v][j] > 0
          PROVE  merged'["bytes"][j] = 0
      <4>1. v # w /\ result[v][j] > 0
        BY <2>2, <3>1, <3>5
      <4>2. merged["bytes"][j] = 0 /\ result[w][j] = 0
        BY <4>1 DEF Once
      <4>3. QED
        BY <2>2, <3>1, <4>2
    <3>6. QED
      BY <3>1, <3>2, <3>3, <3>4, <3>5 DEF Once
  <2>5. \A i \in 1..Len(queue') : queue'[i] \in Sent' /\ queue'[i] \in Unseen'
    BY <1>t, <2>1, <2>2, <2>3 DEF PlaceInv
  <2>6. \A v \in Workers : hand'[v] # NoJob => hand'[v] \in Sent' /\ hand'[v] \in Unseen'
    BY <1>t, <2>1, <2>2, <2>3 DEF PlaceInv
  <2>7. \A u, v \in Workers : u # v /\ hand'[u] # NoJob => hand'[u] # hand'[v]
    BY <2>2 DEF PlaceInv
  <2>8. \A j \in Jobs : j \in Once' /\ (j \in Sent' \/ j \in Unseen')
    BY <2>1, <2>3, <2>4 DEF PlaceInv
  <2>9. QED
    BY <2>5, <2>6, <2>7, <2>8 DEF PlaceInv
<1>7. QED
  BY <1>1, <1>2, <1>3, <1>4, <1>5, <1>6, Effects

-----------------------------------------------------------------------------
\* The channel keeps the order of the master's loops.
LEMMA QueueOrderStep ==
    ASSUME IInv, [Next]_vars
    PROVE  /\ \A i, k \in 1..Len(queue') : i < k => Before(queue'[i], queue'[k])
           /\ \A w \in Workers, i \in 1..Len(queue') :
                 hand'[w] # NoJob => Before(hand'[w], queue'[i])
<1> USE DEF IInv
<1>1. CASE /\ queue' = queue
           /\ \A w \in Workers : hand'[w] = hand[w] \/ hand'[w] = NoJob
  BY <1>1 DEF OrderInv
<1>2. CASE SendJob /\ SendEffect
  <2>1. /\ NewJob \in Jobs /\ queue' = Append(queue, NewJob) /\ hand' = hand
        /\ \A j \in Sent : Before(j, NewJob)
    BY <1>2, SentStep DEF SendEffect
  <2>2. /\ Len(queue') = Len(queue) + 1 /\ Len(queue) \in Nat
        /\ queue'[Len(queue) + 1] = NewJob
        /\ \A i \in 1..Len(queue) : queue'[i] = queue[i]
    BY <2>1, PlaceTypes
  <2>3. ASSUME NEW i \in 1..Len(queue'), NEW k \in 1..Len(queue'), i < k
        PROVE  Before(queue'[i], queue'[k])
    <3>1. i \in 1..Len(queue)
      BY <2>2, <2>3
    <3>2. CASE k \in 1..Len(queue)
      BY <2>2, <2>3, <3>1, <3>2 DEF OrderInv
    <3>3. CASE k = Len(queue) + 1
      BY <2>1, <2>2, <3>1, <3>3 DEF PlaceInv
    <3>4. QED
      BY <2>2, <3>2, <3>3
  <2>4. ASSUME NEW w \in Workers, hand[w] # NoJob, NEW i \in 1..Len(queue')
        PROVE  Before(hand[w], queue'[i])
    <3>1. CASE i \in 1..Len(queue)
      BY <2>2, <2>4, <3>1 DEF OrderInv
    <3>2. CASE i = Len(queue) + 1
      BY <2>1, <2>2, <2>4, <3>2 DEF PlaceInv
    <3>3. QED
      BY <2>2, <3>1, <3>2
  <2>5. QED
    BY <2>1, <2>3, <2>4
<1>3. ASSUME NEW w \in Workers, ReceiveEffect(w)
      PROVE  /\ \A i, k \in 1..Len(queue') : i < k => Before(queue'[i], queue'[k])
             /\ \A v \in Workers, i \in 1..Len(queue') :
                   hand'[v] # NoJob => Before(hand'[v], queue'[i])
  <2>1. /\ 1 \in 1..Len(queue) /\ hand' = [hand EXCEPT ![w] = queue[1]]
        /\ \A i \in 1..Len(queue') : i + 1 \in 1..Len(queue) /\ queue'[i] = queue[i + 1]
    BY <1>3, QueueFront DEF ReceiveEffect
  <2>2. ASSUME NEW i \in 1..Len(queue'), NEW k \in 1..Len(queue'), i < k
        PROVE  Before(queue'[i], queue'[k])
    BY <2>1, <2>2 DEF OrderInv
  <2>3. ASSUME NEW v \in Workers, NEW i \in 1..Len(queue'), hand'[v] # NoJob
        PROVE  Before(hand'[v], queue'[i])
    <3>1. CASE v = w
      <4>1. hand'[v] = queue[1] /\ 1 < i + 1
        BY <2>1, <3>1, PlaceTypes
      <4>2. QED
        BY <2>1, <4>1 DEF OrderInv
    <3>2. CASE v # w
      BY <2>1, <2>3, <3>2, PlaceTypes DEF OrderInv
    <3>3. QED
      BY <3>1, <3>2
  <2>4. QED
    BY <2>2, <2>3
<1>4. QED
  BY <1>1, <1>2, <1>3, Effects, PlaceTypes
     DEF StillEffect, CountEffect, LoseEffect, MergeEffect

\* A file's first job is sent before the others.
LEMMA FirstSent ==
    ASSUME TypeOK, NEW j \in Sent
    PROVE  FirstOf(j.path) \in Sent
<1>1. j \in Jobs /\ (j.path < file \/ (j.path = file /\ j.offset < block))
  BY DEF Sent
<1>2. j.path \in 1..NFiles /\ j.offset \in Nat /\ j.offset < NBlocks[j.path]
      /\ NBlocks[j.path] \in Nat /\ block \in Nat
  BY <1>1, JobsElements DEF TypeOK, MasterTypeOK
<1>3. FirstOf(j.path) \in Jobs
  BY <1>2, JobsElements DEF FirstOf
<1>4. FirstOf(j.path).path = j.path /\ FirstOf(j.path).offset = 0
  BY DEF FirstOf
<1>5. QED
  BY <1>1, <1>2, <1>3, <1>4 DEF Sent

\* Every worker's open file and position agree with the jobs to come.
LEMMA FileStep ==
    ASSUME IInv, [Next]_vars, NEW w \in Workers
    PROVE  FileInvOf(w)'
<1> USE DEF IInv
<1>0. FileInvOf(w)
  BY DEF OrderInv
<1>1. ASSUME curPath'[w] = curPath[w], Sent \subseteq Sent',
             \A i \in 1..Len(queue') :
                \/ queue'[i] \notin Sent /\ curPath[w] <= queue'[i].path
                \/ \E k \in 1..Len(queue) : queue'[i] = queue[k],
             hand'[w] \in {hand[w], NoJob},
             \/ wpc'[w] \notin {"open", "read"}
             \/ wpc'[w] = wpc[w] /\ hand'[w] = hand[w] /\ pos'[w] = pos[w]
      PROVE  FileInvOf(w)'
  BY <1>0, <1>1 DEF FileInvOf
<1>2. CASE SendJob
  <2>1. Sent \subseteq Sent' /\ NewJob \notin Sent /\ NewJob \in Jobs
    BY <1>2, SentStep
  <2>2. queue' = Append(queue, NewJob) /\ UNCHANGED workerVars
    BY <1>2 DEF SendJob, NewJob
  <2>0. curPath[w] <= NewJob.path
    <3>1. curPath[w] # 0 => FirstOf(curPath[w]) \in Sent
      BY <1>0 DEF FileInvOf
    <3>2. FirstOf(curPath[w]).path = curPath[w] /\ NewJob.path = file
      BY DEF FirstOf, NewJob
    <3>3. curPath[w] \in Nat /\ file \in Nat
      BY JobsElements DEF TypeOK, WorkerTypeOK, MasterTypeOK
    <3>4. QED
      BY <3>1, <3>2, <3>3 DEF Sent
  <2>3. \A i \in 1..Len(queue') : \/ queue'[i] \notin Sent /\ curPath[w] <= queue'[i].path
                               \/ \E k \in 1..Len(queue) : queue'[i] = queue[k]
    BY <2>0, <2>1, <2>2, PlaceTypes
  <2>4. QED
    BY <1>1, <2>1, <2>2, <2>3 DEF workerVars
<1>3. ASSUME ~SendJob, queue' = queue, curPath'[w] = curPath[w],
             hand'[w] \in {hand[w], NoJob},
             \/ wpc'[w] \notin {"open", "read"}
             \/ wpc'[w] = wpc[w] /\ hand'[w] = hand[w] /\ pos'[w] = pos[w]
      PROVE  FileInvOf(w)'
  BY <1>1, <1>3, SentStep
<1>4. CASE CreateWorker
  <2>1. wpc'[w] = wpc[w] \/ wpc'[w] = "init"
    BY <1>4, Counters DEF CreateWorker, MasterInv, TypeOK, WorkerTypeOK
  <2>2. QED
    BY <1>3, <1>4, <2>1 DEF CreateWorker, SendJob, chanVars
<1>5. CASE OpenLog \/ NextLog \/ CutBlock \/ CloseJobs
  BY <1>3, <1>5 DEF OpenLog, NextLog, CutBlock, CloseJobs, SendJob, chanVars, workerVars
<1>6. CASE JoinWorker \/ CombineReferers \/ CombineUrls \/ AddBytes
  BY <1>3, <1>6 DEF JoinWorker, CombineReferers, CombineUrls, Combine, AddBytes, SendJob,
     chanVars, workerVars
<1>7. CASE PrintReport \/ FreePaths \/ DisposeChannel \/ ReturnFromMain \/ UNCHANGED vars
  BY <1>3, <1>7 DEF PrintReport, FreePaths, DisposeChannel, ReturnFromMain, SendJob, vars,
     chanVars, workerVars
<1>8. ASSUME NEW v \in Workers, Receive(v)
      PROVE  FileInvOf(w)'
  <2>1. UNCHANGED <<curPath, pos>> /\ Sent' = Sent
    BY <1>8, SentStep DEF Receive, SendJob, masterVars, Sent
  <2>2. CASE queue # <<>> /\ Dequeue(v) /\ wpc' = [wpc EXCEPT ![v] = "open"]
    <3>1. /\ hand' = [hand EXCEPT ![v] = queue[1]] /\ 1 \in 1..Len(queue)
          /\ \A i \in 1..Len(queue') : \E k \in 1..Len(queue) : queue'[i] = queue[k]
      BY <2>2, QueueFront DEF Dequeue
    <3>2. CASE v # w
      BY <1>1, <2>1, <2>2, <3>1, <3>2 DEF TypeOK, WorkerTypeOK
    <3>3. CASE v = w
      <4>1. queue[1].offset = 0 => curPath[w] # queue[1].path
        <5>1. SUFFICES ASSUME queue[1].offset = 0, curPath[w] = queue[1].path
                       PROVE  FALSE
          OBVIOUS
        <5>2. queue[1] \in Jobs
          BY <3>1, PlaceTypes
        <5>3. queue[1] = FirstOf(curPath[w]) /\ curPath[w] # 0
          BY <5>1, <5>2, JobsElements DEF FirstOf
        <5>4. QED
          BY <1>0, <3>1, <5>3 DEF FileInvOf
      <4>0. curPath[w] <= queue[1].path
        BY <1>0, <3>1 DEF FileInvOf
      <4>2. hand'[w] = queue[1] /\ wpc'[w] = "open" /\ curPath'[w] = curPath[w]
        BY <2>1, <2>2, <3>1, <3>3 DEF TypeOK, WorkerTypeOK
      <4>3. QED
        BY <1>0, <2>1, <3>1, <4>0, <4>1, <4>2 DEF FileInvOf
    <3>4. QED
      BY <3>2, <3>3
  <2>3. CASE queue' = queue /\ wpc' = [wpc EXCEPT ![v] = "exited"] /\ hand' = hand
    BY <1>1, <2>1, <2>3 DEF TypeOK, WorkerTypeOK
  <2>4. QED
    BY <1>8, <2>2, <2>3 DEF Receive
<1>9. ASSUME NEW v \in Workers, OpenFile(v)
      PROVE  FileInvOf(w)'
  <2>1. queue' = queue /\ Sent' = Sent /\ wpc[v] = "open" /\ ~SendJob
    BY <1>9, SentStep DEF OpenFile, SendJob, masterVars, chanVars, Sent
  <2>2. CASE v # w
    BY <1>3, <1>9, <2>1, <2>2 DEF OpenFile, Die, TypeOK, WorkerTypeOK
  <2>3. CASE v = w /\ Die(w) /\ UNCHANGED <<curPath, pos>>
    BY <1>3, <2>1, <2>3 DEF Die, TypeOK, WorkerTypeOK
  <2>4. CASE /\ v = w /\ curPath[w] = hand[w].path
             /\ wpc' = [wpc EXCEPT ![w] = "read"] /\ UNCHANGED <<hand, curPath, pos>>
    <3>1. hand[w].offset # 0
      BY <1>0, <2>1, <2>4 DEF FileInvOf
    <3>2. QED
      BY <1>0, <2>1, <2>4, <3>1 DEF FileInvOf, TypeOK, WorkerTypeOK
  <2>5. CASE /\ v = w /\ curPath' = [curPath EXCEPT ![w] = hand[w].path]
             /\ pos' = [pos EXCEPT ![w] = 0]
             /\ wpc' = [wpc EXCEPT ![w] = "read"] /\ hand' = hand
    <3>1. hand[w] # NoJob /\ hand[w] \in Sent
      BY <2>1, <2>5 DEF WorkerInv, WorkerInvOf, PlaceInv
    <3>2. FirstOf(hand[w].path) \in Sent
      BY <3>1, FirstSent
    <3>3. ASSUME NEW i \in 1..Len(queue), queue[i] = FirstOf(hand[w].path)
          PROVE  FALSE
      <4>1. Before(hand[w], queue[i])
        BY <3>1 DEF OrderInv
      <4>2. queue[i].path = hand[w].path /\ queue[i].offset = 0
        BY <3>3 DEF FirstOf
      <4>3. hand[w].path \in Nat /\ hand[w].offset \in Nat
        BY <3>1, PlaceTypes, JobsElements
      <4>4. QED
        BY <4>1, <4>2, <4>3 DEF Before
    <3>4. /\ curPath'[w] = hand[w].path /\ wpc'[w] = "read" /\ pos'[w] = 0
          /\ hand'[w] = hand[w]
      BY <2>5 DEF TypeOK, WorkerTypeOK
    <3>5. ASSUME NEW i \in 1..Len(queue)
          PROVE  hand[w].path <= queue[i].path
      <4>1. Before(hand[w], queue[i])
        BY <3>1 DEF OrderInv
      <4>2. hand[w].path \in Nat /\ queue[i].path \in Nat
        <5>1. hand[w] \in Jobs /\ queue[i] \in Jobs
          BY <3>1, PlaceTypes
        <5>2. QED
          BY <5>1, JobsElements
      <4>3. QED
        BY <4>1, <4>2 DEF Before
    <3>6. hand[w].path \in Nat
      BY <3>1, PlaceTypes, JobsElements
    <3>7. QED
      BY <2>1, <3>2, <3>3, <3>4, <3>5, <3>6 DEF FileInvOf
  <2>6. QED
    BY <1>9, <2>2, <2>3, <2>4, <2>5 DEF OpenFile
<1>10. ASSUME NEW v \in Workers, StartWorker(v) \/ ReadBlock(v) \/ TouchReleased(v)
       PROVE  FileInvOf(w)'
  <2>1. queue' = queue /\ curPath' = curPath /\ ~SendJob
    BY <1>10 DEF StartWorker, ReadBlock, TouchReleased, chanVars, workerVars, SendJob,
       masterVars
  <2>2. /\ hand'[w] \in {hand[w], NoJob}
        /\ \/ wpc'[w] \notin {"open", "read"}
           \/ wpc'[w] = wpc[w] /\ hand'[w] = hand[w] /\ pos'[w] = pos[w]
    BY <1>10 DEF StartWorker, ReadBlock, TouchReleased, Die, workerVars, TypeOK,
       WorkerTypeOK
  <2>3. QED
    BY <1>3, <2>1, <2>2
<1>11. QED
  BY <1>2, <1>4, <1>5, <1>6, <1>7, <1>8, <1>9, <1>10 DEF Next, Master, Worker

LEMMA OrderStep ==
    ASSUME IInv, [Next]_vars
    PROVE  OrderInv'
BY QueueOrderStep, FileStep DEF OrderInv

-----------------------------------------------------------------------------
\* A worker that failed stays failed.
LEMMA FailedStep ==
    ASSUME IInv, [Next]_vars, NEW w \in Workers, wpc[w] = "failed"
    PROVE  wpc'[w] = "failed"
<1> USE DEF IInv, TypeOK, WorkerTypeOK
<1>1. CASE CreateWorker
  BY <1>1, Counters DEF CreateWorker, MasterInv
<1>2. CASE OpenLog \/ NextLog \/ CutBlock \/ SendJob \/ CloseJobs
  BY <1>2 DEF OpenLog, NextLog, CutBlock, SendJob, CloseJobs, workerVars
<1>3. CASE JoinWorker \/ CombineReferers \/ CombineUrls \/ AddBytes
  BY <1>3 DEF JoinWorker, CombineReferers, CombineUrls, Combine, AddBytes, workerVars
<1>4. CASE PrintReport \/ FreePaths \/ DisposeChannel \/ ReturnFromMain
  BY <1>4 DEF PrintReport, FreePaths, DisposeChannel, ReturnFromMain, workerVars
<1>5. ASSUME NEW v \in Workers, Worker(v)
      PROVE  wpc'[w] = "failed"
  BY <1>5 DEF Worker, StartWorker, Receive, OpenFile, ReadBlock, TouchReleased, Die,
     workerVars
<1>6. CASE UNCHANGED vars
  BY <1>6 DEF vars, workerVars
<1>7. QED
  BY <1>1, <1>2, <1>3, <1>4, <1>5, <1>6 DEF Next, Master

\* Where a job that was sent can be.
Kept(j) ==
    \/ \E i \in 1..Len(queue) : queue[i] = j
    \/ \E w \in Workers : hand[w] = j
    \/ \E w \in Workers : result[w][j] > 0
    \/ merged["bytes"][j] > 0
    \/ \E w \in Workers : wpc[w] = "failed"

\* No step loses a job, unless a worker fails.
LEMMA KeptStep ==
    ASSUME IInv, [Next]_vars, NEW j \in Jobs, Kept(j)
    PROVE  Kept(j)'
<1>t. TypeOK
  BY DEF IInv
<1>1. CASE \E w \in Workers : wpc[w] = "failed"
  BY <1>1, FailedStep DEF Kept
<1>2. CASE StillEffect
  BY <1>1, <1>2 DEF StillEffect, Kept
<1>3. CASE SendEffect
  <2>1. /\ Len(queue') = Len(queue) + 1 /\ Len(queue) \in Nat
        /\ \A i \in 1..Len(queue) : queue'[i] = queue[i]
    BY <1>3, <1>t, PlaceTypes DEF SendEffect
  <2>2. \A i \in 1..Len(queue) : i \in 1..Len(queue')
    BY <2>1
  <2>3. QED
    BY <1>1, <1>3, <2>1, <2>2 DEF SendEffect, Kept
<1>4. ASSUME NEW w \in Workers, ReceiveEffect(w)
      PROVE  Kept(j)'
  <2>1. hand' = [hand EXCEPT ![w] = queue[1]] /\ hand[w] = NoJob
    BY <1>4 DEF ReceiveEffect
  <2>2. ASSUME NEW i \in 1..Len(queue), queue[i] = j
        PROVE  Kept(j)'
    <3>1. CASE i = 1
      BY <1>t, <2>1, <2>2, <3>1 DEF Kept, TypeOK, WorkerTypeOK
    <3>2. CASE i # 1
      <4>1. i - 1 \in 1..Len(queue') /\ queue'[i - 1] = queue[i]
        BY <1>4, <1>t, <3>2 DEF ReceiveEffect, TypeOK, ChannelTypeOK
      <4>2. QED
        BY <2>2, <4>1 DEF Kept
    <3>3. QED
      BY <3>1, <3>2
  <2>3. ASSUME NEW v \in Workers, hand[v] = j
        PROVE  Kept(j)'
    <3>1. hand'[v] = j
      BY <1>t, <2>1, <2>3, JobsElements DEF TypeOK, WorkerTypeOK
    <3>2. QED
      BY <3>1 DEF Kept
  <2>4. QED
    BY <1>1, <1>4, <2>2, <2>3 DEF ReceiveEffect, Kept
<1>5. ASSUME NEW w \in Workers, CountEffect(w)
      PROVE  Kept(j)'
  <2>1. \A v \in Workers : result[v][j] \in Nat
    BY <1>t DEF TypeOK, MapTypeOK
  <2>2. \A v \in Workers : result[v][j] > 0 => result'[v][j] > 0
    BY <1>5, <1>t, <2>1 DEF CountEffect, TypeOK, MapTypeOK
  <2>3. ASSUME NEW v \in Workers, hand[v] = j
        PROVE  Kept(j)'
    <3>1. CASE v = w
      <4>1. result'[w][j] > 0
        BY <1>5, <1>t, <2>1, <2>3, <3>1 DEF CountEffect, TypeOK, MapTypeOK
      <4>2. QED
        BY <4>1 DEF Kept
    <3>2. CASE v # w
      BY <1>5, <1>t, <2>3, <3>2 DEF CountEffect, Kept, TypeOK, WorkerTypeOK
    <3>3. QED
      BY <3>1, <3>2
  <2>4. QED
    BY <1>1, <1>5, <2>2, <2>3 DEF CountEffect, Kept
<1>6. ASSUME NEW w \in Workers, LoseEffect(w)
      PROVE  Kept(j)'
  BY <1>6 DEF LoseEffect, Kept
<1>7. ASSUME NEW w \in Workers, MergeEffect(w)
      PROVE  Kept(j)'
  <2>1. /\ merged["bytes"][j] \in Nat
        /\ \A v \in Workers : result[v][j] \in Nat
    BY <1>t DEF TypeOK, MapTypeOK, Maps
  <2>2. /\ merged'["bytes"][j] = merged["bytes"][j] + result[w][j]
        /\ \A v \in Workers : v # w => result'[v] = result[v]
    BY <1>7, <1>t DEF MergeEffect, TypeOK, MapTypeOK
  <2>3. merged["bytes"][j] > 0 => merged'["bytes"][j] > 0
    BY <2>1, <2>2
  <2>4. ASSUME NEW v \in Workers, result[v][j] > 0
        PROVE  Kept(j)'
    <3>1. CASE v = w
      <4>1. merged'["bytes"][j] > 0
        BY <2>1, <2>2, <2>4, <3>1
      <4>2. QED
        BY <4>1 DEF Kept
    <3>2. CASE v # w
      <4>1. result'[v][j] > 0
        BY <2>2, <2>4, <3>2
      <4>2. QED
        BY <4>1 DEF Kept
    <3>3. QED
      BY <3>1, <3>2
  <2>5. QED
    BY <1>1, <1>7, <2>3, <2>4 DEF MergeEffect, Kept
<1>8. QED
  BY <1>2, <1>3, <1>4, <1>5, <1>6, <1>7, Effects

LEMMA CompleteStep ==
    ASSUME IInv, [Next]_vars
    PROVE  CompleteInv'
<1>1. TypeOK /\ MasterInv /\ CompleteInv
  BY DEF IInv
<1>2. ASSUME NEW j \in Sent
      PROVE  Kept(j)'
  <2>1. j \in Jobs /\ Kept(j)
    BY <1>1 DEF Sent, CompleteInv, Kept
  <2>2. QED
    BY <2>1, KeptStep
<1>3. CASE ~SendJob
  BY <1>1, <1>2, <1>3, SentStep DEF CompleteInv, Kept
<1>4. CASE SendJob
  <2>1. Sent' = Sent \cup {NewJob} /\ queue' = Append(queue, NewJob)
    BY <1>1, <1>4, SentStep DEF SendJob, NewJob
  <2>2. Len(queue) + 1 \in 1..Len(queue') /\ queue'[Len(queue) + 1] = NewJob
    BY <1>1, <2>1, PlaceTypes
  <2>3. QED
    BY <1>2, <2>1, <2>2 DEF CompleteInv, Kept
<1>5. QED
  BY <1>3, <1>4

-----------------------------------------------------------------------------
\* The three maps of the master stay together, but for the merge in progress.
LEMMA MergeStep ==
    ASSUME IInv, [Next]_vars
    PROVE  MergeInv'
<1>0. TypeOK /\ MasterInv /\ WorkerInv /\ MergeInv
  BY DEF IInv
<1>t. /\ \A m \in {"referers", "urls", "bytes"}, j \in Jobs : merged[m][j] \in Nat
      /\ \A w \in Workers, j \in Jobs : result[w][j] \in Nat
      /\ merged \in [Maps -> [Jobs -> Nat]] /\ result \in [Workers -> [Jobs -> Nat]]
      /\ joined \in Nat
  BY <1>0, Counters DEF TypeOK, MapTypeOK, Maps
<1>1. ASSUME UNCHANGED <<merged, joined, ignored>>,
             mpc' \in {"urls", "bytes"} => mpc' = mpc,
             mpc \in {"urls", "bytes"} =>
                mpc' = mpc /\ result'[joined + 1] = result[joined + 1]
      PROVE  MergeInv'
  BY <1>0, <1>1 DEF MergeInv, Ahead
<1>2. CASE CreateWorker \/ OpenLog \/ NextLog \/ CutBlock \/ SendJob \/ CloseJobs
  BY <1>1, <1>2 DEF CreateWorker, OpenLog, NextLog, CutBlock, SendJob, CloseJobs, Abort,
     masterVars
<1>3. CASE PrintReport \/ FreePaths \/ DisposeChannel \/ ReturnFromMain
  BY <1>1, <1>3 DEF PrintReport, FreePaths, DisposeChannel, ReturnFromMain, masterVars
<1>4. CASE JoinWorker
  <2>1. CASE UNCHANGED <<joined, merged, result>>
    BY <1>1, <1>4, <2>1 DEF JoinWorker, Abort
  <2>2. CASE /\ merged' = [m \in Maps |-> result[1]] /\ joined' = 1 /\ mpc' = "report"
    <3>1. \A m \in {"referers", "urls"}, j \in Jobs :
             merged'[m][j] = merged'["bytes"][j] /\ merged'["bytes"][j] \in Nat
      BY <1>0, <1>t, <2>2, Counters DEF Maps
    <3>2. \A m, j : Ahead(m, j)' = 0
      BY <2>2 DEF Ahead
    <3>3. QED
      BY <2>2, <3>1, <3>2 DEF MergeInv
  <2>3. QED
    BY <1>4, <2>1, <2>2 DEF JoinWorker
<1>5. ASSUME NEW m \in {"referers", "urls"}, NEW next, Combine(m, next),
             m = "referers" => next = "urls", m = "urls" => next = "bytes"
      PROVE  MergeInv'
  <2>1. joined + 1 \in Workers /\ mpc = m /\ mpc' = next
        /\ UNCHANGED <<joined, result>>
    BY <1>0, <1>5, Counters DEF Combine, MasterInv, MergingPC, masterVars, workerVars
  <2>2. /\ merged'["bytes"] = merged["bytes"]
        /\ \A k \in {"referers", "urls"} : k # m => merged'[k] = merged[k]
    BY <1>5, <1>t DEF Combine, Maps
  <2>3. \A k \in {"referers", "urls"} : k # m => \A j : Ahead(k, j)' = Ahead(k, j)
    BY <1>5, <2>1 DEF Ahead
  <2>4. \A j : Ahead(m, j) = 0 /\ Ahead(m, j)' = result[joined + 1][j]
    BY <1>5, <2>1 DEF Ahead
  <2>5. ignored \subseteq ignored' /\ \A k \in ignored' : k \in ignored \/ k = m
    BY <1>5 DEF Combine
  <2>6. ASSUME NEW j \in Jobs
        PROVE  /\ merged'[m][j] <= merged["bytes"][j] + result[joined + 1][j]
               /\ m \notin ignored' =>
                     merged'[m][j] = merged["bytes"][j] + result[joined + 1][j]
    <3>1. /\ merged[m][j] <= merged["bytes"][j] + 0
          /\ m \notin ignored => merged[m][j] = merged["bytes"][j] + 0
          /\ merged[m][j] \in Nat /\ merged["bytes"][j] \in Nat
          /\ result[joined + 1][j] \in Nat
      BY <1>0, <1>t, <2>1, <2>4 DEF MergeInv
    <3>2. CASE /\ merged' = [merged EXCEPT ![m] =
                     [i \in Jobs |-> merged[m][i] + result[joined + 1][i]]]
               /\ ignored' = ignored
      BY <1>t, <3>1, <3>2 DEF Maps
    <3>3. ASSUME NEW S \in SUBSET Jobs, ignored' = ignored \cup {m},
                 merged' = [merged EXCEPT ![m] = [i \in Jobs |->
                     merged[m][i] + IF i \in S THEN result[joined + 1][i] ELSE 0]]
          PROVE  /\ merged'[m][j] <= merged["bytes"][j] + result[joined + 1][j]
                 /\ m \in ignored'
      BY <1>t, <3>1, <3>3 DEF Maps
    <3>4. QED
      BY <1>5, <3>2, <3>3 DEF Combine
  <2>7. joined' = 0 => \A j \in Jobs : merged'["bytes"][j] = 0
    BY <1>0, <2>1, <2>2 DEF MergeInv
  <2>8. ASSUME NEW k \in {"referers", "urls"}, NEW j \in Jobs
        PROVE  /\ merged'[k][j] <= merged'["bytes"][j] + Ahead(k, j)'
               /\ k \notin ignored' => merged'[k][j] = merged'["bytes"][j] + Ahead(k, j)'
    <3>1. CASE k = m
      BY <2>2, <2>4, <2>6, <3>1
    <3>2. CASE k # m
      BY <1>0, <2>2, <2>3, <2>5, <3>2 DEF MergeInv
    <3>3. QED
      BY <3>1, <3>2
  <2>9. QED
    BY <2>7, <2>8 DEF MergeInv
<1>6. CASE AddBytes
  <2>1. joined + 1 \in Workers /\ mpc = "bytes" /\ joined' = joined + 1
        /\ mpc' \in {"report", "join"} /\ ignored' = ignored
    BY <1>0, <1>6, Counters DEF AddBytes, MasterInv, MergingPC
  <2>2. \A k \in {"referers", "urls"}, j \in Jobs :
           /\ merged'[k][j] = merged[k][j]
           /\ Ahead(k, j) = result[joined + 1][j] /\ Ahead(k, j)' = 0
    BY <1>6, <1>t, <2>1 DEF AddBytes, Maps, Ahead
  <2>3. \A j \in Jobs : merged'["bytes"][j] = merged["bytes"][j] + result[joined + 1][j]
    BY <1>6, <1>t DEF AddBytes, Maps
  <2>4. ASSUME NEW k \in {"referers", "urls"}, NEW j \in Jobs
        PROVE  /\ merged'[k][j] <= merged'["bytes"][j] + Ahead(k, j)'
               /\ k \notin ignored' => merged'[k][j] = merged'["bytes"][j] + Ahead(k, j)'
    <3>1. /\ merged[k][j] <= merged["bytes"][j] + result[joined + 1][j]
          /\ k \notin ignored => merged[k][j] = merged["bytes"][j] + result[joined + 1][j]
      BY <1>0, <2>2 DEF MergeInv
    <3>2. merged["bytes"][j] + result[joined + 1][j] \in Nat
      BY <1>t, <2>1
    <3>3. QED
      BY <2>1, <2>2, <2>3, <3>1, <3>2
  <2>5. joined' # 0
    BY <1>t, <2>1
  <2>6. QED
    BY <2>4, <2>5 DEF MergeInv
<1>7. ASSUME NEW w \in Workers, Worker(w), ~TouchReleased(w)
      PROVE  MergeInv'
  <2>1. UNCHANGED <<mpc, merged, joined, ignored>>
    BY <1>7 DEF Worker, StartWorker, Receive, OpenFile, ReadBlock, masterVars
  <2>2. wpc[w] # "exited"
    BY <1>7 DEF Worker, StartWorker, Receive, OpenFile, ReadBlock
  <2>3. \A v \in Workers : v # w => result'[v] = result[v]
    BY <1>7, <1>t DEF Worker, StartWorker, Receive, OpenFile, ReadBlock, Die
  <2>4. mpc \in {"urls", "bytes"} => joined + 1 \in Workers /\ joined + 1 # w
    BY <1>0, <2>2, Counters DEF MasterInv, WorkerInv, WorkerInvOf, MergingPC
  <2>5. QED
    BY <1>1, <2>1, <2>3, <2>4
<1>8. ASSUME NEW w \in Workers, TouchReleased(w)
      PROVE  MergeInv'
  <2>1. mpc \notin {"urls", "bytes"}
    BY <1>0, <1>8 DEF TouchReleased, MasterInv, ExitPC
  <2>2. QED
    BY <1>1, <1>8, <2>1 DEF TouchReleased, masterVars
<1>9. CASE UNCHANGED vars
  BY <1>1, <1>9 DEF vars, masterVars, workerVars
<1>10. QED
  BY <1>2, <1>3, <1>4, <1>5, <1>6, <1>7, <1>8, <1>9
     DEF Next, Master, CombineReferers, CombineUrls

-----------------------------------------------------------------------------
LEMMA InitHolds == Init => IInv
<1> SUFFICES ASSUME Init PROVE IInv
  OBVIOUS
<1>0. MaxWorkers \in Nat /\ MaxWorkers >= 1 /\ NFiles \in Nat
  BY PoolAssumption, JobsElements
<1>1. TypeOK
  <2>0. number_of_workers \in Nat /\ number_of_workers \in Workers
    BY <1>0 DEF Init, Workers
  <2>1. MasterTypeOK
    <3>1. /\ mpc \in MasterPC /\ created \in 0..number_of_workers
          /\ joined \in 0..number_of_workers /\ rc \in {0, 1}
      BY <2>0 DEF Init, MasterPC
    <3>2. /\ file \in 1..(NFiles + 1) /\ block \in Nat
          /\ ignored \subseteq {"referers", "urls"}
      BY <1>0 DEF Init
    <3>3. printed = FALSE /\ pathsFreed = FALSE
      BY DEF Init
    <3>4. QED
      BY <2>0, <3>1, <3>2, <3>3 DEF MasterTypeOK
  <2>2. ChannelTypeOK
    <3>1. queue = <<>> /\ closed = FALSE /\ disposed = FALSE
      BY DEF Init
    <3>2. queue \in Seq(Jobs) /\ Len(queue) <= number_of_workers
      BY <2>0, <3>1
    <3>3. QED
      BY <3>1, <3>2 DEF ChannelTypeOK
  <2>3. WorkerTypeOK /\ MapTypeOK
    BY <1>0 DEF Init, WorkerTypeOK, MapTypeOK, WorkerPC, EmptyMap
  <2>4. QED
    BY <2>1, <2>2, <2>3 DEF TypeOK
<1>2. Sent = {}
  BY JobsElements DEF Init, Sent
<1>3. MasterInv
  BY <1>0 DEF Init, MasterInv, Workers, LoopPC, MergingPC, ExitPC
<1>4. WorkerInv
  BY <1>0 DEF Init, WorkerInv, WorkerInvOf, Workers, EmptyMap, MergingPC
<1>5. PlaceInv
  BY <1>2 DEF Init, PlaceInv, Unseen, Once, EmptyMap, Maps
<1>6. CompleteInv
  BY <1>2 DEF CompleteInv
<1>7. OrderInv
  BY DEF Init, OrderInv, FileInvOf
<1>8. MergeInv
  BY DEF Init, MergeInv, Ahead, EmptyMap, Maps
<1>9. QED
  BY <1>1, <1>3, <1>4, <1>5, <1>6, <1>7, <1>8 DEF IInv

\* The invariant is inductive.
LEMMA StepHolds == IInv /\ [Next]_vars => IInv'
<1> SUFFICES ASSUME IInv, [Next]_vars PROVE IInv'
  OBVIOUS
<1>1. TypeOK /\ MasterInv /\ WorkerInv
  BY DEF IInv
<1>2. TypeOK' /\ MasterInv' /\ WorkerInv'
  BY <1>1, TypeStep, MasterStep, WorkerStep
<1>3. PlaceInv' /\ CompleteInv' /\ OrderInv' /\ MergeInv'
  BY PlaceStep, CompleteStep, OrderStep, MergeStep
<1>4. QED
  BY <1>2, <1>3 DEF IInv

LEMMA Inductive == Spec => []IInv
BY InitHolds, StepHolds, PTL DEF Spec

-----------------------------------------------------------------------------
\* Every variable keeps its type, and the channel its capacity
\* (chan_init at main.c:422).
THEOREM TypeCorrect == Spec => []TypeOK
<1>1. IInv => TypeOK
  BY DEF IInv
<1>2. QED
  BY <1>1, Inductive, PTL

\* Every worker reads the block its job names, although a job at offset 0 does
\* not seek (main.c:224-247): the first block of a file is read from the
\* position a fresh fopen gives.
THEOREM OwnBlock == Spec => []ReadsOwnBlock
<1>1. IInv => ReadsOwnBlock
  <2> SUFFICES ASSUME IInv, NEW w \in Workers, wpc[w] = "read"
               PROVE  curPath[w] = hand[w].path /\ ReadFrom(w) = hand[w].offset
    BY DEF ReadsOwnBlock
  <2>1. hand[w] \in Jobs
    BY DEF IInv, TypeOK, WorkerTypeOK, WorkerInv, WorkerInvOf
  <2>2. QED
    BY <2>1, JobsElements DEF IInv, OrderInv, FileInvOf, ReadFrom
<1>2. QED
  BY <1>1, Inductive, PTL

\* When the report is out every worker has returned, so that the clean-up
\* (main.c:563-590) releases nothing a thread still uses.
THEOREM QuietRelease == Spec => []ReleaseAfterQuiet
<1>1. IInv => ReleaseAfterQuiet
  <2> SUFFICES ASSUME IInv, printed
               PROVE  (\A w \in 1..created : wpc[w] = "exited") /\ mpc # "crashed"
    BY DEF ReleaseAfterQuiet
  <2>1. joined = number_of_workers /\ created = joined /\ mpc # "crashed"
    BY DEF IInv, MasterInv
  <2>2. \A w \in 1..created : w \in Workers /\ w <= joined
    BY <2>1, Counters DEF IInv, Workers
  <2>3. QED
    BY <2>1, <2>2 DEF IInv, WorkerInv, WorkerInvOf
<1>2. QED
  BY <1>1, Inductive, PTL

\* No block's lines enter a map twice, in whatever order jobs are sent,
\* received, parsed and merged and whatever call fails (main.c:204-351, 497-524).
THEOREM CountsOnce == Spec => []CountedOnce
<1>1. IInv => CountedOnce
  <2> SUFFICES ASSUME IInv, NEW j \in Jobs
               PROVE  /\ \A m \in Maps : merged[m][j] <= 1
                      /\ \A w \in Workers : result[w][j] <= 1
                      /\ \A v, w \in Workers :
                            v # w => result[v][j] = 0 \/ result[w][j] = 0
                      /\ InResult(j) => merged["bytes"][j] = 0
                      /\ Pending(j) => ~InResult(j) /\ ~Merged(j)
    BY DEF CountedOnce
  <2>0. TypeOK
    BY DEF IInv
  <2>1. /\ \A w \in Workers : result[w][j] \in Nat
        /\ \A m \in Maps : merged[m][j] \in Nat
    BY <2>0 DEF TypeOK, MapTypeOK
  <2>2. j \in Once
    BY DEF IInv, PlaceInv
  <2>3. \A m \in {"referers", "urls"} :
           /\ merged[m][j] <= merged["bytes"][j] + Ahead(m, j)
           /\ Ahead(m, j) = 0 \/ /\ joined + 1 \in Workers
                                 /\ Ahead(m, j) = result[joined + 1][j]
    BY <2>0, Counters DEF IInv, MergeInv, Ahead, MasterInv, MergingPC
  <2>4. ASSUME NEW m \in Maps
        PROVE  merged[m][j] <= 1
    <3>1. CASE m = "bytes"
      BY <2>2, <3>1 DEF Once
    <3>2. CASE m # "bytes"
      <4>1. /\ m \in {"referers", "urls"} /\ "bytes" \in Maps
            /\ merged[m][j] <= merged["bytes"][j] + Ahead(m, j)
            /\ merged["bytes"][j] <= 1
        BY <2>2, <2>3, <3>2 DEF Maps, Once
      <4>2. CASE Ahead(m, j) = 0
        BY <2>1, <4>1, <4>2
      <4>3. CASE joined + 1 \in Workers /\ Ahead(m, j) = result[joined + 1][j]
        <5>1. /\ result[joined + 1][j] <= 1
              /\ result[joined + 1][j] > 0 => merged["bytes"][j] = 0
          BY <2>2, <4>3 DEF Once
        <5>2. QED
          BY <2>1, <4>1, <4>3, <5>1
      <4>4. QED
        BY <2>3, <4>1, <4>2, <4>3
    <3>3. QED
      BY <3>1, <3>2
  <2>5. Pending(j) => j \in Unseen
    BY <2>0, JobsElements DEF Pending, Queued, IInv, PlaceInv
  <2>6. ASSUME j \in Unseen
        PROVE  ~InResult(j) /\ ~Merged(j)
    <3>1. ~InResult(j) /\ merged["bytes"][j] = 0
      BY <2>6, <2>1 DEF InResult, Unseen
    <3>2. \A m \in {"referers", "urls"} : Ahead(m, j) = 0
      BY <2>3, <2>6 DEF Unseen
    <3>3. \A m \in Maps : merged[m][j] = 0
      BY <2>1, <2>3, <3>1, <3>2 DEF Maps
    <3>4. QED
      BY <3>1, <3>3 DEF Merged
  <2>7. QED
    BY <2>2, <2>4, <2>5, <2>6 DEF Once, InResult
<1>2. QED
  BY <1>1, Inductive, PTL

\* A printed report stands for every block of every file, once
\* (main.c:497-556): the results of joined workers are all the channel ever
\* carried, and a worker that failed leaves no report.
THEOREM CompleteReport == Spec => []ReportComplete
<1>1. IInv => ReportComplete
  <2> SUFFICES ASSUME IInv, printed, NEW m \in Maps \ ignored, NEW j \in Jobs
               PROVE  merged[m][j] = 1
    BY DEF ReportComplete
  <2>0. TypeOK
    BY DEF IInv
  <2>1. /\ joined = number_of_workers /\ created = number_of_workers /\ closed
        /\ mpc \in {"free", "dispose", "exit", "returned"} /\ file = NFiles + 1
    BY DEF IInv, MasterInv
  <2>2. j \in Sent
    BY <2>1, JobsElements DEF Sent
  <2>3. \A w \in Workers : w <= joined \/ wpc[w] = "none"
    BY <2>0, <2>1, Counters DEF IInv, MasterInv
  <2>4. \A w \in Workers : /\ wpc[w] \in {"exited", "none"} /\ hand[w] = NoJob
                           /\ result[w][j] = 0
    BY <2>3 DEF IInv, WorkerInv, WorkerInvOf
  <2>5. queue = <<>>
    <3>1. 1 \in Workers /\ 1 <= joined
      BY <2>0, <2>1, Counters
    <3>2. QED
      BY <3>1 DEF IInv, WorkerInv, WorkerInvOf
  <2>6. ~(\E i \in 1..Len(queue) : queue[i] = j)
    BY <2>5
  <2>7. ~(\E w \in Workers : hand[w] = j)
    BY <2>4, JobsElements
  <2>8. merged["bytes"][j] > 0
    BY <2>2, <2>4, <2>6, <2>7 DEF IInv, CompleteInv
  <2>9. merged["bytes"][j] <= 1 /\ merged["bytes"][j] \in Nat
    BY <2>0, PlaceTypes DEF IInv, PlaceInv, Once
  <2>10. m # "bytes" => merged[m][j] = merged["bytes"][j] + Ahead(m, j)
    BY DEF IInv, MergeInv, Maps
  <2>11. Ahead(m, j) = 0
    BY <2>1 DEF Ahead
  <2>12. QED
    BY <2>8, <2>9, <2>10, <2>11
<1>2. QED
  BY <1>1, Inductive, PTL

\* A worker opens each file once (README.md of hw11, line 26): the file it
\* switches to comes after the one it leaves.
THEOREM OneOpenPerFile == Spec => OpensEachFileOnce
<1>1. IInv /\ [Next]_vars =>
        [\A w \in Workers : curPath'[w] # curPath[w] => curPath'[w] > curPath[w]]_vars
  <2> SUFFICES ASSUME IInv, [Next]_vars, NEW w \in Workers, curPath'[w] # curPath[w]
               PROVE  curPath'[w] > curPath[w]
    OBVIOUS
  <2>0. curPath \in [Workers -> 0..NFiles]
    BY DEF IInv, TypeOK, WorkerTypeOK
  <2>1. CASE Master \/ UNCHANGED vars
    BY <2>1 DEF Master, CreateWorker, OpenLog, NextLog, CutBlock, SendJob, CloseJobs,
       JoinWorker, CombineReferers, CombineUrls, Combine, AddBytes, PrintReport, FreePaths,
       DisposeChannel, ReturnFromMain, workerVars, vars
  <2>2. ASSUME NEW v \in Workers, Worker(v)
        PROVE  curPath'[w] > curPath[w]
    <3>1. v = w /\ wpc[w] = "open" /\ curPath'[w] = hand[w].path
      BY <2>0, <2>2 DEF Worker, StartWorker, Receive, OpenFile, ReadBlock, TouchReleased,
         workerVars
    <3>2. hand[w] \in Jobs /\ hand[w] # NoJob
      BY <3>1, JobsElements DEF IInv, TypeOK, WorkerTypeOK, WorkerInv, WorkerInvOf
    <3>3. curPath[w] <= hand[w].path
      BY <3>2 DEF IInv, OrderInv, FileInvOf
    <3>4. hand[w].path \in Nat /\ curPath[w] \in Nat
      BY <2>0, <3>2, JobsElements
    <3>5. QED
      BY <3>1, <3>3, <3>4
  <2>3. QED
    BY <2>1, <2>2 DEF Next
<1>2. QED
  BY <1>1, Inductive, PTL DEF Spec, OpensEachFileOnce

-----------------------------------------------------------------------------
(***************************************************************************)
(* The pool implements the tally.  A step of the pool counts the block a   *)
(* worker has in its hand, loses what a failing worker had counted and the *)
(* block in its hand, reports, gives up, or changes nothing the tally sees.*)
(***************************************************************************)
\* The master gives up by leaving for the clean-up.
GivenUpInv == rc # 0 => mpc \in {"free"} \cup ExitPC

MappedLost == {j \in Sent : ~Pending(j) /\ j \notin countedBlocks}
MappedStatus == IF printed THEN "reported"
                ELSE IF rc = 1 \/ mpc = "crashed" THEN "failed"
                ELSE "running"

LEMMA GivenUpStep ==
    ASSUME TypeOK, GivenUpInv, [Next]_vars
    PROVE  GivenUpInv'
<1> USE DEF ExitPC
<1>1. CASE CreateWorker \/ OpenLog \/ NextLog \/ CutBlock \/ SendJob \/ CloseJobs
  BY <1>1 DEF CreateWorker, OpenLog, NextLog, CutBlock, SendJob, CloseJobs, Abort,
     GivenUpInv, masterVars
<1>2. CASE JoinWorker \/ CombineReferers \/ CombineUrls \/ AddBytes
  BY <1>2 DEF JoinWorker, CombineReferers, CombineUrls, Combine, AddBytes, Abort, GivenUpInv
<1>3. CASE PrintReport \/ FreePaths \/ DisposeChannel \/ ReturnFromMain
  BY <1>3 DEF PrintReport, FreePaths, DisposeChannel, ReturnFromMain, GivenUpInv, masterVars
<1>4. ASSUME NEW w \in Workers, Worker(w)
      PROVE  GivenUpInv'
  BY <1>4 DEF Worker, StartWorker, Receive, OpenFile, ReadBlock, TouchReleased,
     GivenUpInv, masterVars
<1>5. CASE UNCHANGED vars
  BY <1>5 DEF vars, masterVars, GivenUpInv
<1>6. QED
  BY <1>1, <1>2, <1>3, <1>4, <1>5 DEF Next, Master

\* Only printing reports; giving up and crashing touch no job.
LEMMA StatusStep ==
    ASSUME IInv, GivenUpInv, [Next]_vars
    PROVE  \/ UNCHANGED MappedStatus
           \/ /\ PrintReport /\ MappedStatus = "running" /\ MappedStatus' = "reported"
           \/ /\ ~SendJob /\ StillEffect
              /\ MappedStatus = "running" /\ MappedStatus' = "failed"
<1>0. TypeOK /\ MasterInv
  BY DEF IInv
<1>r. rc \in {0, 1}
  BY <1>0 DEF TypeOK, MasterTypeOK
<1> USE DEF ExitPC
<1>1. ASSUME UNCHANGED <<printed, rc>>, mpc' = "crashed" <=> mpc = "crashed"
      PROVE  UNCHANGED MappedStatus
  BY <1>1 DEF MappedStatus
<1>2. ASSUME Abort, ~SendJob, mpc \in {"create", "cut", "close", "join"},
             UNCHANGED <<printed, queue, hand, result, merged>>
      PROVE  /\ ~SendJob /\ StillEffect
             /\ MappedStatus = "running" /\ MappedStatus' = "failed"
  <2>1. rc = 0 /\ ~printed
    BY <1>0, <1>2, <1>r DEF GivenUpInv, MasterInv
  <2>2. rc' = 1 /\ printed' = printed /\ mpc # "crashed"
    BY <1>2 DEF Abort
  <2>3. QED
    BY <1>2, <2>1, <2>2 DEF MappedStatus, StillEffect
<1>3. CASE CreateWorker
  BY <1>1, <1>2, <1>3 DEF CreateWorker, SendJob, chanVars
<1>4. CASE OpenLog
  <2>1. CASE mpc' = "crashed"
    <3>1. rc = 0 /\ ~printed /\ mpc = "open" /\ UNCHANGED <<masterVars, chanVars, workerVars>>
      BY <1>0, <1>4, <1>r DEF GivenUpInv, MasterInv, OpenLog
    <3>2. QED
      BY <1>4, <2>1, <3>1 DEF MappedStatus, StillEffect, SendJob, masterVars, chanVars, workerVars
  <2>2. QED
    BY <1>1, <1>4, <2>1 DEF OpenLog, masterVars
<1>5. CASE NextLog \/ SendJob
  BY <1>1, <1>5 DEF NextLog, SendJob
<1>6. CASE CutBlock
  BY <1>1, <1>2, <1>6 DEF CutBlock, SendJob, chanVars, workerVars
<1>7. CASE CloseJobs
  BY <1>1, <1>2, <1>7 DEF CloseJobs, SendJob, workerVars
<1>8. CASE JoinWorker
  BY <1>1, <1>2, <1>8 DEF JoinWorker, SendJob, chanVars
<1>9. CASE CombineReferers \/ CombineUrls \/ AddBytes
  BY <1>1, <1>9 DEF CombineReferers, CombineUrls, Combine, AddBytes
<1>10. CASE PrintReport
  <2>1. rc = 0 /\ ~printed /\ mpc = "report" /\ printed' = TRUE
    BY <1>0, <1>10, <1>r DEF GivenUpInv, MasterInv, PrintReport
  <2>2. QED
    BY <1>10, <2>1 DEF MappedStatus
<1>11. CASE FreePaths \/ DisposeChannel \/ ReturnFromMain
  BY <1>1, <1>11 DEF FreePaths, DisposeChannel, ReturnFromMain, masterVars
<1>12. ASSUME NEW w \in Workers, Worker(w)
       PROVE  \/ UNCHANGED MappedStatus
              \/ /\ ~SendJob /\ StillEffect
                 /\ MappedStatus = "running" /\ MappedStatus' = "failed"
  <2>1. CASE TouchReleased(w)
    <3>1. /\ UNCHANGED <<masterVars, chanVars, workerVars>>
          /\ mpc \notin {"returned", "crashed", "send"} /\ mpc' = "crashed"
      <4>1. mpc \in ExitPC
        BY <1>0, <2>1 DEF TouchReleased, MasterInv
      <4>2. QED
        BY <2>1, <4>1 DEF TouchReleased, Alive
    <3>2. CASE MappedStatus = "running"
      <4>1. ~printed /\ rc' = rc /\ printed' = printed
        BY <3>1, <3>2 DEF MappedStatus, masterVars
      <4>2. QED
        BY <3>1, <3>2, <4>1 DEF MappedStatus, StillEffect, SendJob, masterVars, chanVars,
           workerVars
    <3>3. CASE MappedStatus # "running"
      BY <3>1, <3>3 DEF MappedStatus, masterVars
    <3>4. QED
      BY <3>2, <3>3
  <2>2. CASE ~TouchReleased(w)
    BY <1>1, <1>12, <2>2 DEF Worker, StartWorker, Receive, OpenFile, ReadBlock, masterVars
  <2>3. QED
    BY <2>1, <2>2
<1>13. CASE UNCHANGED vars
  BY <1>1, <1>13 DEF vars, masterVars
<1>14. QED
  BY <1>3, <1>4, <1>5, <1>6, <1>7, <1>8, <1>9, <1>10, <1>11, <1>12, <1>13
     DEF Next, Master

\* What the effects on places are to the tally.
LEMMA MappedTypes ==
    ASSUME TypeOK
    PROVE  /\ Sent \subseteq Jobs /\ countedBlocks \subseteq Jobs /\ MappedLost \subseteq Sent
           /\ NoJob \notin Jobs
           /\ \A w \in Workers, j \in Jobs : result[w][j] \in Nat
           /\ \A j \in Jobs : merged["bytes"][j] \in Nat
           /\ hand \in [Workers -> Jobs \cup {NoJob}]
           /\ result \in [Workers -> [Jobs -> Nat]]
BY PlaceTypes DEF countedBlocks, MappedLost

LEMMA MappedStill ==
    ASSUME IInv, [Next]_vars, \/ ~SendJob /\ StillEffect
                              \/ SendJob /\ SendEffect
                              \/ ~SendJob /\ \E w \in Workers : ReceiveEffect(w)
    PROVE  UNCHANGED <<countedBlocks, MappedLost>>
<1>t. TypeOK /\ MasterInv
  BY DEF IInv
<1>1. UNCHANGED <<result>> /\ merged'["bytes"] = merged["bytes"]
  BY DEF StillEffect, SendEffect, ReceiveEffect
<1>2. countedBlocks' = countedBlocks
  BY <1>1 DEF countedBlocks, InResult
<1>3. CASE ~SendJob /\ StillEffect
  BY <1>t, <1>2, <1>3, SentStep DEF StillEffect, MappedLost, Pending, Queued
<1>4. CASE SendJob /\ SendEffect
  <2>1. /\ Len(queue') = Len(queue) + 1 /\ Len(queue) \in Nat
        /\ \A i \in 1..Len(queue) : queue'[i] = queue[i]
        /\ queue'[Len(queue) + 1] = NewJob
    BY <1>4, <1>t, PlaceTypes DEF SendEffect
  <2>2. \A j \in Jobs : Queued(j)' <=> Queued(j) \/ j = NewJob
    <3>1. \A i \in 1..Len(queue') : i \in 1..Len(queue) \/ i = Len(queue) + 1
      BY <2>1
    <3>2. /\ \A i \in 1..Len(queue) : i \in 1..Len(queue')
          /\ Len(queue) + 1 \in 1..Len(queue')
      BY <2>1
    <3>3. QED
      BY <2>1, <3>1, <3>2 DEF Queued
  <2>3. \A j \in Jobs : Pending(j)' <=> Pending(j) \/ j = NewJob
    BY <1>4, <2>2 DEF Pending, SendEffect
  <2>4. Sent' = Sent \cup {NewJob} /\ NewJob \notin Sent /\ Sent \subseteq Jobs /\ NewJob \in Jobs
    BY <1>t, <1>4, SentStep, PlaceTypes
  <2>5. QED
    BY <1>2, <2>3, <2>4 DEF MappedLost
<1>5. ASSUME ~SendJob, NEW w \in Workers, ReceiveEffect(w)
      PROVE  MappedLost' = MappedLost
  <2>1. /\ hand' = [hand EXCEPT ![w] = queue[1]] /\ hand[w] = NoJob
        /\ queue # <<>> /\ queue' = Tail(queue) /\ Len(queue) \in Nat
        /\ 1 \in 1..Len(queue)
    BY <1>5, <1>t, QueueFront, PlaceTypes DEF ReceiveEffect
  <2>2. ASSUME NEW j \in Jobs
        PROVE  Pending(j)' <=> Pending(j)
    <3>1. Queued(j) <=> Queued(j)' \/ j = queue[1]
      <4>1. Queued(j)' => Queued(j)
        BY <1>t, <2>1, QueueFront DEF Queued
      <4>2. j = queue[1] => Queued(j)
        BY <2>1 DEF Queued
      <4>3. ASSUME NEW i \in 1..Len(queue), queue[i] = j, i # 1
            PROVE  Queued(j)'
        <5>1. i - 1 \in 1..Len(queue') /\ queue'[i - 1] = queue[i]
          BY <1>t, <2>1, <4>3 DEF TypeOK, ChannelTypeOK
        <5>2. QED
          BY <4>3, <5>1 DEF Queued
      <4>4. QED
        BY <4>1, <4>2, <4>3 DEF Queued
    <3>2. (\E v \in Workers : hand'[v] = j) <=> (\E v \in Workers : hand[v] = j) \/ j = queue[1]
      BY <1>t, <2>1, MappedTypes
    <3>3. QED
      BY <3>1, <3>2 DEF Pending
  <2>3. QED
    BY <1>t, <1>2, <1>5, <2>2, SentStep, MappedTypes DEF MappedLost
<1>6. QED
  BY <1>2, <1>3, <1>4, <1>5

LEMMA MappedMerge ==
    ASSUME IInv, [Next]_vars, ~SendJob, NEW w \in Workers, MergeEffect(w)
    PROVE  UNCHANGED <<countedBlocks, MappedLost>>
<1>t. TypeOK /\ MasterInv
  BY DEF IInv
<1>1. ASSUME NEW j \in Jobs
      PROVE  j \in countedBlocks' <=> j \in countedBlocks
  <2>1. /\ merged["bytes"][j] \in Nat
        /\ \A v \in Workers : result[v][j] \in Nat
    BY <1>t, MappedTypes
  <2>2. /\ merged'["bytes"][j] = merged["bytes"][j] + result[w][j]
        /\ \A v \in Workers : v # w => result'[v] = result[v]
        /\ result'[w][j] = 0
    BY <1>t, MappedTypes DEF MergeEffect, EmptyMap
  <2>3. merged'["bytes"][j] > 0 <=> merged["bytes"][j] > 0 \/ result[w][j] > 0
    BY <2>1, <2>2
  <2>4. InResult(j)' <=> \E v \in Workers : v # w /\ result[v][j] > 0
    BY <2>2 DEF InResult
  <2>5. QED
    BY <2>3, <2>4 DEF countedBlocks, InResult
<1>2. countedBlocks' = countedBlocks
  BY <1>1 DEF countedBlocks
<1>3. QED
  BY <1>t, <1>2, SentStep DEF MappedLost, Pending, Queued, MergeEffect

LEMMA MappedCount ==
    ASSUME IInv, [Next]_vars, ~SendJob, NEW w \in Workers, CountEffect(w)
    PROVE  /\ hand[w] \in Jobs /\ hand[w] \notin countedBlocks \cup MappedLost
           /\ countedBlocks' = countedBlocks \cup {hand[w]}
           /\ MappedLost' = MappedLost
<1>t. TypeOK /\ MasterInv /\ PlaceInv
  BY DEF IInv
<1>1. /\ hand[w] \in Jobs /\ hand[w] \in Unseen /\ Pending(hand[w])
  BY <1>t, MappedTypes DEF CountEffect, PlaceInv, Pending
<1>2. hand[w] \notin countedBlocks \cup MappedLost
  BY <1>1 DEF Unseen, countedBlocks, InResult, MappedLost
<1>3. ASSUME NEW j \in Jobs
      PROVE  j \in countedBlocks' <=> j \in countedBlocks \/ j = hand[w]
  <2>1. \A v \in Workers : result[v][j] \in Nat
    BY <1>t, MappedTypes
  <2>2. \A v \in Workers : result'[v][j] = IF v = w /\ j = hand[w] THEN result[v][j] + 1
                                                                  ELSE result[v][j]
    BY <1>t, MappedTypes DEF CountEffect
  <2>3. InResult(j)' <=> InResult(j) \/ j = hand[w]
    BY <2>1, <2>2 DEF InResult
  <2>4. QED
    BY <2>3 DEF countedBlocks, CountEffect
<1>4. countedBlocks' = countedBlocks \cup {hand[w]}
  BY <1>1, <1>3 DEF countedBlocks
<1>5. \A j \in Jobs : j # hand[w] => (Pending(j)' <=> Pending(j))
  BY <1>t, MappedTypes DEF Pending, Queued, CountEffect
<1>6. MappedLost' = MappedLost
  <2>1. Sent' = Sent
    BY <1>t, SentStep
  <2>2. QED
    BY <1>1, <1>2, <1>4, <1>5, <1>t, <2>1, MappedTypes DEF MappedLost
<1>7. QED
  BY <1>1, <1>2, <1>4, <1>6

\* What is lost with worker w: what it counted, and the block in its hand.
LostWith(w) == {j \in Jobs : result[w][j] > 0 \/ hand[w] = j}

LEMMA MappedLose ==
    ASSUME IInv, [Next]_vars, ~SendJob, NEW w \in Workers, LoseEffect(w)
    PROVE  /\ LostWith(w) \in SUBSET Jobs /\ LostWith(w) \cap MappedLost = {}
           /\ countedBlocks' = countedBlocks \ LostWith(w)
           /\ MappedLost' = MappedLost \cup LostWith(w)
<1>t. TypeOK /\ MasterInv /\ PlaceInv /\ OrderInv
  BY DEF IInv
<1>0. Sent' = Sent
  BY <1>t, SentStep
<1>1. ASSUME NEW j \in LostWith(w)
      PROVE  j \in Sent /\ j \notin MappedLost /\ ~Pending(j)' /\ j \notin countedBlocks'
  <2>1. j \in Jobs /\ j \in Once /\ (j \in Sent \/ j \in Unseen)
    BY <1>t DEF LostWith, PlaceInv
  <2>2. /\ \A v \in Workers : result[v][j] \in Nat
        /\ merged["bytes"][j] \in Nat
    BY <1>t, <2>1, MappedTypes
  <2>3. /\ \A v \in Workers : v # w => result'[v][j] = result[v][j] /\ hand'[v] = hand[v]
        /\ result'[w][j] = 0 /\ hand'[w] = NoJob /\ merged'["bytes"][j] = merged["bytes"][j]
        /\ queue' = queue
    BY <1>t, <2>1, MappedTypes DEF LoseEffect, EmptyMap
  <2>4. CASE result[w][j] > 0
    <3>1. j \notin Unseen /\ j \in countedBlocks
      BY <2>1, <2>2, <2>4 DEF Unseen, countedBlocks, InResult
    <3>2. ~Pending(j)
      BY <1>t, <2>1, <3>1, MappedTypes DEF Pending, Queued, PlaceInv
    <3>3. ~Pending(j)'
      BY <2>1, <2>3, <3>2, <1>t, MappedTypes DEF Pending, Queued
    <3>4. merged["bytes"][j] = 0 /\ \A v \in Workers : v # w => result[v][j] = 0
      BY <2>1, <2>2, <2>4 DEF Once
    <3>5. j \notin countedBlocks'
      BY <2>3, <3>4 DEF countedBlocks, InResult
    <3>6. QED
      BY <2>1, <3>1, <3>3, <3>5 DEF MappedLost
  <2>5. CASE hand[w] = j
    <3>1. j \in Unseen /\ j \in Sent /\ Pending(j) /\ hand[w] # NoJob
      BY <1>t, <2>1, <2>5, MappedTypes DEF PlaceInv, Pending
    <3>2. ~Queued(j)
      BY <1>t, <2>5, <3>1, HandNotQueued DEF Queued
    <3>3. \A v \in Workers : v # w => hand[v] # j
      BY <1>t, <2>5, <3>1 DEF PlaceInv
    <3>4. ~Pending(j)'
      BY <1>t, <2>1, <2>3, <3>2, <3>3, MappedTypes DEF Pending, Queued
    <3>5. merged["bytes"][j] = 0 /\ \A v \in Workers : result[v][j] = 0
      BY <3>1 DEF Unseen
    <3>6. j \notin countedBlocks'
      BY <2>3, <3>5 DEF countedBlocks, InResult
    <3>7. QED
      BY <3>1, <3>4, <3>6 DEF MappedLost
  <2>6. QED
    BY <2>4, <2>5 DEF LostWith
<1>2. ASSUME NEW j \in Jobs, j \notin LostWith(w)
      PROVE  /\ Pending(j)' <=> Pending(j)
             /\ j \in countedBlocks' <=> j \in countedBlocks
  <2>1. ~(result[w][j] > 0) /\ hand[w] # j
    BY <1>2 DEF LostWith
  <2>2. /\ \A v \in Workers : v # w => result'[v][j] = result[v][j] /\ hand'[v] = hand[v]
        /\ result'[w][j] = 0 /\ hand'[w] = NoJob /\ merged'["bytes"][j] = merged["bytes"][j]
        /\ queue' = queue /\ NoJob # j
    BY <1>t, MappedTypes DEF LoseEffect, EmptyMap
  <2>3. (\E v \in Workers : hand'[v] = j) <=> (\E v \in Workers : hand[v] = j)
    BY <2>1, <2>2
  <2>4. (\E v \in Workers : result'[v][j] > 0) <=> (\E v \in Workers : result[v][j] > 0)
    BY <2>1, <2>2
  <2>5. QED
    BY <2>2, <2>3, <2>4 DEF Pending, Queued, countedBlocks, InResult
<1>3. LostWith(w) \subseteq Jobs /\ countedBlocks \subseteq Jobs /\ countedBlocks' \subseteq Jobs
  BY DEF LostWith, countedBlocks
<1>4. countedBlocks' = countedBlocks \ LostWith(w)
  BY <1>1, <1>2, <1>3
<1>5. MappedLost' = MappedLost \cup LostWith(w)
  <2>1. ASSUME NEW j
        PROVE  j \in MappedLost' <=> j \in MappedLost \/ j \in LostWith(w)
    <3>1. CASE j \in LostWith(w)
      BY <1>0, <1>1, <3>1 DEF MappedLost
    <3>2. CASE j \notin LostWith(w)
      BY <1>t, <1>0, <1>2, <3>2, MappedTypes DEF MappedLost
    <3>3. QED
      BY <3>1, <3>2
  <2>2. QED
    BY <2>1
<1>6. QED
  BY <1>1, <1>3, <1>4, <1>5

\* A thread that fails does so before the report.
LEMMA LoseBeforeReport ==
    ASSUME IInv, [Next]_vars, NEW w \in Workers, LoseEffect(w)
    PROVE  ~printed
<1>1. TypeOK /\ MasterInv /\ WorkerInv
  BY DEF IInv
<1>2. SUFFICES ASSUME printed PROVE FALSE
  OBVIOUS
<1>3. wpc[w] \in {"none", "exited"}
  <2>1. joined = number_of_workers /\ created = number_of_workers
    BY <1>1, <1>2 DEF MasterInv
  <2>2. w \in Nat /\ joined \in Nat
    BY <1>1, Counters DEF Workers
  <2>3. QED
    BY <1>1, <2>1, <2>2 DEF MasterInv, WorkerInv, WorkerInvOf
<1>4. wpc'[w] = "failed"
  BY DEF LoseEffect
<1>5. QED
  BY <1>1, <1>3, <1>4 DEF Next, Master, CreateWorker, OpenLog, NextLog, CutBlock, SendJob,
     CloseJobs, JoinWorker, CombineReferers, CombineUrls, Combine, AddBytes, PrintReport,
     FreePaths, DisposeChannel, ReturnFromMain, Worker, StartWorker, Receive, OpenFile,
     ReadBlock, TouchReleased, Die, workerVars, vars, TypeOK, WorkerTypeOK

LEMMA TallyInit == Init => Tally!Init
<1> SUFFICES ASSUME Init PROVE Tally!Init
  OBVIOUS
<1>1. countedBlocks = {}
  BY DEF Init, countedBlocks, InResult, EmptyMap, Maps
<1>2. MappedLost = {}
  BY JobsElements DEF Init, Sent, MappedLost
<1>3. MappedStatus = "running"
  BY DEF Init, MappedStatus
<1>4. QED
  BY <1>1, <1>2, <1>3 DEF Tally!Init, MappedLost, MappedStatus

\* A report is printed when every block is counted.
LEMMA AllCounted ==
    ASSUME IInv, mpc = "report"
    PROVE  countedBlocks = Jobs
<1>1. TypeOK /\ MasterInv /\ WorkerInv /\ CompleteInv
  BY DEF IInv
<1>2. joined = number_of_workers /\ created = number_of_workers /\ closed /\ file = NFiles + 1
  BY <1>1 DEF MasterInv, LoopPC
<1>3. \A w \in Workers : wpc[w] \in {"exited", "none"} /\ hand[w] = NoJob
  <2>1. \A w \in Workers : w <= joined \/ wpc[w] = "none"
    BY <1>1, <1>2, Counters DEF MasterInv
  <2>2. QED
    BY <1>1, <2>1 DEF WorkerInv, WorkerInvOf
<1>4. queue = <<>>
  <2>1. 1 \in Workers /\ 1 <= joined
    BY <1>1, <1>2, Counters
  <2>2. QED
    BY <1>1, <2>1 DEF WorkerInv, WorkerInvOf
<1>5. ASSUME NEW j \in Jobs
      PROVE  j \in countedBlocks
  <2>1. j \in Sent
    BY <1>2, JobsElements DEF Sent
  <2>2. ~(\E i \in 1..Len(queue) : queue[i] = j)
    BY <1>4
  <2>3. ~(\E w \in Workers : hand[w] = j)
    BY <1>3, JobsElements
  <2>4. QED
    BY <1>1, <1>3, <2>1, <2>2, <2>3 DEF CompleteInv, countedBlocks, InResult
<1>6. QED
  BY <1>5 DEF countedBlocks

LEMMA TallyStep ==
    ASSUME IInv, GivenUpInv, [Next]_vars
    PROVE  [Tally!Next]_(Tally!vars)
<1> DEFINE Same == UNCHANGED <<countedBlocks, MappedLost>>
<1>1. \/ Same
      \/ /\ UNCHANGED MappedStatus
         /\ \E w \in Workers : ~SendJob /\ (CountEffect(w) \/ LoseEffect(w))
  <2>1. CASE \/ ~SendJob /\ StillEffect
             \/ SendJob /\ SendEffect
             \/ ~SendJob /\ \E w \in Workers : ReceiveEffect(w)
    BY <2>1, MappedStill
  <2>2. CASE \E w \in Workers : ~SendJob /\ MergeEffect(w)
    BY <2>2, MappedMerge
  <2>3. ASSUME ~Same, NEW w \in Workers, ~SendJob, CountEffect(w) \/ LoseEffect(w)
        PROVE  UNCHANGED MappedStatus
    <3>1. ~(~SendJob /\ StillEffect)
      BY <2>3, MappedStill
    <3>2. ~PrintReport
      <4>1. PrintReport => ~SendJob /\ StillEffect
        BY DEF PrintReport, SendJob, StillEffect, chanVars, workerVars
      <4>2. QED
        BY <3>1, <4>1
    <3>3. QED
      BY <3>1, <3>2, StatusStep
  <2>4. QED
    BY <2>1, <2>2, <2>3, Effects
<1>2. CASE Same
  <2>1. CASE UNCHANGED MappedStatus
    BY <1>2, <2>1 DEF Tally!vars, MappedLost, MappedStatus
  <2>2. CASE MappedStatus = "running" /\ MappedStatus' = "failed"
    <3>1. Tally!Fail
      BY <1>2, <2>2 DEF Tally!Fail, MappedLost, MappedStatus
    <3>2. QED
      BY <3>1 DEF Tally!Next
  <2>3. CASE PrintReport /\ MappedStatus = "running" /\ MappedStatus' = "reported"
    <3>1. countedBlocks = Jobs
      BY <2>3, AllCounted DEF PrintReport
    <3>2. Tally!Report
      BY <1>2, <2>3, <3>1 DEF Tally!Report, MappedLost, MappedStatus
    <3>3. QED
      BY <3>2 DEF Tally!Next
  <2>4. QED
    BY <2>1, <2>2, <2>3, StatusStep
<1>3. ASSUME UNCHANGED MappedStatus, NEW w \in Workers, ~SendJob, CountEffect(w)
      PROVE  Tally!Next
  <2>1. /\ hand[w] \in Jobs /\ hand[w] \notin countedBlocks \cup MappedLost
        /\ countedBlocks' = countedBlocks \cup {hand[w]}
        /\ MappedLost' = MappedLost
    BY <1>3, MappedCount
  <2>2. Tally!Count(hand[w])
    BY <1>3, <2>1 DEF Tally!Count, MappedLost, MappedStatus
  <2>3. QED
    BY <2>1, <2>2 DEF Tally!Next
<1>4. ASSUME UNCHANGED MappedStatus, NEW w \in Workers, ~SendJob, LoseEffect(w)
      PROVE  Tally!Next
  <2>1. /\ LostWith(w) \in SUBSET Jobs /\ LostWith(w) \cap MappedLost = {}
        /\ countedBlocks' = countedBlocks \ LostWith(w)
        /\ MappedLost' = MappedLost \cup LostWith(w)
    BY <1>4, MappedLose
  <2>2. MappedStatus # "reported"
    BY <1>4, LoseBeforeReport DEF MappedStatus
  <2>3. PICK S \in SUBSET Jobs : S = LostWith(w)
    BY <2>1
  <2>4. Tally!Lose(S)
    BY <1>4, <2>1, <2>2, <2>3 DEF Tally!Lose, MappedLost, MappedStatus
  <2>5. QED
    BY <2>4 DEF Tally!Next
<1>5. QED
  BY <1>1, <1>2, <1>3, <1>4

\* The pool implements LogTally (main.c:186-590): with any number of workers
\* and files and whatever call fails, each block enters the totals once, what a
\* failing worker held is gone for good, and a report follows only when every
\* block is in it.
THEOREM Implements == Spec => ImplementsTally
<1>1. Init => GivenUpInv
  BY DEF Init, GivenUpInv
<1>2. IInv /\ GivenUpInv /\ [Next]_vars => GivenUpInv'
  BY GivenUpStep DEF IInv
<1>3. Spec => []GivenUpInv
  BY <1>1, <1>2, Inductive, PTL DEF Spec
<1>4. IInv /\ GivenUpInv /\ [Next]_vars => [Tally!Next]_(Tally!vars)
  BY TallyStep
<1>5. QED
  BY <1>3, <1>4, TallyInit, Inductive, PTL DEF Spec, ImplementsTally, Tally!Spec
-----------------------------------------------------------------------------
(* Waiting *)

\* When the master, or a worker, has a step it can take: only chan_send,
\* pthread_join and chan_recv wait.
MasterMoves ==
    /\ Alive
    /\ mpc = "send" => HasRoom
    /\ mpc = "join" => wpc[joined + 1] \in {"exited", "failed"}
WorkerMoves(w) ==
    /\ Alive
    /\ wpc[w] \in {"init", "recv", "open", "read"}
    /\ wpc[w] = "recv" => queue # <<>> \/ closed \/ disposed

\* As long as the analyser runs somebody can go on: the master never waits for a
\* worker that waits for the master, in chan_send (465), pthread_join (498) and
\* chan_recv (207), but for the one case that every worker has failed and the
\* channel is full.
NoDeadlock == Alive => MasterMoves \/ (\E w \in Workers : WorkerMoves(w)) \/ Abandoned

THEOREM NobodyWaitsForEver == Spec => []NoDeadlock
<1>1. IInv => NoDeadlock
  <2>1. SUFFICES ASSUME IInv, Alive, ~MasterMoves, \A w \in Workers : ~WorkerMoves(w)
                 PROVE  Abandoned
    BY DEF NoDeadlock
  <2>2. /\ TypeOK /\ MasterInv /\ WorkerInv
        /\ \/ mpc = "send" /\ ~HasRoom
           \/ mpc = "join" /\ wpc[joined + 1] \notin {"exited", "failed"}
    BY <2>1 DEF IInv, MasterMoves
  <2>3. /\ created = number_of_workers /\ number_of_workers \in Nat \ {0}
        /\ 1..number_of_workers \subseteq Workers
        /\ \A w \in 1..number_of_workers : wpc[w] # "none" /\ wpc[w] \in WorkerPC
    BY <2>2, PoolAssumption DEF MasterInv, LoopPC, TypeOK, MasterTypeOK, WorkerTypeOK, Workers
  <2>4. \A w \in 1..number_of_workers :
          \/ wpc[w] \in {"exited", "failed"}
          \/ wpc[w] = "recv" /\ queue = <<>> /\ ~closed
    BY <2>1, <2>3 DEF WorkerMoves, WorkerPC
  <2>5. CASE mpc = "send" /\ ~HasRoom
    <3>1. queue \in Seq(Jobs) /\ Len(queue) <= number_of_workers
      BY <2>2 DEF TypeOK, ChannelTypeOK
    <3>2. Len(queue) = number_of_workers /\ queue # <<>>
      BY <2>3, <2>5, <3>1 DEF HasRoom
    <3>3. ~closed
      BY <2>2, <2>5 DEF MasterInv
    <3>4. \A w \in 1..number_of_workers : wpc[w] # "exited"
      BY <2>2, <2>3, <3>3 DEF WorkerInv, WorkerInvOf
    <3>5. QED
      BY <2>4, <2>5, <3>2, <3>4 DEF Abandoned
  <2>6. CASE mpc = "join" /\ wpc[joined + 1] \notin {"exited", "failed"}
    <3>1. closed /\ joined + 1 \in 1..number_of_workers
      BY <2>2, <2>3, <2>6 DEF MasterInv, TypeOK, MasterTypeOK
    <3>2. QED
      BY <2>4, <2>6, <3>1
  <2>7. QED
    BY <2>2, <2>5, <2>6
<1>2. QED
  BY <1>1, Inductive, PTL
=============================================================================
