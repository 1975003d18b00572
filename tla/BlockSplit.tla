----------------------------- MODULE BlockSplit -----------------------------
(***************************************************************************)
(* How src/hw11/main.c cuts one log file into blocks and what the workers  *)
(* see of them.  The master looks for the first newline from the last byte *)
(* of a nominal block on (435-470); a worker reads the block, overwrites   *)
(* its last byte with '\0' and parses the lines in it (239-269).  Workers  *)
(* take the jobs in any order, and the log may grow or be truncated after  *)
(* get_log_paths asked for its size (146-152).                             *)
(*                                                                         *)
(* A byte is "nl", "c" (any other byte) or "ff", the byte 0xFF, which       *)
(* `ch = fgetc(logf)` turns into EOF because ch is a char (431, 446).      *)
(* Positions in the file are 1-based, offsets and lengths as in the code.  *)
(***************************************************************************)
EXTENDS Integers, Sequences

CONSTANTS
    BlockSize,       \* block_size
    PageSize,        \* page_size
    Files,           \* contents the log file may have when it is found
    MaxChanges       \* bound: how often the file changes afterwards

Bytes == {"nl", "c", "ff"}

ASSUME SplitAssumption ==
    /\ BlockSize \in Nat \ {0}
    /\ PageSize \in Nat /\ PageSize > 2
    /\ Files \subseteq Seq(Bytes)
    /\ MaxChanges \in Nat

\* "save two bytes for \n and for \0" (432)
ExpandLimit == PageSize - 2

VARIABLES
    text,            \* the file's bytes
    filesize,        \* what stat said
    changes, shrunk, \* changes so far; one of them was a truncation
    mpc,             \* the master: "next", "expand", "send", "done", "failed"
    offset, len,     \* its loop variables
    limit,           \* _expand_limit
    jobs,            \* jobs sent and not yet read
    sent,            \* every job sent, in order
    lines,           \* the lines workers parsed: positions of first and last byte
    wildWrite        \* a worker wrote to buf[-1]

fileVars == <<text, filesize, changes, shrunk>>
masterVars == <<mpc, offset, len, limit, sent>>
vars == <<fileVars, masterVars, jobs, lines, wildWrite>>

Init ==
    /\ text \in Files
    /\ filesize = Len(text)
    /\ changes = 0 /\ shrunk = FALSE
    /\ mpc = "next"
    /\ offset = 0 /\ len = BlockSize /\ limit = ExpandLimit
    /\ jobs = {} /\ sent = <<>>
    /\ lines = {}
    /\ wildWrite = FALSE

-----------------------------------------------------------------------------
(* The master *)

\* A mutant: one turn too many.
MoreByOne == offset <= filesize

\* The loop condition (439).
More == offset < filesize

\* The next turn of the block loop, with its fseek, or its end.
NextBlock ==
    /\ mpc = "next"
    /\ IF More
       THEN /\ len' = BlockSize
            /\ limit' = ExpandLimit
            /\ mpc' = "expand"
       ELSE /\ mpc' = "done"
            /\ UNCHANGED <<len, limit>>
    /\ UNCHANGED <<fileVars, offset, sent, jobs, lines, wildWrite>>

\* What fgetc gives at the position the loop has reached, as a char.
Ch == IF offset + len > Len(text) \/ text[offset + len] = "ff"
      THEN "EOF" ELSE text[offset + len]

\* A mutant: the limit is off by one.
ExpandFailsLate == limit < 0

\* CHECK(_expand_limit-- > 0) does not hold (448).
ExpandFails == limit <= 0

\* One turn of the search for a newline (446-454): the newline is followed by
\* one more len++, an EOF is not.
Expand ==
    /\ mpc = "expand"
    /\ \/ /\ Ch = "nl"
          /\ len' = len + 1
          /\ mpc' = "send"
          /\ limit' = limit
       \/ /\ Ch = "EOF"
          /\ mpc' = "send"
          /\ UNCHANGED <<len, limit>>
       \/ /\ Ch = "c"
          /\ len' = len + 1
          /\ limit' = limit - 1
          /\ mpc' = IF ExpandFails THEN "failed" ELSE "expand"
    /\ UNCHANGED <<fileVars, offset, sent, jobs, lines, wildWrite>>

\* A mutant: the job keeps its nominal length.
Nominal == [offset |-> offset, length |-> BlockSize]

\* The job of this turn (457-464).
Job == [offset |-> offset, length |-> len]

\* chan_send, and the loop's step offset += len.
SendBlock ==
    /\ mpc = "send"
    /\ jobs' = jobs \cup {Job}
    /\ sent' = Append(sent, Job)
    /\ offset' = offset + Job.length
    /\ mpc' = "next"
    /\ UNCHANGED <<fileVars, len, limit, lines, wildWrite>>

-----------------------------------------------------------------------------
(* The workers *)

\* fread: the job's bytes that the file has.
Read(j) == IF j.offset + j.length <= Len(text) THEN j.length
           ELSE IF j.offset < Len(text) THEN Len(text) - j.offset
           ELSE 0

\* The byte at a position of the file as the worker sees it: the last one it
\* read became '\0' (250-252).
Seen(j, p) == IF p = j.offset + Read(j) THEN "nul" ELSE text[p]

\* The pieces of the block between newlines that are two bytes or more long
\* (257-269), without the '\0'.
Pieces(j) ==
    LET first == j.offset + 1
        last == j.offset + Read(j)
    IN  {r \in [first : first..last, last : first..last] :
            /\ r.first < r.last
            /\ \A p \in r.first..r.last : Seen(j, p) # "nl"
            /\ r.first = first \/ Seen(j, r.first - 1) = "nl"
            /\ r.last = last \/ Seen(j, r.last + 1) = "nl"}

Parsed(j) ==
    {[first |-> r.first, last |-> IF Seen(j, r.last) = "nul" THEN r.last - 1 ELSE r.last]
        : r \in Pieces(j)}

\* A worker reads and parses a block.  When nothing was read buf[read - 1] is
\* the byte before the buffer, which is overwritten unless it happens to be 0.
ReadBlock(j) ==
    /\ jobs' = jobs \ {j}
    /\ lines' = lines \cup Parsed(j)
    /\ wildWrite' \in (IF Read(j) = 0 THEN {TRUE, wildWrite} ELSE {wildWrite})
    /\ UNCHANGED <<fileVars, masterVars>>

-----------------------------------------------------------------------------
(* The writer of the log: not part of the program. *)

Grow ==
    /\ changes < MaxChanges
    /\ \E b \in Bytes : text' = Append(text, b)
    /\ changes' = changes + 1
    /\ UNCHANGED <<filesize, shrunk, masterVars, jobs, lines, wildWrite>>

Truncate ==
    /\ changes < MaxChanges
    /\ \E n \in 0..(Len(text) - 1) : text' = SubSeq(text, 1, n)
    /\ changes' = changes + 1
    /\ shrunk' = TRUE
    /\ UNCHANGED <<filesize, masterVars, jobs, lines, wildWrite>>

Next ==
    \/ NextBlock \/ Expand \/ SendBlock
    \/ \E j \in jobs : ReadBlock(j)
    \/ Grow \/ Truncate

Spec == Init /\ [][Next]_vars

-----------------------------------------------------------------------------
(* Properties *)

Blocks == {sent[i] : i \in 1..Len(sent)}

\* The variables have their types, and _expand_limit never falls below the -1
\* the failing check leaves (448).
TypeOK ==
    /\ text \in Seq(Bytes)
    /\ filesize \in Nat /\ changes \in 0..MaxChanges /\ shrunk \in BOOLEAN
    /\ mpc \in {"next", "expand", "send", "done", "failed"}
    /\ offset \in Nat /\ len \in Nat /\ limit \in -1..ExpandLimit
    /\ sent \in Seq([offset : Nat, length : Nat])
    /\ jobs \subseteq Blocks
    /\ lines \subseteq [first : Nat, last : Nat]
    /\ wildWrite \in BOOLEAN

\* A job always fits the buffer of block_size + page_size bytes, so that the
\* worker's check at 217 never fails, however long the lines are (433-454).
JobFitsBuffer == \A j \in Blocks : j.length < BlockSize + PageSize

\* The master gives up only on a line longer than its limit: expand_limit + 1
\* bytes without a newline (448-450).
GivesUpOnLongLineOnly ==
    mpc = "failed" /\ changes = 0 =>
        \E a \in 1..Len(text) :
            /\ a + ExpandLimit <= Len(text)
            /\ \A p \in a..(a + ExpandLimit) : text[p] # "nl"

\* buf[read - 1] is outside the buffer only when the log was truncated after
\* its size was taken (146-152, 245-252).
WildWriteNeedsTruncation == wildWrite => shrunk

\* The lines of the file, with their newline.
Line(a, b) ==
    /\ text[b] = "nl"
    /\ \A p \in a..(b - 1) : text[p] # "nl"
    /\ a = 1 \/ text[a - 1] = "nl"

\* Every line that was complete when the size was taken, has three bytes or
\* more and no byte 0xFF, is parsed by exactly one worker, as one piece that
\* misses at most the line's first byte.  (The first byte of the line after a
\* block is in that block, where the '\0' overwrites it.)
LinesParsedOnce ==
    mpc = "done" /\ jobs = {} /\ ~shrunk =>
        \A a, b \in 1..filesize :
            /\ Line(a, b) /\ a + 3 <= b
            /\ \A p \in a..b : text[p] # "ff"
            => /\ \E l \in lines : l.first \in {a, a + 1} /\ l.last = b - 1
               /\ \A k, l \in lines :
                     k.last >= a /\ k.first <= b /\ l.last >= a /\ l.first <= b => k = l
=============================================================================
