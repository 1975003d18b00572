-------------------------- MODULE LogParsingProofs --------------------------
(***************************************************************************)
(* Proofs about what happens to the lines of a log: about BlockSplit, for  *)
(* every block and page size, every file and any number of changes to it,  *)
(* and about OpenHashmap, in which a worker adds up what it parsed, for    *)
(* every set of keys, every hash function, every first size of the table   *)
(* and every allocation that fails.                                        *)
(***************************************************************************)
EXTENDS BlockSplit, OpenHashmap, WellFoundedInduction, FiniteSetTheorems, TLAPS

-----------------------------------------------------------------------------
(* The blocks *)

\* While the master looks for a newline, len and _expand_limit add up.
SearchInv ==
    /\ mpc = "expand" => /\ len + limit = BlockSize + ExpandLimit
                         /\ limit >= 0
    /\ mpc = "send" => len <= BlockSize + ExpandLimit + 1
    /\ mpc = "failed" => len = BlockSize + ExpandLimit + 1
    /\ mpc \in {"expand", "send"} => len >= BlockSize /\ offset < filesize

BlocksInv ==
    \A i \in 1..Len(sent) : /\ sent[i].offset < filesize
                            /\ sent[i].length >= BlockSize
                            /\ sent[i].length <= BlockSize + ExpandLimit + 1

\* What the file still has, and what reading beyond it did.
FileInv ==
    /\ ~shrunk => filesize <= Len(text)
    /\ wildWrite => shrunk

\* The bytes the search has passed.
PassedInv ==
    mpc \in {"expand", "failed"} /\ changes = 0 =>
        \A p \in Nat : p >= offset + BlockSize /\ p < offset + len =>
            p <= Len(text) /\ text[p] = "c"

IInv == TypeOK /\ SearchInv /\ BlocksInv /\ FileInv /\ PassedInv

\* A place where a block may end: right after the byte that follows a newline,
\* at a byte 0xFF, or beyond what stat saw.
Cut(e) ==
    \/ e = 0 \/ e > filesize
    \/ e - 1 \in 1..Len(text) /\ text[e - 1] = "nl"
    \/ e \in 1..Len(text) /\ text[e] = "ff"

CutInv ==
    ~shrunk => /\ Cut(offset)
               /\ mpc = "send" => Cut(offset + len)
               /\ \A j \in Blocks : Cut(j.offset) /\ Cut(j.offset + j.length)

Covers(j, p) == j.offset < p /\ p <= j.offset + j.length

\* The blocks cover what the master has passed, and none overlaps another.
TileInv ==
    /\ mpc = "done" => offset >= filesize
    /\ \A j \in Blocks : j.offset + j.length <= offset
    /\ \A p \in 1..offset : \E j \in Blocks : Covers(j, p)
    /\ \A j, k \in Blocks :
          \/ j = k
          \/ j.offset + j.length <= k.offset
          \/ k.offset + k.length <= j.offset

\* The lines the promise is about,
Plain(a, b) == Line(a, b) /\ a + 3 <= b /\ \A p \in a..b : text[p] # "ff"

\* and what the worker of block j makes of one that ends in it.
LineIn(j, a, b) == [first |-> IF j.offset = a THEN a + 1 ELSE a, last |-> b - 1]

Touches(l, a, b) == l.last >= a /\ l.first <= b

ParsedInv ==
    ~shrunk => \A a, b \in 1..filesize :
        Plain(a, b) =>
            /\ \A j \in Blocks \ jobs : Covers(j, b) => LineIn(j, a, b) \in lines
            /\ \A l \in lines :
                  Touches(l, a, b) => \E j \in Blocks : Covers(j, b) /\ l = LineIn(j, a, b)

PartsInv == CutInv /\ TileInv /\ ParsedInv

-----------------------------------------------------------------------------
LEMMA Sizes ==
    /\ BlockSize \in Nat /\ BlockSize >= 1
    /\ ExpandLimit \in Nat /\ PageSize = ExpandLimit + 2
BY SplitAssumption DEF ExpandLimit

LEMMA InitHolds == Init => IInv
<1> SUFFICES ASSUME Init PROVE IInv
  OBVIOUS
<1>1. text \in Seq(Bytes) /\ Len(text) \in Nat
  BY SplitAssumption DEF Init
<1>2. TypeOK
  <2>1. /\ text \in Seq(Bytes) /\ filesize \in Nat /\ changes \in 0..MaxChanges
        /\ mpc \in {"next", "expand", "send", "done", "failed"}
    BY <1>1, SplitAssumption DEF Init
  <2>2. offset \in Nat /\ len \in Nat /\ limit \in -1..ExpandLimit
    BY Sizes DEF Init
  <2>3. /\ sent \in Seq([offset : Nat, length : Nat])
        /\ jobs \subseteq Blocks /\ lines \subseteq [first : Nat, last : Nat]
    BY DEF Init
  <2>4. shrunk = FALSE /\ wildWrite = FALSE
    BY DEF Init
  <2>5. QED
    BY <2>1, <2>2, <2>3, <2>4 DEF TypeOK
<1>3. SearchInv /\ BlocksInv /\ FileInv /\ PassedInv
  BY <1>1 DEF Init, SearchInv, BlocksInv, FileInv, PassedInv
<1>4. QED
  BY <1>2, <1>3 DEF IInv

-----------------------------------------------------------------------------
\* A block that was sent is one of the records sent holds.
LEMMA BlockTypes ==
    ASSUME TypeOK, BlocksInv, NEW j \in Blocks
    PROVE  /\ j.offset \in Nat /\ j.length \in Nat
           /\ j.offset < filesize
           /\ j.length >= BlockSize /\ j.length <= BlockSize + ExpandLimit + 1
<1>1. PICK i \in 1..Len(sent) : j = sent[i]
  BY DEF Blocks
<1>2. sent[i] \in [offset : Nat, length : Nat]
  <2> DEFINE S == [offset : Nat, length : Nat]
  <2>1. sent \in Seq(S)
    BY DEF TypeOK
  <2> HIDE DEF S
  <2>2. sent[i] \in S
    BY <1>1, <2>1
  <2>3. QED
    BY <2>2 DEF S
<1>3. QED
  BY <1>1, <1>2 DEF BlocksInv

LEMMA MasterStep ==
    ASSUME IInv, NextBlock \/ Expand
    PROVE  IInv'
<1>0. TypeOK /\ SearchInv /\ BlocksInv /\ FileInv /\ PassedInv
  BY DEF IInv
<1>1. UNCHANGED <<text, filesize, changes, shrunk, offset, sent, jobs, lines, wildWrite>>
  BY DEF NextBlock, Expand, fileVars
<1>2. BlocksInv' /\ FileInv'
  BY <1>0, <1>1 DEF BlocksInv, FileInv
<1>3. CASE NextBlock
  <2>1. \/ mpc' = "expand" /\ len' = BlockSize /\ limit' = ExpandLimit /\ offset < filesize
        \/ mpc' = "done" /\ UNCHANGED <<len, limit>>
    BY <1>3 DEF NextBlock, More
  <2>2. TypeOK'
    BY <1>0, <1>1, <2>1, Sizes DEF TypeOK, Blocks
  <2>3. SearchInv'
    BY <1>1, <2>1, Sizes DEF SearchInv
  <2>4. PassedInv'
    BY <1>0, <1>1, <2>1, Sizes DEF PassedInv, TypeOK
  <2>5. QED
    BY <1>2, <2>2, <2>3, <2>4 DEF IInv
<1>4. CASE Expand
  <2>1. mpc = "expand" /\ len \in Nat /\ limit \in Int /\ limit >= 0 /\ offset \in Nat
        /\ limit <= ExpandLimit /\ Len(text) \in Nat
    BY <1>0, <1>4, Sizes DEF Expand, TypeOK, SearchInv
  <2>2. \/ mpc' = "send" /\ (len' = len + 1 \/ len' = len) /\ limit' = limit
        \/ /\ Ch = "c" /\ len' = len + 1 /\ limit' = limit - 1
           /\ \/ limit <= 0 /\ mpc' = "failed"
              \/ limit > 0 /\ mpc' = "expand"
    BY <1>4, <2>1 DEF Expand, ExpandFails
  <2>3. TypeOK'
    BY <1>0, <1>1, <2>1, <2>2, Sizes DEF TypeOK, Blocks
  <2>4. SearchInv'
    BY <1>0, <1>1, <2>1, <2>2, Sizes DEF SearchInv
  <2>5. PassedInv'
    <3>1. SUFFICES ASSUME mpc' \in {"expand", "failed"}, changes' = 0, NEW p \in Nat,
                          p >= offset + BlockSize, p < offset + len'
                   PROVE  p <= Len(text) /\ text[p] = "c"
      BY <1>1 DEF PassedInv
    <3>2. Ch = "c" /\ len' = len + 1
      BY <2>2, <3>1
    <3>3. offset + len <= Len(text) /\ text[offset + len] = "c"
      BY <2>1, <3>2 DEF Ch
    <3>4. CASE p < offset + len
      BY <1>0, <1>1, <2>1, <3>1, <3>4 DEF PassedInv
    <3>5. CASE p = offset + len
      BY <3>3, <3>5
    <3>6. QED
      BY <2>1, <3>1, <3>2, <3>4, <3>5
  <2>6. QED
    BY <1>2, <2>3, <2>4, <2>5 DEF IInv
<1>5. QED
  BY <1>3, <1>4

LEMMA SendStep ==
    ASSUME IInv, SendBlock
    PROVE  IInv'
<1>0. TypeOK /\ SearchInv /\ BlocksInv /\ FileInv
  BY DEF IInv
<1>1. /\ mpc = "send" /\ mpc' = "next" /\ sent' = Append(sent, Job)
      /\ jobs' = jobs \cup {Job} /\ offset' = offset + Job.length
      /\ UNCHANGED <<text, filesize, changes, shrunk, len, limit, lines, wildWrite>>
  BY DEF SendBlock, fileVars
<1>2. /\ Job \in [offset : Nat, length : Nat] /\ Job.offset < filesize
      /\ Job.length >= BlockSize /\ Job.length <= BlockSize + ExpandLimit + 1
  BY <1>0, <1>1 DEF Job, TypeOK, SearchInv
<1>3. /\ sent' \in Seq([offset : Nat, length : Nat])
      /\ Len(sent') = Len(sent) + 1 /\ Len(sent) \in Nat
      /\ sent'[Len(sent) + 1] = Job
      /\ \A i \in 1..Len(sent) : sent'[i] = sent[i]
  BY <1>0, <1>1, <1>2 DEF TypeOK
<1>4. Blocks' = Blocks \cup {Job}
  <2>1. Blocks' = {sent'[i] : i \in 1..(Len(sent) + 1)}
    BY <1>3 DEF Blocks
  <2>2. \A x : x \in Blocks' <=> x \in Blocks \/ x = Job
    BY <2>1, <1>3 DEF Blocks
  <2>3. QED
    BY <2>2
<1>5. TypeOK'
  BY <1>0, <1>1, <1>2, <1>3, <1>4 DEF TypeOK
<1>6. SearchInv' /\ PassedInv' /\ FileInv'
  BY <1>0, <1>1 DEF SearchInv, PassedInv, FileInv
<1>7. BlocksInv'
  BY <1>0, <1>1, <1>2, <1>3 DEF BlocksInv
<1>8. QED
  BY <1>5, <1>6, <1>7 DEF IInv

LEMMA ReadStep ==
    ASSUME IInv, NEW j \in jobs, ReadBlock(j)
    PROVE  IInv'
<1>0. TypeOK /\ SearchInv /\ BlocksInv /\ FileInv /\ PassedInv
  BY DEF IInv
<1>1. /\ UNCHANGED <<text, filesize, changes, shrunk, mpc, offset, len, limit, sent>>
      /\ jobs' = jobs \ {j} /\ lines' = lines \cup Parsed(j)
      /\ wildWrite' \in (IF Read(j) = 0 THEN {TRUE, wildWrite} ELSE {wildWrite})
  BY DEF ReadBlock, fileVars, masterVars
<1>2. /\ j.offset \in Nat /\ j.length \in Nat /\ j.offset < filesize /\ j.length >= 1
      /\ filesize \in Nat /\ Len(text) \in Nat
  BY <1>0, BlockTypes, Sizes DEF TypeOK
<1>3. Read(j) \in Nat
  BY <1>2 DEF Read
<1>4. Parsed(j) \subseteq [first : Nat, last : Nat]
  <2>1. Pieces(j) \subseteq [first : (j.offset + 1)..(j.offset + Read(j)),
                             last : (j.offset + 1)..(j.offset + Read(j))]
    BY DEF Pieces
  <2>2. ASSUME NEW r \in Pieces(j)
        PROVE  [first |-> r.first, last |-> IF Seen(j, r.last) = "nul" THEN r.last - 1
                                            ELSE r.last] \in [first : Nat, last : Nat]
    BY <1>2, <1>3, <2>1
  <2>3. QED
    BY <2>2 DEF Parsed
<1>5. TypeOK'
  BY <1>0, <1>1, <1>4 DEF TypeOK, Blocks
<1>6. SearchInv' /\ BlocksInv' /\ PassedInv'
  BY <1>0, <1>1 DEF SearchInv, BlocksInv, PassedInv
<1>7. FileInv'
  <2>1. ~shrunk => Read(j) # 0
    BY <1>0, <1>2 DEF FileInv, Read
  <2>2. QED
    BY <1>0, <1>1, <2>1 DEF FileInv
<1>8. QED
  BY <1>5, <1>6, <1>7 DEF IInv

LEMMA ChangeStep ==
    ASSUME IInv, Grow \/ Truncate
    PROVE  IInv'
<1>0. TypeOK /\ SearchInv /\ BlocksInv /\ FileInv /\ PassedInv
  BY DEF IInv
<1>1. /\ UNCHANGED <<filesize, mpc, offset, len, limit, sent, jobs, lines, wildWrite>>
      /\ changes' = changes + 1 /\ changes < MaxChanges /\ changes \in Nat
      /\ MaxChanges \in Nat
  BY <1>0, SplitAssumption DEF Grow, Truncate, masterVars, TypeOK
<1>2. /\ text' \in Seq(Bytes) /\ shrunk' \in BOOLEAN
      /\ ~shrunk' => ~shrunk /\ Len(text') >= Len(text)
      /\ shrunk => shrunk'
      /\ Len(text) \in Nat
  <2>1. CASE Grow
    BY <1>0, <2>1 DEF Grow, TypeOK
  <2>2. CASE Truncate
    <3>1. PICK n \in 0..(Len(text) - 1) : text' = SubSeq(text, 1, n)
      BY <2>2 DEF Truncate
    <3>2. text' \in Seq(Bytes)
      BY <1>0, <3>1 DEF TypeOK
    <3>3. QED
      BY <1>0, <2>2, <3>2 DEF Truncate, TypeOK
  <2>3. QED
    BY <2>1, <2>2
<1>3. TypeOK'
  BY <1>0, <1>1, <1>2 DEF TypeOK, Blocks
<1>4. SearchInv' /\ BlocksInv'
  BY <1>0, <1>1 DEF SearchInv, BlocksInv
<1>5. FileInv'
  BY <1>0, <1>1, <1>2 DEF FileInv, TypeOK
<1>6. PassedInv'
  BY <1>1 DEF PassedInv
<1>7. QED
  BY <1>3, <1>4, <1>5, <1>6 DEF IInv

LEMMA Inductive == Spec => []IInv
<1>1. IInv /\ [Next]_vars => IInv'
  <2> SUFFICES ASSUME IInv, [Next]_vars PROVE IInv'
    OBVIOUS
  <2>1. CASE UNCHANGED vars
    BY <2>1 DEF vars, fileVars, masterVars, IInv, TypeOK, Blocks, SearchInv, BlocksInv,
       FileInv, PassedInv
  <2>2. QED
    BY <2>1, MasterStep, SendStep, ReadStep, ChangeStep DEF Next
<1>2. QED
  BY <1>1, InitHolds, PTL DEF Spec

-----------------------------------------------------------------------------
(***************************************************************************)
(* Lines: each is parsed once                                              *)
(***************************************************************************)
\* A line's bytes: one newline, at its end.
LEMMA PlainBytes ==
    ASSUME TypeOK, FileInv, ~shrunk, NEW a \in 1..filesize, NEW b \in 1..filesize, Plain(a, b)
    PROVE  /\ a \in Nat /\ b \in Nat /\ a >= 1 /\ a + 3 <= b /\ b <= filesize
           /\ filesize <= Len(text) /\ Len(text) \in Nat /\ filesize \in Nat
           /\ text[b] = "nl"
           /\ \A p \in Nat : a <= p /\ p < b => text[p] # "nl"
           /\ \A p \in Nat : a <= p /\ p <= b => text[p] # "ff"
           /\ a = 1 \/ text[a - 1] = "nl"
           /\ \A p \in Nat : p >= 1 /\ p <= Len(text) => text[p] \in Bytes
<1>1. Len(text) \in Nat /\ text \in Seq(Bytes) /\ filesize \in Nat /\ filesize <= Len(text)
  BY DEF TypeOK, FileInv
<1>2. a \in Nat /\ b \in Nat /\ a >= 1 /\ b <= filesize /\ a + 3 <= b
  BY <1>1 DEF Plain
<1>3. \A p \in Nat : a <= p /\ p < b => text[p] # "nl"
  BY <1>2 DEF Plain, Line
<1>4. \A p \in Nat : a <= p /\ p <= b => text[p] # "ff"
  BY <1>2 DEF Plain
<1>5. \A p \in Nat : p >= 1 /\ p <= Len(text) => text[p] \in Bytes
  BY <1>1
<1>6. QED
  BY <1>1, <1>2, <1>3, <1>4, <1>5 DEF Plain, Line

\* No block begins or ends inside a line, but for the line's first byte.
LEMMA CutOutside ==
    ASSUME TypeOK, FileInv, ~shrunk, NEW a \in 1..filesize, NEW b \in 1..filesize, Plain(a, b),
           NEW e \in Nat, Cut(e), e < b
    PROVE  e <= a
<1>1. /\ a \in Nat /\ b \in Nat /\ a >= 1 /\ b <= filesize /\ filesize \in Nat
      /\ \A p \in Nat : a <= p /\ p < b => text[p] # "nl"
      /\ \A p \in Nat : a <= p /\ p <= b => text[p] # "ff"
  BY PlainBytes
<1>2. SUFFICES ASSUME e > a PROVE FALSE
  BY <1>1
<1>3. e - 1 \in Nat /\ a <= e - 1 /\ e - 1 < b /\ a <= e /\ e <= b /\ e <= filesize
  BY <1>1, <1>2
<1>4. text[e - 1] # "nl" /\ text[e] # "ff"
  BY <1>1, <1>3
<1>5. QED
  BY <1>1, <1>2, <1>3, <1>4 DEF Cut

\* What a worker reads of a block, when the log was not truncated.
LEMMA ReadLast ==
    ASSUME IInv, CutInv, ~shrunk, NEW j \in Blocks
    PROVE  /\ j.offset \in Nat /\ j.length \in Nat /\ j.length >= 1
           /\ Read(j) \in Nat /\ Read(j) >= 1
           /\ j.offset + Read(j) <= j.offset + j.length
           /\ j.offset + Read(j) <= Len(text)
           /\ j.offset + Read(j) = j.offset + j.length \/ j.offset + Read(j) = Len(text)
           /\ j.offset < filesize
           /\ Cut(j.offset) /\ Cut(j.offset + j.length)
<1>0. TypeOK /\ BlocksInv /\ FileInv
  BY DEF IInv
<1>1. /\ j.offset \in Nat /\ j.length \in Nat /\ j.offset < filesize /\ j.length >= 1
      /\ filesize \in Nat /\ Len(text) \in Nat /\ filesize <= Len(text)
  BY <1>0, BlockTypes, Sizes DEF TypeOK, FileInv
<1>2. \/ Read(j) = j.length /\ j.offset + j.length <= Len(text)
      \/ Read(j) = Len(text) - j.offset /\ j.offset + j.length > Len(text)
  BY <1>1 DEF Read
<1>3. /\ Read(j) \in Nat /\ Read(j) >= 1
      /\ j.offset + Read(j) <= j.offset + j.length
      /\ j.offset + Read(j) <= Len(text)
      /\ j.offset + Read(j) = j.offset + j.length \/ j.offset + Read(j) = Len(text)
  <2>1. PICK n \in Nat, o \in Nat, k \in Nat : n = Len(text) /\ o = j.offset /\ k = j.length
    BY <1>1
  <2>2. o < n /\ k >= 1
    BY <1>1, <2>1
  <2>3. CASE Read(j) = k /\ o + k <= n
    BY <2>1, <2>2, <2>3
  <2>4. CASE Read(j) = n - o /\ o + k > n
    <3>1. PICK m \in Nat : m = n - o
      BY <2>2
    <3>2. o + m = n /\ m >= 1 /\ n <= o + k
      BY <2>2, <2>4, <3>1
    <3>3. Read(j) = m
      BY <2>4, <3>1
    <3>4. QED
      BY <2>1, <3>2, <3>3
  <2>5. QED
    BY <1>2, <2>1, <2>3, <2>4
<1>4. Cut(j.offset) /\ Cut(j.offset + j.length)
  BY DEF CutInv
<1>5. QED
  BY <1>1, <1>3, <1>4

\* The worker whose block holds a line's newline parses the line.
LEMMA LineParsed ==
    ASSUME IInv, CutInv, ~shrunk, NEW j \in Blocks,
           NEW a \in 1..filesize, NEW b \in 1..filesize, Plain(a, b), Covers(j, b)
    PROVE  LineIn(j, a, b) \in Parsed(j)
<1>0. TypeOK /\ FileInv
  BY DEF IInv
<1> DEFINE o == j.offset
           q == j.offset + Read(j)
<1>1. /\ o \in Nat /\ q \in Nat /\ q >= o + 1 /\ q <= Len(text) /\ o < b /\ b <= q
      /\ o < filesize /\ Cut(o)
  <2>1. b <= j.offset + j.length /\ b <= Len(text) /\ o < b
    BY <1>0, PlainBytes DEF Covers
  <2>2. /\ o \in Nat /\ Read(j) \in Nat /\ Read(j) >= 1 /\ o < filesize /\ Cut(o)
        /\ q <= Len(text) /\ (q = j.offset + j.length \/ q = Len(text))
    BY ReadLast
  <2>3. q \in Nat /\ q >= o + 1
    BY <2>2
  <2>4. QED
    BY <2>1, <2>2, <2>3
<1>2. /\ a \in Nat /\ b \in Nat /\ a >= 1 /\ a + 3 <= b /\ text[b] = "nl"
      /\ \A p \in Nat : a <= p /\ p < b => text[p] # "nl"
      /\ a = 1 \/ text[a - 1] = "nl"
      /\ \A p \in Nat : p >= 1 /\ p <= Len(text) => text[p] \in Bytes
  BY <1>0, PlainBytes
<1>3. o <= a
  BY <1>0, <1>1, CutOutside
<1>4. \A p \in Nat : p # q => Seen(j, p) = text[p]
  BY DEF Seen
<1>5. Seen(j, q) = "nul"
  BY DEF Seen
<1> HIDE DEF q
<1> DEFINE f == IF o = a THEN a + 1 ELSE a
           z == IF b = q THEN b ELSE b - 1
           r == [first |-> f, last |-> z]
<1>6. /\ f \in (o + 1)..q /\ z \in (o + 1)..q /\ f < z
      /\ f \in Nat /\ z \in Nat /\ f >= a /\ z <= b
  BY <1>1, <1>2, <1>3
<1>7. \A p \in f..z : Seen(j, p) # "nl"
  <2>1. ASSUME NEW p \in f..z
        PROVE  Seen(j, p) # "nl"
    <3>1. CASE p = q
      BY <1>5, <3>1
    <3>2. CASE p # q
      <4>1. p \in Nat /\ a <= p /\ p < b
        BY <1>1, <1>2, <1>6, <3>2
      <4>2. QED
        BY <1>2, <1>4, <3>2, <4>1
    <3>3. QED
      BY <3>1, <3>2
  <2>2. QED
    BY <2>1
<1>8. f = o + 1 \/ Seen(j, f - 1) = "nl"
  <2>1. CASE o = a \/ o + 1 = a
    BY <1>1, <1>2, <2>1
  <2>2. CASE o # a /\ o + 1 # a
    <3>1. a # 1 /\ f = a /\ a - 1 \in Nat /\ a - 1 # q
      BY <1>1, <1>2, <1>3, <2>2
    <3>2. QED
      BY <1>2, <1>4, <3>1
  <2>3. QED
    BY <2>1, <2>2
<1>9. z = q \/ Seen(j, z + 1) = "nl"
  <2>1. CASE b # q
    <3>1. z + 1 = b
      BY <1>2, <2>1
    <3>2. QED
      BY <1>2, <1>4, <2>1, <3>1
  <2>2. QED
    BY <2>1
<1>10. r \in Pieces(j)
  BY <1>6, <1>7, <1>8, <1>9 DEF Pieces, q
<1>11. LineIn(j, a, b) = [first |-> r.first,
                          last |-> IF Seen(j, r.last) = "nul" THEN r.last - 1 ELSE r.last]
  <2>1. CASE b = q
    BY <1>5, <2>1 DEF LineIn
  <2>2. CASE b # q
    <3>1. z = b - 1 /\ z # q /\ z >= 1 /\ z <= Len(text) /\ z \in Nat
      BY <1>1, <1>2, <2>2
    <3>2. Seen(j, z) = text[z] /\ text[z] # "nul"
      BY <1>2, <1>4, <3>1 DEF Bytes
    <3>3. QED
      BY <3>1, <3>2 DEF LineIn
  <2>3. QED
    BY <2>1, <2>2
<1>12. QED
  BY <1>10, <1>11 DEF Parsed

\* A worker parses nothing else that touches the line.
LEMMA LineOnly ==
    ASSUME IInv, CutInv, ~shrunk, NEW j \in Blocks, NEW l \in Parsed(j),
           NEW a \in 1..filesize, NEW b \in 1..filesize, Plain(a, b), Touches(l, a, b)
    PROVE  Covers(j, b) /\ l = LineIn(j, a, b)
<1>0. TypeOK /\ FileInv
  BY DEF IInv
<1>a. /\ j.offset \in Nat /\ j.length \in Nat /\ Read(j) \in Nat /\ Read(j) >= 1
      /\ j.offset + Read(j) <= j.offset + j.length
      /\ j.offset + Read(j) <= Len(text)
      /\ j.offset + Read(j) = j.offset + j.length \/ j.offset + Read(j) = Len(text)
      /\ Cut(j.offset) /\ Cut(j.offset + j.length)
  BY ReadLast
<1>o. PICK o \in Nat : o = j.offset
  BY <1>a
<1>q. PICK q \in Nat : q = j.offset + Read(j)
  BY <1>a
<1>e. PICK e \in Nat : e = j.offset + j.length
  BY <1>a
<1>1. /\ o \in Nat /\ q \in Nat /\ e \in Nat /\ q >= o + 1 /\ q <= Len(text) /\ q <= e
      /\ q = e \/ q = Len(text)
      /\ Cut(o) /\ Cut(e)
  BY <1>a, <1>o, <1>q, <1>e
<1>2. /\ a \in Nat /\ b \in Nat /\ a >= 1 /\ a + 3 <= b /\ text[b] = "nl" /\ b <= Len(text)
      /\ \A p \in Nat : a <= p /\ p < b => text[p] # "nl"
      /\ a = 1 \/ text[a - 1] = "nl"
      /\ \A p \in Nat : p >= 1 /\ p <= Len(text) => text[p] \in Bytes
  BY <1>0, PlainBytes
<1>4. \A p \in Nat : p # q => Seen(j, p) = text[p]
  BY <1>q DEF Seen
<1>5. Seen(j, q) = "nul"
  BY <1>q DEF Seen
<1>6. PICK r \in Pieces(j) :
        l = [first |-> r.first, last |-> IF Seen(j, r.last) = "nul" THEN r.last - 1 ELSE r.last]
  BY DEF Parsed
<1>7. /\ r.first \in (o + 1)..q /\ r.last \in (o + 1)..q /\ r.first < r.last
      /\ \A p \in r.first..r.last : Seen(j, p) # "nl"
      /\ r.first = o + 1 \/ Seen(j, r.first - 1) = "nl"
      /\ r.last = q \/ Seen(j, r.last + 1) = "nl"
  BY <1>o, <1>q DEF Pieces
<1>f. PICK rf \in Nat : rf = r.first
  BY <1>1, <1>7
<1>l. PICK rl \in Nat : rl = r.last
  BY <1>1, <1>7
<1>8. /\ o + 1 <= rf /\ rl <= q /\ rf < rl
      /\ \A p \in Nat : rf <= p /\ p <= rl => Seen(j, p) # "nl"
      /\ rf = o + 1 \/ Seen(j, rf - 1) = "nl"
      /\ rl = q \/ Seen(j, rl + 1) = "nl"
  BY <1>1, <1>7, <1>f, <1>l
<1>9. /\ l.first = rf
      /\ \/ rl = q /\ l.last = q - 1
         \/ rl # q /\ l.last = rl
  <2>1. l.first = rf /\ l.last = IF Seen(j, rl) = "nul" THEN rl - 1 ELSE rl
    BY <1>6, <1>f, <1>l
  <2>2. CASE rl = q
    BY <1>5, <2>1, <2>2
  <2>3. CASE rl # q
    <3>1. rl >= 1 /\ rl <= Len(text)
      BY <1>1, <1>2, <1>8
    <3>2. Seen(j, rl) = text[rl] /\ text[rl] \in Bytes
      BY <1>2, <1>4, <2>3, <3>1
    <3>3. QED
      BY <2>1, <2>3, <3>2 DEF Bytes
  <2>4. QED
    BY <2>2, <2>3
<1>10. rl # q => rl + 1 < q /\ text[rl + 1] = "nl"
  <2>1. SUFFICES ASSUME rl # q PROVE rl + 1 < q /\ text[rl + 1] = "nl"
    OBVIOUS
  <2>2. Seen(j, rl + 1) = "nl"
    BY <1>8, <2>1
  <2>3. rl + 1 # q
    BY <1>5, <2>2
  <2>4. rl + 1 \in Nat /\ rl + 1 < q
    BY <1>8, <2>1, <2>3
  <2>5. QED
    BY <1>4, <2>2, <2>3, <2>4
<1>11. PICK ll \in Nat : ll = l.last
  BY <1>8, <1>9
<1>12. /\ ll >= a /\ rf <= b
       /\ \/ rl = q /\ ll = q - 1
          \/ rl # q /\ ll = rl
  BY <1>9, <1>11 DEF Touches
<1>13. ll <= b - 1
  <2>1. SUFFICES ASSUME ll >= b PROVE FALSE
    BY <1>2
  <2>2. b # q /\ rf <= b /\ b <= rl
    BY <1>2, <1>8, <1>12, <2>1
  <2>3. Seen(j, b) = "nl" /\ Seen(j, b) # "nl"
    BY <1>2, <1>4, <1>8, <2>2
  <2>4. QED
    BY <2>3
<1>14. ll >= b - 1
  <2>1. SUFFICES ASSUME ll < b - 1 PROVE FALSE
    BY <1>2
  <2>2. CASE rl # q
    <3>1. rl + 1 \in Nat /\ a <= rl + 1 /\ rl + 1 < b /\ text[rl + 1] = "nl"
      BY <1>2, <1>10, <1>12, <2>1, <2>2
    <3>2. QED
      BY <1>2, <3>1
  <2>3. CASE rl = q
    <3>1. a < q /\ q < b
      BY <1>2, <1>12, <2>1, <2>3
    <3>2. e = q
      BY <1>1, <1>2, <3>1
    <3>3. q <= a
      BY <1>0, <1>1, <3>1, <3>2, CutOutside
    <3>4. QED
      BY <1>2, <3>1, <3>3
  <2>4. QED
    BY <2>2, <2>3
<1>15. /\ ll = b - 1 /\ b <= q /\ o < b
       /\ rl = b \/ rl = b - 1
  <2>1. ll = b - 1
    BY <1>2, <1>13, <1>14
  <2>2. CASE rl = q
    <3>1. b = q
      BY <1>1, <1>2, <1>12, <2>1, <2>2
    <3>2. rl = b /\ b <= q
      BY <2>2, <3>1
    <3>3. o < b
      BY <1>8, <3>2
    <3>4. QED
      BY <2>1, <3>2, <3>3
  <2>3. CASE rl # q
    <3>1. rl = b - 1 /\ rl + 1 < q
      BY <1>2, <1>10, <1>12, <2>1, <2>3
    <3>2. b <= q
      BY <1>2, <3>1
    <3>3. o < b
      BY <1>2, <1>8, <3>1
    <3>4. QED
      BY <2>1, <3>1, <3>2, <3>3
  <2>4. QED
    BY <2>2, <2>3
<1>16. Covers(j, b)
  <2>1. b <= e
    BY <1>1, <1>2, <1>15
  <2>2. QED
    BY <1>15, <2>1, <1>o, <1>e DEF Covers
<1>17. o <= a
  BY <1>0, <1>1, <1>15, CutOutside
<1>18. PICK f \in Nat : f = IF o = a THEN a + 1 ELSE a
  BY <1>2
<1>19. f >= o + 1 /\ f >= a /\ f <= a + 1
  BY <1>2, <1>17, <1>18
<1>20. rf <= f
  <2>1. SUFFICES ASSUME rf > f PROVE FALSE
    OBVIOUS
  <2>2. PICK p \in Nat : rf = p + 1
    BY <1>19, <2>1, <1>2
  <2>3. a <= p /\ p < b /\ rf # o + 1 /\ p # q /\ rf - 1 = p
    BY <1>2, <1>8, <1>15, <1>19, <2>1, <2>2
  <2>4. text[p] = "nl"
    BY <1>4, <1>8, <2>3
  <2>5. QED
    BY <1>2, <2>3, <2>4
<1>21. rf >= f
  <2>1. SUFFICES ASSUME rf < f PROVE FALSE
    OBVIOUS
  <2>2. f = a /\ a # 1
    BY <1>2, <1>8, <1>17, <1>18, <2>1
  <2>3. PICK p \in Nat : a = p + 1
    BY <1>2
  <2>4. p = a - 1 /\ rf <= p /\ p <= rl /\ p # q
    BY <1>2, <1>8, <1>15, <2>1, <2>2, <2>3
  <2>5. Seen(j, p) = "nl" /\ Seen(j, p) # "nl"
    BY <1>2, <1>4, <1>8, <2>2, <2>4
  <2>6. QED
    BY <2>5
<1>22. l.first = f /\ l.last = b - 1
  <2>1. rf = f
    BY <1>20, <1>21
  <2>2. QED
    BY <1>9, <1>11, <1>15, <2>1
<1>23. l = LineIn(j, a, b)
  BY <1>6, <1>22, <1>o, <1>18 DEF LineIn
<1>24. QED
  BY <1>16, <1>23

LEMMA PartsInit == Init => PartsInv
<1> SUFFICES ASSUME Init PROVE PartsInv
  OBVIOUS
<1>1. Blocks = {} /\ offset = 0 /\ mpc = "next" /\ lines = {}
  BY DEF Init, Blocks
<1>2. CutInv
  BY <1>1 DEF CutInv, Cut
<1>3. TileInv
  BY <1>1 DEF TileInv
<1>4. ParsedInv
  BY <1>1 DEF ParsedInv
<1>5. QED
  BY <1>2, <1>3, <1>4 DEF PartsInv

\* While nobody sends, reads or writes, the lines stay as they are.
LEMMA ParsedStill ==
    ASSUME ParsedInv, UNCHANGED <<text, filesize, shrunk, sent, jobs, lines>>
    PROVE  ParsedInv'
<1>1. Blocks' = Blocks
  BY DEF Blocks
<1>2. ASSUME NEW a, NEW b
      PROVE  Plain(a, b)' <=> Plain(a, b)
  BY DEF Plain, Line
<1>3. QED
  BY <1>1, <1>2 DEF ParsedInv, Covers, LineIn, Touches

LEMMA PartsMaster ==
    ASSUME IInv, PartsInv, NextBlock \/ Expand
    PROVE  PartsInv'
<1>0. TypeOK /\ SearchInv /\ FileInv /\ CutInv /\ TileInv /\ ParsedInv
  BY DEF IInv, PartsInv
<1>1. UNCHANGED <<text, filesize, changes, shrunk, offset, sent, jobs, lines>>
  BY DEF NextBlock, Expand, fileVars
<1>2. Blocks' = Blocks
  BY <1>1 DEF Blocks
<1>3. ParsedInv'
  BY <1>0, <1>1, ParsedStill
<1>4. TileInv'
  <2>1. mpc' = "done" => offset >= filesize
    <3>1. SUFFICES ASSUME mpc' = "done" PROVE offset >= filesize
      OBVIOUS
    <3>2. ~Expand
      BY <3>1 DEF Expand
    <3>3. ~(offset < filesize)
      BY <3>1, <3>2 DEF NextBlock, More
    <3>4. QED
      BY <1>0, <3>3 DEF TypeOK
  <2>2. QED
    BY <1>0, <1>1, <1>2, <2>1 DEF TileInv, Covers
<1>5. CutInv'
  <2>1. SUFFICES ASSUME ~shrunk PROVE CutInv'
    BY <1>1 DEF CutInv
  <2>2. \A e \in Nat : Cut(e)' <=> Cut(e)
    BY <1>1 DEF Cut
  <2>3. PICK o \in Nat, n \in Nat, size \in Nat :
            o = offset /\ n = Len(text) /\ size = filesize
    BY <1>0 DEF TypeOK
  <2>4. mpc' = "send" => \E e \in Nat : e = offset' + len' /\ Cut(e)
    <3>1. SUFFICES ASSUME mpc' = "send" PROVE \E e \in Nat : e = offset' + len' /\ Cut(e)
      OBVIOUS
    <3>2. Expand
      BY <3>1 DEF NextBlock
    <3>3. PICK k \in Nat : k = len /\ k >= 1
      BY <1>0, <3>2, Sizes DEF SearchInv, TypeOK, Expand
    <3>4. \/ Ch = "nl" /\ len' = k + 1
          \/ Ch = "EOF" /\ len' = k
          \/ Ch = "c" /\ mpc' = "expand" /\ len' = k + 1
      BY <3>1, <3>2, <3>3 DEF Expand
    <3>5. PICK p \in Nat : p = o + k /\ p >= 1
      BY <3>3
    <3>6. CASE Ch = "nl"
      <4>1. p <= n /\ text[p] = "nl"
        BY <2>3, <3>3, <3>5, <3>6 DEF Ch
      <4>2. p + 1 \in Nat /\ (p + 1) - 1 = p /\ p \in 1..n /\ o + (k + 1) = p + 1
        BY <3>5, <4>1
      <4>3. Cut(p + 1)
        BY <2>3, <4>1, <4>2 DEF Cut
      <4>4. offset' + len' = p + 1
        BY <1>1, <2>3, <3>4, <3>6, <4>2
      <4>5. QED
        BY <4>2, <4>3, <4>4
    <3>7. CASE Ch = "EOF"
      <4>1. p > n \/ (text[p] = "ff" /\ p <= n)
        <5>1. p <= n => text[p] \in Bytes
          BY <1>0, <2>3, <3>5 DEF TypeOK
        <5>2. p > n \/ text[p] = "ff" \/ text[p] = "EOF"
          BY <2>3, <3>3, <3>5, <3>7 DEF Ch
        <5>3. QED
          BY <3>5, <5>1, <5>2 DEF Bytes
      <4>2. size <= n
        BY <1>0, <2>1, <2>3 DEF FileInv
      <4>3. p > size \/ (p \in 1..n /\ text[p] = "ff")
        BY <3>5, <4>1, <4>2
      <4>4. Cut(p)
        BY <2>3, <4>3 DEF Cut
      <4>5. offset' + len' = p
        BY <1>1, <2>3, <3>4, <3>5, <3>7
      <4>6. QED
        BY <4>4, <4>5
    <3>8. QED
      BY <3>1, <3>4, <3>6, <3>7
  <2>5. Cut(offset)' /\ (mpc' = "send" => Cut(offset + len)')
    BY <1>0, <1>1, <2>1, <2>2, <2>3, <2>4 DEF CutInv, Cut
  <2>6. \A j \in Blocks : Cut(j.offset)' /\ Cut(j.offset + j.length)'
    BY <1>0, <1>1, <2>1 DEF CutInv, Cut
  <2>7. QED
    BY <1>2, <2>5, <2>6 DEF CutInv
<1>6. QED
  BY <1>3, <1>4, <1>5 DEF PartsInv

LEMMA PartsSend ==
    ASSUME IInv, PartsInv, SendBlock
    PROVE  PartsInv'
<1>0. TypeOK /\ BlocksInv /\ CutInv /\ TileInv /\ ParsedInv
  BY DEF IInv, PartsInv
<1>1. /\ mpc = "send" /\ mpc' = "next" /\ sent' = Append(sent, Job)
      /\ jobs' = jobs \cup {Job} /\ offset' = offset + len
      /\ UNCHANGED <<text, filesize, changes, shrunk, lines>>
  BY DEF SendBlock, fileVars, Job
<1>2. PICK o \in Nat, k \in Nat : o = offset /\ k = len /\ Job = [offset |-> o, length |-> k]
  BY <1>0 DEF TypeOK, Job
<1>3. Blocks' = Blocks \cup {Job}
  <2>1. /\ Len(sent') = Len(sent) + 1 /\ Len(sent) \in Nat
        /\ sent'[Len(sent) + 1] = Job
        /\ \A i \in 1..Len(sent) : sent'[i] = sent[i]
    BY <1>0, <1>1, <1>2 DEF TypeOK
  <2>2. Blocks' = {sent'[i] : i \in 1..(Len(sent) + 1)}
    BY <2>1 DEF Blocks
  <2>3. \A x : x \in Blocks' <=> x \in Blocks \/ x = Job
    BY <2>1, <2>2 DEF Blocks
  <2>4. QED
    BY <2>3
<1>4. \A j \in Blocks : j.offset \in Nat /\ j.length \in Nat
  BY <1>0, BlockTypes
<1>5. CutInv'
  <2>1. SUFFICES ASSUME ~shrunk PROVE CutInv'
    BY <1>1 DEF CutInv
  <2>2. Cut(offset) /\ Cut(offset + len)
    BY <1>0, <1>1, <2>1 DEF CutInv
  <2>3. Cut(offset)'
    BY <1>1, <2>2 DEF Cut
  <2>4. ASSUME NEW j \in Blocks'
        PROVE  Cut(j.offset)' /\ Cut(j.offset + j.length)'
    <3>1. Cut(j.offset) /\ Cut(j.offset + j.length)
      BY <1>0, <1>2, <1>3, <2>1, <2>2, <2>4 DEF CutInv
    <3>2. QED
      BY <1>1, <3>1 DEF Cut
  <2>5. QED
    BY <1>1, <2>3, <2>4 DEF CutInv
<1>6. TileInv'
  <2>1. Job.offset = o /\ Job.length = k /\ offset' = o + k
    BY <1>1, <1>2
  <2>2. \A j \in Blocks' : j.offset + j.length <= offset'
    <3>1. ASSUME NEW j \in Blocks
          PROVE  j.offset + j.length <= offset'
      <4>1. PICK x \in Nat : x = j.offset + j.length
        BY <1>4
      <4>2. x <= o
        BY <1>0, <1>2, <4>1 DEF TileInv
      <4>3. QED
        BY <2>1, <4>1, <4>2
    <3>2. QED
      BY <1>3, <2>1, <3>1
  <2>3. ASSUME NEW p \in 1..offset'
        PROVE  \E j \in Blocks' : Covers(j, p)
    <3>1. p \in Nat /\ p >= 1 /\ p <= o + k
      BY <2>1
    <3>2. CASE p <= o
      BY <1>0, <1>2, <1>3, <3>1, <3>2 DEF TileInv
    <3>3. CASE p > o
      <4>1. Covers(Job, p)
        BY <2>1, <3>1, <3>3 DEF Covers
      <4>2. QED
        BY <1>3, <4>1
    <3>4. QED
      BY <3>1, <3>2, <3>3
  <2>4. \A i, j \in Blocks' : \/ i = j
                              \/ i.offset + i.length <= j.offset
                              \/ j.offset + j.length <= i.offset
    BY <1>0, <1>2, <1>3, <2>1 DEF TileInv
  <2>5. QED
    BY <1>1, <2>2, <2>3, <2>4 DEF TileInv, Covers
<1>7. ParsedInv'
  <2>1. ASSUME ~shrunk, NEW a \in 1..filesize, NEW b \in 1..filesize, Plain(a, b)
        PROVE  /\ \A j \in Blocks' \ jobs' : Covers(j, b) => LineIn(j, a, b) \in lines
               /\ \A l \in lines :
                     Touches(l, a, b) => \E j \in Blocks' : Covers(j, b) /\ l = LineIn(j, a, b)
    BY <1>0, <1>1, <1>3, <2>1 DEF ParsedInv
  <2>2. ASSUME NEW a, NEW b
        PROVE  Plain(a, b)' <=> Plain(a, b)
    BY <1>1 DEF Plain, Line
  <2>3. QED
    BY <1>1, <2>1, <2>2 DEF ParsedInv, Covers, LineIn, Touches
<1>8. QED
  BY <1>5, <1>6, <1>7 DEF PartsInv

LEMMA PartsRead ==
    ASSUME IInv, PartsInv, NEW i \in jobs, ReadBlock(i)
    PROVE  PartsInv'
<1>0. TypeOK /\ CutInv /\ TileInv /\ ParsedInv
  BY DEF IInv, PartsInv
<1>1. /\ UNCHANGED <<text, filesize, changes, shrunk, mpc, offset, len, limit, sent>>
      /\ jobs' = jobs \ {i} /\ lines' = lines \cup Parsed(i)
      /\ i \in Blocks
  BY <1>0 DEF ReadBlock, fileVars, masterVars, TypeOK
<1>2. Blocks' = Blocks
  BY <1>1 DEF Blocks
<1>3. CutInv' /\ TileInv'
  BY <1>0, <1>1, <1>2 DEF CutInv, TileInv, Cut, Covers
<1>4. ASSUME ~shrunk, NEW a \in 1..filesize, NEW b \in 1..filesize, Plain(a, b)
      PROVE  /\ \A j \in Blocks \ jobs' : Covers(j, b) => LineIn(j, a, b) \in lines'
             /\ \A l \in lines' :
                   Touches(l, a, b) => \E j \in Blocks : Covers(j, b) /\ l = LineIn(j, a, b)
  <2>1. ASSUME NEW j \in Blocks \ jobs', Covers(j, b)
        PROVE  LineIn(j, a, b) \in lines'
    <3>1. CASE j = i
      BY <1>0, <1>1, <1>4, <2>1, <3>1, LineParsed
    <3>2. CASE j # i
      BY <1>0, <1>1, <1>4, <2>1, <3>2 DEF ParsedInv
    <3>3. QED
      BY <3>1, <3>2
  <2>2. ASSUME NEW l \in lines', Touches(l, a, b)
        PROVE  \E j \in Blocks : Covers(j, b) /\ l = LineIn(j, a, b)
    <3>1. CASE l \in lines
      BY <1>0, <1>4, <2>2, <3>1 DEF ParsedInv
    <3>2. CASE l \in Parsed(i)
      BY <1>0, <1>1, <1>4, <2>2, <3>2, LineOnly
    <3>3. QED
      BY <1>1, <3>1, <3>2
  <2>3. QED
    BY <2>1, <2>2
<1>5. ASSUME NEW a, NEW b
      PROVE  Plain(a, b)' <=> Plain(a, b)
  BY <1>1 DEF Plain, Line
<1>6. ParsedInv'
  BY <1>1, <1>2, <1>4, <1>5 DEF ParsedInv, Covers, LineIn, Touches
<1>7. QED
  BY <1>3, <1>6 DEF PartsInv

LEMMA PartsChange ==
    ASSUME IInv, PartsInv, Grow \/ Truncate
    PROVE  PartsInv'
<1>0. TypeOK /\ FileInv /\ CutInv /\ TileInv /\ ParsedInv
  BY DEF IInv, PartsInv
<1>1. UNCHANGED <<filesize, mpc, offset, len, limit, sent, jobs, lines>>
  BY DEF Grow, Truncate, masterVars
<1>2. Blocks' = Blocks
  BY <1>1 DEF Blocks
<1>3. TileInv'
  BY <1>0, <1>1, <1>2 DEF TileInv, Covers
<1>4. CASE Truncate
  BY <1>3, <1>4 DEF Truncate, PartsInv, CutInv, ParsedInv
<1>5. CASE Grow
  <2>1. PICK c \in Bytes : text' = Append(text, c)
    BY <1>5 DEF Grow
  <2>2. shrunk' = shrunk
    BY <1>5 DEF Grow
  <2>3. PICK n \in Nat, size \in Nat : n = Len(text) /\ size = filesize
    BY <1>0 DEF TypeOK
  <2>4. Len(text') = n + 1 /\ \A p \in 1..n : text'[p] = text[p]
    BY <1>0, <2>1, <2>3 DEF TypeOK
  <2>5. \A p \in 1..n : p \in 1..Len(text')
    BY <2>4
  <2>6. ASSUME NEW e, Cut(e)
        PROVE  Cut(e)'
    BY <1>1, <2>3, <2>4, <2>5, <2>6 DEF Cut
  <2>7. CutInv'
    <3>1. SUFFICES ASSUME ~shrunk PROVE CutInv'
      BY <2>2 DEF CutInv
    <3>2. Cut(offset)' /\ (mpc' = "send" => Cut(offset + len)')
      <4>1. Cut(offset) /\ (mpc = "send" => Cut(offset + len))
        BY <1>0, <3>1 DEF CutInv
      <4>2. PICK o \in Nat, k \in Nat : o = offset /\ k = len
        BY <1>0 DEF TypeOK
      <4>3. Cut(o)' /\ (mpc = "send" => Cut(o + k)')
        BY <2>6, <4>1, <4>2
      <4>4. QED
        BY <1>1, <4>2, <4>3 DEF Cut
    <3>3. \A j \in Blocks : Cut(j.offset)' /\ Cut(j.offset + j.length)'
      BY <1>0, <2>6, <3>1 DEF CutInv
    <3>4. QED
      BY <1>2, <3>2, <3>3 DEF CutInv
  <2>8. ASSUME ~shrunk, NEW a \in 1..filesize, NEW b \in 1..filesize, Plain(a, b)'
        PROVE  Plain(a, b)
    <3>1. size <= n /\ a \in Nat /\ b \in Nat /\ a >= 1 /\ b <= size /\ a + 3 <= b
      BY <1>0, <2>3, <2>8 DEF FileInv, Plain
    <3>2. \A p \in a..b : p \in 1..n
      BY <3>1
    <3>3. b \in 1..n /\ \A p \in a..(b - 1) : p \in 1..n
      BY <3>1
    <3>4. a # 1 => a - 1 \in 1..n
      BY <3>1
    <3>5. QED
      BY <2>4, <2>8, <3>2, <3>3, <3>4 DEF Plain, Line
  <2>9. ParsedInv'
    BY <1>0, <1>1, <1>2, <2>2, <2>8 DEF ParsedInv, Covers, LineIn, Touches
  <2>10. QED
    BY <1>3, <2>7, <2>9 DEF PartsInv
<1>6. QED
  BY <1>4, <1>5

LEMMA PartsInductive == Spec => []PartsInv
<1>1. IInv /\ PartsInv /\ [Next]_vars => PartsInv'
  <2> SUFFICES ASSUME IInv, PartsInv, [Next]_vars PROVE PartsInv'
    OBVIOUS
  <2>1. CASE UNCHANGED vars
    <3>1. UNCHANGED <<text, filesize, shrunk, mpc, offset, len, sent, jobs, lines>>
      BY <2>1 DEF vars, fileVars, masterVars
    <3>2. ParsedInv'
      BY <3>1, ParsedStill DEF PartsInv
    <3>3. CutInv' /\ TileInv'
      BY <3>1 DEF PartsInv, CutInv, TileInv, Cut, Covers, Blocks
    <3>4. QED
      BY <3>2, <3>3 DEF PartsInv
  <2>2. QED
    BY <2>1, PartsMaster, PartsSend, PartsRead, PartsChange DEF Next
<1>2. QED
  BY <1>1, PartsInit, Inductive, PTL DEF Spec

-----------------------------------------------------------------------------
\* Every variable keeps its type, and _expand_limit stays at -1 or above
\* (main.c:433-451).
THEOREM TypeCorrect == Spec => []TypeOK
<1>1. IInv => TypeOK
  BY DEF IInv
<1>2. QED
  BY <1>1, Inductive, PTL

\* No job is as long as the buffer of block_size + page_size bytes the workers
\* allocate (main.c:200-218, 433-454).
THEOREM JobFits == Spec => []JobFitsBuffer
<1>1. IInv => JobFitsBuffer
  <2> SUFFICES ASSUME IInv, NEW j \in Blocks
               PROVE  j.length < BlockSize + PageSize
    BY DEF JobFitsBuffer
  <2>1. j.length \in Nat /\ j.length <= BlockSize + ExpandLimit + 1
    BY BlockTypes DEF IInv
  <2>2. QED
    BY <2>1, Sizes
<1>2. QED
  BY <1>1, Inductive, PTL

\* The master gives up on a line longer than its limit, and on nothing else
\* (main.c:446-451).
THEOREM GivesUpRightly == Spec => []GivesUpOnLongLineOnly
<1>1. IInv => GivesUpOnLongLineOnly
  <2> SUFFICES ASSUME IInv, mpc = "failed", changes = 0
               PROVE  \E a \in 1..Len(text) :
                          /\ a + ExpandLimit <= Len(text)
                          /\ \A p \in a..(a + ExpandLimit) : text[p] # "nl"
    BY DEF GivesUpOnLongLineOnly
  <2>1. /\ len = BlockSize + ExpandLimit + 1 /\ offset \in Nat /\ Len(text) \in Nat
        /\ \A p \in Nat : p >= offset + BlockSize /\ p < offset + len =>
               p <= Len(text) /\ text[p] = "c"
    BY DEF IInv, SearchInv, PassedInv, TypeOK
  <2> DEFINE a == offset + BlockSize
  <2>2. a \in Nat /\ a >= 1 /\ a + ExpandLimit \in Nat /\ a + ExpandLimit < offset + len
    BY <2>1, Sizes
  <2>3. a + ExpandLimit <= Len(text) /\ a \in 1..Len(text)
    BY <2>1, <2>2, Sizes
  <2>4. \A p \in a..(a + ExpandLimit) : text[p] # "nl"
    BY <2>1, <2>2, Sizes
  <2>5. QED
    BY <2>3, <2>4
<1>2. QED
  BY <1>1, Inductive, PTL

\* A worker writes in front of its buffer only when the log was truncated
\* (main.c:245-252).
THEOREM WildWrite == Spec => []WildWriteNeedsTruncation
<1>1. IInv => WildWriteNeedsTruncation
  BY DEF IInv, FileInv, WildWriteNeedsTruncation
<1>2. QED
  BY <1>1, Inductive, PTL
\* Every line of three bytes or more that was complete when the size was taken,
\* has no byte 0xFF and stays in the file is parsed by exactly one worker, as
\* one piece that misses at most its first byte: the blocks the master cuts
\* (main.c:435-470) tile the file, one block holds the line's newline, its
\* worker finds the line, and no other worker finds a part of it (239-269).
THEOREM EachLineOnce == Spec => []LinesParsedOnce
<1>1. IInv /\ PartsInv => LinesParsedOnce
  <2> SUFFICES ASSUME IInv, PartsInv, mpc = "done", jobs = {}, ~shrunk,
                      NEW a \in 1..filesize, NEW b \in 1..filesize, Plain(a, b)
               PROVE  /\ \E l \in lines : l.first \in {a, a + 1} /\ l.last = b - 1
                      /\ \A k, l \in lines :
                            k.last >= a /\ k.first <= b /\ l.last >= a /\ l.first <= b => k = l
    BY DEF LinesParsedOnce, Plain
  <2>1. TypeOK /\ TileInv /\ ParsedInv
    BY DEF IInv, PartsInv
  <2>2. b \in 1..offset
    <3>1. offset >= filesize /\ offset \in Nat /\ filesize \in Nat
      BY <2>1 DEF TileInv, TypeOK
    <3>2. QED
      BY <3>1
  <2>3. PICK j \in Blocks : Covers(j, b)
    BY <2>1, <2>2 DEF TileInv
  <2>4. LineIn(j, a, b) \in lines
    BY <2>1, <2>3 DEF ParsedInv
  <2>5. LineIn(j, a, b).first \in {a, a + 1} /\ LineIn(j, a, b).last = b - 1
    BY DEF LineIn
  <2>6. ASSUME NEW l \in lines, Touches(l, a, b)
        PROVE  l = LineIn(j, a, b)
    <3>1. PICK i \in Blocks : Covers(i, b) /\ l = LineIn(i, a, b)
      BY <2>1, <2>6 DEF ParsedInv
    <3>2. /\ i.offset \in Nat /\ i.length \in Nat /\ j.offset \in Nat /\ j.length \in Nat
          /\ b \in Nat
      BY <2>1, BlockTypes DEF IInv, TypeOK
    <3>3. i = j
      BY <2>1, <2>3, <3>1, <3>2 DEF TileInv, Covers
    <3>4. QED
      BY <3>1, <3>3
  <2>7. QED
    BY <2>4, <2>5, <2>6 DEF Touches
<1>2. QED
  BY <1>1, Inductive, PartsInductive, PTL

-----------------------------------------------------------------------------
(* The map *)

\* Every set of numbers has a least one.
LEMMA LeastNumber ==
  ASSUME NEW T \in SUBSET Nat, T # {}
  PROVE  \E x \in T : \A y \in T : x <= y
<1> DEFINE R == OpToRel(<, Nat)
<1>1. \E x \in T : \A y \in T : ~(<<y, x>> \in R)
  <2>1. IsWellFoundedOn(R, Nat)
    BY NatLessThanWellFounded
  <2> HIDE DEF R
  <2> QED
    BY <2>1, WFMin
<1>2. PICK x \in T : \A y \in T : ~(<<y, x>> \in R)
  BY <1>1
<1>3. \A y \in T : ~(y < x)
  BY <1>2 DEF OpToRel
<1> QED
  BY <1>3

\* Probing comes to every bucket.
LEMMA Division ==
  ASSUME NEW n \in Nat \ {0}, NEW a \in Nat
  PROVE  a \div n \in Nat /\ a % n \in 0..(n - 1) /\ a = n * (a \div n) + (a % n)
<1>1. a \div n \in Nat
  OBVIOUS
<1>2. a % n \in 0..(n - 1)
  OBVIOUS
<1>3. a = n * (a \div n) + (a % n)
  OBVIOUS
<1> QED
  BY <1>1, <1>2, <1>3

LEMMA Remainder ==
  ASSUME NEW n \in Nat \ {0}, NEW q \in Nat, NEW j \in 0..(n - 1)
  PROVE  (n * q + j) % n = j
OBVIOUS

LEMMA Around ==
  ASSUME NEW n \in Nat \ {0}, NEW a \in Nat, NEW j \in 0..(n - 1)
  PROVE  \E d \in 0..(n - 1) : (a + d) % n = j
<1>1. PICK q \in Nat, r \in 0..(n - 1) : a = n * q + r
  BY Division
<1>2. CASE j >= r
  <2>1. j - r \in 0..(n - 1) /\ a + (j - r) = n * q + j
    BY <1>1, <1>2
  <2> QED
    BY <2>1, Remainder
<1>3. CASE ~(j >= r)
  <2>1. PICK p \in Nat : p = q + 1
    OBVIOUS
  <2>2. n * p = n * q + n
    BY <2>1
  <2>3. j + n - r \in 0..(n - 1)
    BY <1>1, <1>3
  <2>4. a + (j + n - r) = n * p + j
    BY <1>1, <2>2
  <2> QED
    BY <2>1, <2>3, <2>4, Remainder
<1> QED
  BY <1>2, <1>3

\* A table: its buckets are those below n.
Table(n) == [n : {n}, buckets : [0..(n - 1) -> NodeKinds], elements : Nat]
TableSizes == Nat \ {0, 1}
KeysHashed == hash \in [Keys -> Nat]
\* The keys that have a node with that number.
Has(m, k, v) == \E i \in Nodes(m) : m.buckets[i].key = k /\ m.buckets[i].data = v
\* A node is where get stops for its key.
Chains(m) ==
  \A i \in Nodes(m) : \E d \in GetStop(m, m.buckets[i].key) : Place(m, m.buckets[i].key, d) = i

\* The three kinds of buckets.
LEMMA BucketKinds ==
  /\ Null \in NodeKinds /\ Hollow \in NodeKinds /\ IsVacant(Null) /\ IsVacant(Hollow)
  /\ \A k \in Keys, v \in Nat :
       /\ Node(k, v) \in NodeKinds /\ ~IsVacant(Node(k, v))
       /\ Node(k, v).key = k /\ Node(k, v).data = v
  /\ \A b \in NodeKinds : ~IsVacant(b) => b.key \in Keys /\ b.data \in Nat /\ b = Node(b.key, b.data)
BY DEF NodeKinds, Null, Hollow, Node, IsVacant

LEMMA Places ==
  ASSUME KeysHashed, NEW n \in TableSizes, NEW m \in Table(n), NEW k \in Keys
  PROVE  /\ m.n = n /\ Distances(m) = 0..(n - 1) /\ Distances(m) \subseteq Nat
         /\ \A d \in Nat : Place(m, k, d) \in 0..(n - 1) /\ At(m, k, d) \in NodeKinds
         /\ \A j \in 0..(n - 1) : \E d \in Distances(m) : Place(m, k, d) = j
<1>1. m.n = n /\ Distances(m) = 0..(n - 1) /\ m.buckets \in [0..(n - 1) -> NodeKinds] /\ hash[k] \in Nat
      /\ n \in Nat \ {0}
  BY DEF Table, Distances, KeysHashed, TableSizes
<1>2. ASSUME NEW d \in Nat PROVE Place(m, k, d) \in 0..(n - 1)
  <2>1. PICK a \in Nat : a = hash[k] + d
    BY <1>1
  <2>2. a % n \in 0..(n - 1)
    BY <1>1, Division
  <2> QED
    BY <1>1, <2>1, <2>2 DEF Place
<1>3. \A j \in 0..(n - 1) : \E d \in Distances(m) : Place(m, k, d) = j
  <2>1. PICK a \in Nat : a = hash[k]
    BY <1>1
  <2>2. \A j \in 0..(n - 1) : \E d \in 0..(n - 1) : (a + d) % n = j
    BY <1>1, Around
  <2> QED
    BY <1>1, <2>1, <2>2 DEF Place
<1>4. \A d \in Nat : Place(m, k, d) \in 0..(n - 1) /\ At(m, k, d) \in NodeKinds
  BY <1>1, <1>2 DEF At
<1>5. Distances(m) \subseteq Nat
  BY <1>1
<1> QED
  BY <1>1, <1>3, <1>4, <1>5

\* get stops at one bucket at most.
LEMMA OneStop ==
  ASSUME KeysHashed, NEW n \in TableSizes, NEW m \in Table(n), NEW k \in Keys,
         NEW d \in GetStop(m, k), NEW e \in GetStop(m, k)
  PROVE  d = e
<1>1. d \in Nat /\ e \in Nat
  BY Places DEF GetStop
<1>2. ASSUME NEW a \in GetStop(m, k), NEW b \in GetStop(m, k), a \in Nat, b \in Nat, a < b PROVE FALSE
  <2>1. a \in 0..(b - 1)
    BY <1>2
  <2> QED
    BY <1>2, <2>1 DEF GetStop
<1> QED
  BY <1>1, <1>2

\* What get finds are the nodes.
LEMMA Lookup ==
  ASSUME KeysHashed, NEW n \in TableSizes, NEW m \in Table(n), Chains(m), NEW k \in Keys
  PROVE  /\ \A i \in Nodes(m) : m.buckets[i].key = k => Found(m, k) /\ DataOf(m, k) = m.buckets[i].data
         /\ Found(m, k) => \E i \in Nodes(m) : m.buckets[i].key = k
         /\ \A i, j \in Nodes(m) : m.buckets[i].key = k /\ m.buckets[j].key = k => i = j
<1>1. ASSUME NEW i \in Nodes(m), m.buckets[i].key = k
      PROVE  /\ Found(m, k) /\ DataOf(m, k) = m.buckets[i].data
             /\ \A d \in GetStop(m, k) : Place(m, k, d) = i
  <2>1. PICK d \in GetStop(m, k) : Place(m, k, d) = i
    BY <1>1 DEF Chains
  <2>2. At(m, k, d) = m.buckets[i] /\ Holds(At(m, k, d), k)
    BY <1>1, <2>1 DEF At, Holds, Nodes
  <2>3. \A e \in GetStop(m, k) : e = d
    BY OneStop
  <2>4. (CHOOSE e \in GetStop(m, k) : TRUE) = d
    BY <2>1, <2>3
  <2>5. Found(m, k)
    BY <2>1, <2>2 DEF Found
  <2>6. DataOf(m, k) = m.buckets[i].data
    BY <2>2, <2>4, <2>5 DEF DataOf
  <2> QED
    BY <2>1, <2>3, <2>5, <2>6
<1>2. ASSUME Found(m, k) PROVE \E i \in Nodes(m) : m.buckets[i].key = k
  <2>1. PICK d \in GetStop(m, k) : Holds(At(m, k, d), k)
    BY <1>2 DEF Found
  <2>2. d \in Nat
    BY Places DEF GetStop
  <2>3. Place(m, k, d) \in 0..(m.n - 1)
    BY <2>2, Places
  <2> QED
    BY <2>1, <2>3 DEF At, Holds, Nodes
<1>3. \A i, j \in Nodes(m) : m.buckets[i].key = k /\ m.buckets[j].key = k => i = j
  <2>1. SUFFICES ASSUME NEW i \in Nodes(m), NEW j \in Nodes(m), m.buckets[i].key = k, m.buckets[j].key = k
                 PROVE  i = j
    OBVIOUS
  <2>2. PICK d \in GetStop(m, k) : Place(m, k, d) = i
    BY <2>1 DEF Chains
  <2> QED
    BY <1>1, <2>1, <2>2
<1> QED
  BY <1>1, <1>2, <1>3

\* A vacant bucket j becomes a node for a key that has none.
LEMMA NodeAdded ==
  ASSUME KeysHashed, NEW n \in TableSizes, NEW m \in Table(n), Chains(m), NEW k \in Keys, NEW v \in Nat,
         ~Found(m, k), NEW d \in SetStop(m, k), NEW r \in Table(n),
         r.buckets[Place(m, k, d)] = Node(k, v),
         \A i \in 0..(n - 1) : i # Place(m, k, d) => r.buckets[i] = m.buckets[i]
  PROVE  /\ Chains(r)
         /\ Nodes(r) = Nodes(m) \cup {Place(m, k, d)} /\ Place(m, k, d) \notin Nodes(m)
         /\ \A i \in Nodes(m) : r.buckets[i] = m.buckets[i]
         /\ r.buckets[Place(m, k, d)] = Node(k, v)
<1> DEFINE p == Place(m, k, d)
<1>1. /\ d \in Distances(m) /\ d \in Nat /\ IsVacant(At(m, k, d))
      /\ \A e \in 0..(d - 1) : ~IsVacant(At(m, k, e))
  BY Places DEF SetStop
<1>2. p \in 0..(n - 1) /\ m.n = n /\ r.n = n
  BY <1>1, Places
<1>3. /\ m.buckets \in [0..(n - 1) -> NodeKinds] /\ r.buckets \in [0..(n - 1) -> NodeKinds]
      /\ r.buckets[p] = Node(k, v) /\ \A i \in 0..(n - 1) : i # p => r.buckets[i] = m.buckets[i]
  BY <1>2 DEF Table
<1>4. IsVacant(m.buckets[p]) /\ ~IsVacant(r.buckets[p])
  BY <1>1, <1>3, BucketKinds DEF At
<1>5. Nodes(r) = Nodes(m) \cup {p} /\ p \notin Nodes(m) /\ \A i \in Nodes(m) : r.buckets[i] = m.buckets[i]
  BY <1>2, <1>3, <1>4 DEF Nodes
<1>6. /\ \A key, e : Place(r, key, e) = Place(m, key, e)
      /\ Distances(r) = Distances(m)
  BY <1>2 DEF Place, Distances
\* No chain passed the vacant bucket.
<1>7. ASSUME NEW i \in Nodes(m)
      PROVE  \E e \in GetStop(r, m.buckets[i].key) : Place(r, m.buckets[i].key, e) = i
  <2>1. PICK key \in Keys : key = m.buckets[i].key
    BY <1>2, <1>3, BucketKinds DEF Nodes
  <2>2. PICK e \in GetStop(m, key) : Place(m, key, e) = i
    BY <2>1 DEF Chains
  <2>3. e \in Distances(m) /\ e \in Nat
    BY Places DEF GetStop
  <2>4. \A f \in 0..(e - 1) : ~IsVacant(At(m, key, f)) /\ ~Holds(At(m, key, f), key)
    BY <2>2 DEF GetStop
  <2>5. \A f \in 0..(e - 1) : At(r, key, f) = At(m, key, f)
    <3>1. SUFFICES ASSUME NEW f \in 0..(e - 1) PROVE At(r, key, f) = At(m, key, f)
      OBVIOUS
    <3>2. f \in Nat /\ Place(m, key, f) \in 0..(n - 1)
      BY <2>3, Places
    <3>3. Place(m, key, f) # p
      BY <1>4, <2>4 DEF At
    <3> QED
      BY <1>3, <1>6, <3>2, <3>3 DEF At
  <2>6. At(r, key, e) = At(m, key, e) /\ Holds(At(m, key, e), key)
    <3>1. At(m, key, e) = m.buckets[i] /\ At(r, key, e) = r.buckets[i]
      BY <1>6, <2>2 DEF At
    <3> QED
      BY <1>5, <2>1, <3>1 DEF Holds, Nodes
  <2>7. e \in GetStop(r, key)
    BY <1>6, <2>3, <2>4, <2>5, <2>6 DEF GetStop
  <2> QED
    BY <1>6, <2>1, <2>2, <2>7
\* The new node: no bucket before has its key, or get would have found it.
<1>8. \A e \in 0..(d - 1) : ~Holds(At(m, k, e), k)
  <2> DEFINE T == {e \in 0..(d - 1) : Holds(At(m, k, e), k)}
  <2>1. SUFFICES ASSUME T # {} PROVE FALSE
    OBVIOUS
  <2>2. PICK e \in T : \A f \in T : e <= f
    <3>1. T \in SUBSET Nat
      BY <1>1
    <3> HIDE DEF T
    <3> QED
      BY <2>1, <3>1, LeastNumber
  <2>3. e \in Distances(m) /\ e \in Nat /\ e < d
    <3>1. Distances(m) = 0..(n - 1) /\ n \in Nat
      BY Places DEF TableSizes
    <3>2. e \in 0..(d - 1) /\ d \in 0..(n - 1)
      BY <1>1, <2>2, <3>1
    <3> QED
      BY <3>1, <3>2
  <2>4. \A f \in 0..(e - 1) : f \in 0..(d - 1) /\ ~(e <= f)
    BY <1>1, <2>3
  <2>5. \A f \in 0..(e - 1) : ~IsVacant(At(m, k, f)) /\ ~Holds(At(m, k, f), k)
    BY <1>1, <2>2, <2>4
  <2>6. e \in GetStop(m, k)
    BY <2>2, <2>3, <2>5 DEF GetStop
  <2> QED
    BY <2>2, <2>6 DEF Found
<1>9. \E e \in GetStop(r, k) : Place(r, k, e) = p
  <2>1. \A e \in 0..(d - 1) : At(r, k, e) = At(m, k, e)
    <3>1. SUFFICES ASSUME NEW e \in 0..(d - 1) PROVE At(r, k, e) = At(m, k, e)
      OBVIOUS
    <3>2. e \in Nat
      BY <1>1
    <3>3. Place(m, k, e) \in 0..(n - 1)
      BY <3>2, Places
    <3>4. Place(m, k, e) # p
      BY <1>1, <1>4 DEF At
    <3> QED
      BY <1>3, <1>6, <3>3, <3>4 DEF At
  <2>2. Holds(At(r, k, d), k)
    BY <1>3, <1>4, <1>6, BucketKinds DEF At, Holds
  <2>3. d \in GetStop(r, k)
    BY <1>1, <1>6, <1>8, <2>1, <2>2 DEF GetStop
  <2> QED
    BY <1>6, <2>3
<1>10. Chains(r)
  <2>1. SUFFICES ASSUME NEW i \in Nodes(r)
                 PROVE  \E e \in GetStop(r, r.buckets[i].key) : Place(r, r.buckets[i].key, e) = i
    BY DEF Chains
  <2>2. CASE i \in Nodes(m)
    BY <1>5, <1>7, <2>2
  <2>3. CASE i = p
    BY <1>3, <1>9, <2>3, BucketKinds
  <2> QED
    BY <1>5, <2>2, <2>3
<1> QED
  BY <1>3, <1>5, <1>10

\* The nodes stay, with their keys.
LEMMA SameNodes ==
  ASSUME KeysHashed, NEW n \in TableSizes, NEW m \in Table(n), Chains(m), NEW r \in Table(n),
         \A i \in 0..(n - 1) : /\ IsVacant(r.buckets[i]) <=> IsVacant(m.buckets[i])
                               /\ ~IsVacant(m.buckets[i]) => r.buckets[i].key = m.buckets[i].key
  PROVE  /\ Chains(r) /\ Nodes(r) = Nodes(m)
         /\ \A k \in Keys : /\ GetStop(r, k) = GetStop(m, k) /\ SetStop(r, k) = SetStop(m, k)
                            /\ Found(r, k) <=> Found(m, k)
                            /\ \A d : Place(r, k, d) = Place(m, k, d)
<1>1. m.n = n /\ r.n = n
  BY DEF Table
<1>2. Nodes(r) = Nodes(m)
  BY <1>1 DEF Nodes
<1>3. (\A k, d : Place(r, k, d) = Place(m, k, d)) /\ Distances(r) = Distances(m)
  BY <1>1 DEF Place, Distances
<1>4. ASSUME NEW k \in Keys
      PROVE  \A d \in Nat : /\ IsVacant(At(r, k, d)) <=> IsVacant(At(m, k, d))
                            /\ Holds(At(r, k, d), k) <=> Holds(At(m, k, d), k)
  <2>1. SUFFICES ASSUME NEW d \in Nat
                 PROVE  /\ IsVacant(At(r, k, d)) <=> IsVacant(At(m, k, d))
                        /\ Holds(At(r, k, d), k) <=> Holds(At(m, k, d), k)
    OBVIOUS
  <2>2. Place(m, k, d) \in 0..(n - 1)
    BY Places
  <2> QED
    BY <1>3, <2>2 DEF At, Holds
<1>5. ASSUME NEW k \in Keys PROVE GetStop(r, k) = GetStop(m, k) /\ SetStop(r, k) = SetStop(m, k)
  <2>1. \A d \in Distances(m) : d \in Nat /\ 0..(d - 1) \subseteq Nat
    BY Places
  <2>2. \A d \in Distances(m) : d \in GetStop(r, k) <=> d \in GetStop(m, k)
    BY <1>3, <1>4, <2>1 DEF GetStop
  <2>3. \A d \in Distances(m) : d \in SetStop(r, k) <=> d \in SetStop(m, k)
    BY <1>3, <1>4, <2>1 DEF SetStop
  <2>4. /\ GetStop(r, k) \subseteq Distances(m) /\ GetStop(m, k) \subseteq Distances(m)
        /\ SetStop(r, k) \subseteq Distances(m) /\ SetStop(m, k) \subseteq Distances(m)
    BY <1>3 DEF GetStop, SetStop
  <2> QED
    BY <2>2, <2>3, <2>4
<1>6. ASSUME NEW k \in Keys PROVE Found(r, k) <=> Found(m, k)
  <2>1. GetStop(m, k) \subseteq Nat
    BY Places DEF GetStop
  <2> QED
    BY <1>4, <1>5, <1>6, <2>1 DEF Found
<1>7. Chains(r)
  <2>1. \A i \in Nodes(m) : r.buckets[i].key = m.buckets[i].key /\ m.buckets[i].key \in Keys
    BY <1>1, BucketKinds DEF Nodes, Table
  <2> QED
    BY <1>2, <1>3, <1>5, <2>1 DEF Chains
<1> QED
  BY <1>2, <1>3, <1>5, <1>6, <1>7

\* set finds a vacant bucket when there is one.
LEMMA Vacant ==
  ASSUME KeysHashed, NEW n \in TableSizes, NEW m \in Table(n), NEW k \in Keys,
         NEW j \in 0..(n - 1), IsVacant(m.buckets[j])
  PROVE  SetStop(m, k) # {}
<1> DEFINE T == {d \in Distances(m) : IsVacant(At(m, k, d))}
<1>1. T # {}
  <2>1. PICK d \in Distances(m) : Place(m, k, d) = j
    BY Places
  <2> QED
    BY <2>1 DEF At
<1>2. T \in SUBSET Nat
  BY Places
<1>3. PICK d \in T : \A e \in T : d <= e
  <2> HIDE DEF T
  <2> QED
    BY <1>1, <1>2, LeastNumber
<1>4. d \in Nat /\ d \in 0..(n - 1) /\ Distances(m) = 0..(n - 1) /\ n \in Nat
  BY <1>2, <1>3, Places DEF TableSizes
<1>5. ASSUME NEW e \in 0..(d - 1) PROVE ~IsVacant(At(m, k, e))
  <2>1. e \in 0..(n - 1) /\ ~(d <= e)
    BY <1>4
  <2> QED
    BY <1>3, <1>4, <2>1
<1> QED
  BY <1>3, <1>5 DEF SetStop

\* What get returns depends on the numbers of the keys only.
SameNumbers(m, r) == \A k \in Keys, v \in Nat : Has(r, k, v) <=> Has(m, k, v)

LEMMA Numbers ==
  ASSUME KeysHashed, NEW n \in TableSizes, NEW m \in Table(n), Chains(m), NEW k \in Keys
  PROVE  /\ Found(m, k) <=> \E v \in Nat : Has(m, k, v)
         /\ \A v \in Nat : Has(m, k, v) => DataOf(m, k) = v
         /\ ~Found(m, k) => DataOf(m, k) = 0
         /\ DataOf(m, k) \in Nat
<1>1. \A i \in Nodes(m) : m.buckets[i].data \in Nat
  BY BucketKinds DEF Nodes, Table
<1>2. Found(m, k) <=> \E v \in Nat : Has(m, k, v)
  BY <1>1, Lookup DEF Has
<1>3. \A v \in Nat : Has(m, k, v) => DataOf(m, k) = v
  BY Lookup DEF Has
<1>4. ~Found(m, k) => DataOf(m, k) = 0
  BY DEF DataOf
<1> QED
  BY <1>2, <1>3, <1>4

\* Tables with the same numbers answer alike, whatever their sizes.
LEMMA SameLookup ==
  ASSUME KeysHashed, NEW n \in TableSizes, NEW m \in Table(n), Chains(m),
         NEW l \in TableSizes, NEW r \in Table(l), Chains(r), SameNumbers(m, r), NEW k \in Keys
  PROVE  (Found(r, k) <=> Found(m, k)) /\ DataOf(r, k) = DataOf(m, k)
<1>1. /\ Found(m, k) <=> \E v \in Nat : Has(m, k, v)
      /\ \A v \in Nat : Has(m, k, v) => DataOf(m, k) = v
      /\ ~Found(m, k) => DataOf(m, k) = 0
  BY Numbers
<1>2. /\ Found(r, k) <=> \E v \in Nat : Has(r, k, v)
      /\ \A v \in Nat : Has(r, k, v) => DataOf(r, k) = v
      /\ ~Found(r, k) => DataOf(r, k) = 0
  BY Numbers
<1> QED
  BY <1>1, <1>2 DEF SameNumbers

\* A map that got a number for a key.
OneMore(m, r, k, v) ==
  \A j \in Keys, w \in Nat : Has(r, j, w) <=> Has(m, j, w) \/ (j = k /\ w = v)

\* set without a look at the load: the key gets the first vacant bucket.
LEMMA Insertion ==
  ASSUME KeysHashed, NEW n \in TableSizes, NEW m \in Table(n), Chains(m), NEW k \in Keys, NEW v \in Nat,
         ~Found(m, k), SetStop(m, k) # {}
  PROVE  /\ Insert(m, k, v) \in Table(n) /\ Chains(Insert(m, k, v))
         /\ OneMore(m, Insert(m, k, v), k, v)
         /\ \E p \in 0..(n - 1) : p \notin Nodes(m) /\ Nodes(Insert(m, k, v)) = Nodes(m) \cup {p}
         /\ Insert(m, k, v).elements = m.elements + 1
<1>1. PICK d \in SetStop(m, k) : d = CHOOSE e \in SetStop(m, k) : TRUE
  OBVIOUS
<1>2. d \in Nat /\ Place(m, k, d) \in 0..(n - 1)
  <2>1. d \in Nat
    BY Places DEF SetStop
  <2> QED
    BY <2>1, Places
<1>3. PICK r : r = Insert(m, k, v)
  OBVIOUS
<1>4. PICK b \in [0..(n - 1) -> NodeKinds] : b = [m.buckets EXCEPT ![Place(m, k, d)] = Node(k, v)]
  BY <1>2, BucketKinds DEF Table
<1>5. /\ r \in Table(n) /\ r.buckets[Place(m, k, d)] = Node(k, v) /\ r.elements = m.elements + 1
      /\ \A i \in 0..(n - 1) : i # Place(m, k, d) => r.buckets[i] = m.buckets[i]
  <2>1. PICK c \in [0..(n - 1) -> NodeKinds], x \in Nat : m = [n |-> n, buckets |-> c, elements |-> x]
    BY DEF Table
  <2>2. PICK p : p = Place(m, k, d)
    OBVIOUS
  <2>3. r = [m EXCEPT !.buckets[p] = Node(k, v), !.elements = @ + 1]
    BY <1>1, <1>3, <2>2 DEF Insert, Store
  <2>4. r = [n |-> n, buckets |-> [c EXCEPT ![p] = Node(k, v)], elements |-> x + 1]
    BY <2>1, <2>3
  <2>5. r = [n |-> n, buckets |-> b, elements |-> x + 1] /\ m.buckets = c
    BY <1>4, <2>1, <2>2, <2>4
  <2>6. b[p] = Node(k, v) /\ \A i \in 0..(n - 1) : i # p => b[i] = c[i]
    BY <1>2, <1>4, <2>2, <2>5
  <2>7. r \in Table(n)
    BY <2>5 DEF Table
  <2> QED
    BY <2>1, <2>2, <2>5, <2>6, <2>7
<1>6. /\ Chains(r)
      /\ Nodes(r) = Nodes(m) \cup {Place(m, k, d)} /\ Place(m, k, d) \notin Nodes(m)
      /\ \A i \in Nodes(m) : r.buckets[i] = m.buckets[i]
      /\ r.buckets[Place(m, k, d)] = Node(k, v)
  <2>1. d \in SetStop(m, k)
    BY <1>1
  <2> QED
    BY <2>1, <1>5, NodeAdded
<1>7. OneMore(m, r, k, v)
  BY <1>6, BucketKinds DEF OneMore, Has
<1> QED
  BY <1>2, <1>3, <1>5, <1>6, <1>7

\* The recursion of realloc.
Moved(m, s, i) ==
  IF IsVacant(m.buckets[i - 1]) THEN s ELSE Insert(s, m.buckets[i - 1].key, m.buckets[i - 1].data)

\* The new table after i buckets is that after i - 1 and what the next one adds.
LEMMA Copying ==
  ASSUME NEW n \in Nat, NEW m, m.n = n
  PROVE  /\ CopiedUpTo(m)[0] = Empty(Grown(m))
         /\ \A i \in 1..n : CopiedUpTo(m)[i] = Moved(m, CopiedUpTo(m)[i - 1], i)
<1> DEFINE Is(f, j) == f = [i \in 0..j |-> IF i = 0 THEN Empty(Grown(m)) ELSE Moved(m, f[i - 1], i)]
           T == {j \in Nat : ~ \E f : Is(f, j)}
<1>1. T = {}
  <2>1. SUFFICES ASSUME T # {} PROVE FALSE
    OBVIOUS
  <2>2. PICK j \in T : \A i \in T : j <= i
    <3>1. T \in SUBSET Nat
      OBVIOUS
    <3> HIDE DEF T
    <3> QED
      BY <2>1, <3>1, LeastNumber
  <2>3. CASE j = 0
    <3>1. Is([i \in 0..0 |-> Empty(Grown(m))], 0)
      OBVIOUS
    <3> QED
      BY <2>2, <2>3, <3>1
  <2>4. CASE j # 0
    <3>1. j \in Nat /\ j - 1 \in Nat /\ ~(j <= j - 1)
      BY <2>4
    <3>2. PICK g : Is(g, j - 1)
      BY <2>2, <3>1
    <3>3. PICK f : f = [i \in 0..j |-> IF i = j THEN Moved(m, g[j - 1], j) ELSE g[i]]
      OBVIOUS
    <3>4. \A i \in 0..(j - 1) : f[i] = g[i]
      BY <3>1, <3>3
    <3>5. ASSUME NEW i \in 0..j
          PROVE  f[i] = IF i = 0 THEN Empty(Grown(m)) ELSE Moved(m, f[i - 1], i)
      <4>1. CASE i = j
        <5>1. j - 1 \in 0..(j - 1)
          BY <3>1
        <5> QED
          BY <2>4, <3>3, <3>4, <4>1, <5>1
      <4>2. CASE i # j
        <5>1. i \in 0..(j - 1) /\ (i # 0 => i - 1 \in 0..(j - 1))
          BY <3>1, <4>2
        <5>2. g[i] = IF i = 0 THEN Empty(Grown(m)) ELSE Moved(m, g[i - 1], i)
          BY <3>2, <5>1
        <5> QED
          BY <3>4, <5>1, <5>2
      <4> QED
        BY <4>1, <4>2
    <3>6. Is(f, j)
      BY <3>3, <3>5
    <3> QED
      BY <2>2, <3>6
  <2> QED
    BY <2>3, <2>4
<1>2. \E f : Is(f, n)
  <2>1. n \notin T
    <3> HIDE DEF T
    <3> QED
      BY <1>1
  <2> HIDE DEF Is
  <2> QED
    BY <2>1
<1>3. CopiedUpTo(m) = CHOOSE g : Is(g, n)
  BY DEF CopiedUpTo, Moved
<1>4. Is(CopiedUpTo(m), n)
  <2> HIDE DEF Is
  <2> QED
    BY <1>2, <1>3
<1>5. 0 \in 0..n /\ \A i \in 1..n : i \in 0..n /\ i # 0
  OBVIOUS
<1> QED
  BY <1>4, <1>5

\* The table of create.
LEMMA EmptyTable ==
  ASSUME NEW n \in TableSizes
  PROVE  /\ Empty(n) \in Table(n) /\ Nodes(Empty(n)) = {} /\ Chains(Empty(n))
         /\ \A k \in Keys, v \in Nat : ~Has(Empty(n), k, v)
<1>1. Empty(n).n = n /\ \A i \in 0..(n - 1) : Empty(n).buckets[i] = Null
  BY DEF Empty
<1>2. Nodes(Empty(n)) = {}
  BY <1>1, BucketKinds DEF Nodes
<1>3. Empty(n) \in Table(n)
  <2>1. [i \in 0..(n - 1) |-> Null] \in [0..(n - 1) -> NodeKinds]
    BY BucketKinds
  <2> QED
    BY <2>1 DEF Empty, Table
<1> QED
  BY <1>2, <1>3 DEF Chains, Has

\* A table with fewer nodes than buckets has a vacant bucket.
LEMMA Room ==
  ASSUME NEW n \in TableSizes, NEW m \in Table(n), IsFiniteSet(Nodes(m)), Cardinality(Nodes(m)) < n
  PROVE  \E j \in 0..(n - 1) : IsVacant(m.buckets[j])
<1>1. SUFFICES ASSUME \A j \in 0..(n - 1) : ~IsVacant(m.buckets[j]) PROVE FALSE
  OBVIOUS
<1>2. Nodes(m) = 0..(n - 1)
  BY <1>1 DEF Nodes, Table
<1>3. n \in Nat /\ n > 1
  BY DEF TableSizes
<1>4. Cardinality(0..(n - 1)) = n
  BY <1>3, FS_Interval
<1> QED
  BY <1>2, <1>3, <1>4

\* realloc asks for a larger table: this needs two buckets at least.
LEMMA Larger ==
  ASSUME NEW n \in TableSizes, NEW m, m.n = n
  PROVE  Grown(m) \in TableSizes /\ Grown(m) > n
BY DEF Grown, TableSizes

\* The first i buckets are in the new table.
MovedUpTo(m, s, i) ==
  /\ s \in Table(Grown(m)) /\ Chains(s)
  /\ IsFiniteSet(Nodes(s)) /\ Cardinality(Nodes(s)) <= i /\ s.elements <= i
  /\ \A k \in Keys, v \in Nat :
        Has(s, k, v) <=> \E j \in Nodes(m) : j < i /\ m.buckets[j].key = k /\ m.buckets[j].data = v

\* One more bucket: its key is not there yet, and there is room.
LEMMA MoveOne ==
  ASSUME KeysHashed, NEW n \in TableSizes, NEW m \in Table(n), Chains(m), NEW i \in 1..n, NEW s,
         MovedUpTo(m, s, i - 1)
  PROVE  MovedUpTo(m, Moved(m, s, i), i)
<1>1. PICK h \in 0..(n - 1) : h = i - 1
  BY DEF TableSizes
<1>2. m.n = n /\ m.buckets \in [0..(n - 1) -> NodeKinds] /\ n \in Nat
  BY DEF Table, TableSizes
<1>3. \A j \in Nodes(m) : j \in 0..(n - 1) /\ (j < i <=> j < h \/ j = h)
  BY <1>1, <1>2 DEF Nodes
<1>4. Cardinality(Nodes(s)) \in Nat /\ s.elements \in Nat
  BY FS_CardinalityType DEF MovedUpTo, Table
<1>5. CASE IsVacant(m.buckets[h])
  <2>1. Moved(m, s, i) = s
    BY <1>1, <1>5 DEF Moved
  <2>2. h \notin Nodes(m)
    BY <1>5 DEF Nodes
  <2>3. \A j \in Nodes(m) : j < i <=> j < h
    BY <1>3, <2>2
  <2>4. Cardinality(Nodes(s)) <= i /\ s.elements <= i
    BY <1>4 DEF MovedUpTo
  <2> QED
    BY <1>1, <2>1, <2>3, <2>4 DEF MovedUpTo
<1>6. CASE ~IsVacant(m.buckets[h])
  <2>1. PICK k \in Keys, v \in Nat : m.buckets[h].key = k /\ m.buckets[h].data = v
    BY <1>2, <1>6, BucketKinds
  <2>2. h \in Nodes(m) /\ Grown(m) \in TableSizes /\ Grown(m) > n
    BY <1>2, <1>6, Larger DEF Nodes
  <2>3. ~Found(s, k)
    <3>1. SUFFICES ASSUME Found(s, k) PROVE FALSE
      OBVIOUS
    <3>2. PICK w \in Nat : Has(s, k, w)
      BY <2>2, <3>1, Numbers DEF MovedUpTo
    <3>3. PICK j \in Nodes(m) : j < h /\ m.buckets[j].key = k
      BY <1>1, <3>2 DEF MovedUpTo
    <3>4. j = h
      BY <2>1, <2>2, <3>3, Lookup
    <3> QED
      BY <3>3, <3>4
  <2>4. SetStop(s, k) # {}
    <3>1. Cardinality(Nodes(s)) < Grown(m)
      BY <1>4, <2>2 DEF MovedUpTo, TableSizes
    <3>2. \E j \in 0..(Grown(m) - 1) : IsVacant(s.buckets[j])
      BY <2>2, <3>1, Room DEF MovedUpTo
    <3> QED
      BY <2>2, <3>2, Vacant DEF MovedUpTo
  <2>5. PICK r : r = Insert(s, k, v)
    OBVIOUS
  <2>6. Moved(m, s, i) = r
    BY <1>1, <1>6, <2>1, <2>5 DEF Moved
  <2>7. /\ r \in Table(Grown(m)) /\ Chains(r) /\ OneMore(s, r, k, v)
        /\ \E p \in 0..(Grown(m) - 1) : Nodes(r) = Nodes(s) \cup {p}
        /\ r.elements = s.elements + 1
    <3>1. s \in Table(Grown(m)) /\ Chains(s)
      BY DEF MovedUpTo
    <3> QED
      BY <2>2, <2>3, <2>4, <2>5, <3>1, Insertion
  <2>8. IsFiniteSet(Nodes(r)) /\ Cardinality(Nodes(r)) <= i /\ r.elements <= i
    <3>1. PICK p : Nodes(r) = Nodes(s) \cup {p}
      BY <2>7
    <3>2. IsFiniteSet(Nodes(s)) /\ Cardinality(Nodes(s)) <= i - 1 /\ s.elements <= i - 1
      BY DEF MovedUpTo
    <3>3. IsFiniteSet(Nodes(r)) /\ Cardinality(Nodes(r)) \in {Cardinality(Nodes(s)), Cardinality(Nodes(s)) + 1}
      BY <3>1, <3>2, FS_AddElement
    <3> QED
      BY <1>4, <2>7, <3>2, <3>3
  <2>9. ASSUME NEW q \in Keys, NEW w \in Nat
        PROVE  Has(r, q, w) <=> \E j \in Nodes(m) : j < i /\ m.buckets[j].key = q /\ m.buckets[j].data = w
    <3>1. Has(r, q, w) <=> Has(s, q, w) \/ (q = k /\ w = v)
      BY <2>7 DEF OneMore
    <3>2. Has(s, q, w) <=> \E j \in Nodes(m) : j < h /\ m.buckets[j].key = q /\ m.buckets[j].data = w
      BY <1>1 DEF MovedUpTo
    <3>3. (q = k /\ w = v) <=> \E j \in Nodes(m) : j = h /\ m.buckets[j].key = q /\ m.buckets[j].data = w
      BY <2>1, <2>2
    <3> QED
      BY <1>3, <3>1, <3>2, <3>3
  <2> QED
    BY <2>6, <2>7, <2>8, <2>9 DEF MovedUpTo
<1> QED
  BY <1>5, <1>6

\* By induction over the old buckets.
LEMMA MoveAll ==
  ASSUME KeysHashed, NEW n \in TableSizes, NEW m \in Table(n), Chains(m)
  PROVE  \A i \in 0..n : MovedUpTo(m, CopiedUpTo(m)[i], i)
<1> DEFINE T == {i \in 0..n : ~MovedUpTo(m, CopiedUpTo(m)[i], i)}
<1>1. m.n = n /\ n \in Nat /\ m.elements \in Nat
  BY DEF Table, TableSizes
<1>2. Grown(m) \in TableSizes
  BY <1>1, Larger
<1>3. /\ CopiedUpTo(m)[0] = Empty(Grown(m))
      /\ \A i \in 1..n : CopiedUpTo(m)[i] = Moved(m, CopiedUpTo(m)[i - 1], i)
  BY <1>1, Copying
<1>4. T = {}
  <2>1. SUFFICES ASSUME T # {} PROVE FALSE
    OBVIOUS
  <2>2. PICK i \in T : \A j \in T : i <= j
    <3>1. T \in SUBSET Nat
      BY <1>1
    <3> HIDE DEF T
    <3> QED
      BY <2>1, <3>1, LeastNumber
  <2>3. i \in 0..n /\ ~MovedUpTo(m, CopiedUpTo(m)[i], i)
    BY <2>2
  <2>4. CASE i = 0
    <3>1. PICK e : e = Empty(Grown(m))
      OBVIOUS
    <3>2. e \in Table(Grown(m)) /\ Nodes(e) = {} /\ Chains(e) /\ \A k \in Keys, v \in Nat : ~Has(e, k, v)
      BY <1>2, <3>1, EmptyTable
    <3>3. IsFiniteSet(Nodes(e)) /\ Cardinality(Nodes(e)) = 0 /\ e.elements = 0
      BY <3>1, <3>2, FS_EmptySet DEF Empty
    <3>4. \A j \in Nodes(m) : ~(j < 0)
      BY <1>1 DEF Nodes
    <3>5. MovedUpTo(m, e, 0)
      BY <3>2, <3>3, <3>4 DEF MovedUpTo
    <3> QED
      BY <1>3, <2>3, <2>4, <3>1, <3>5
  <2>5. CASE i # 0
    <3>1. i \in 1..n /\ i - 1 \in 0..n /\ ~(i <= i - 1)
      BY <1>1, <2>3, <2>5
    <3>2. MovedUpTo(m, CopiedUpTo(m)[i - 1], i - 1)
      BY <2>2, <3>1
    <3>3. MovedUpTo(m, Moved(m, CopiedUpTo(m)[i - 1], i), i)
      BY <3>1, <3>2, MoveOne
    <3> QED
      BY <1>3, <2>3, <3>1, <3>3
  <2> QED
    BY <2>4, <2>5
<1> QED
  BY <1>4

\* A table that has i of n nodes in 3n/2 buckets is not loaded.
LEMMA NotLoaded ==
  ASSUME KeysHashed, NEW n \in TableSizes, NEW m \in Table(n), Chains(m), NEW i \in 0..n
  PROVE  ~Loaded(CopiedUpTo(m)[i])
<1>1. PICK s : s = CopiedUpTo(m)[i]
  OBVIOUS
<1>2. s.n = Grown(m) /\ s.elements \in Nat /\ s.elements <= i
  BY <1>1, MoveAll DEF MovedUpTo, Table
<1>3. PICK g \in Nat : g = Grown(m) /\ 2 * g >= 3 * n - 1
  <2>1. PICK a \in Nat : a = 3 * n /\ Grown(m) = a \div 2
    BY DEF Grown, Table, TableSizes
  <2>2. a \div 2 \in Nat /\ 2 * (a \div 2) >= a - 1
    BY Division
  <2> QED
    BY <2>1, <2>2
<1>4. ~(10 * s.elements > 9 * g)
  BY <1>2, <1>3 DEF TableSizes
<1> QED
  BY <1>1, <1>2, <1>3, <1>4 DEF Loaded

\* The new map has every key of the old one.
LEMMA CopyKeeps ==
  ASSUME KeysHashed, NEW n \in TableSizes, NEW m \in Table(n), Chains(m)
  PROVE  /\ Grown(m) \in TableSizes /\ Copied(m) \in Table(Grown(m))
         /\ Chains(Copied(m)) /\ SameNumbers(m, Copied(m))
<1>1. m.n = n /\ n \in Nat /\ m.elements \in Nat
  BY DEF Table, TableSizes
<1>2. Grown(m) \in TableSizes
  BY <1>1, Larger
<1>5. PICK s : s = CopiedUpTo(m)[n]
  OBVIOUS
<1>6. MovedUpTo(m, s, n)
  BY <1>1, <1>5, MoveAll
<1>7. PICK r : r = Copied(m)
  OBVIOUS
<1>8. PICK c \in [0..(Grown(m) - 1) -> NodeKinds], x \in Nat : s = [n |-> Grown(m), buckets |-> c, elements |-> x]
  BY <1>6 DEF MovedUpTo, Table
<1>9. r = [n |-> Grown(m), buckets |-> c, elements |-> m.elements]
  BY <1>1, <1>5, <1>7, <1>8 DEF Copied
<1>10. r \in Table(Grown(m)) /\ s \in Table(Grown(m)) /\ r.buckets = s.buckets /\ r.n = s.n
  BY <1>1, <1>8, <1>9 DEF Table
<1>11. Chains(r) /\ Nodes(r) = Nodes(s)
  <2>1. Chains(s)
    BY <1>6 DEF MovedUpTo
  <2> QED
    BY <1>2, <1>10, <2>1, SameNodes
<1>12. SameNumbers(m, r)
  <2>1. ASSUME NEW k \in Keys, NEW v \in Nat PROVE Has(r, k, v) <=> Has(m, k, v)
    <3>1. Has(r, k, v) <=> Has(s, k, v)
      BY <1>10, <1>11 DEF Has
    <3>2. \A j \in Nodes(m) : j < n
      BY <1>1 DEF Nodes
    <3> QED
      BY <1>6, <3>1, <3>2 DEF MovedUpTo, Has
  <2> QED
    BY <2>1 DEF SameNumbers
<1> QED
  BY <1>2, <1>7, <1>10, <1>11, <1>12

\* What the operations leave is a table of some size, with its chains.
Whole(m) == \E n \in TableSizes : m \in Table(n) /\ Chains(m)

\* The load is looked at, and the table grows or stays (open_hashmap.c 147-163).
LEMMA AfterGrow ==
  ASSUME KeysHashed, NEW m, Whole(m), NEW ok, NEW o \in GrowLoaded(m, ok)
  PROVE  /\ Whole(o.map) /\ SameNumbers(m, o.map)
         /\ o.fault \subseteq Faults
         /\ ok = FALSE => o.rc # 0
<1>1. PICK n \in TableSizes : m \in Table(n) /\ Chains(m)
  BY DEF Whole
<1>2. Whole(Copied(m)) /\ SameNumbers(m, Copied(m))
  BY <1>1, CopyKeeps DEF Whole
<1>3. SameNumbers(m, m)
  BY DEF SameNumbers
<1>4. PICK p : /\ p \in ReallocOutcomes(m) \/ p = [map |-> m, rc |-> 0, fault |-> {}]
               /\ o = [p EXCEPT !.rc = IF ok THEN @ ELSE -1]
  BY DEF GrowLoaded
<1>5. PICK c, x, f : /\ p = [map |-> c, rc |-> x, fault |-> f] /\ f \subseteq Faults
                     /\ c = m \/ c = Copied(m)
  BY <1>4 DEF ReallocOutcomes
<1>6. o = [map |-> c, rc |-> IF ok THEN x ELSE -1, fault |-> f]
  BY <1>4, <1>5
<1>7. o.map = c /\ o.fault = f /\ (ok = FALSE => o.rc = -1)
  BY <1>6
<1> QED
  BY <1>2, <1>3, <1>5, <1>7

\* set adds the number of the key, or reports that it did not.
LEMMA AfterSet ==
  ASSUME KeysHashed, NEW m, Whole(m), NEW k \in Keys, NEW v \in Nat, ~Found(m, k),
         NEW o \in SetOutcomes(m, k, v)
  PROVE  /\ Whole(o.map) /\ o.fault \subseteq Faults
         /\ OneMore(m, o.map, k, v) \/ (SameNumbers(m, o.map) /\ o.rc # 0)
<1>1. PICK n \in TableSizes : m \in Table(n) /\ Chains(m)
  BY DEF Whole
<1>2. CASE SetStop(m, k) = {}
  <2>1. o \in GrowLoaded(m, FALSE)
    BY <1>2 DEF SetOutcomes
  <2> QED
    BY <2>1, AfterGrow
<1>3. CASE SetStop(m, k) # {}
  <2>1. PICK r : r = Insert(m, k, v)
    OBVIOUS
  <2>2. Whole(r) /\ OneMore(m, r, k, v)
    BY <1>1, <1>3, <2>1, Insertion DEF Whole
  <2>3. ASSUME o \in GrowLoaded(r, TRUE)
        PROVE  Whole(o.map) /\ o.fault \subseteq Faults /\ OneMore(m, o.map, k, v)
    <3>1. Whole(o.map) /\ SameNumbers(r, o.map) /\ o.fault \subseteq Faults
      BY <2>2, <2>3, AfterGrow
    <3> QED
      BY <2>2, <3>1 DEF SameNumbers, OneMore
  <2>4. ASSUME "node" \in Faults, o = [map |-> m, rc |-> -1, fault |-> {"node"}]
        PROVE  Whole(o.map) /\ o.fault \subseteq Faults /\ SameNumbers(m, o.map) /\ o.rc # 0
    BY <2>4 DEF SameNumbers
  <2>5. \/ o \in GrowLoaded(r, TRUE)
        \/ "node" \in Faults /\ o = [map |-> m, rc |-> -1, fault |-> {"node"}]
    BY <1>3, <2>1 DEF SetOutcomes
  <2> QED
    BY <2>3, <2>4, <2>5
<1> QED
  BY <1>2, <1>3

\* A get that finds nothing changes no number.
LEMMA AfterMiss ==
  ASSUME KeysHashed, NEW m, Whole(m), NEW k \in Keys, NEW missed \in MissOutcomes(m, k)
  PROVE  /\ Whole(missed.map) /\ SameNumbers(m, missed.map) /\ missed.fault \subseteq Faults
         /\ Found(missed.map, k) <=> Found(m, k)
         /\ missed.map.n = m.n /\ missed.map.elements = m.elements /\ "new" \notin missed.fault
         /\ "copy" \notin missed.fault
<1>1. PICK n \in TableSizes : m \in Table(n) /\ Chains(m)
  BY DEF Whole
<1>2. CASE missed.map = m /\ missed.fault \subseteq Faults /\ missed.fault \subseteq {"node"}
  BY <1>2 DEF SameNumbers
<1>3. ASSUME NEW d \in GetStop(m, k), At(m, k, d) = Null,
             missed = [map |-> [m EXCEPT !.buckets[Place(m, k, d)] = Hollow], fault |-> {}]
      PROVE  /\ Whole(missed.map) /\ SameNumbers(m, missed.map) /\ missed.fault = {}
             /\ Found(missed.map, k) <=> Found(m, k)
             /\ missed.map.n = m.n /\ missed.map.elements = m.elements
  <2>1. PICK p : p = Place(m, k, d)
    OBVIOUS
  <2>2. p \in 0..(n - 1)
    <3>1. d \in Nat
      BY <1>1, Places DEF GetStop
    <3> QED
      BY <1>1, <2>1, <3>1, Places
  <2>3. PICK c \in [0..(n - 1) -> NodeKinds], x \in Nat : m = [n |-> n, buckets |-> c, elements |-> x]
    BY <1>1 DEF Table
  <2>4. PICK b \in [0..(n - 1) -> NodeKinds] : b = [c EXCEPT ![p] = Hollow]
    BY <2>2, BucketKinds
  <2>5. PICK r : r = missed.map
    OBVIOUS
  <2>6. r = [m EXCEPT !.buckets[p] = Hollow] /\ missed.fault = {}
    BY <1>3, <2>1, <2>5
  <2>7. r = [n |-> n, buckets |-> b, elements |-> x]
    BY <2>3, <2>4, <2>6
  <2>8. r \in Table(n) /\ r.buckets = b /\ m.buckets = c
    BY <2>3, <2>7 DEF Table
  <2>9. c[p] = Null /\ b[p] = Hollow /\ \A i \in 0..(n - 1) : i # p => b[i] = c[i]
    BY <1>3, <2>1, <2>2, <2>4, <2>8 DEF At
  <2>10. \A i \in 0..(n - 1) : /\ IsVacant(r.buckets[i]) <=> IsVacant(m.buckets[i])
                               /\ ~IsVacant(m.buckets[i]) => r.buckets[i] = m.buckets[i]
    BY <2>8, <2>9, BucketKinds
  <2>11. Chains(r) /\ Nodes(r) = Nodes(m) /\ (Found(r, k) <=> Found(m, k))
    BY <1>1, <2>8, <2>10, SameNodes
  <2>12. \A i \in Nodes(m) : r.buckets[i] = m.buckets[i]
    BY <1>1, <2>10 DEF Nodes, Table
  <2>13. SameNumbers(m, r)
    BY <2>11, <2>12 DEF SameNumbers, Has
  <2>14. r.n = m.n /\ r.elements = m.elements
    BY <2>3, <2>7
  <2> QED
    BY <2>5, <2>6, <2>8, <2>11, <2>13, <2>14 DEF Whole
<1>4. \/ missed.map = m /\ missed.fault \subseteq Faults /\ missed.fault \subseteq {"node"}
      \/ \E d \in GetStop(m, k) :
            /\ At(m, k, d) = Null
            /\ missed = [map |-> [m EXCEPT !.buckets[Place(m, k, d)] = Hollow], fault |-> {}]
  BY DEF MissOutcomes
<1> QED
  BY <1>2, <1>3, <1>4

\* The caller's addition changes the number of one key.
Raised(m, k, e, d) == [m EXCEPT !.buckets[Place(m, k, e)].data = @ + d]

LEMMA AfterAdd ==
  ASSUME KeysHashed, NEW m, Whole(m), NEW k \in Keys, NEW d \in Nat, NEW e \in GetStop(m, k), Found(m, k)
  PROVE  /\ Whole(Raised(m, k, e, d)) /\ DataOf(Raised(m, k, e, d), k) = DataOf(m, k) + d
         /\ \A j \in Keys \ {k} : DataOf(Raised(m, k, e, d), j) = DataOf(m, j)
         /\ Nodes(Raised(m, k, e, d)) = Nodes(m)
         /\ Raised(m, k, e, d).n = m.n /\ Raised(m, k, e, d).elements = m.elements
<1>1. PICK n \in TableSizes : m \in Table(n) /\ Chains(m)
  BY DEF Whole
<1>2. PICK r : r = Raised(m, k, e, d)
  OBVIOUS
<1>3. PICK p : p = Place(m, k, e)
  OBVIOUS
<1>4. e \in Nat /\ p \in 0..(n - 1)
  <2>1. e \in Nat
    BY <1>1, Places DEF GetStop
  <2> QED
    BY <1>1, <1>3, <2>1, Places
<1>5. PICK c \in [0..(n - 1) -> NodeKinds], x \in Nat : m = [n |-> n, buckets |-> c, elements |-> x]
  BY <1>1 DEF Table
<1>6. m.buckets = c /\ m.n = n
  BY <1>5
<1>7. ~IsVacant(c[p]) /\ c[p].key = k
  <2>1. PICK f \in GetStop(m, k) : Holds(At(m, k, f), k)
    BY DEF Found
  <2>2. f = e
    BY <1>1, OneStop
  <2> QED
    BY <1>3, <1>6, <2>1, <2>2 DEF At, Holds
<1>8. PICK v \in Nat : c[p] = Node(k, v)
  BY <1>4, <1>7, BucketKinds
<1>9. PICK b \in [0..(n - 1) -> NodeKinds] : b = [c EXCEPT ![p] = Node(k, v + d)]
  <2>1. v + d \in Nat
    OBVIOUS
  <2> QED
    BY <1>4, <2>1, BucketKinds
<1>10. r = [n |-> n, buckets |-> b, elements |-> x]
  <2>1. r = [m EXCEPT !.buckets[p].data = @ + d]
    BY <1>2, <1>3 DEF Raised
  <2>2. r = [n |-> n, buckets |-> [c EXCEPT ![p].data = @ + d], elements |-> x]
    BY <1>5, <2>1
  <2>3. [c EXCEPT ![p].data = @ + d] = [c EXCEPT ![p] = [c[p] EXCEPT !.data = @ + d]]
    OBVIOUS
  <2>4. [c[p] EXCEPT !.data = @ + d] = Node(k, v + d)
    BY <1>8 DEF Node
  <2> QED
    BY <1>9, <2>2, <2>3, <2>4
<1>11. r \in Table(n) /\ r.buckets = b /\ b[p] = Node(k, v + d) /\ \A i \in 0..(n - 1) : i # p => b[i] = c[i]
  BY <1>4, <1>9, <1>10 DEF Table
<1>12. \A i \in 0..(n - 1) : /\ IsVacant(r.buckets[i]) <=> IsVacant(m.buckets[i])
                             /\ ~IsVacant(m.buckets[i]) => r.buckets[i].key = m.buckets[i].key
  BY <1>6, <1>7, <1>8, <1>11, BucketKinds
<1>13. Chains(r) /\ Nodes(r) = Nodes(m) /\ \A j \in Keys : Found(r, j) <=> Found(m, j)
  BY <1>1, <1>11, <1>12, SameNodes
<1>14. p \in Nodes(m)
  BY <1>4, <1>6, <1>7 DEF Nodes
<1>15. DataOf(r, k) = DataOf(m, k) + d
  <2>1. DataOf(m, k) = v
    <3>1. p \in Nodes(m) /\ m.buckets[p].key = k /\ m.buckets[p].data = v
      BY <1>6, <1>7, <1>8, <1>14, BucketKinds
    <3> QED
      BY <1>1, <3>1, Lookup
  <2>2. DataOf(r, k) = v + d
    <3>1. p \in Nodes(r) /\ r.buckets[p].key = k /\ r.buckets[p].data = v + d
      BY <1>11, <1>13, <1>14, BucketKinds
    <3>2. r \in Table(n) /\ Chains(r)
      BY <1>11, <1>13
    <3> QED
      BY <3>1, <3>2, Lookup
  <2> QED
    BY <2>1, <2>2
<1>16. ASSUME NEW j \in Keys \ {k} PROVE DataOf(r, j) = DataOf(m, j)
  <2>1. CASE Found(m, j)
    <3>1. PICK i \in Nodes(m) : m.buckets[i].key = j
      BY <1>1, <2>1, Lookup
    <3>2. i # p /\ i \in 0..(n - 1)
      BY <1>6, <1>7, <3>1 DEF Nodes
    <3>3. r.buckets[i] = m.buckets[i]
      BY <1>6, <1>11, <3>2
    <3>4. DataOf(m, j) = m.buckets[i].data
      BY <1>1, <3>1, Lookup
    <3>5. DataOf(r, j) = r.buckets[i].data
      <4>1. i \in Nodes(r) /\ r.buckets[i].key = j
        BY <1>13, <3>1, <3>3
      <4>2. r \in Table(n) /\ Chains(r)
        BY <1>11, <1>13
      <4> QED
        BY <4>1, <4>2, Lookup
    <3> QED
      BY <3>3, <3>4, <3>5
  <2>2. CASE ~Found(m, j)
    BY <1>13, <2>2 DEF DataOf
  <2> QED
    BY <2>1, <2>2
<1>17. r.n = m.n /\ r.elements = m.elements
  BY <1>5, <1>10
<1> QED
  BY <1>2, <1>11, <1>13, <1>15, <1>16, <1>17 DEF Whole

\* The inductive invariant: the table is whole, its chains included.
MapInv ==
  /\ hash \in Hashes /\ KeysHashed
  /\ Whole(map)
  /\ asked \in [Keys -> 0..MaxAsked] /\ failed \in BOOLEAN /\ faults \subseteq Faults

\* What a line does to the numbers of the keys.
LEMMA CountAdds ==
  ASSUME MapInv, NEW k \in Keys, NEW d \in Amounts, Count(k, d)
  PROVE  /\ Whole(map') /\ failed' \in BOOLEAN /\ faults' \subseteq Faults /\ hash' = hash
         /\ \/ /\ \A j \in Keys : DataOf(map', j) = DataOf(map, j) + (IF j = k THEN d ELSE 0)
               /\ failed' \in {failed, TRUE}
            \/ /\ \A j \in Keys : DataOf(map', j) = DataOf(map, j)
               /\ failed' = TRUE
<1>1. KeysHashed /\ Whole(map) /\ d \in Nat /\ hash' = hash
  BY HashmapAssumption DEF MapInv, Count
<1>2. PICK n \in TableSizes : map \in Table(n) /\ Chains(map)
  BY <1>1 DEF Whole
<1>3. \A j \in Keys : DataOf(map, j) \in Nat
  BY <1>1, <1>2, Numbers
<1>4. CASE AddToFound(k, d)
  <2>1. PICK e \in GetStop(map, k) : map' = [map EXCEPT !.buckets[Place(map, k, e)].data = @ + d]
    BY <1>4 DEF AddToFound
  <2>2. Found(map, k) /\ failed' = failed /\ faults' = faults
    BY <1>4 DEF AddToFound
  <2>3. /\ Whole(map') /\ DataOf(map', k) = DataOf(map, k) + d
        /\ \A j \in Keys \ {k} : DataOf(map', j) = DataOf(map, j)
    <3>1. PICK m : m = map
      OBVIOUS
    <3>2. PICK r : r = map'
      OBVIOUS
    <3>3. e \in GetStop(m, k) /\ r = Raised(m, k, e, d)
      BY <2>1, <3>1, <3>2 DEF Raised
    <3>4. KeysHashed /\ Whole(m) /\ Found(m, k) /\ d \in Nat /\ k \in Keys
      BY <1>1, <2>2, <3>1
    <3>5. /\ Whole(r) /\ DataOf(r, k) = DataOf(m, k) + d
          /\ \A j \in Keys \ {k} : DataOf(r, j) = DataOf(m, j)
      BY <3>3, <3>4, AfterAdd
    <3> QED
      BY <3>1, <3>2, <3>5
  <2>4. \A j \in Keys : DataOf(map', j) = DataOf(map, j) + (IF j = k THEN d ELSE 0)
    BY <1>3, <2>3
  <2> QED
    BY <1>1, <2>2, <2>3, <2>4 DEF MapInv
<1>5. CASE SetMissing(k, d)
  <2>1. PICK missed \in MissOutcomes(map, k) :
          \/ /\ "key" \in Faults
             /\ map' = missed.map
             /\ failed' = TRUE
             /\ faults' = faults \cup missed.fault \cup {"key"}
          \/ \E o \in SetOutcomes(missed.map, k, d) :
                /\ map' = o.map
                /\ failed' = (failed \/ o.rc # 0)
                /\ faults' = faults \cup missed.fault \cup o.fault
    BY <1>5 DEF SetMissing
  <2>2. PICK m : m = missed.map
    OBVIOUS
  <2>3. Whole(m) /\ SameNumbers(map, m) /\ missed.fault \subseteq Faults /\ ~Found(m, k) /\ ~Found(map, k)
    <3>1. missed \in MissOutcomes(map, k) /\ ~Found(map, k)
      BY <1>5, <2>1 DEF SetMissing
    <3> QED
      BY <1>1, <2>2, <3>1, AfterMiss
  <2>4. CASE /\ "key" \in Faults /\ map' = m /\ failed' = TRUE
             /\ faults' = faults \cup missed.fault \cup {"key"}
    <3>1. \A j \in Keys : DataOf(m, j) = DataOf(map, j)
      BY <1>1, <1>2, <2>3, SameLookup DEF Whole
    <3> QED
      BY <1>1, <2>3, <2>4, <3>1 DEF MapInv
  <2>5. CASE \E o \in SetOutcomes(m, k, d) :
                /\ map' = o.map
                /\ failed' = (failed \/ o.rc # 0)
                /\ faults' = faults \cup missed.fault \cup o.fault
    <3>1. PICK o \in SetOutcomes(m, k, d) :
                /\ map' = o.map
                /\ failed' = (failed \/ o.rc # 0)
                /\ faults' = faults \cup missed.fault \cup o.fault
      BY <2>5
    <3>2. /\ Whole(map') /\ o.fault \subseteq Faults
          /\ OneMore(m, map', k, d) \/ (SameNumbers(m, map') /\ o.rc # 0)
      BY <1>1, <2>3, <3>1, AfterSet
    <3>3. failed' \in {failed, TRUE} /\ failed' \in BOOLEAN /\ (o.rc # 0 => failed' = TRUE)
      BY <3>1 DEF MapInv
    <3>4. faults' \subseteq Faults
      BY <2>3, <3>1, <3>2 DEF MapInv
    <3>5. PICK r : r = map'
      OBVIOUS
    <3>6. PICK l \in TableSizes : r \in Table(l) /\ Chains(r)
      BY <3>2, <3>5 DEF Whole
    <3>7. CASE SameNumbers(m, r) /\ o.rc # 0
      <4>1. SameNumbers(map, r)
        BY <2>3, <3>7 DEF SameNumbers
      <4>2. \A j \in Keys : DataOf(r, j) = DataOf(map, j)
        BY <1>1, <1>2, <3>6, <4>1, SameLookup
      <4> QED
        BY <1>1, <3>2, <3>3, <3>4, <3>5, <3>7, <4>2
    <3>8. CASE OneMore(m, r, k, d)
      <4>1. OneMore(map, r, k, d)
        BY <2>3, <3>8 DEF SameNumbers, OneMore
      <4>2. ASSUME NEW j \in Keys PROVE DataOf(r, j) = DataOf(map, j) + (IF j = k THEN d ELSE 0)
        <5>1. /\ Found(map, j) <=> \E v \in Nat : Has(map, j, v)
              /\ \A v \in Nat : Has(map, j, v) => DataOf(map, j) = v
              /\ ~Found(map, j) => DataOf(map, j) = 0
          BY <1>1, <1>2, Numbers
        <5>2. /\ Found(r, j) <=> \E v \in Nat : Has(r, j, v)
              /\ \A v \in Nat : Has(r, j, v) => DataOf(r, j) = v
              /\ ~Found(r, j) => DataOf(r, j) = 0
          BY <1>1, <3>6, Numbers
        <5>3. \A v \in Nat : Has(r, j, v) <=> Has(map, j, v) \/ (j = k /\ v = d)
          BY <4>1 DEF OneMore
        <5>4. CASE j = k
          <6>1. Has(r, k, d) /\ DataOf(map, k) = 0
            BY <1>1, <2>3, <5>1, <5>3, <5>4
          <6> QED
            BY <1>1, <5>2, <5>4, <6>1
        <5>5. CASE j # k
          <6>1. DataOf(r, j) = DataOf(map, j)
            BY <5>1, <5>2, <5>3, <5>5
          <6> QED
            BY <1>3, <5>5, <6>1
        <5> QED
          BY <5>4, <5>5
      <4> QED
        BY <1>1, <3>2, <3>3, <3>4, <3>5, <4>2
    <3> QED
      BY <3>2, <3>5, <3>7, <3>8
  <2> QED
    BY <2>1, <2>2, <2>4, <2>5
<1> QED
  BY <1>4, <1>5 DEF Count

\* The invariant holds before the first line and after every one.
LEMMA MapInvInit == MapInit => MapInv
<1>1. SUFFICES ASSUME MapInit PROVE MapInv
  OBVIOUS
<1>2. Buckets0 \in TableSizes /\ KeysHashed
  BY <1>1, HashmapAssumption DEF MapInit, TableSizes, KeysHashed
<1>3. Whole(map)
  BY <1>1, <1>2, EmptyTable DEF MapInit, Whole
<1>4. asked \in [Keys -> 0..MaxAsked]
  BY <1>1, HashmapAssumption DEF MapInit
<1> QED
  BY <1>1, <1>2, <1>3, <1>4 DEF MapInit, MapInv

LEMMA MapInvNext == MapInv /\ [MapNext]_mapVars => MapInv'
<1>1. SUFFICES ASSUME MapInv, [MapNext]_mapVars PROVE MapInv'
  OBVIOUS
<1>2. CASE MapNext
  <2>1. PICK k \in Keys, d \in Amounts : Count(k, d)
    BY <1>2 DEF MapNext
  <2>2. Whole(map') /\ failed' \in BOOLEAN /\ faults' \subseteq Faults /\ hash' = hash
    BY <1>1, <2>1, CountAdds
  <2>3. asked' \in [Keys -> 0..MaxAsked]
    <3>1. /\ asked' = [asked EXCEPT ![k] = @ + d] /\ asked[k] + d <= MaxAsked
          /\ d \in Nat /\ MaxAsked \in Nat /\ asked \in [Keys -> 0..MaxAsked]
      BY <1>1, <2>1, HashmapAssumption DEF Count, MapInv
    <3>2. asked[k] + d \in 0..MaxAsked
      BY <3>1
    <3> QED
      BY <3>1, <3>2
  <2>4. KeysHashed' /\ hash' \in Hashes
    BY <1>1, <2>2 DEF KeysHashed, MapInv
  <2>5. Whole(map)'
    <3>1. PICK n \in TableSizes : map' \in Table(n) /\ Chains(map')
      BY <2>2 DEF Whole
    <3> QED
      BY <2>2, <3>1 DEF Whole, Chains, GetStop, Place, At
  <2> QED
    BY <2>2, <2>3, <2>4, <2>5 DEF MapInv
<1>3. CASE UNCHANGED mapVars
  BY <1>1, <1>3 DEF mapVars, MapInv, KeysHashed, Whole, Chains, GetStop, Place, At
<1> QED
  BY <1>1, <1>2, <1>3

LEMMA MapInvAlways == MapSpec => []MapInv
<1>1. MapInit => MapInv
  BY MapInvInit
<1>2. MapInv /\ [MapNext]_mapVars => MapInv'
  BY MapInvNext
<1> QED
  BY <1>1, <1>2, PTL DEF MapSpec

\* Every reachable map is well typed: the table has a bucket for every index
\* below number_of_buckets, before and after it has grown.
THEOREM MapTypeCorrect == MapSpec => []MapTypeOK
<1>1. MapInv => MapTypeOK
  <2>1. SUFFICES ASSUME MapInv PROVE MapTypeOK
    OBVIOUS
  <2>2. PICK n \in TableSizes : map \in Table(n)
    BY <2>1 DEF MapInv, Whole
  <2>3. /\ map.n = n /\ n \in Nat /\ map.elements \in Nat
        /\ map.buckets \in [0..(n - 1) -> NodeKinds]
    BY <2>2 DEF Table, TableSizes
  <2>4. BucketsOf(map) \subseteq NodeKinds
    BY <2>3 DEF BucketsOf
  <2> QED
    BY <2>1, <2>3, <2>4 DEF MapTypeOK, MapInv
<1> QED
  BY <1>1, MapInvAlways, PTL

\* The new table never grows in its turn: set, which realloc calls for each node,
\* finds it loaded too little after any of them, which is why Copied may insert
\* and leave it at that (open_hashmap.c 97, 147-148).
THEOREM GrowsOnce ==
  MapSpec => [](\A i \in 0..map.n : ~Loaded(CopiedUpTo(map)[i]))
<1>1. MapInv => \A i \in 0..map.n : ~Loaded(CopiedUpTo(map)[i])
  <2>1. SUFFICES ASSUME MapInv, NEW i \in 0..map.n PROVE ~Loaded(CopiedUpTo(map)[i])
    OBVIOUS
  <2>2. PICK n \in TableSizes : map \in Table(n) /\ Chains(map)
    BY <2>1 DEF MapInv, Whole
  <2>3. map.n = n /\ KeysHashed
    BY <2>1, <2>2 DEF MapInv, Table
  <2> QED
    BY <2>2, <2>3, NotLoaded
<1> QED
  BY <1>1, MapInvAlways, PTL

\* get stops at every node, for its key: whatever collided, wrapped round the end
\* or moved when the table grew, and whatever allocation failed
\* (open_hashmap.c 79-193).
THEOREM EveryNodeIsFound == MapSpec => []EveryNodeFound
<1>1. MapInv => EveryNodeFound
  BY DEF MapInv, Whole, Chains, EveryNodeFound
<1> QED
  BY <1>1, MapInvAlways, PTL

\* A line is an Add or a Refuse of the abstract counters.
LEMMA CountIsAddOrRefuse ==
  MapInv /\ MapInv' /\ [MapNext]_mapVars => [Counters!Next]_(Counters!vars)
<1>1. SUFFICES ASSUME MapInv, MapInv', [MapNext]_mapVars
               PROVE  [Counters!Next]_(Counters!vars)
  OBVIOUS
<1>2. CASE UNCHANGED mapVars
  <2>1. \A k \in Keys : DataOf(map, k)' = DataOf(map, k)
    BY <1>2 DEF mapVars, DataOf, Found, GetStop, Place, At
  <2> QED
    BY <1>2, <2>1 DEF mapVars, Counters!vars
<1>3. CASE MapNext
  <2>1. PICK k \in Keys, d \in Amounts : Count(k, d)
    BY <1>3 DEF MapNext
  <2>2. \/ /\ \A j \in Keys : DataOf(map', j) = DataOf(map, j) + (IF j = k THEN d ELSE 0)
           /\ failed' \in {failed, TRUE}
        \/ /\ \A j \in Keys : DataOf(map', j) = DataOf(map, j)
           /\ failed' = TRUE
    BY <1>1, <2>1, CountAdds
  <2>3. hash' = hash /\ asked' = [asked EXCEPT ![k] = @ + d]
    BY <2>1 DEF Count
  <2>4. \A j \in Keys : DataOf(map, j)' = DataOf(map', j)
    BY <2>3 DEF DataOf, Found, GetStop, Place, At
  <2>5. CASE /\ \A j \in Keys : DataOf(map', j) = DataOf(map, j) + (IF j = k THEN d ELSE 0)
             /\ failed' \in {failed, TRUE}
    <3>1. \A j \in Keys : DataOf(map, j) \in Nat
      BY <1>1, Numbers DEF MapInv, Whole
    <3>2. [j \in Keys |-> DataOf(map, j)'] = [[j \in Keys |-> DataOf(map, j)] EXCEPT ![k] = @ + d]
      <4>1. PICK f, g : f = [j \in Keys |-> DataOf(map, j)] /\ g = [j \in Keys |-> DataOf(map, j)']
        OBVIOUS
      <4>2. \A j \in Keys : g[j] = f[j] + (IF j = k THEN d ELSE 0) /\ f[j] \in Nat
        BY <2>4, <2>5, <3>1, <4>1
      <4>3. f \in [Keys -> Nat] /\ DOMAIN g = Keys
        BY <4>1, <4>2
      <4>4. PICK h : h = [f EXCEPT ![k] = f[k] + d]
        OBVIOUS
      <4>5. \A j \in Keys : h[j] = g[j]
        BY <4>2, <4>3, <4>4
      <4>6. g = h
        <5>1. g = [j \in Keys |-> g[j]]
          BY <4>1
        <5>2. h = [j \in Keys |-> h[j]]
          BY <4>3, <4>4
        <5> QED
          BY <4>5, <5>1, <5>2
      <4> QED
        BY <4>1, <4>4, <4>6
    <3>3. Counters!Add(k, d)
      BY <2>3, <2>5, <3>2 DEF Counters!Add
    <3> QED
      BY <3>3 DEF Counters!Next
  <2>6. CASE /\ \A j \in Keys : DataOf(map', j) = DataOf(map, j)
             /\ failed' = TRUE
    <3>1. [j \in Keys |-> DataOf(map, j)'] = [j \in Keys |-> DataOf(map, j)]
      BY <2>4, <2>6
    <3>2. Counters!Refuse(k, d)
      BY <2>3, <2>6, <3>1 DEF Counters!Refuse
    <3> QED
      BY <3>2 DEF Counters!Next
  <2> QED
    BY <2>2, <2>5, <2>6
<1> QED
  BY <1>1, <1>2, <1>3

\* Every line is added to the number of its key and to no other, or it is not
\* added and the caller hears of it: each step of the map is one of CounterMap.
THEOREM CountsKept == MapSpec => ImplementsCounters
<1>1. MapInit => Counters!Init
  <2>1. SUFFICES ASSUME MapInit PROVE Counters!Init
    OBVIOUS
  <2>2. Buckets0 \in TableSizes /\ KeysHashed
    BY <2>1, HashmapAssumption DEF MapInit, TableSizes, KeysHashed
  <2>3. \A k \in Keys : DataOf(map, k) = 0
    <3>1. map \in Table(Buckets0) /\ Chains(map) /\ \A k \in Keys, v \in Nat : ~Has(map, k, v)
      BY <2>1, <2>2, EmptyTable DEF MapInit
    <3> QED
      BY <2>2, <3>1, Numbers
  <2> QED
    BY <2>1, <2>3 DEF MapInit, Counters!Init
<1>2. MapInv /\ MapInv' /\ [MapNext]_mapVars => [Counters!Next]_(Counters!vars)
  BY CountIsAddOrRefuse
<1> QED
  BY <1>1, <1>2, MapInvAlways, PTL DEF MapSpec, ImplementsCounters, Counters!Spec

-----------------------------------------------------------------------------
(* The load of the map *)

\* number_of_elements is the number of nodes.
Sized(m) == m.elements = Cardinality(Nodes(m))

LEMMA NodesCounted ==
  ASSUME NEW n \in TableSizes, NEW m \in Table(n)
  PROVE  IsFiniteSet(Nodes(m)) /\ Cardinality(Nodes(m)) \in 0..n
<1>1. n \in Nat /\ m.n = n
  BY DEF Table, TableSizes
<1>2. IsFiniteSet(0..(n - 1)) /\ Cardinality(0..(n - 1)) = n
  BY <1>1, FS_Interval
<1>3. Nodes(m) \in SUBSET (0..(n - 1))
  BY <1>1 DEF Nodes
<1>4. IsFiniteSet(Nodes(m)) /\ Cardinality(Nodes(m)) <= n
  BY <1>2, <1>3, FS_Subset
<1> QED
  BY <1>1, <1>4, FS_CardinalityType

\* A table that has every number of another has as many nodes: a key has one.
LEMMA NoFewerNodes ==
  ASSUME KeysHashed, NEW n \in TableSizes, NEW m \in Table(n), Chains(m),
         NEW l \in TableSizes, NEW r \in Table(l), Chains(r),
         \A k \in Keys, v \in Nat : Has(m, k, v) => Has(r, k, v)
  PROVE  Cardinality(Nodes(m)) <= Cardinality(Nodes(r))
<1> DEFINE Same(i, j) == r.buckets[j].key = m.buckets[i].key
           f == [i \in Nodes(m) |-> CHOOSE j \in Nodes(r) : Same(i, j)]
<1>1. ASSUME NEW i \in Nodes(m) PROVE m.buckets[i].key \in Keys /\ \E j \in Nodes(r) : Same(i, j)
  <2>1. m.buckets[i] \in NodeKinds /\ ~IsVacant(m.buckets[i])
    BY DEF Nodes, Table
  <2>2. m.buckets[i].key \in Keys /\ m.buckets[i].data \in Nat
    BY <2>1, BucketKinds
  <2>3. Has(r, m.buckets[i].key, m.buckets[i].data)
    BY <2>2 DEF Has
  <2> QED
    BY <2>2, <2>3 DEF Has
<1>2. ASSUME NEW i \in Nodes(m) PROVE f[i] \in Nodes(r) /\ Same(i, f[i])
  <2>1. PICK j \in Nodes(r) : Same(i, j)
    BY <1>1
  <2> QED
    BY <2>1
<1>3. ASSUME NEW i \in Nodes(m), NEW j \in Nodes(m), f[i] = f[j] PROVE i = j
  <2>1. m.buckets[i].key = m.buckets[j].key
    BY <1>2, <1>3
  <2> QED
    BY <1>1, <2>1, Lookup
<1>4. f \in Injection(Nodes(m), Nodes(r))
  <2>1. f \in [Nodes(m) -> Nodes(r)]
    BY <1>2
  <2> HIDE DEF f
  <2> QED
    BY <1>3, <2>1 DEF Injection, IsInjective
<1> HIDE DEF f
<1> QED
  BY <1>4, NodesCounted, FS_Injection

LEMMA SameSize ==
  ASSUME KeysHashed, NEW m, Whole(m), NEW r, Whole(r), SameNumbers(m, r)
  PROVE  Cardinality(Nodes(r)) = Cardinality(Nodes(m))
<1>1. PICK n \in TableSizes : m \in Table(n) /\ Chains(m)
  BY DEF Whole
<1>2. PICK l \in TableSizes : r \in Table(l) /\ Chains(r)
  BY DEF Whole
<1>3. Cardinality(Nodes(m)) <= Cardinality(Nodes(r)) /\ Cardinality(Nodes(r)) <= Cardinality(Nodes(m))
  BY <1>1, <1>2, NoFewerNodes DEF SameNumbers
<1>4. Cardinality(Nodes(m)) \in Nat /\ Cardinality(Nodes(r)) \in Nat
  BY <1>1, <1>2, NodesCounted DEF TableSizes
<1> QED
  BY <1>3, <1>4

\* The allocations without which a table does not grow.
NoGrowth == {"new", "copy"}

\* The load is looked at: the count stays right, a table that is loaded grows
\* unless an allocation fails, and it is loaded no more.
LEMMA GrowCounts ==
  ASSUME KeysHashed, NEW m, Whole(m), Sized(m), NEW ok, NEW o \in GrowLoaded(m, ok)
  PROVE  /\ Sized(o.map)
         /\ o.fault \cap NoGrowth = {} => ~Loaded(o.map)
         /\ ok = TRUE /\ o.rc # 0 => o.fault # {}
<1>1. PICK n \in TableSizes : m \in Table(n) /\ Chains(m)
  BY DEF Whole
<1>2. m.n = n /\ n \in Nat /\ m.elements \in 0..n
  BY <1>1, NodesCounted DEF Sized, Table, TableSizes
<1>3. PICK s : s = Copied(m)
  OBVIOUS
<1>4. s \in Table(Grown(m)) /\ Grown(m) \in TableSizes /\ Chains(s) /\ SameNumbers(m, s)
  BY <1>1, <1>3, CopyKeeps
<1>5. s.elements = m.elements /\ s.n = Grown(m)
  <2>1. CopiedUpTo(m)[n] \in Table(Grown(m))
    BY <1>1, <1>2, MoveAll DEF MovedUpTo
  <2>2. s = [CopiedUpTo(m)[n] EXCEPT !.elements = m.elements]
    BY <1>2, <1>3 DEF Copied
  <2> QED
    BY <1>4, <2>1, <2>2 DEF Table
<1>6. Sized(s)
  <2>1. Whole(s)
    BY <1>4 DEF Whole
  <2> QED
    BY <1>4, <1>5, <2>1, SameSize DEF Sized
<1>7. ~Loaded(s)
  <2>1. PICK a \in Nat : a = 3 * n /\ Grown(m) = a \div 2
    BY <1>2 DEF Grown
  <2>2. a \div 2 \in Nat /\ 2 * (a \div 2) >= a - 1
    BY Division
  <2>3. ~(10 * s.elements > 9 * s.n)
    BY <1>2, <1>5, <2>1, <2>2 DEF TableSizes
  <2> QED
    BY <2>3 DEF Loaded
<1>8. PICK p : /\ \/ Loaded(m) /\ p \in ReallocOutcomes(m)
                  \/ ~Loaded(m) /\ p = [map |-> m, rc |-> 0, fault |-> {}]
               /\ o = [p EXCEPT !.rc = IF ok THEN @ ELSE -1]
  BY DEF GrowLoaded
<1>9. PICK c, x, f : /\ p = [map |-> c, rc |-> x, fault |-> f]
                     /\ \/ c = s /\ x = 0 /\ f = {}
                        \/ c = m /\ x = 0 /\ f = {"new"}
                        \/ c = m /\ x = -1 /\ f = {"copy"}
                        \/ c = m /\ x = 0 /\ f = {} /\ ~Loaded(m)
  BY <1>3, <1>8 DEF ReallocOutcomes
<1>10. o.map = c /\ o.fault = f /\ (ok = TRUE => o.rc = x)
  BY <1>8, <1>9
<1> QED
  BY <1>6, <1>7, <1>9, <1>10 DEF NoGrowth

\* What set does to the count and to the load, and when it reports a failure.
LEMMA SetCounts ==
  ASSUME KeysHashed, NEW m, Whole(m), Sized(m), NEW k \in Keys, NEW v \in Nat, ~Found(m, k),
         NEW o \in SetOutcomes(m, k, v)
  PROVE  /\ Sized(o.map)
         /\ ~Loaded(m) /\ o.fault \cap NoGrowth = {} => ~Loaded(o.map)
         /\ ~Loaded(m) /\ o.rc # 0 => o.fault # {}
<1>1. PICK n \in TableSizes : m \in Table(n) /\ Chains(m)
  BY DEF Whole
<1>2. CASE SetStop(m, k) = {}
  <2>1. o \in GrowLoaded(m, FALSE)
    BY <1>2 DEF SetOutcomes
  <2>2. Loaded(m)
    <3>1. SUFFICES ASSUME ~Loaded(m) PROVE FALSE
      OBVIOUS
    <3>2. m.n = n /\ n \in Nat /\ n > 1 /\ m.elements = Cardinality(Nodes(m)) /\ m.elements \in 0..n
      BY <1>1, NodesCounted DEF Sized, Table, TableSizes
    <3>3. Cardinality(Nodes(m)) < n
      BY <3>1, <3>2 DEF Loaded
    <3>4. \E j \in 0..(n - 1) : IsVacant(m.buckets[j])
      BY <1>1, <3>3, NodesCounted, Room
    <3> QED
      BY <1>1, <1>2, <3>4, Vacant
  <2> QED
    BY <2>1, <2>2, GrowCounts
<1>3. CASE SetStop(m, k) # {}
  <2>1. PICK r : r = Insert(m, k, v)
    OBVIOUS
  <2>2. /\ r \in Table(n) /\ Chains(r) /\ r.elements = m.elements + 1
        /\ \E p \in 0..(n - 1) : p \notin Nodes(m) /\ Nodes(r) = Nodes(m) \cup {p}
    BY <1>1, <1>3, <2>1, Insertion
  <2>3. Whole(r) /\ Sized(r)
    <3>1. PICK p : p \notin Nodes(m) /\ Nodes(r) = Nodes(m) \cup {p}
      BY <2>2
    <3>2. Cardinality(Nodes(r)) = Cardinality(Nodes(m)) + 1
      BY <1>1, <3>1, NodesCounted, FS_AddElement
    <3> QED
      BY <2>2, <3>2 DEF Whole, Sized
  <2>4. CASE o \in GrowLoaded(r, TRUE)
    BY <2>3, <2>4, GrowCounts
  <2>5. CASE o = [map |-> m, rc |-> -1, fault |-> {"node"}]
    BY <2>5
  <2>6. \/ o \in GrowLoaded(r, TRUE)
        \/ o = [map |-> m, rc |-> -1, fault |-> {"node"}]
    BY <1>3, <2>1 DEF SetOutcomes
  <2> QED
    BY <2>4, <2>5, <2>6
<1> QED
  BY <1>2, <1>3

\* The count is right, and what went wrong has a cause: a table stays loaded only
\* if realloc failed to allocate, and a caller is told of a failure only if an
\* allocation failed.
LoadInv ==
  /\ Sized(map)
  /\ faults \cap NoGrowth = {} => ~Loaded(map)
  /\ failed => faults # {}

LEMMA LoadInvInit == MapInit => LoadInv
<1>1. SUFFICES ASSUME MapInit PROVE LoadInv
  OBVIOUS
<1>2. Buckets0 \in TableSizes
  BY HashmapAssumption DEF TableSizes
<1>3. Nodes(map) = {} /\ map.elements = 0 /\ map.n = Buckets0
  BY <1>1, <1>2, EmptyTable DEF MapInit, Empty
<1>4. Sized(map)
  BY <1>3, FS_EmptySet DEF Sized
<1>5. ~Loaded(map)
  BY <1>2, <1>3 DEF Loaded, TableSizes
<1> QED
  BY <1>1, <1>4, <1>5 DEF LoadInv, MapInit

LEMMA LoadInvAdd ==
  ASSUME MapInv, LoadInv, NEW k \in Keys, NEW d \in Amounts, AddToFound(k, d)
  PROVE  LoadInv'
<1>1. PICK e \in GetStop(map, k) : map' = [map EXCEPT !.buckets[Place(map, k, e)].data = @ + d]
  BY DEF AddToFound
<1>2. PICK m : m = map
  OBVIOUS
<1>3. PICK r : r = map'
  OBVIOUS
<1>4. e \in GetStop(m, k) /\ r = Raised(m, k, e, d)
  BY <1>1, <1>2, <1>3 DEF Raised
<1>5. KeysHashed /\ Whole(m) /\ Found(m, k) /\ d \in Nat
  BY <1>2, HashmapAssumption DEF MapInv, AddToFound
<1>6. Nodes(r) = Nodes(m) /\ r.n = m.n /\ r.elements = m.elements
  BY <1>4, <1>5, AfterAdd
<1>7. Sized(r) /\ (Loaded(r) <=> Loaded(m))
  BY <1>2, <1>6 DEF LoadInv, Sized, Loaded
<1>8. failed' = failed /\ faults' = faults
  BY DEF AddToFound
<1>9. Sized(map)' /\ (Loaded(map)' <=> Loaded(m))
  BY <1>3, <1>7 DEF Sized, Loaded, Nodes
<1> QED
  BY <1>2, <1>8, <1>9 DEF LoadInv

LEMMA LoadInvSet ==
  ASSUME MapInv, LoadInv, NEW k \in Keys, NEW d \in Amounts, SetMissing(k, d)
  PROVE  LoadInv'
<1>1. PICK missed \in MissOutcomes(map, k) :
        \/ /\ "key" \in Faults
           /\ map' = missed.map
           /\ failed' = TRUE
           /\ faults' = faults \cup missed.fault \cup {"key"}
        \/ \E o \in SetOutcomes(missed.map, k, d) :
              /\ map' = o.map
              /\ failed' = (failed \/ o.rc # 0)
              /\ faults' = faults \cup missed.fault \cup o.fault
  BY DEF SetMissing
<1>2. PICK m : m = missed.map
  OBVIOUS
<1>3. KeysHashed /\ Whole(map) /\ d \in Nat /\ ~Found(map, k)
  BY HashmapAssumption DEF MapInv, SetMissing
<1>4. /\ Whole(m) /\ SameNumbers(map, m) /\ ~Found(m, k)
      /\ m.n = map.n /\ m.elements = map.elements
      /\ missed.fault \cap NoGrowth = {}
  BY <1>1, <1>2, <1>3, AfterMiss DEF NoGrowth
<1>5. Sized(m) /\ (Loaded(m) <=> Loaded(map))
  BY <1>3, <1>4, SameSize DEF LoadInv, Sized, Loaded
<1>6. PICK r : r = map'
  OBVIOUS
<1>7. Sized(map)' = Sized(r) /\ Loaded(map)' = Loaded(r)
  BY <1>6 DEF Sized, Loaded, Nodes
<1>8. CASE map' = m /\ failed' = TRUE /\ faults' = faults \cup missed.fault \cup {"key"}
  BY <1>4, <1>5, <1>6, <1>7, <1>8 DEF LoadInv, NoGrowth
<1>9. ASSUME NEW o \in SetOutcomes(m, k, d), map' = o.map, failed' = (failed \/ o.rc # 0),
             faults' = faults \cup missed.fault \cup o.fault
      PROVE  LoadInv'
  <2>1. /\ Sized(o.map)
        /\ ~Loaded(m) /\ o.fault \cap NoGrowth = {} => ~Loaded(o.map)
        /\ ~Loaded(m) /\ o.rc # 0 => o.fault # {}
    BY <1>3, <1>4, <1>5, <1>9, SetCounts
  <2>2. Sized(map)'
    BY <1>6, <1>7, <1>9, <2>1
  <2>3. faults' \cap NoGrowth = {} => ~Loaded(map)'
    BY <1>5, <1>6, <1>7, <1>9, <2>1 DEF LoadInv
  <2>4. failed' => faults' # {}
    <3>1. CASE failed
      BY <1>9, <3>1 DEF LoadInv
    <3>2. CASE o.rc # 0 /\ faults \cap NoGrowth = {}
      BY <1>5, <1>9, <2>1, <3>2 DEF LoadInv
    <3>3. CASE o.rc # 0 /\ faults \cap NoGrowth # {}
      BY <1>9, <3>3
    <3> QED
      BY <1>9, <3>1, <3>2, <3>3
  <2> QED
    BY <2>2, <2>3, <2>4 DEF LoadInv
<1> QED
  BY <1>1, <1>2, <1>8, <1>9

LEMMA LoadInvNext == MapInv /\ LoadInv /\ [MapNext]_mapVars => LoadInv'
<1>1. SUFFICES ASSUME MapInv, LoadInv, [MapNext]_mapVars PROVE LoadInv'
  OBVIOUS
<1>2. CASE MapNext
  <2>1. PICK k \in Keys, d \in Amounts : AddToFound(k, d) \/ SetMissing(k, d)
    BY <1>2 DEF MapNext, Count
  <2> QED
    BY <1>1, <2>1, LoadInvAdd, LoadInvSet
<1>3. CASE UNCHANGED mapVars
  BY <1>1, <1>3 DEF mapVars, LoadInv, Sized, Loaded, Nodes
<1> QED
  BY <1>1, <1>2, <1>3

Full(m) == \A i \in 0..(m.n - 1) : ~IsVacant(m.buckets[i])

\* Without a failed allocation in realloc there is always a vacant bucket for the
\* next key, so get and set need not look for the end of a full table; and no
\* caller is told of a failure that is not one of an allocation
\* (open_hashmap.c 118-163).
FailuresExplained ==
  /\ Full(map) => faults \cap {"new", "copy"} # {}
  /\ failed => faults # {}

THEOREM FullAfterFailure == MapSpec => []FailuresExplained
<1>1. MapInv /\ LoadInv => FailuresExplained
  <2>1. SUFFICES ASSUME MapInv, LoadInv, Full(map), ~Loaded(map) PROVE FALSE
    BY DEF LoadInv, FailuresExplained, NoGrowth
  <2>2. PICK n \in TableSizes : map \in Table(n)
    BY <2>1 DEF MapInv, Whole
  <2>3. map.n = n /\ n \in Nat /\ n > 1 /\ map.elements \in 0..n
    BY <2>1, <2>2, NodesCounted DEF LoadInv, Sized, Table, TableSizes
  <2>4. map.elements < n
    BY <2>1, <2>3 DEF Loaded
  <2>5. \E j \in 0..(n - 1) : IsVacant(map.buckets[j])
    BY <2>1, <2>2, <2>4, NodesCounted, Room DEF LoadInv, Sized
  <2> QED
    BY <2>1, <2>3, <2>5 DEF Full
<1> QED
  BY <1>1, MapInvAlways, LoadInvInit, LoadInvNext, PTL DEF MapSpec
=============================================================================
