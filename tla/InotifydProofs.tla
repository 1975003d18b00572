--------------------------- MODULE InotifydProofs ---------------------------
(***************************************************************************)
(* Proofs about the file watcher (Inotifyd), for any number of clients,    *)
(* any size of the table, any configurations and any bounds.               *)
(***************************************************************************)
EXTENDS Inotifyd, SequenceTheorems, FiniteSetTheorems, TLAPS

News == [event : Event, size : Files \cup Links \cup {None}]
Types == TypeOK /\ got \in [Conns -> Seq(News)]

\* What is left of a server that ended.
DownInv ==
  pc = "down" =>
    /\ watch = None /\ queue = <<>> /\ told = <<>> /\ i = 0 /\ ~end_loop /\ ~reloadFailed
    /\ \A k \in Slots : clients[k] = None
    /\ \A c \in Conns : conn[c] # "open"

\* The table is filled from below; a client has one slot, from the time it
\* was told Ready on.
SlotInv ==
  /\ \A k \in Slots : k >= clients_num => clients[k] = None
  /\ \A j, k \in Slots : clients[j] # None /\ clients[j] = clients[k] => j = k
  /\ \A k \in Slots : clients[k] # None =>
       conn[clients[k]] # "none" /\ (conn[clients[k]] = "open" => served[clients[k]] = "ready")
  /\ \A c \in Conns : conn[c] = "open" /\ served[c] = "ready" => \E k \in Slots : clients[k] = c

\* A connection not yet accepted was told nothing and has no slot.
Fresh(c) == served[c] = "no" /\ got[c] = <<>> /\ \A k \in Slots : clients[k] # c
BacklogInv ==
  /\ \A j, k \in 1..Len(backlog) : backlog[j] = backlog[k] => j = k
  /\ \A j \in 1..Len(backlog) : conn[backlog[j]] # "none" /\ Fresh(backlog[j])
  /\ \A c \in Conns : conn[c] = "none" => Fresh(c)

\* Where the loop over the clients is, and why main reads or accepts.
LoopInv ==
  /\ pc = "accept" => backlog # <<>>
  /\ pc = "read" => queue # <<>>
  /\ pc = "notify" => told # <<>>
  /\ pc \notin {"notify", "exit"} => i >= max_clients \/ (told = <<>> /\ ~end_loop)

\* How many events the client in slot k has been passed by.
Passed(k) ==
  Len(told) - (IF pc \in {"notify", "exit"} /\ i <= k /\ told # <<>> THEN 1 ELSE 0)
Holds(k) == clients[k] # None /\ conn[clients[k]] = "open"
NewsInv ==
  \A k \in Slots : Holds(k) =>
    /\ since[clients[k]] <= Passed(k)
    /\ got[clients[k]] = SubSeq(told, since[clients[k]] + 1, Passed(k))

\* The events not yet read are of the file watched, which is what the path in use
\* names, except between the two steps of a reload or where the size may be of
\* something else.
Excused == reloadFailed \/ moved \/ (conf.file \in Paths /\ names[conf.file] \in Links)
PathInv ==
  /\ \A k \in 1..Len(queue) : queue[k].file = watch
  /\ Running /\ pc # "rewatch" => Excused \/ (conf.file \in Paths /\ watch = names[conf.file])
  /\ pc = "rewatch" => conf.file \in Paths
  /\ NewsAboutOneFile

IInv ==
  Types /\ DownInv /\ SlotInv /\ BacklogInv /\ LoopInv /\ NewsInv /\ PathInv

-----------------------------------------------------------------------------
LEMMA AppendBehind ==
    ASSUME NEW S, NEW s \in Seq(S), NEW x \in S, NEW m \in Nat, m <= Len(s)
    PROVE  SubSeq(Append(s, x), m + 1, Len(s)) = SubSeq(s, m + 1, Len(s))
<1>1. PICK a : a = Append(s, x)
  OBVIOUS
<1>2. /\ Len(s) \in Nat /\ a \in Seq(S) /\ Len(a) = Len(s) + 1
      /\ \A j \in 1..Len(s) : a[j] = s[j] /\ s[j] \in S
  BY <1>1, LenProperties, AppendProperties, ElementOfSeq
<1>3. \A j \in (m + 1)..Len(s) : a[j] = s[j] /\ s[j] \in S
  BY <1>2
<1>4. /\ SubSeq(a, m + 1, Len(s)) \in Seq(S)
      /\ Len(SubSeq(a, m + 1, Len(s))) = Len(s) - m
      /\ \A j \in 1..(Len(s) - m) : SubSeq(a, m + 1, Len(s))[j] = a[m + j]
  <2>1. m + 1 \in Int /\ Len(s) \in Int /\ \A j \in (m + 1)..Len(s) : a[j] \in S
    BY <1>2, <1>3
  <2>2. /\ SubSeq(a, m + 1, Len(s)) \in Seq(S)
        /\ Len(SubSeq(a, m + 1, Len(s))) = IF m + 1 <= Len(s) THEN Len(s) - (m + 1) + 1 ELSE 0
        /\ \A j \in 1..(Len(s) - (m + 1) + 1) : SubSeq(a, m + 1, Len(s))[j] = a[m + 1 + j - 1]
    BY <2>1, SubSeqProperties
  <2>3. /\ Len(s) - (m + 1) + 1 = Len(s) - m /\ \A j \in 1..(Len(s) - m) : m + 1 + j - 1 = m + j
        /\ (IF m + 1 <= Len(s) THEN Len(s) - (m + 1) + 1 ELSE 0) = Len(s) - m
    BY <1>2
  <2>4. QED
    BY <2>2, <2>3
<1>5. /\ SubSeq(s, m + 1, Len(s)) \in Seq(S)
      /\ Len(SubSeq(s, m + 1, Len(s))) = Len(s) - m
      /\ \A j \in 1..(Len(s) - m) : SubSeq(s, m + 1, Len(s))[j] = s[m + j]
  <2>1. m + 1 \in Int /\ Len(s) \in Int /\ \A j \in (m + 1)..Len(s) : s[j] \in S
    BY <1>2, <1>3
  <2>2. /\ SubSeq(s, m + 1, Len(s)) \in Seq(S)
        /\ Len(SubSeq(s, m + 1, Len(s))) = IF m + 1 <= Len(s) THEN Len(s) - (m + 1) + 1 ELSE 0
        /\ \A j \in 1..(Len(s) - (m + 1) + 1) : SubSeq(s, m + 1, Len(s))[j] = s[m + 1 + j - 1]
    BY <2>1, SubSeqProperties
  <2>3. /\ Len(s) - (m + 1) + 1 = Len(s) - m /\ \A j \in 1..(Len(s) - m) : m + 1 + j - 1 = m + j
        /\ (IF m + 1 <= Len(s) THEN Len(s) - (m + 1) + 1 ELSE 0) = Len(s) - m
    BY <1>2
  <2>4. QED
    BY <2>2, <2>3
<1>6. \A j \in 1..(Len(s) - m) : a[m + j] = s[m + j]
  BY <1>2
<1>7. \A j \in 1..Len(SubSeq(a, m + 1, Len(s))) :
        SubSeq(a, m + 1, Len(s))[j] = SubSeq(s, m + 1, Len(s))[j]
  BY <1>4, <1>5, <1>6
<1>8. QED
  BY <1>1, <1>4, <1>5, <1>7, SeqEqual

LEMMA OneMore ==
    ASSUME NEW S, NEW s \in Seq(S), NEW m \in Nat, m + 1 <= Len(s)
    PROVE  Append(SubSeq(s, m + 1, Len(s) - 1), s[Len(s)]) = SubSeq(s, m + 1, Len(s))
<1>1. Len(s) \in Nat /\ m + 1 \in 1..Len(s) /\ Len(s) \in (m + 1)..Len(s)
      /\ \A j \in 1..Len(s) : s[j] \in S
  BY LenProperties, ElementOfSeq
<1>2. SubSeq(s, m + 1, Len(s)) = SubSeq(s, m + 1, Len(s) - 1) \o <<s[Len(s)]>>
  BY <1>1, SubSeqRecursiveSecond
<1>3. SubSeq(s, m + 1, Len(s) - 1) \in Seq(S)
  <2>1. m + 1 \in Int /\ Len(s) - 1 \in Int /\ \A j \in (m + 1)..(Len(s) - 1) : s[j] \in S
    BY <1>1
  <2>2. QED
    BY <2>1, SubSeqProperties
<1>4. s[Len(s)] \in S
  BY <1>1
<1>5. QED
  BY <1>2, <1>3, <1>4, AppendIsConcat

-----------------------------------------------------------------------------
LEMMA TypeFacts ==
    ASSUME Types
    PROVE  /\ max_clients \in Nat \ {0} /\ clients_num \in Nat /\ clients_num <= max_clients
           /\ i \in Nat /\ i <= max_clients
           /\ clients \in [Slots -> Conns \cup {None}]
           /\ \A k \in Slots : clients[k] # None => clients[k] \in Conns
           /\ Len(queue) \in Nat /\ Len(told) \in Nat /\ Len(backlog) \in Nat
           /\ told \in Seq(News) /\ queue \in Seq(Event) /\ backlog \in Seq(Conns)
           /\ \A j \in 1..Len(backlog) : backlog[j] \in Conns
<1>1. told \in Seq(News) /\ queue \in Seq(Event) /\ backlog \in Seq(Conns)
  BY DEF Types, TypeOK, News
<1>2. Len(queue) \in Nat /\ Len(told) \in Nat /\ Len(backlog) \in Nat
  BY <1>1, LenProperties
<1>3. \A j \in 1..Len(backlog) : backlog[j] \in Conns
  BY <1>1, ElementOfSeq
<1>4. max_clients \in Nat \ {0}
  BY InotifydAssumption DEF Types, TypeOK
<1>5. /\ clients_num \in Nat /\ clients_num <= max_clients /\ i \in Nat /\ i <= max_clients
      /\ clients \in [Slots -> Conns \cup {None}]
  BY <1>4 DEF Types, TypeOK
<1>6. QED
  BY <1>1, <1>2, <1>3, <1>4, <1>5

\* What the table and the clients' ends alone decide.
LEMMA SlotsStay ==
    ASSUME SlotInv, BacklogInv, UNCHANGED <<slotVars, clientVars>>
    PROVE  SlotInv' /\ BacklogInv'
<1>1. SlotInv'
  BY DEF SlotInv, Slots, slotVars, clientVars
<1>2. BacklogInv'
  BY DEF BacklogInv, Fresh, Slots, slotVars, clientVars
<1>3. QED
  BY <1>1, <1>2

LEMMA NewsStays ==
    ASSUME Types, NewsInv, UNCHANGED <<slotVars, clientVars, told, i>>,
           i < max_clients /\ told # <<>> => (pc' \in {"notify", "exit"} <=> pc \in {"notify", "exit"})
    PROVE  NewsInv'
<1>1. \A k \in Slots : Passed(k)' = Passed(k)
  BY TypeFacts DEF Passed, Slots
<1>2. \A k \in Slots : Holds(k)' <=> Holds(k)
  BY DEF Holds, slotVars, clientVars
<1>3. QED
  BY <1>1, <1>2 DEF NewsInv, Slots, slotVars, clientVars

LEMMA PathStays ==
    ASSUME PathInv, Running, UNCHANGED <<conf, watch, queue, told, reloadFailed, names, moved>>,
           pc' = "rewatch" <=> pc = "rewatch", pc' = "notify" => pc = "notify"
    PROVE  PathInv'
<1>1. NewsAboutOneFile'
  BY DEF PathInv, NewsAboutOneFile
<1>2. Excused' <=> Excused
  BY DEF Excused
<1>3. QED
  BY <1>1, <1>2 DEF PathInv, Running

\* A step of the server that only goes on.
LEMMA ControlStep ==
    ASSUME IInv, Running, pc' \in {"top", "reload", "rewatch", "clear", "select", "wait", "accept", "read", "notify", "exit"},
           UNCHANGED <<conf, reloadFailed, watchVars, loopVars, slotVars, diskVars, clientVars, runVars>>,
           reload_config' \in BOOLEAN, spent' \in 0..MaxEvents, pc' = "rewatch" <=> pc = "rewatch",
           pc' = "notify" => pc = "notify",
           i < max_clients /\ told # <<>> => (pc' \in {"notify", "exit"} <=> pc \in {"notify", "exit"}),
           LoopInv'
    PROVE  IInv'
<1>0. Types /\ SlotInv /\ BacklogInv /\ NewsInv /\ PathInv
  BY DEF IInv
<1>1. Types'
  BY <1>0 DEF Types, TypeOK, Slots, watchVars, loopVars, slotVars, diskVars, nameVars, clientVars, runVars
<1>2. DownInv'
  BY DEF DownInv
<1>3. SlotInv' /\ BacklogInv'
  BY <1>0, SlotsStay
<1>4. NewsInv'
  BY <1>0, NewsStays DEF loopVars
<1>5. PathInv'
  BY <1>0, PathStays DEF loopVars, watchVars, diskVars, nameVars
<1>6. QED
  BY <1>1, <1>2, <1>3, <1>4, <1>5 DEF IInv

\* The end of the process.
LEMMA GoneStep ==
    ASSUME IInv, NEW remaining \in SUBSET Socks, Gone(remaining)
    PROVE  IInv'
<1>0. Types /\ SlotInv /\ BacklogInv
  BY DEF IInv
<1>1. /\ pc' = "down" /\ sockets' = remaining /\ conf' = Null /\ reloadFailed' = FALSE
      /\ bound' = None /\ watch' = None /\ queue' = <<>>
      /\ event' = NoEvent /\ i' = 0 /\ told' = <<>>
      /\ stat_error' = FALSE /\ end_loop' = FALSE /\ reload_config' = FALSE
      /\ clients' = [k \in Slots |-> None] /\ clients_num' = 0 /\ max_clients' = max_clients
      /\ backlog' = <<>> /\ stalled' = {}
      /\ conn' = [c \in Conns |-> IF conn[c] = "open" THEN "closed" ELSE conn[c]]
      /\ served' = [c \in Conns |-> IF conn[c] = "open" THEN "no" ELSE served[c]]
      /\ got' = [c \in Conns |-> <<>>] /\ since' = [c \in Conns |-> 0]
      /\ moved' = FALSE /\ UNCHANGED <<names, made, text, spent, runs>>
  BY DEF Gone
<1>2. Slots' = Slots /\ max_clients \in Nat \ {0}
  BY <1>0, <1>1, TypeFacts DEF Slots
<1>3. Len(<<>>) = 0 /\ <<>> \in Seq(Event) /\ <<>> \in Seq(News) /\ <<>> \in Seq(Conns)
  BY EmptySeq
<1>4. Types'
  <2>1. conf'.file \in Strings(Paths) /\ conf'.sock \in Strings(Socks)
    BY <1>1 DEF Null, Strings
  <2>2. conn' \in [Conns -> {"none", "open", "closed"}] /\ served' \in [Conns -> {"no", "ready", "busy"}]
    BY <1>0, <1>1 DEF Types, TypeOK
  <2>3. got' \in [Conns -> Seq(News)] /\ since' \in [Conns -> Nat]
    BY <1>1, <1>3
  <2>4. \A c \in Conns : got'[c] \in Seq(News)
    BY <2>3
  <2>5. clients' \in [Slots' -> Conns \cup {None}] /\ clients_num' \in 0..max_clients' /\ i' \in 0..max_clients'
    BY <1>1, <1>2
  <2>6. QED
    BY <1>0, <1>1, <1>3, <2>1, <2>2, <2>3, <2>4, <2>5 DEF Types, TypeOK, News
<1>5. \A c \in Conns : conn'[c] # "open"
  BY <1>1
<1>6. DownInv'
  BY <1>1, <1>2, <1>5 DEF DownInv
<1>7. \A k \in Slots' : clients'[k] = None
  BY <1>1, <1>2
<1>8. SlotInv'
  BY <1>5, <1>7 DEF SlotInv
<1>9. BacklogInv'
  <2>1. ASSUME NEW c \in Conns, conn'[c] = "none" PROVE Fresh(c)'
    <3>1. conn[c] = "none" /\ served[c] = "no"
      BY <1>0, <1>1, <2>1 DEF BacklogInv, Fresh
    <3>2. served'[c] = "no" /\ got'[c] = <<>>
      BY <1>1, <3>1
    <3>3. \A k \in Slots' : clients'[k] # c
      BY <1>7, InotifydAssumption
    <3>4. QED
      BY <3>2, <3>3 DEF Fresh
  <2>2. QED
    BY <1>1, <1>3, <2>1 DEF BacklogInv
<1>10. LoopInv'
  BY <1>1 DEF LoopInv
<1>11. NewsInv'
  BY <1>7 DEF NewsInv, Holds
<1>12. PathInv'
  BY <1>1, <1>3 DEF PathInv, Running, NewsAboutOneFile
<1>13. QED
  BY <1>4, <1>6, <1>8, <1>9, <1>10, <1>11, <1>12 DEF IInv

-----------------------------------------------------------------------------
LEMMA ReadIntoTypes ==
    ASSUME text \in Texts, NEW c, c.file \in Strings(Paths), c.sock \in Strings(Socks)
    PROVE  ReadInto(c).file \in Strings(Paths) /\ ReadInto(c).sock \in Strings(Socks)
<1>1. /\ Destroyed(c.file) \in {"null", "freed"} /\ Destroyed(c.sock) \in {"null", "freed"}
  BY DEF Destroyed
<1>2. {"null", "freed"} \subseteq Strings(Paths) /\ {"null", "freed"} \subseteq Strings(Socks)
      /\ Paths \subseteq Strings(Paths) /\ Socks \subseteq Strings(Socks)
  BY DEF Strings
<1>3. Parses => text.file \in Strings(Paths) /\ text.sock \in Strings(Socks)
  BY <1>2 DEF Parses
<1>4. QED
  BY <1>1, <1>2, <1>3 DEF ReadInto

\* The conditions of ReadInto exclude one another.
LEMMA WholeText ==
    ASSUME Parses, NEW c
    PROVE  ReadInto(c) = text /\ text.file \in Paths /\ text.sock \in Socks
<1>1. text.file \in Paths /\ text.sock \in Socks
  BY DEF Parses
<1>2. text.file \notin {"eof", "blank", "nofile"} /\ text.sock \notin {"eof", "blank", "nofile"}
  BY <1>1, InotifydAssumption
<1>3. text # NoText
  BY <1>2 DEF NoText
<1>4. QED
  BY <1>1, <1>2, <1>3 DEF ReadInto

LEMMA StartStep ==
    ASSUME IInv, Start
    PROVE  IInv'
<1>0. Types /\ DownInv /\ SlotInv /\ BacklogInv /\ LoopInv /\ NewsInv /\ PathInv
  BY DEF IInv
<1>1. PICK c : c = ReadInto(Null)
  OBVIOUS
<1>2. PICK binds \in BOOLEAN : binds = (Parses /\ Found(c.file) \in Files /\ c.sock \notin sockets)
  OBVIOUS
<1>3. /\ pc = "down" /\ runs < MaxRuns /\ runs' = runs + 1
      /\ conf' = IF binds THEN c ELSE Null
      /\ watch' = IF binds THEN Found(c.file) ELSE None
      /\ bound' = IF binds THEN c.sock ELSE None
      /\ sockets' = IF binds THEN sockets \cup {c.sock} ELSE Unlinked(c)
      /\ pc' = IF binds THEN "top" ELSE "down"
      /\ UNCHANGED <<reloadFailed, queue, loopVars, slotVars, reload_config, nameVars,
                     text, clientVars, spent>>
  BY <1>1, <1>2 DEF Start
<1>4. binds => c.file \in Paths /\ c.sock \in Socks
  BY <1>1, <1>2, WholeText
<1>5. /\ queue = <<>> /\ told = <<>> /\ i = 0 /\ ~end_loop /\ ~reloadFailed
      /\ \A k \in Slots : clients[k] = None
      /\ \A d \in Conns : conn[d] # "open"
  BY <1>0, <1>3 DEF DownInv
<1>6. Types'
  <2>1. conf'.file \in Strings(Paths) /\ conf'.sock \in Strings(Socks)
    BY <1>3, <1>4 DEF Null, Strings
  <2>2. bound' \in Socks \cup {None} /\ watch' \in Files \cup {None}
    BY <1>2, <1>3, <1>4
  <2>3. sockets' \subseteq Socks
    BY <1>0, <1>3, <1>4 DEF Types, TypeOK, Unlinked
  <2>4. runs' \in 0..MaxRuns
    BY <1>0, <1>3, InotifydAssumption DEF Types, TypeOK
  <2>5. pc' \in {"top", "down"}
    BY <1>3
  <2>6. QED
    BY <1>0, <1>3, <2>1, <2>2, <2>3, <2>4, <2>5
       DEF Types, TypeOK, loopVars, slotVars, clientVars, nameVars, Slots
<1>7. DownInv'
  BY <1>3, <1>5 DEF DownInv, loopVars, slotVars, clientVars, Slots
<1>8. SlotInv' /\ BacklogInv'
  BY <1>0, <1>3, SlotsStay
<1>9. LoopInv'
  BY <1>3, <1>5 DEF LoopInv, loopVars
<1>10. NewsInv'
  BY <1>3, <1>5 DEF NewsInv, Holds, Slots, slotVars
<1>11. PathInv'
  <2>1. queue' = <<>> /\ Len(<<>>) = 0 /\ pc' \notin {"notify", "rewatch"}
    BY <1>3, <1>5, EmptySeq
  <2>2. ASSUME binds PROVE Excused' \/ (conf'.file \in Paths /\ watch' = names'[conf'.file])
    <3>1. conf' = c /\ watch' = Found(c.file) /\ names' = names /\ c.file \in Paths
      BY <1>3, <1>4, <2>2 DEF nameVars
    <3>2. QED
      BY <3>1 DEF Excused, Found
  <2>3. ~binds => ~Running'
    BY <1>3 DEF Running
  <2>4. QED
    BY <2>1, <2>2, <2>3 DEF PathInv, NewsAboutOneFile
<1>12. QED
  BY <1>6, <1>7, <1>8, <1>9, <1>10, <1>11 DEF IInv

LEMMA ExitStep ==
    ASSUME IInv, Exit
    PROVE  IInv'
<1>1. sockets \subseteq Socks
  BY DEF IInv, Types, TypeOK
<1>2. CASE Gone(Unlinked(conf))
  BY <1>1, <1>2, GoneStep DEF Unlinked
<1>3. CASE \E s \in sockets : Gone(sockets \ {s})
  BY <1>1, <1>3, GoneStep
<1>4. QED
  BY <1>2, <1>3 DEF Exit

LEMMA TopStep ==
    ASSUME IInv, Top
    PROVE  IInv'
<1>0. Types /\ LoopInv
  BY DEF IInv
<1>1. /\ pc = "top" /\ pc' = IF end_loop THEN "exit" ELSE IF reload_config THEN "reload" ELSE "select"
      /\ UNCHANGED <<confVars, watchVars, loopVars, slotVars, reload_config, diskVars,
                     clientVars, spent, runVars>>
  BY DEF Top
<1>2. end_loop => i >= max_clients
  BY <1>0, <1>1 DEF LoopInv
<1>3. i >= max_clients => ~(i < max_clients)
  BY <1>0, TypeFacts
<1>4. LoopInv'
  BY <1>0, <1>1, <1>2 DEF LoopInv, loopVars, slotVars, clientVars, watchVars
<1>5. reload_config' \in BOOLEAN /\ spent' \in 0..MaxEvents
  BY <1>0, <1>1 DEF Types, TypeOK
<1>6. QED
  BY <1>1, <1>2, <1>3, <1>4, <1>5, ControlStep DEF Running, confVars

LEMMA ReadConfStep ==
    ASSUME IInv, ReadConf
    PROVE  IInv'
<1>0. Types /\ SlotInv /\ BacklogInv /\ LoopInv /\ NewsInv /\ PathInv
  BY DEF IInv
<1>1. CASE /\ pc = "reload" /\ conf' = ReadInto(conf)
           /\ pc' = IF Parses THEN "rewatch" ELSE "clear"
           /\ reloadFailed' = (reloadFailed \/ ~Parses)
           /\ UNCHANGED <<watchVars, loopVars, slotVars, reload_config, diskVars,
                          clientVars, spent, runVars>>
  <2>1. Types'
    <3>1. conf'.file \in Strings(Paths) /\ conf'.sock \in Strings(Socks)
      BY <1>0, <1>1, ReadIntoTypes DEF Types, TypeOK
    <3>2. reloadFailed' \in BOOLEAN
      BY <1>0, <1>1 DEF Types, TypeOK
    <3>3. pc' \in {"rewatch", "clear"}
      BY <1>1
    <3>4. QED
      BY <1>0, <1>1, <3>1, <3>2, <3>3
         DEF Types, TypeOK, watchVars, loopVars, slotVars, diskVars, nameVars, clientVars, runVars, Slots
  <2>2. DownInv'
    BY <1>1 DEF DownInv
  <2>3. SlotInv' /\ BacklogInv'
    BY <1>0, <1>1, SlotsStay
  <2>4. LoopInv'
    BY <1>0, <1>1 DEF LoopInv, loopVars, slotVars
  <2>5. NewsInv'
    BY <1>0, <1>1, NewsStays DEF loopVars
  <2>6. PathInv'
    <3>1. pc' = "rewatch" => conf'.file \in Paths
      BY <1>1, WholeText
    <3>2. pc' # "rewatch" => reloadFailed'
      BY <1>1
    <3>3. QED
      BY <1>0, <1>1, <3>1, <3>2 DEF PathInv, Excused, Running, NewsAboutOneFile, watchVars, loopVars
  <2>7. QED
    BY <2>1, <2>2, <2>3, <2>4, <2>5, <2>6 DEF IInv
<1>2. CASE Gone(sockets)
  BY <1>0, <1>2, GoneStep DEF Types, TypeOK
<1>3. QED
  BY <1>1, <1>2 DEF ReadConf

LEMMA RewatchStep ==
    ASSUME IInv, Rewatch
    PROVE  IInv'
<1>0. Types /\ SlotInv /\ BacklogInv /\ LoopInv /\ NewsInv /\ PathInv
  BY DEF IInv
<1>1. /\ pc = "rewatch" /\ pc' = "clear"
      /\ \/ /\ Found(conf.file) \in Files /\ watch' = Found(conf.file) /\ queue' = <<>>
            /\ reloadFailed' = FALSE /\ moved' = FALSE
         \/ /\ reloadFailed' = TRUE /\ watch' = watch /\ queue' = queue /\ moved' = moved
      /\ UNCHANGED <<conf, loopVars, slotVars, reload_config, names, made, sockets, text,
                     clientVars, spent, runVars>>
  BY DEF Rewatch, QueueAfterRewatch, watchVars
<1>2. Types'
  <2>1. watch' \in Files \cup {None} /\ queue' \in Seq(Event) /\ {reloadFailed', moved'} \subseteq BOOLEAN
    BY <1>0, <1>1, EmptySeq DEF Types, TypeOK
  <2>2. QED
    BY <1>0, <1>1, <2>1
       DEF Types, TypeOK, loopVars, slotVars, diskVars, nameVars, clientVars, runVars, Slots
<1>3. DownInv'
  BY <1>1 DEF DownInv
<1>4. SlotInv' /\ BacklogInv'
  BY <1>0, <1>1, SlotsStay
<1>5. LoopInv'
  BY <1>0, <1>1 DEF LoopInv, loopVars, slotVars
<1>6. NewsInv'
  BY <1>0, <1>1, NewsStays DEF loopVars
<1>7. PathInv'
  <2>1. NewsAboutOneFile'
    BY <1>1 DEF NewsAboutOneFile
  <2>2. conf.file \in Paths
    BY <1>0, <1>1 DEF PathInv
  <2>3. Excused' \/ watch' = names'[conf'.file]
    BY <1>1, <2>2 DEF Excused, Found
  <2>4. \A k \in 1..Len(queue') : queue'[k].file = watch'
    BY <1>0, <1>1, EmptySeq DEF PathInv
  <2>5. QED
    BY <1>1, <2>1, <2>2, <2>3, <2>4 DEF PathInv
<1>8. QED
  BY <1>2, <1>3, <1>4, <1>5, <1>6, <1>7 DEF IInv

LEMMA PlainSteps ==
    ASSUME IInv, ClearFlag \/ EnterSelect \/ Select \/ Notified
    PROVE  IInv'
<1>0. Types /\ LoopInv
  BY DEF IInv
<1>1. reload_config \in BOOLEAN /\ spent \in 0..MaxEvents
  BY <1>0 DEF Types, TypeOK
<1>2. CASE ClearFlag
  <2>1. /\ pc = "clear" /\ reload_config' = FALSE /\ pc' = "select"
        /\ UNCHANGED <<confVars, watchVars, loopVars, slotVars, diskVars, clientVars, spent, runVars>>
    BY <1>2 DEF ClearFlag
  <2>2. LoopInv'
    BY <1>0, <2>1 DEF LoopInv, loopVars, slotVars
  <2>3. QED
    BY <1>1, <2>1, <2>2, ControlStep DEF Running, confVars
<1>3. CASE EnterSelect
  <2>1. /\ pc = "select" /\ pc' = "wait"
        /\ UNCHANGED <<confVars, watchVars, loopVars, slotVars, reload_config, diskVars,
                       clientVars, spent, runVars>>
    BY <1>3 DEF EnterSelect
  <2>2. LoopInv'
    BY <1>0, <2>1 DEF LoopInv, loopVars, slotVars
  <2>3. QED
    BY <1>1, <2>1, <2>2, ControlStep DEF Running, confVars
<1>4. CASE Select
  <2>1. /\ pc = "wait" /\ (SockReady \/ IfdReady) /\ pc' = IF SockReady THEN "accept" ELSE "read"
        /\ UNCHANGED <<confVars, watchVars, loopVars, slotVars, reload_config, diskVars,
                       clientVars, spent, runVars>>
    BY <1>4 DEF Select
  <2>2. LoopInv'
    BY <1>0, <2>1 DEF LoopInv, loopVars, slotVars, clientVars, watchVars, SockReady, IfdReady
  <2>3. QED
    BY <1>1, <2>1, <2>2, ControlStep DEF Running, confVars
<1>5. CASE Notified
  <2>1. /\ pc = "notify" /\ i >= max_clients /\ pc' = "top"
        /\ UNCHANGED <<confVars, watchVars, loopVars, slotVars, reload_config, diskVars,
                       clientVars, spent, runVars>>
    BY <1>5 DEF Notified
  <2>2. LoopInv'
    BY <2>1 DEF LoopInv, loopVars, slotVars
  <2>3. ~(i < max_clients)
    BY <1>0, <2>1, TypeFacts
  <2>4. QED
    BY <1>1, <2>1, <2>2, <2>3, ControlStep DEF Running, confVars
<1>6. QED
  BY <1>2, <1>3, <1>4, <1>5

LEMMA AcceptFailsStep ==
    ASSUME IInv, AcceptFails
    PROVE  IInv'
<1>0. Types /\ LoopInv
  BY DEF IInv
<1>1. /\ pc = "accept" /\ spent < MaxEvents /\ spent' = spent + 1 /\ pc' \in {"exit", "top"}
      /\ clients_num < max_clients => pc' = "exit"
      /\ clients_num >= max_clients => pc' = "top"
      /\ UNCHANGED <<confVars, watchVars, loopVars, slotVars, reload_config, diskVars,
                     clientVars, runVars>>
  BY <1>0, TypeFacts DEF AcceptFails, Spend, Room
<1>2. told # <<>> => i >= max_clients
  BY <1>0, <1>1 DEF LoopInv
<1>3. LoopInv'
  BY <1>0, <1>1 DEF LoopInv, loopVars, slotVars
<1>4. reload_config' \in BOOLEAN /\ spent' \in 0..MaxEvents
  BY <1>0, <1>1, InotifydAssumption DEF Types, TypeOK
<1>5. i \in Nat /\ max_clients \in Nat
  BY <1>0, TypeFacts
<1>6. i < max_clients /\ told # <<>> => (pc' \in {"notify", "exit"} <=> pc \in {"notify", "exit"})
  BY <1>2, <1>5
<1>7. QED
  BY <1>1, <1>3, <1>4, <1>6, ControlStep DEF Running, confVars

\* The slot at clients_num is free, and the client is in no other one.
LEMMA AcceptStep ==
    ASSUME IInv, Accept
    PROVE  IInv'
<1>0. Types /\ SlotInv /\ BacklogInv /\ LoopInv /\ NewsInv /\ PathInv
  BY DEF IInv
<1>1. PICK c : c = Head(backlog)
  OBVIOUS
<1>2. pc = "accept" /\ backlog # <<>> /\ backlog \in Seq(Conns)
  BY <1>0, TypeFacts DEF Accept, LoopInv
<1>3. /\ c \in Conns /\ c = backlog[1] /\ c # None
      /\ Tail(backlog) \in Seq(Conns) /\ Len(Tail(backlog)) = Len(backlog) - 1
      /\ \A j \in 1..Len(Tail(backlog)) : Tail(backlog)[j] = backlog[j + 1]
      /\ Len(backlog) \in Nat \ {0}
  BY <1>1, <1>2, EmptySeq, HeadTailProperties, InotifydAssumption
<1>4. Fresh(c) /\ conn[c] # "none"
  BY <1>0, <1>3 DEF BacklogInv
<1>5. CASE conn[c] = "closed"
  <2>1. Gone(sockets)
    BY <1>1, <1>5 DEF Accept
  <2>2. QED
    BY <1>0, <2>1, GoneStep DEF Types, TypeOK
<1>6. CASE conn[c] = "open"
  <2>1. /\ backlog' = Tail(backlog) /\ pc' = "top"
        /\ UNCHANGED <<confVars, watchVars, loopVars, reload_config, diskVars, got,
                       stalled, spent, runVars>>
        /\ max_clients' = max_clients
    BY <1>1, <1>6 DEF Accept, slotVars
  <2>2. Slots' = Slots
    BY <2>1 DEF Slots
  <2>3. CASE Room
    <3>1. /\ clients' = [clients EXCEPT ![clients_num] = c] /\ clients_num' = clients_num + 1
          /\ served' = [served EXCEPT ![c] = "ready"] /\ since' = [since EXCEPT ![c] = Len(told)]
          /\ conn' = conn
      BY <1>1, <1>6, <2>3 DEF Accept
    <3>2. clients_num \in Slots /\ clients[clients_num] = None /\ clients_num \in Nat
      BY <1>0, <2>3, TypeFacts DEF Room, Slots, SlotInv
    <3>3. /\ clients'[clients_num] = c /\ clients' \in [Slots -> Conns \cup {None}]
          /\ \A k \in Slots : k # clients_num => clients'[k] = clients[k]
      BY <1>0, <1>3, <3>1, <3>2, TypeFacts
    <3>4. /\ served'[c] = "ready" /\ since'[c] = Len(told)
          /\ \A d \in Conns : d # c => served'[d] = served[d] /\ since'[d] = since[d]
          /\ served' \in [Conns -> {"no", "ready", "busy"}] /\ since' \in [Conns -> Nat]
      BY <1>0, <1>3, <3>1, TypeFacts DEF Types, TypeOK
    <3>5. clients_num + 1 \in 0..max_clients
      BY <1>0, <2>3, TypeFacts DEF Room
    <3>6. Types'
      BY <1>0, <1>3, <2>1, <2>2, <3>1, <3>3, <3>4, <3>5
         DEF Types, TypeOK, confVars, watchVars, loopVars, diskVars, nameVars, runVars
    <3>7. DownInv'
      BY <2>1 DEF DownInv
    <3>8. SlotInv'
      <4>1. \A k \in Slots : k >= clients_num + 1 => clients'[k] = None
        BY <1>0, <3>2, <3>3 DEF SlotInv, Slots
      <4>2. \A j, k \in Slots : clients'[j] # None /\ clients'[j] = clients'[k] => j = k
        BY <1>0, <1>4, <3>3 DEF SlotInv, Fresh
      <4>3. \A k \in Slots : clients'[k] # None =>
               conn[clients'[k]] # "none" /\ (conn[clients'[k]] = "open" => served'[clients'[k]] = "ready")
        BY <1>0, <1>4, <3>3, <3>4, TypeFacts DEF SlotInv, Fresh
      <4>4. \A d \in Conns : conn[d] = "open" /\ served'[d] = "ready" => \E k \in Slots : clients'[k] = d
        <5> SUFFICES ASSUME NEW d \in Conns, conn[d] = "open", served'[d] = "ready"
                     PROVE  \E k \in Slots : clients'[k] = d
          OBVIOUS
        <5>1. CASE d = c
          BY <3>2, <3>3, <5>1
        <5>2. CASE d # c
          <6>1. PICK k \in Slots : clients[k] = d
            BY <1>0, <3>4, <5>2 DEF SlotInv
          <6>2. k # clients_num
            BY <3>2, <6>1, InotifydAssumption
          <6>3. QED
            BY <3>3, <6>1, <6>2
        <5>3. QED
          BY <5>1, <5>2
      <4>5. QED
        BY <2>2, <3>1, <4>1, <4>2, <4>3, <4>4 DEF SlotInv
    <3>9. ASSUME NEW d \in Conns, d # c, Fresh(d)
          PROVE  Fresh(d)'
      BY <2>1, <2>2, <3>3, <3>4, <3>9 DEF Fresh
    <3>10. BacklogInv'
      <4>1. ASSUME NEW j \in 1..Len(backlog')
            PROVE  j + 1 \in 1..Len(backlog) /\ backlog'[j] = backlog[j + 1] /\ backlog'[j] # c
        <5>1. j + 1 \in 1..Len(backlog) /\ 1 \in 1..Len(backlog) /\ j + 1 # 1
          BY <1>3, <2>1
        <5>2. backlog'[j] = backlog[j + 1]
          BY <1>3, <2>1
        <5>3. QED
          BY <1>0, <1>3, <5>1, <5>2 DEF BacklogInv
      <4>2. \A j, k \in 1..Len(backlog') : backlog'[j] = backlog'[k] => j = k
        BY <1>0, <4>1 DEF BacklogInv
      <4>3. \A j \in 1..Len(backlog') : conn'[backlog'[j]] # "none" /\ Fresh(backlog[j])'
        <5> SUFFICES ASSUME NEW j \in 1..Len(backlog')
                     PROVE  conn'[backlog'[j]] # "none" /\ Fresh(backlog[j])'
          OBVIOUS
        <5>1. PICK d : d = backlog[j + 1]
          OBVIOUS
        <5>2. d \in Conns /\ d # c /\ Fresh(d) /\ conn[d] # "none" /\ backlog'[j] = d
          BY <1>0, <4>1, <5>1, TypeFacts DEF BacklogInv
        <5>3. Fresh(d)'
          BY <3>9, <5>2
        <5>4. QED
          BY <3>1, <5>2, <5>3 DEF Fresh
      <4>4. \A d \in Conns : conn'[d] = "none" => Fresh(d)'
        BY <1>0, <1>6, <3>1, <3>9 DEF BacklogInv
      <4>5. QED
        BY <4>2, <4>3, <4>4 DEF BacklogInv
    <3>11. LoopInv'
      BY <1>0, <1>2, <2>1 DEF LoopInv, loopVars
    <3>12. NewsInv'
      <4>0. \A k \in Slots : Passed(k)' = Len(told)
        BY <1>0, <2>1, TypeFacts DEF Passed, loopVars
      <4> SUFFICES ASSUME NEW k \in Slots, clients'[k] # None, conn[clients'[k]] = "open"
                   PROVE  /\ since'[clients'[k]] <= Len(told)
                          /\ got[clients'[k]] = SubSeq(told, since'[clients'[k]] + 1, Len(told))
        BY <2>1, <2>2, <3>1, <4>0 DEF NewsInv, Holds, loopVars
      <4>1. CASE k = clients_num
        <5>1. SubSeq(told, Len(told) + 1, Len(told)) = <<>>
          BY <1>0, TypeFacts, SubSeqEmpty
        <5>2. Len(told) \in Nat /\ clients'[k] = c /\ since'[c] = Len(told) /\ got[c] = <<>>
          BY <1>0, <1>4, <3>3, <3>4, <4>1, TypeFacts DEF Fresh
        <5>3. QED
          BY <5>1, <5>2
      <4>2. CASE k # clients_num
        <5>1. clients[k] = clients'[k] /\ clients[k] # c /\ clients[k] \in Conns
          BY <1>0, <1>4, <3>3, <4>2, TypeFacts DEF Fresh
        <5>2. Passed(k) = Len(told)
          BY <1>0, <1>2, TypeFacts DEF Passed
        <5>3. QED
          BY <1>0, <3>4, <5>1, <5>2 DEF NewsInv, Holds
      <4>3. QED
        BY <4>1, <4>2
    <3>13. PathInv'
      BY <1>0, <1>2, <2>1, PathStays DEF Running, confVars, watchVars, loopVars, diskVars, nameVars
    <3>14. QED
      BY <3>6, <3>7, <3>8, <3>10, <3>11, <3>12, <3>13 DEF IInv
  <2>4. CASE ~Room
    <3>1. /\ served' = [served EXCEPT ![c] = "busy"] /\ conn' = [conn EXCEPT ![c] = "closed"]
          /\ UNCHANGED <<slotVars, since>>
      BY <1>1, <1>6, <2>4 DEF Accept
    <3>2. /\ conn'[c] = "closed" /\ \A d \in Conns : d # c => conn'[d] = conn[d] /\ served'[d] = served[d]
          /\ conn' \in [Conns -> {"none", "open", "closed"}]
          /\ served' \in [Conns -> {"no", "ready", "busy"}]
      BY <1>0, <1>3, <3>1 DEF Types, TypeOK
    <3>3. Types'
      BY <1>0, <1>3, <2>1, <3>1, <3>2
         DEF Types, TypeOK, confVars, watchVars, loopVars, slotVars, diskVars, nameVars, runVars, Slots
    <3>4. DownInv'
      BY <2>1 DEF DownInv
    <3>5. \A k \in Slots : clients'[k] = clients[k] /\ clients[k] # c
      BY <1>4, <3>1 DEF Fresh, slotVars
    <3>6. SlotInv'
      <4>1. \A k \in Slots : k >= clients_num' => clients'[k] = None
        BY <1>0, <3>1 DEF SlotInv, slotVars
      <4>2. \A j, k \in Slots : clients'[j] # None /\ clients'[j] = clients'[k] => j = k
        BY <1>0, <3>5 DEF SlotInv
      <4>3. \A k \in Slots : clients'[k] # None =>
              conn'[clients'[k]] # "none" /\ (conn'[clients'[k]] = "open" => served'[clients'[k]] = "ready")
        BY <1>0, <3>2, <3>5, TypeFacts DEF SlotInv
      <4>4. \A d \in Conns : conn'[d] = "open" /\ served'[d] = "ready" => \E k \in Slots : clients'[k] = d
        BY <1>0, <3>2, <3>5 DEF SlotInv
      <4>5. QED
        BY <2>2, <4>1, <4>2, <4>3, <4>4 DEF SlotInv
    <3>7. ASSUME NEW d \in Conns, d # c, Fresh(d)
          PROVE  Fresh(d)'
      BY <2>1, <2>2, <3>2, <3>5, <3>7 DEF Fresh
    <3>8. BacklogInv'
      <4>1. ASSUME NEW j \in 1..Len(backlog')
            PROVE  j + 1 \in 1..Len(backlog) /\ backlog'[j] = backlog[j + 1] /\ backlog'[j] # c
        <5>1. j + 1 \in 1..Len(backlog) /\ 1 \in 1..Len(backlog) /\ j + 1 # 1
          BY <1>3, <2>1
        <5>2. backlog'[j] = backlog[j + 1]
          BY <1>3, <2>1
        <5>3. QED
          BY <1>0, <1>3, <5>1, <5>2 DEF BacklogInv
      <4>2. \A j, k \in 1..Len(backlog') : backlog'[j] = backlog'[k] => j = k
        BY <1>0, <4>1 DEF BacklogInv
      <4>3. \A j \in 1..Len(backlog') : conn'[backlog'[j]] # "none" /\ Fresh(backlog[j])'
        <5> SUFFICES ASSUME NEW j \in 1..Len(backlog')
                     PROVE  conn'[backlog'[j]] # "none" /\ Fresh(backlog[j])'
          OBVIOUS
        <5>1. PICK d : d = backlog[j + 1]
          OBVIOUS
        <5>2. d \in Conns /\ d # c /\ Fresh(d) /\ conn[d] # "none" /\ backlog'[j] = d
          BY <1>0, <4>1, <5>1, TypeFacts DEF BacklogInv
        <5>3. Fresh(d)'
          BY <3>7, <5>2
        <5>4. QED
          BY <3>2, <5>2, <5>3 DEF Fresh
      <4>4. \A d \in Conns : conn'[d] = "none" => Fresh(d)'
        BY <1>0, <3>2, <3>7 DEF BacklogInv
      <4>5. QED
        BY <4>2, <4>3, <4>4 DEF BacklogInv
    <3>9. LoopInv'
      BY <1>0, <1>2, <2>1 DEF LoopInv, loopVars
    <3>10. NewsInv'
      <4>0. \A k \in Slots : Passed(k)' = Len(told)
        BY <1>0, <2>1, TypeFacts DEF Passed, loopVars
      <4> SUFFICES ASSUME NEW k \in Slots, clients[k] # None, conn'[clients[k]] = "open"
                   PROVE  /\ since[clients[k]] <= Len(told)
                          /\ got[clients[k]] = SubSeq(told, since[clients[k]] + 1, Len(told))
        BY <2>1, <2>2, <3>1, <4>0 DEF NewsInv, Holds, loopVars, slotVars
      <4>1. conn[clients[k]] = "open" /\ clients[k] \in Conns
        BY <1>0, <3>2, <3>5, TypeFacts
      <4>2. Passed(k) = Len(told)
        BY <1>0, <1>2, TypeFacts DEF Passed
      <4>3. QED
        BY <1>0, <4>1, <4>2 DEF NewsInv, Holds
    <3>11. PathInv'
      BY <1>0, <1>2, <2>1, PathStays DEF Running, confVars, watchVars, loopVars, diskVars, nameVars
    <3>12. QED
      BY <3>3, <3>4, <3>6, <3>8, <3>9, <3>10, <3>11 DEF IInv
  <2>5. QED
    BY <2>3, <2>4
<1>7. QED
  BY <1>0, <1>3, <1>4, <1>5, <1>6 DEF Types, TypeOK

\* The event told is of the file watched, its size that of the file configured.
LEMMA ReadEventsStep ==
    ASSUME IInv, ReadEvents
    PROVE  IInv'
<1>0. Types /\ SlotInv /\ BacklogInv /\ LoopInv /\ NewsInv /\ PathInv
  BY DEF IInv
<1>1. PICK e : e = Head(queue)
  OBVIOUS
<1>2. PICK stat \in Stats :
        /\ stat_error' = (stat_error \/ stat = None)
        /\ told' = Append(told, [event |-> e, size |-> SizeOf(stat_error', stat)])
  BY <1>1 DEF ReadEvents, HandledEvent
<1>3. PICK x : x = [event |-> e, size |-> SizeOf(stat_error', stat)]
  OBVIOUS
<1>4. /\ pc = "read" /\ queue' = <<>> /\ event' = e /\ stat_error' \in BOOLEAN
      /\ end_loop' \in BOOLEAN /\ told' = Append(told, x) /\ i' = 0 /\ pc' = "notify"
      /\ UNCHANGED <<confVars, watch, slotVars, reload_config, diskVars, clientVars, spent, runVars>>
  BY <1>1, <1>2, <1>3 DEF ReadEvents, HandledEvent
<1>5. queue # <<>> /\ queue \in Seq(Event) /\ told \in Seq(News) /\ Len(told) \in Nat
  BY <1>0, <1>4, TypeFacts DEF LoopInv
<1>6. e \in Event /\ e.file = watch
  <2>1. e \in Event /\ Len(queue) \in Nat \ {0} /\ e = queue[1]
    BY <1>1, <1>5, EmptySeq, HeadTailProperties
  <2>2. QED
    BY <1>0, <2>1 DEF PathInv
<1>7. stat \in Files \cup Links \cup {None}
  <2>1. /\ names \in [Paths -> Files \cup Links \cup {None}] /\ conf.file \in Paths \cup {"null", "freed"}
    BY <1>0 DEF Types, TypeOK, Strings
  <2>2. CASE conf.file = "null"
    BY <1>2, <2>2 DEF Stats
  <2>3. CASE conf.file = "freed"
    BY <1>2, <2>1, <2>3 DEF Stats
  <2>4. CASE conf.file \in Paths
    <3>1. conf.file # "null" /\ conf.file # "freed"
      BY <2>4, InotifydAssumption
    <3>2. QED
      BY <1>2, <2>1, <2>4, <3>1 DEF Stats
  <2>5. QED
    BY <2>1, <2>2, <2>3, <2>4
<1>7a. x \in News /\ x.event = e /\ (x.size = None \/ x.size = stat)
  BY <1>3, <1>6, <1>7 DEF News, SizeOf
<1>7b. Running /\ pc # "rewatch" /\ pc' # "rewatch"
  BY <1>4 DEF Running
<1>7c. Excused \/ stat = watch
  <2>1. CASE conf.file \in Paths
    <3>1. conf.file # "null" /\ conf.file # "freed"
      BY <2>1, InotifydAssumption
    <3>2. stat = names[conf.file]
      BY <1>2, <3>1 DEF Stats
    <3>3. QED
      BY <1>0, <1>7b, <3>2 DEF PathInv
  <2>2. CASE conf.file \notin Paths
    BY <1>0, <1>7b, <2>2 DEF PathInv
  <2>3. QED
    BY <2>1, <2>2
<1>8. /\ told' \in Seq(News) /\ Len(told') = Len(told) + 1 /\ told' # <<>>
      /\ \A k \in 1..Len(told) : told'[k] = told[k]
      /\ told'[Len(told) + 1] = x
  BY <1>4, <1>5, <1>7a, AppendProperties
<1>9. Types'
  <2>1. 0 \in 0..max_clients /\ <<>> \in Seq(Event)
    BY <1>0, TypeFacts, EmptySeq
  <2>2. QED
    BY <1>0, <1>4, <1>6, <1>8, <2>1
       DEF Types, TypeOK, News, confVars, slotVars, diskVars, nameVars, clientVars, runVars, Slots
<1>10. DownInv'
  BY <1>4 DEF DownInv
<1>11. SlotInv' /\ BacklogInv'
  BY <1>0, <1>4, SlotsStay
<1>12. LoopInv'
  BY <1>4, <1>8 DEF LoopInv
<1>13. NewsInv'
  <2>1. ASSUME NEW k \in Slots, Holds(k)
        PROVE  /\ since[clients[k]] <= Len(told)
               /\ got[clients[k]] = SubSeq(told', since[clients[k]] + 1, Len(told))
    <3>1. Passed(k) = Len(told)
      BY <1>4, <1>5 DEF Passed
    <3>2. /\ since[clients[k]] <= Len(told)
          /\ got[clients[k]] = SubSeq(told, since[clients[k]] + 1, Len(told))
      BY <1>0, <2>1, <3>1 DEF NewsInv
    <3>3. since[clients[k]] \in Nat
      BY <1>0, <2>1, TypeFacts DEF Holds, Types, TypeOK
    <3>4. QED
      BY <1>4, <1>5, <1>7a, <3>2, <3>3, AppendBehind
  <2>2. \A k \in Slots : Passed(k)' = Len(told)
    BY <1>0, <1>4, <1>5, <1>8, TypeFacts DEF Passed, Slots
  <2>3. QED
    BY <1>4, <2>1, <2>2 DEF NewsInv, Holds, Slots, slotVars, clientVars
<1>14. PathInv'
  <2>1. Excused' = Excused /\ conf' = conf /\ names' = names /\ watch' = watch
    BY <1>4 DEF Excused, confVars, diskVars, nameVars
  <2>2. Len(told') = Len(told) + 1 /\ told'[Len(told')] = x
    BY <1>8
  <2>3. x.size \in {None, x.event.file} \/ Excused
    BY <1>6, <1>7a, <1>7c
  <2>4. NewsAboutOneFile'
    BY <2>1, <2>2, <2>3 DEF NewsAboutOneFile, Excused
  <2>5. QED
    BY <1>0, <1>4, <1>7b, <2>1, <2>4, EmptySeq DEF PathInv
<1>15. QED
  BY <1>9, <1>10, <1>11, <1>12, <1>13, <1>14 DEF IInv

\* Only the client in slot i is told; it had been told all but the last event.
LEMMA NotifyStep ==
    ASSUME IInv, Notify
    PROVE  IInv'
<1>0. Types /\ SlotInv /\ BacklogInv /\ LoopInv /\ NewsInv /\ PathInv
  BY DEF IInv
<1>1. PICK c : c = clients[i]
  OBVIOUS
<1>2. /\ pc = "notify" /\ i < max_clients /\ i' = i + 1
      /\ UNCHANGED <<pc, confVars, watchVars, event, stat_error, end_loop, told, reload_config,
                     diskVars, backlog, conn, served, since, stalled, spent, runVars>>
      /\ max_clients' = max_clients /\ clients_num' = clients_num
  BY DEF Notify, NextSlot, slotVars, FreeSlot
<1>3. /\ i \in Slots /\ i \in Nat /\ i + 1 \in 0..max_clients /\ max_clients \in Nat \ {0}
      /\ Slots' = Slots
  BY <1>0, <1>2, TypeFacts DEF Slots
<1>4. told \in Seq(News) /\ Len(told) \in Nat \ {0} /\ told[Len(told)] \in News
  <2>1. told \in Seq(News) /\ Len(told) \in Nat \ {0}
    BY <1>0, <1>2, TypeFacts, EmptySeq DEF LoopInv
  <2>2. QED
    BY <2>1, ElementOfSeq
<1>5. \/ c = None /\ clients' = clients /\ got' = got
      \/ c # None /\ conn[c] = "closed" /\ clients' = [clients EXCEPT ![i] = None] /\ got' = got
      \/ /\ c # None /\ conn[c] = "open" /\ clients' = clients
         /\ got' = [got EXCEPT ![c] = Append(got[c], told[Len(told)])]
  BY <1>1 DEF Notify, FreeSlot, slotVars
<1>6. c # None => c \in Conns
  BY <1>0, <1>1, <1>3, TypeFacts
<1>7. /\ clients' \in [Slots -> Conns \cup {None}]
      /\ \A k \in Slots : clients'[k] = clients[k] \/ (clients'[k] = None /\ k = i /\ conn[c] = "closed")
  BY <1>0, <1>5, TypeFacts
<1>8. /\ got' \in [Conns -> Seq(News)]
      /\ \A d \in Conns : d # c => got'[d] = got[d]
      /\ c # None /\ conn[c] = "open" => got'[c] = Append(got[c], told[Len(told)])
  <2>1. got \in [Conns -> Seq(News)]
    BY <1>0 DEF Types
  <2>2. c # None => Append(got[c], told[Len(told)]) \in Seq(News)
    BY <1>4, <1>6, <2>1, AppendProperties
  <2>3. QED
    BY <1>5, <1>6, <2>1, <2>2
<1>9. Types'
  <2>1. \A d \in Conns : got'[d] \in Seq(News)
    BY <1>8
  <2>2. QED
    BY <1>0, <1>2, <1>3, <1>7, <1>8, <2>1
       DEF Types, TypeOK, News, confVars, watchVars, diskVars, nameVars, runVars
<1>10. DownInv'
  BY <1>2 DEF DownInv
<1>11. SlotInv'
  <2>1. \A k \in Slots : k >= clients_num' => clients'[k] = None
    BY <1>0, <1>2, <1>7 DEF SlotInv
  <2>2. \A j, k \in Slots : clients'[j] # None /\ clients'[j] = clients'[k] => j = k
    BY <1>0, <1>7 DEF SlotInv
  <2>3. \A k \in Slots : clients'[k] # None =>
          conn'[clients'[k]] # "none" /\ (conn'[clients'[k]] = "open" => served'[clients'[k]] = "ready")
    BY <1>0, <1>2, <1>7 DEF SlotInv
  <2>4. ASSUME NEW d \in Conns, conn'[d] = "open", served'[d] = "ready"
        PROVE  \E k \in Slots : clients'[k] = d
    <3>1. PICK k \in Slots : clients[k] = d
      BY <1>0, <1>2, <2>4 DEF SlotInv
    <3>2. clients'[k] = d
      BY <1>1, <1>2, <1>7, <2>4, <3>1
    <3>3. QED
      BY <3>2
  <2>5. QED
    BY <1>3, <2>1, <2>2, <2>3, <2>4 DEF SlotInv
<1>12. BacklogInv'
  <2>1. ASSUME NEW d \in Conns, Fresh(d) PROVE Fresh(d)'
    <3>1. d # c
      BY <1>1, <1>3, <2>1 DEF Fresh
    <3>2. \A k \in Slots : clients'[k] # d
      BY <1>7, <2>1, InotifydAssumption DEF Fresh
    <3>3. QED
      BY <1>2, <1>3, <1>8, <2>1, <3>1, <3>2 DEF Fresh
  <2>2. \A j \in 1..Len(backlog) : backlog[j] \in Conns
    BY <1>0, TypeFacts
  <2>3. ASSUME NEW j \in 1..Len(backlog) PROVE Fresh(backlog[j])'
    <3>1. PICK d : d = backlog[j]
      OBVIOUS
    <3>2. Fresh(d)'
      BY <1>0, <2>1, <2>2, <3>1 DEF BacklogInv
    <3>3. QED
      BY <1>2, <3>1, <3>2 DEF Fresh
  <2>4. QED
    BY <1>0, <1>2, <2>1, <2>3 DEF BacklogInv
<1>13. LoopInv'
  BY <1>0, <1>2 DEF LoopInv
<1>14. NewsInv'
  <2>1. ASSUME NEW k \in Slots, Holds(k)'
        PROVE  /\ since[clients[k]] <= Passed(k)' /\ clients'[k] = clients[k]
               /\ got'[clients[k]] = SubSeq(told, since[clients[k]] + 1, Passed(k)')
    <3>1. clients'[k] = clients[k] /\ Holds(k) /\ clients[k] \in Conns
      BY <1>0, <1>2, <1>7, <2>1, TypeFacts DEF Holds
    <3>2. /\ since[clients[k]] <= Passed(k) /\ since[clients[k]] \in Nat
          /\ got[clients[k]] = SubSeq(told, since[clients[k]] + 1, Passed(k))
      BY <1>0, <3>1 DEF NewsInv, Types, TypeOK
    <3>3. CASE k = i
      <4>1. Passed(k) = Len(told) - 1 /\ Passed(k)' = Len(told)
        BY <1>2, <1>3, <1>4, <3>3 DEF Passed
      <4>2. got'[clients[k]] = Append(got[clients[k]], told[Len(told)])
        BY <1>1, <1>8, <3>1, <3>3 DEF Holds
      <4>3. since[clients[k]] + 1 <= Len(told)
        BY <1>4, <3>2, <4>1
      <4>4. Append(SubSeq(told, since[clients[k]] + 1, Len(told) - 1), told[Len(told)])
              = SubSeq(told, since[clients[k]] + 1, Len(told))
        BY <1>4, <3>2, <4>3, OneMore
      <4>5. since[clients[k]] <= Len(told)
        BY <1>4, <3>2, <4>1
      <4>6. QED
        BY <3>1, <3>2, <4>1, <4>2, <4>4, <4>5
    <3>4. CASE k # i
      <4>1. Passed(k)' = Passed(k)
        BY <1>2, <1>3, <3>4 DEF Passed, Slots
      <4>2. clients[k] # c
        BY <1>0, <1>1, <1>3, <3>1, <3>4 DEF SlotInv, Holds
      <4>3. QED
        BY <1>8, <3>1, <3>2, <4>1, <4>2
    <3>5. QED
      BY <3>3, <3>4
  <2>2. QED
    BY <1>2, <1>3, <2>1 DEF NewsInv
<1>15. PathInv'
  BY <1>0, <1>2, PathStays DEF Running, confVars, watchVars, diskVars, nameVars
<1>16. QED
  BY <1>9, <1>10, <1>11, <1>12, <1>13, <1>14, <1>15 DEF IInv

-----------------------------------------------------------------------------
LEMMA HupStep ==
    ASSUME IInv, Hup
    PROVE  IInv'
<1>0. Types /\ LoopInv
  BY DEF IInv
<1>1. /\ Running /\ spent < MaxEvents /\ spent' = spent + 1 /\ reload_config' = TRUE
      /\ \/ pc = "wait" /\ pc' = "top"
         \/ pc = "notify" /\ i < max_clients /\ pc' = "exit"
         \/ pc' = pc
      /\ UNCHANGED <<confVars, watchVars, loopVars, slotVars, diskVars, clientVars, runVars>>
  BY DEF Hup, Spend
<1>2. spent' \in 0..MaxEvents
  BY <1>0, <1>1, InotifydAssumption DEF Types, TypeOK
<1>3. pc' \in {"top", "reload", "rewatch", "clear", "select", "wait", "accept", "read", "notify", "exit"}
  BY <1>0, <1>1 DEF Types, TypeOK, Running
<1>4. LoopInv'
  BY <1>0, <1>1 DEF LoopInv, watchVars, loopVars, slotVars, clientVars
<1>5. /\ i < max_clients /\ told # <<>> => (pc' \in {"notify", "exit"} <=> pc \in {"notify", "exit"})
      /\ pc' = "rewatch" <=> pc = "rewatch"
  BY <1>1
<1>6. QED
  BY <1>1, <1>2, <1>3, <1>4, <1>5, ControlStep DEF confVars

\* What happens to files does not touch the server, except for its queue.
LEMMA WorldStep ==
    ASSUME IInv, Types',
           UNCHANGED <<pc, confVars, watch, loopVars, slotVars, reload_config, backlog, conn,
                       served, got, since>>,
           \/ UNCHANGED <<names, moved>>
           \/ moved' = (moved \/ \E p \in Paths : conf.file = p /\ names'[p] # names[p]),
           \/ queue' = queue
           \/ watch # None /\ queue' # <<>> /\ \A k \in 1..Len(queue') : queue'[k].file = watch
    PROVE  IInv'
<1>0. Types /\ DownInv /\ SlotInv /\ BacklogInv /\ LoopInv /\ NewsInv /\ PathInv
  BY DEF IInv
<1>1. DownInv'
  BY <1>0 DEF DownInv, confVars, loopVars, slotVars, Slots
<1>2. SlotInv' /\ BacklogInv'
  BY <1>0 DEF SlotInv, BacklogInv, Fresh, Slots, slotVars
<1>3. LoopInv'
  BY <1>0 DEF LoopInv, loopVars, slotVars
<1>4. NewsInv'
  BY <1>0 DEF NewsInv, Holds, Passed, Slots, loopVars, slotVars
<1>5. PathInv'
  <2>1. Excused => Excused'
    BY DEF Excused, confVars
  <2>2. Excused' \/ conf.file \notin Paths \/ names'[conf.file] = names[conf.file]
    BY DEF Excused, confVars
  <2>3. NewsAboutOneFile'
    BY <1>0, <2>1 DEF PathInv, NewsAboutOneFile, Excused, confVars, loopVars
  <2>4. conf' = conf /\ watch' = watch /\ pc' = pc
    BY DEF confVars
  <2>5. Running' /\ pc' # "rewatch" => Excused' \/ (conf'.file \in Paths /\ watch' = names'[conf'.file])
    BY <1>0, <2>1, <2>2, <2>4 DEF PathInv, Running
  <2>6. \A k \in 1..Len(queue') : queue'[k].file = watch'
    BY <1>0, <2>4 DEF PathInv
  <2>7. QED
    BY <1>0, <2>3, <2>4, <2>5, <2>6 DEF PathInv
<1>6. QED
  BY <1>1, <1>2, <1>3, <1>4, <1>5 DEF IInv

LEMMA ModifyStep ==
    ASSUME IInv, NEW f \in Files, Modify(f)
    PROVE  IInv'
<1>0. Types /\ PathInv
  BY DEF IInv
<1>1. PICK e : e = [kind |-> "modify", file |-> f]
  OBVIOUS
<1>2. /\ spent < MaxEvents /\ spent' = spent + 1
      /\ watch = f /\ queue' = Queued(e)
      /\ UNCHANGED <<pc, confVars, watch, loopVars, slotVars, reload_config, diskVars,
                     clientVars, runVars>>
  BY <1>1 DEF Modify, Spend
<1>3. /\ queue \in Seq(Event) /\ Len(queue) \in Nat /\ e \in Event /\ e.file = f
      /\ Append(queue, e) \in Seq(Event) /\ Append(queue, e) # <<>>
      /\ Len(Append(queue, e)) = Len(queue) + 1
      /\ \A k \in 1..Len(queue) : Append(queue, e)[k] = queue[k]
      /\ Append(queue, e)[Len(queue) + 1] = e
  <2>1. e \in Event /\ e.file = f
    BY <1>1 DEF Event
  <2>2. queue \in Seq(Event) /\ Len(queue) \in Nat
    BY <1>0, TypeFacts
  <2>3. QED
    BY <2>1, <2>2, AppendProperties
<1>4. queue' = queue \/ (watch = f /\ queue' = Append(queue, e))
  BY <1>2 DEF Queued
<1>5. queue' = queue
      \/ (watch # None /\ queue' # <<>> /\ \A k \in 1..Len(queue') : queue'[k].file = watch)
  <2> SUFFICES ASSUME watch = f, queue' = Append(queue, e)
               PROVE  watch # None /\ queue' # <<>> /\ \A k \in 1..Len(queue') : queue'[k].file = watch
    BY <1>4
  <2>1. \A k \in 1..Len(queue') : k \in 1..Len(queue) \/ k = Len(queue) + 1
    BY <1>3
  <2>2. QED
    BY <1>0, <1>3, <2>1, InotifydAssumption DEF PathInv
<1>6. Types'
  <2>0. queue' \in Seq(Event)
    BY <1>3, <1>4
  <2>1. queue' \in Seq(Event) /\ spent' \in 0..MaxEvents
    BY <1>0, <1>2, <2>0, InotifydAssumption DEF Types, TypeOK
  <2>2. QED
    BY <1>0, <1>2, <2>1
       DEF Types, TypeOK, confVars, loopVars, slotVars, diskVars, nameVars, clientVars, runVars, Slots
<1>7. QED
  BY <1>2, <1>5, <1>6, WorldStep DEF clientVars, diskVars, nameVars

\* The events of a file that has lost its last path are of the file watched.
LEMMA RenamedStep ==
    ASSUME IInv, NEW new \in [Paths -> Files \cup Links \cup {None}], Renamed(new),
           made' \subseteq Files \cup Links
    PROVE  IInv'
<1>0. Types /\ PathInv
  BY DEF IInv
<1>1. PICK es : es = <<[kind |-> "delete", file |-> watch], [kind |-> "ignored", file |-> watch]>>
  OBVIOUS
<1>2. /\ spent < MaxEvents /\ spent' = spent + 1 /\ names' = new
      /\ moved' = (moved \/ \E p \in Paths : conf.file = p /\ new[p] # names[p])
      /\ queue' = queue \/ (watch # None /\ queue' = queue \o es)
      /\ UNCHANGED <<pc, confVars, watch, loopVars, slotVars, reload_config, sockets, text,
                     clientVars, runVars>>
  BY <1>1 DEF Renamed, Spend
<1>3. queue \in Seq(Event) /\ Len(queue) \in Nat
  BY <1>0, TypeFacts
<1>4. watch # None =>
        /\ es \in Seq(Event) /\ Len(es) = 2 /\ \A k \in 1..2 : es[k].file = watch
  BY <1>0, <1>1 DEF Event, Types, TypeOK
<1>5. watch # None =>
      /\ queue \o es \in Seq(Event) /\ Len(queue \o es) = Len(queue) + 2
      /\ \A k \in 1..(Len(queue) + 2) :
           (queue \o es)[k] = IF k <= Len(queue) THEN queue[k] ELSE es[k - Len(queue)]
  <2> SUFFICES ASSUME watch # None
               PROVE  /\ queue \o es \in Seq(Event) /\ Len(queue \o es) = Len(queue) + 2
                      /\ \A k \in 1..(Len(queue) + 2) :
                           (queue \o es)[k] = IF k <= Len(queue) THEN queue[k] ELSE es[k - Len(queue)]
    OBVIOUS
  <2>1. /\ queue \o es \in Seq(Event) /\ Len(queue \o es) = Len(queue) + Len(es)
        /\ \A k \in 1..(Len(queue) + Len(es)) :
             (queue \o es)[k] = IF k <= Len(queue) THEN queue[k] ELSE es[k - Len(queue)]
    BY <1>3, <1>4, ConcatProperties
  <2>2. QED
    BY <1>4, <2>1
<1>6. queue' = queue
      \/ (watch # None /\ queue' # <<>> /\ \A k \in 1..Len(queue') : queue'[k].file = watch)
  <2> SUFFICES ASSUME watch # None, queue' = queue \o es
               PROVE  watch # None /\ queue' # <<>> /\ \A k \in 1..Len(queue') : queue'[k].file = watch
    BY <1>2
  <2>1. queue' # <<>>
    BY <1>3, <1>5, EmptySeq
  <2>2. ASSUME NEW k \in 1..Len(queue') PROVE queue'[k].file = watch
    <3>1. CASE k <= Len(queue)
      BY <1>0, <1>3, <1>5, <3>1 DEF PathInv
    <3>2. CASE ~(k <= Len(queue))
      <4>1. k - Len(queue) \in 1..2
        BY <1>3, <1>5, <3>2
      <4>2. QED
        BY <1>4, <1>5, <3>2, <4>1
    <3>3. QED
      BY <3>1, <3>2
  <2>3. QED
    BY <2>1, <2>2, InotifydAssumption
<1>7. Types'
  <2>1. moved' \in BOOLEAN
    BY <1>2
  <2>2. queue' \in Seq(Event)
    BY <1>2, <1>3, <1>5
  <2>3. spent' \in 0..MaxEvents
    BY <1>0, <1>2, InotifydAssumption DEF Types, TypeOK
  <2>4. names' \in [Paths -> Files \cup Links \cup {None}] /\ made' \subseteq Files \cup Links
    BY <1>2
  <2>5. QED
    BY <1>0, <1>2, <2>1, <2>2, <2>3, <2>4
       DEF Types, TypeOK, confVars, loopVars, slotVars, clientVars, runVars, Slots
<1>8. QED
  BY <1>2, <1>6, <1>7, WorldStep DEF clientVars

LEMMA PathSteps ==
    ASSUME IInv, NEW p \in Paths, Remove(p) \/ Create(p) \/ \E q \in Paths : Rename(p, q)
    PROVE  IInv'
<1>0. names \in [Paths -> Files \cup Links \cup {None}] /\ made \subseteq Files \cup Links
  BY DEF IInv, Types, TypeOK
<1>1. CASE Remove(p)
  <2>1. Renamed([names EXCEPT ![p] = None]) /\ made' = made
    BY <1>1 DEF Remove
  <2>2. [names EXCEPT ![p] = None] \in [Paths -> Files \cup Links \cup {None}]
    BY <1>0
  <2>3. QED
    BY <1>0, <2>1, <2>2, RenamedStep
<1>2. CASE Create(p)
  <2>1. PICK x \in Files \cup Links :
          Renamed([names EXCEPT ![p] = x]) /\ made' = made \cup {x}
    BY <1>2 DEF Create
  <2>2. [names EXCEPT ![p] = x] \in [Paths -> Files \cup Links \cup {None}]
    BY <1>0
  <2>3. QED
    BY <1>0, <2>1, <2>2, RenamedStep
<1>3. ASSUME NEW q \in Paths, Rename(p, q) PROVE IInv'
  <2>1. Renamed([names EXCEPT ![p] = None, ![q] = names[p]]) /\ made' = made
    BY <1>3 DEF Rename
  <2>2. [names EXCEPT ![p] = None, ![q] = names[p]] \in [Paths -> Files \cup Links \cup {None}]
    BY <1>0
  <2>3. QED
    BY <1>0, <2>1, <2>2, RenamedStep
<1>4. QED
  BY <1>1, <1>2, <1>3

LEMMA RewriteStep ==
    ASSUME IInv, Rewrite
    PROVE  IInv'
<1>0. Types
  BY DEF IInv
<1>1. /\ spent < MaxEvents /\ spent' = spent + 1 /\ text' \in Texts
      /\ UNCHANGED <<pc, confVars, watchVars, loopVars, slotVars, reload_config, nameVars,
                     sockets, clientVars, runVars>>
  BY DEF Rewrite, Spend
<1>2. Types'
  <2>1. spent' \in 0..MaxEvents
    BY <1>0, <1>1, InotifydAssumption DEF Types, TypeOK
  <2>2. QED
    BY <1>0, <1>1, <2>1
       DEF Types, TypeOK, confVars, watchVars, loopVars, slotVars, clientVars, runVars, nameVars, Slots
<1>3. QED
  BY <1>1, <1>2, WorldStep DEF watchVars, clientVars, nameVars

LEMMA StallStep ==
    ASSUME IInv, NEW c \in Conns, StallOrRead(c)
    PROVE  IInv'
<1>0. Types
  BY DEF IInv
<1>1. /\ stalled' \in {stalled \ {c}, stalled \cup {c}}
      /\ spent' = spent \/ (spent < MaxEvents /\ spent' = spent + 1)
      /\ UNCHANGED <<pc, confVars, watchVars, loopVars, slotVars, reload_config, diskVars,
                     backlog, conn, served, got, since, runVars>>
  BY DEF StallOrRead, Spend
<1>2. Types'
  <2>1. stalled' \subseteq Conns /\ spent' \in 0..MaxEvents
    BY <1>0, <1>1, InotifydAssumption DEF Types, TypeOK
  <2>2. QED
    BY <1>0, <1>1, <2>1
       DEF Types, TypeOK, confVars, watchVars, loopVars, slotVars, diskVars, nameVars, runVars, Slots
<1>3. QED
  BY <1>1, <1>2, WorldStep DEF watchVars, diskVars, nameVars

LEMMA ConnectStep ==
    ASSUME IInv, NEW c \in Conns, Connect(c)
    PROVE  IInv'
<1>0. Types /\ SlotInv /\ BacklogInv /\ LoopInv /\ NewsInv /\ PathInv
  BY DEF IInv
<1>1. /\ Running /\ conn[c] = "none" /\ conn' = [conn EXCEPT ![c] = "open"]
      /\ backlog' = Append(backlog, c)
      /\ UNCHANGED <<pc, confVars, watchVars, loopVars, slotVars, reload_config, diskVars,
                     served, got, since, stalled, spent, runVars>>
  BY DEF Connect
<1>2. /\ conn' \in [Conns -> {"none", "open", "closed"}] /\ conn'[c] = "open"
      /\ \A d \in Conns : d # c => conn'[d] = conn[d]
  BY <1>0, <1>1 DEF Types, TypeOK
<1>3. /\ backlog \in Seq(Conns) /\ Len(backlog) \in Nat
      /\ backlog' \in Seq(Conns) /\ backlog' # <<>> /\ Len(backlog') = Len(backlog) + 1
      /\ \A j \in 1..Len(backlog) : backlog'[j] = backlog[j]
      /\ backlog'[Len(backlog) + 1] = c
  BY <1>0, <1>1, TypeFacts, AppendProperties
<1>4. Fresh(c) /\ \A j \in 1..Len(backlog) : backlog[j] # c
  BY <1>0, <1>1 DEF BacklogInv
<1>5. \A k \in Slots : clients'[k] = clients[k] /\ clients[k] # c
  BY <1>1, <1>4 DEF Fresh, slotVars
<1>6. Slots' = Slots
  BY <1>1 DEF Slots, slotVars
<1>7. Types'
  BY <1>0, <1>1, <1>2, <1>3, <1>6
     DEF Types, TypeOK, confVars, watchVars, loopVars, slotVars, diskVars, nameVars, runVars
<1>8. DownInv'
  BY <1>1 DEF DownInv, Running
<1>9. SlotInv'
  <2>1. \A k \in Slots : k >= clients_num' => clients'[k] = None
    BY <1>0, <1>1 DEF SlotInv, slotVars
  <2>2. \A j, k \in Slots : clients'[j] # None /\ clients'[j] = clients'[k] => j = k
    BY <1>0, <1>5 DEF SlotInv
  <2>3. \A k \in Slots : clients'[k] # None =>
          conn'[clients'[k]] # "none" /\ (conn'[clients'[k]] = "open" => served'[clients'[k]] = "ready")
    BY <1>0, <1>1, <1>2, <1>5, TypeFacts DEF SlotInv
  <2>4. ASSUME NEW d \in Conns, conn'[d] = "open", served'[d] = "ready"
        PROVE  \E k \in Slots : clients'[k] = d
    <3>1. d # c
      BY <1>1, <1>4, <2>4 DEF Fresh
    <3>2. QED
      BY <1>0, <1>1, <1>2, <1>5, <2>4, <3>1 DEF SlotInv
  <2>5. QED
    BY <1>6, <2>1, <2>2, <2>3, <2>4 DEF SlotInv
<1>10. \A d \in Conns : Fresh(d) => Fresh(d)'
  BY <1>1, <1>6 DEF Fresh, slotVars
<1>11. BacklogInv'
  <2>1. \A j \in 1..Len(backlog') : j \in 1..Len(backlog) \/ j = Len(backlog) + 1
    BY <1>3
  <2>2. \A j, k \in 1..Len(backlog') : backlog'[j] = backlog'[k] => j = k
    BY <1>0, <1>3, <1>4, <2>1 DEF BacklogInv
  <2>3. ASSUME NEW d \in Conns, NEW j \in 1..Len(backlog'), backlog'[j] = d
        PROVE  conn'[d] # "none" /\ Fresh(d)
    <3>1. CASE d = c
      BY <1>2, <1>4, <3>1
    <3>2. CASE d # c
      <4>1. j \in 1..Len(backlog) /\ backlog[j] = d
        BY <1>3, <2>1, <2>3, <3>2
      <4>2. QED
        BY <1>0, <1>2, <3>2, <4>1 DEF BacklogInv
    <3>3. QED
      BY <3>1, <3>2
  <2>4. \A d \in Conns : conn'[d] = "none" => Fresh(d)'
    BY <1>0, <1>2, <1>10 DEF BacklogInv
  <2>5. \A j \in 1..Len(backlog') : backlog'[j] \in Conns
    BY <1>3, ElementOfSeq
  <2>6. ASSUME NEW j \in 1..Len(backlog')
        PROVE  conn'[backlog'[j]] # "none" /\ Fresh(backlog[j])'
    <3>1. PICK d : d = backlog'[j]
      OBVIOUS
    <3>2. conn'[d] # "none" /\ Fresh(d)'
      BY <1>10, <2>3, <2>5, <3>1
    <3>3. QED
      BY <3>1, <3>2 DEF Fresh
  <2>7. QED
    BY <2>2, <2>4, <2>6 DEF BacklogInv
<1>12. LoopInv'
  BY <1>0, <1>1, <1>3 DEF LoopInv, watchVars, loopVars, slotVars
<1>13. NewsInv'
  <2>1. \A k \in Slots : Passed(k)' = Passed(k)
    BY <1>1 DEF Passed, loopVars
  <2>2. \A k \in Slots : Holds(k)' => Holds(k)
    BY <1>0, <1>2, <1>5, TypeFacts DEF Holds
  <2>3. QED
    BY <1>0, <1>1, <1>6, <2>1, <2>2 DEF NewsInv, loopVars, slotVars
<1>14. PathInv'
  BY <1>0, <1>1, PathStays DEF confVars, watchVars, loopVars, diskVars, nameVars
<1>15. QED
  BY <1>7, <1>8, <1>9, <1>11, <1>12, <1>13, <1>14 DEF IInv

LEMMA LeaveStep ==
    ASSUME IInv, NEW c \in Conns, Leave(c)
    PROVE  IInv'
<1>0. Types /\ DownInv /\ SlotInv /\ BacklogInv /\ LoopInv /\ NewsInv /\ PathInv
  BY DEF IInv
<1>1. /\ conn[c] = "open" /\ conn' = [conn EXCEPT ![c] = "closed"]
      /\ served' = [served EXCEPT ![c] = "no"]
      /\ got' = [got EXCEPT ![c] = <<>>] /\ since' = [since EXCEPT ![c] = 0]
      /\ stalled' = stalled \ {c}
      /\ UNCHANGED <<pc, confVars, watchVars, loopVars, slotVars, reload_config, diskVars,
                     backlog, spent, runVars>>
  BY DEF Leave
<1>2. /\ conn' \in [Conns -> {"none", "open", "closed"}]
      /\ served' \in [Conns -> {"no", "ready", "busy"}]
      /\ got' \in [Conns -> Seq(News)] /\ since' \in [Conns -> Nat]
      /\ conn'[c] = "closed" /\ served'[c] = "no" /\ got'[c] = <<>>
      /\ \A d \in Conns : d # c => /\ conn'[d] = conn[d] /\ served'[d] = served[d]
                                   /\ got'[d] = got[d] /\ since'[d] = since[d]
  BY <1>0, <1>1, EmptySeq DEF Types, TypeOK
<1>3. /\ Slots' = Slots /\ clients' = clients /\ clients_num' = clients_num
      /\ Running
  BY <1>0, <1>1 DEF Slots, slotVars, DownInv, Running
<1>4. Types'
  <2>1. \A d \in Conns : got'[d] \in Seq(News)
    BY <1>2
  <2>2. stalled' \subseteq Conns
    BY <1>0, <1>1 DEF Types, TypeOK
  <2>3. QED
    BY <1>0, <1>1, <1>2, <1>3, <2>1, <2>2
       DEF Types, TypeOK, News, confVars, watchVars, loopVars, slotVars, diskVars, nameVars, runVars
<1>5. DownInv'
  BY <1>1, <1>3 DEF DownInv, Running
<1>6. SlotInv'
  <2>1. \A k \in Slots : clients[k] # None =>
          conn'[clients[k]] # "none" /\ (conn'[clients[k]] = "open" => served'[clients[k]] = "ready")
    BY <1>0, <1>2, TypeFacts DEF SlotInv
  <2>2. ASSUME NEW d \in Conns, conn'[d] = "open", served'[d] = "ready"
        PROVE  \E k \in Slots : clients[k] = d
    <3>1. conn[d] = "open" /\ served[d] = "ready"
      BY <1>2, <2>2
    <3>2. QED
      BY <1>0, <3>1 DEF SlotInv
  <2>3. QED
    BY <1>0, <1>3, <2>1, <2>2 DEF SlotInv
<1>7. \A d \in Conns : Fresh(d) => Fresh(d)'
  BY <1>2, <1>3 DEF Fresh
<1>8. BacklogInv'
  <2>1. ASSUME NEW j \in 1..Len(backlog)
        PROVE  conn'[backlog[j]] # "none" /\ Fresh(backlog[j])'
    <3>1. PICK d : d = backlog[j]
      OBVIOUS
    <3>2. d \in Conns /\ Fresh(d) /\ conn[d] # "none"
      BY <1>0, <3>1, TypeFacts DEF BacklogInv
    <3>3. Fresh(d)' /\ conn'[d] # "none"
      BY <1>2, <1>7, <3>2
    <3>4. QED
      BY <1>1, <3>1, <3>3 DEF Fresh
  <2>2. \A d \in Conns : conn'[d] = "none" => Fresh(d)'
    BY <1>0, <1>2, <1>7 DEF BacklogInv
  <2>3. QED
    BY <1>0, <1>1, <2>1, <2>2 DEF BacklogInv
<1>9. LoopInv'
  BY <1>0, <1>1 DEF LoopInv, watchVars, loopVars, slotVars
<1>10. NewsInv'
  <2>1. \A k \in Slots : Passed(k)' = Passed(k)
    BY <1>1 DEF Passed, loopVars
  <2>2. \A k \in Slots : Holds(k)' => Holds(k) /\ clients[k] # c /\ clients[k] \in Conns
    BY <1>0, <1>2, <1>3, TypeFacts DEF Holds
  <2>3. QED
    BY <1>0, <1>1, <1>2, <1>3, <2>1, <2>2 DEF NewsInv, loopVars
<1>11. PathInv'
  BY <1>0, <1>1, <1>3, PathStays DEF confVars, watchVars, loopVars, diskVars, nameVars
<1>12. QED
  BY <1>4, <1>5, <1>6, <1>8, <1>9, <1>10, <1>11 DEF IInv

-----------------------------------------------------------------------------
LEMMA InitHolds == Init => IInv
<1> SUFFICES ASSUME Init PROVE IInv
  OBVIOUS
<1>1. /\ pc = "down" /\ conf = Null /\ reloadFailed = FALSE
      /\ bound = None /\ watch = None /\ queue = <<>>
      /\ event = NoEvent /\ i = 0 /\ max_clients \in 1..MaxClients
      /\ clients = [k \in Slots |-> None] /\ clients_num = 0
      /\ stat_error = FALSE /\ end_loop = FALSE /\ reload_config = FALSE /\ told = <<>>
      /\ names \in Names /\ made = {names[p] : p \in Paths} \ {None} /\ moved = FALSE
      /\ sockets = {} /\ text \in Texts
      /\ backlog = <<>> /\ stalled = {}
      /\ conn = [c \in Conns |-> "none"] /\ served = [c \in Conns |-> "no"]
      /\ got = [c \in Conns |-> <<>>] /\ since = [c \in Conns |-> 0]
      /\ spent = 0 /\ runs = 0
  BY DEF Init
<1>2. max_clients \in Nat \ {0} /\ MaxEvents \in Nat /\ MaxRuns \in Nat
  BY <1>1, InotifydAssumption
<1>3. Len(<<>>) = 0 /\ <<>> \in Seq(Event) /\ <<>> \in Seq(News) /\ <<>> \in Seq(Conns)
  BY EmptySeq
<1>4. Types
  <2>1. conf.file \in Strings(Paths) /\ conf.sock \in Strings(Socks)
    BY <1>1 DEF Null, Strings
  <2>2. got \in [Conns -> Seq(News)] /\ \A c \in Conns : got[c] \in Seq(News)
    BY <1>1, <1>3
  <2>3. /\ clients \in [Slots -> Conns \cup {None}] /\ clients_num \in 0..max_clients
        /\ i \in 0..max_clients /\ max_clients \in 1..MaxClients
        /\ spent \in 0..MaxEvents /\ runs \in 0..MaxRuns
    BY <1>1, <1>2
  <2>4. /\ conn \in [Conns -> {"none", "open", "closed"}]
        /\ served \in [Conns -> {"no", "ready", "busy"}] /\ since \in [Conns -> Nat]
    BY <1>1
  <2>5. names \in [Paths -> Files \cup Links \cup {None}]
    BY <1>1, InotifydAssumption
  <2>6. made \subseteq Files \cup Links
    BY <1>1, <2>5
  <2>7. QED
    BY <1>1, <1>3, <2>1, <2>2, <2>3, <2>4, <2>5, <2>6 DEF Types, TypeOK, News
<1>5. \A k \in Slots : clients[k] = None
  BY <1>1
<1>6. DownInv
  BY <1>1, <1>5 DEF DownInv
<1>7. SlotInv
  BY <1>1, <1>5 DEF SlotInv
<1>8. BacklogInv
  BY <1>1, <1>3, <1>5, InotifydAssumption DEF BacklogInv, Fresh
<1>9. LoopInv /\ NewsInv
  BY <1>1, <1>5 DEF LoopInv, NewsInv, Holds
<1>10. PathInv
  BY <1>1, <1>3 DEF PathInv, Running, NewsAboutOneFile
<1>11. QED
  BY <1>4, <1>6, <1>7, <1>8, <1>9, <1>10 DEF IInv

LEMMA Inductive == IInv /\ [Next]_vars => IInv'
<1> SUFFICES ASSUME IInv, [Next]_vars PROVE IInv'
  OBVIOUS
<1>1. CASE UNCHANGED vars
  <2>1. Types'
    BY <1>1 DEF IInv, vars, Types, TypeOK, confVars, watchVars, loopVars, slotVars, diskVars, nameVars,
                clientVars, runVars, Slots
  <2>2. QED
    BY <1>1, <2>1, WorldStep DEF vars, watchVars, clientVars, diskVars, nameVars
<1>2. CASE Server
  BY <1>2, ExitStep, TopStep, ReadConfStep, RewatchStep, PlainSteps, AcceptStep, AcceptFailsStep,
     ReadEventsStep, NotifyStep DEF Server
<1>3. CASE World
  BY <1>3, StartStep, HupStep, RewriteStep, ModifyStep, PathSteps, ConnectStep, LeaveStep,
     StallStep DEF World
<1>4. QED
  BY <1>1, <1>2, <1>3 DEF Next

LEMMA Safe == Spec => []IInv
<1>1. QED
  BY InitHolds, Inductive, PTL DEF Spec

-----------------------------------------------------------------------------
\* Every variable keeps its type: no slot past the end of the table is filled
\* (main.c:298-304) and no event of an empty queue is handled.
THEOREM TypeCorrect == Spec => []TypeOK
<1>1. IInv => TypeOK
  BY DEF IInv, Types
<1>2. QED
  BY <1>1, Safe, PTL

\* A client told Ready has one slot, below clients_num, until it leaves
\* (main.c:298-304, 163-169).
THEOREM OneSlot == Spec => []KeepsItsSlot
<1>1. ASSUME IInv PROVE KeepsItsSlot
  <2>0. Types /\ SlotInv
    BY <1>1 DEF IInv
  <2> SUFFICES ASSUME NEW c \in Conns, conn[c] = "open", served[c] = "ready"
               PROVE  Cardinality({k \in Slots : k < clients_num /\ clients[k] = c}) = 1
    BY DEF KeepsItsSlot
  <2>1. PICK k \in Slots : clients[k] = c
    BY <2>0 DEF SlotInv
  <2>2. c # None
    BY InotifydAssumption
  <2>3. k < clients_num
    BY <2>0, <2>1, <2>2, TypeFacts DEF SlotInv, Slots
  <2>4. {j \in Slots : j < clients_num /\ clients[j] = c} = {k}
    BY <2>0, <2>1, <2>2, <2>3 DEF SlotInv
  <2>5. QED
    BY <2>4, FS_Singleton
<1>2. QED
  BY <1>1, Safe, PTL

\* A client was told every event since it came, in order and once
\* (main.c:333-363).
THEOREM AllNews == Spec => []SameNews
<1>1. ASSUME IInv PROVE SameNews
  <2>1. CASE told # <<>>
    BY <1>1, <2>1 DEF IInv, NewsInv, Holds, Passed, SameNews
  <2>2. CASE told = <<>>
    <3> SUFFICES ASSUME NEW k \in Slots, Holds(k), NEW now \in {Len(told), Len(told) - 1}
                 PROVE  got[clients[k]] = SubSeq(told, since[clients[k]] + 1, now)
      BY DEF SameNews, Holds
    <3>1. Len(told) = 0 /\ Passed(k) = 0
      BY <2>2, EmptySeq DEF Passed
    <3>2. since[clients[k]] \in Nat
      BY <1>1, TypeFacts DEF IInv, Holds, Types, TypeOK
    <3>3. got[clients[k]] = SubSeq(told, since[clients[k]] + 1, 0)
      BY <1>1, <3>1 DEF IInv, NewsInv
    <3>4. /\ SubSeq(told, since[clients[k]] + 1, 0) = <<>>
          /\ SubSeq(told, since[clients[k]] + 1, now) = <<>>
      BY <3>1, <3>2, SubSeqEmpty
    <3>5. QED
      BY <3>3, <3>4
  <2>3. QED
    BY <2>1, <2>2
<1>2. QED
  BY <1>1, Safe, PTL

\* The size being told is that of the file the event is of, unless the last reload
\* failed, or the path was moved to something else since the watch was made, or is
\* a link (main.c:94, 274-276, 325).
THEOREM OneFile == Spec => []NewsAboutOneFile
<1>1. IInv => NewsAboutOneFile
  BY DEF IInv, PathInv
<1>2. QED
  BY <1>1, Safe, PTL
=============================================================================
