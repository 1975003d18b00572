----------------------------- MODULE WebServer ------------------------------
(***************************************************************************)
(* The HTTP server of src/hw13/main.c: worker threads that share one       *)
(* listening socket and have an epoll instance each, edge triggered, and   *)
(* one state machine per client.                                           *)
(*                                                                         *)
(* Around it: clients that send a request in pieces, read slowly, shut     *)
(* down their writing side or go away; a kernel with a small socket buffer *)
(* that puts a socket on the ready list of an epoll instance when          *)
(* something happens to it; a file that changes its size.  What is written *)
(* to a client is a sequence of units, each the status line and headers'   *)
(* i-th or the content's i-th.                                             *)
(***************************************************************************)
EXTENDS Integers, Sequences, FiniteSets

CONSTANTS
  Workers, Clients,
  None,          \* a NULL handle
  Listen,        \* listen_sock
  MaxEvents,     \* MAX_EVENTS, 20 in the code
  Cap,           \* units that fit into a socket's buffers
  Pieces,        \* bound: how many pieces each client sends
  Full,          \* with this one the header is complete
  Leavers,       \* bound: clients that may leave before they are served
  HeaderSize,    \* units of a header
  ErrorSize,     \* units of the content of an error, "404\r\n"
  Sizes,         \* sizes of the file
  Requests,      \* what clients ask for
  Faults,        \* what may go wrong, each kind once
  MaxFaults      \* bound: how many of them do

RequestKinds == {"file", "missing", "forbidden", "unreadable", "directory", "malformed"}

FaultKinds ==
  {"accept",     \* accept fails, for want of a descriptor (555-565)
   "create",     \* ClientHandle_create (566)
   "register",   \* fcntl or EPOLL_CTL_ADD (569-577)
   "input",      \* bcatcstr (399)
   "prepare",    \* ws_prepare_header (316)
   "resize"}     \* no call: somebody rewrites the file

ASSUME WebServerAssumption ==
  /\ None \notin Clients /\ Listen \notin Clients /\ None # Listen
  /\ Workers # {} /\ IsFiniteSet(Clients)
  /\ MaxEvents \in Nat \ {0} /\ Cap \in Nat \ {0}
  /\ Pieces \in [Clients -> Nat] /\ Full \in Nat \ {0}
  /\ HeaderSize \in Nat \ {0} /\ ErrorSize \in Nat \ {0}
  /\ Sizes \subseteq Nat
  /\ Requests \subseteq RequestKinds /\ Faults \subseteq FaultKinds
  /\ MaxFaults \in Nat

Items == Clients \cup {Listen}
Masks == {"in", "out"}
Units == {"header", "content"} \X Nat

VARIABLES
  client,        \* a client's end: "none", "open", "half" (it shut its writing
                 \* side down) or "closed"
  sent, got,     \* pieces it sent and units it read
  backlog,       \* connections not yet accepted
  interest,      \* what its epoll instance watches a client's socket for
  ready,         \* the ready list of each worker's epoll instance
  ch,            \* the ClientHandle of each client
  stream,        \* the units written to its socket
  wpc,           \* where the worker is
  events,        \* what epoll_wait returned and was not looked at yet
  cur,           \* the event in hand; its mask, less what was handled
  last,          \* the worker's variable ch
  size,          \* the file's size
  faults,        \* kinds of calls that failed
  crashed        \* the process ended

clientVars == <<client, sent, got>>
workerVars == <<wpc, events, cur, last>>
vars == <<clientVars, backlog, interest, ready, ch, stream, workerVars, size,
          faults, crashed>>

NoEvent == [item |-> None, mask |-> {}]

\* owner is the worker whose epoll instance has the socket;
\* st is "none", "open", "closed" (destroyed) or "leaked" (freed with its
\* socket open); ec is 0 until the header is parsed; prepared stands for
\* MS_PREPARED_HEADER; dirty: output_header holds a header that failed half-way.
NoHandle == [owner |-> None, st |-> "none", read |-> 0, ec |-> 0, content_size |-> 0,
             prepared |-> FALSE, dirty |-> FALSE,
             header_sent |-> 0, content_sent |-> 0]

Init ==
  /\ client = [c \in Clients |-> "none"]
  /\ sent = [c \in Clients |-> 0]
  /\ got = [c \in Clients |-> 0]
  /\ backlog = {}
  /\ interest = [c \in Clients |-> {}]
  /\ ready = [w \in Workers |-> {}]
  /\ ch = [c \in Clients |-> NoHandle]
  /\ stream = [c \in Clients |-> <<>>]
  /\ wpc = [w \in Workers |-> "wait"]
  /\ events = [w \in Workers |-> {}]
  /\ cur = [w \in Workers |-> NoEvent]
  /\ last = [w \in Workers |-> None]
  /\ size \in Sizes
  /\ faults = {}
  /\ crashed = FALSE

-----------------------------------------------------------------------------
(* The kernel *)

\* read would return something: unread pieces, the end, or an error.
Readable(c) == sent[c] > ch[c].read \/ client[c] \in {"half", "closed"}

Room(c) == Cap - (Len(stream[c]) - got[c])

\* What epoll_wait reports of an item: what it is watched for and ready for now.
Mask(i) ==
  IF i = Listen THEN {m \in {"in"} : backlog # {}}
  ELSE {m \in interest[i] : \/ m = "in" /\ Readable(i)
                            \/ m = "out" /\ Room(i) > 0}

\* Something happened to a socket: it goes on the ready list.
Poked(c, m) ==
  IF ch[c].st = "open" /\ m \in interest[c]
  THEN [ready EXCEPT ![ch[c].owner] = @ \cup {c}]
  ELSE ready

\* EPOLL_CTL_ADD and EPOLL_CTL_MOD look at the socket at once.
Watch(w, c, m) ==
  /\ interest' = [interest EXCEPT ![c] = m]
  /\ ready' = IF ("in" \in m /\ Readable(c)) \/ ("out" \in m /\ Room(c) > 0)
              THEN [ready EXCEPT ![w] = @ \cup {c}]
              ELSE ready

\* EPOLLEXCLUSIVE: a new connection is put on the ready list of instances one
\* after the other, until one is found whose worker waits.
Woken ==
  LET waiting == {w \in Workers : wpc[w] = "wait"}
  IN  IF waiting = {} THEN {Workers}
      ELSE {{w} \cup busy : w \in waiting, busy \in SUBSET (Workers \ waiting)}

-----------------------------------------------------------------------------
(* Clients and files *)

Connect(c) ==
  /\ client[c] = "none"
  /\ client' = [client EXCEPT ![c] = "open"]
  /\ backlog' = backlog \cup {c}
  /\ \E woken \in Woken :
       ready' = [w \in Workers |-> ready[w] \cup {i \in {Listen} : w \in woken}]
  /\ UNCHANGED <<sent, got, interest, ch, stream, workerVars, size, faults, crashed>>

Send(c) ==
  /\ client[c] = "open" /\ ch[c].st # "closed"
  /\ sent[c] < Pieces[c]
  /\ sent' = [sent EXCEPT ![c] = @ + 1]
  /\ ready' = Poked(c, "in")
  /\ UNCHANGED <<client, got, backlog, interest, ch, stream, workerVars, size, faults, crashed>>

\* shutdown, or close, or the end of the client.
Leave(c) ==
  /\ c \in Leavers /\ ch[c].st # "closed"
  /\ \/ client[c] = "open" /\ client' = [client EXCEPT ![c] = "half"]
     \/ client[c] \in {"open", "half"} /\ client' = [client EXCEPT ![c] = "closed"]
  /\ ready' = Poked(c, "in")
  /\ UNCHANGED <<sent, got, backlog, interest, ch, stream, workerVars, size, faults, crashed>>

\* The client reads a unit; a full buffer has room again.
Receive(c) ==
  /\ client[c] \in {"open", "half"}
  /\ got[c] < Len(stream[c])
  /\ got' = [got EXCEPT ![c] = @ + 1]
  /\ ready' = IF Room(c) = 0 THEN Poked(c, "out") ELSE ready
  /\ UNCHANGED <<client, sent, backlog, interest, ch, stream, workerVars, size, faults, crashed>>

Fails(k) ==
  /\ k \in Faults \ faults
  /\ Cardinality(faults) < MaxFaults
  /\ faults' = faults \cup {k}

Resize ==
  /\ Fails("resize")
  /\ size' \in Sizes
  /\ UNCHANGED <<clientVars, backlog, interest, ready, ch, stream, workerVars, crashed>>

-----------------------------------------------------------------------------
(* A worker *)

Goto(w, l) == wpc' = [wpc EXCEPT ![w] = l]

\* The event is done with.
Continue(w) == Goto(w, "next") /\ cur' = [cur EXCEPT ![w] = NoEvent]

\* epoll_wait (544-546): items of the ready list that are still ready.
Wait(w) ==
  /\ wpc[w] = "wait"
  /\ \E batch \in SUBSET ready[w] :
       /\ batch # {} /\ Cardinality(batch) <= MaxEvents
       /\ Cardinality(batch) < MaxEvents => batch = ready[w]
       /\ ready' = [ready EXCEPT ![w] = @ \ batch]
       /\ LET returned == {[item |-> i, mask |-> Mask(i)] : i \in batch}
          IN  events' = [events EXCEPT ![w] = {e \in returned : e.mask # {}}]
  /\ Goto(w, "next")
  /\ UNCHANGED <<clientVars, backlog, interest, ch, stream, cur, last, size,
                 faults, crashed>>

\* for (int n = 0; n < nfds; n++), and back to epoll_wait.
NextEvent(w) ==
  /\ wpc[w] = "next"
  /\ \/ /\ events[w] = {}
        /\ Goto(w, "wait")
        /\ UNCHANGED <<events, cur, last>>
     \/ \E e \in events[w] :
          /\ events' = [events EXCEPT ![w] = @ \ {e}]
          /\ cur' = [cur EXCEPT ![w] = e]
          /\ IF e.item = Listen
             THEN Goto(w, "accept") /\ UNCHANGED last
             ELSE /\ Goto(w, IF "in" \in e.mask THEN "read" ELSE "send")
                  /\ last' = [last EXCEPT ![w] = e.item]
  /\ UNCHANGED <<clientVars, backlog, interest, ready, ch, stream, size,
                 faults, crashed>>

\* A mutant: one connection is accepted per event.
AcceptOne(w) == Continue(w)

\* for (;;) until accept has nothing left.
AcceptMore(w) == UNCHANGED <<wpc, cur>>

\* accept, ClientHandle_create, EPOLL_CTL_ADD (554-578)
Accept(w) ==
  /\ wpc[w] = "accept"
  /\ \E c \in backlog :
       /\ backlog' = backlog \ {c}
       /\ ch' = [ch EXCEPT ![c].st = "open", ![c].owner = w]
       /\ last' = [last EXCEPT ![w] = c]
       /\ Watch(w, c, {"in"})
  /\ AcceptMore(w)
  /\ UNCHANGED <<clientVars, stream, events, size, faults, crashed>>

\* EAGAIN
AcceptedAll(w) ==
  /\ wpc[w] = "accept"
  /\ backlog = {}
  /\ Continue(w)
  /\ UNCHANGED <<clientVars, backlog, interest, ready, ch, stream, events, last, size,
                 faults, crashed>>

\* error: free(ch), whatever client ch was last, and the thread returns
\* (651-655).  A second free is undefined; it can end the process.
AcceptFails(w) ==
  /\ wpc[w] = "accept"
  /\ \/ /\ Fails("accept")
        /\ UNCHANGED <<backlog, last>>
     \/ \E c \in backlog :
          /\ backlog' = backlog \ {c}
          /\ \/ Fails("create") /\ last' = [last EXCEPT ![w] = None]
             \/ Fails("register") /\ last' = [last EXCEPT ![w] = c]
  /\ Goto(w, "dead")
  /\ LET freed == last'[w]
     IN  IF freed = None THEN UNCHANGED <<ch, crashed>>
         ELSE IF ch[freed].st = "closed" THEN crashed' \in BOOLEAN /\ UNCHANGED ch
         ELSE ch' = [ch EXCEPT ![freed].st = "leaked"] /\ UNCHANGED crashed
  /\ UNCHANGED <<clientVars, interest, ready, stream, events, cur, size>>

\* The event says EPOLLOUT as well, and that was not looked at yet (642-647).
OutToo(w) == cur[w].mask = Masks

SendOnOut(w) == Goto(w, "send") /\ cur' = [cur EXCEPT ![w].mask = {"out"}]

\* A mutant: a closed client's EPOLLOUT is looked at.
FallThrough(w) == IF OutToo(w) THEN SendOnOut(w) ELSE Continue(w)

\* continue
SkipEvent(w) == Continue(w)

\* WS_CLOSE_CLIENT and the default of WS_TRY_SEND_CLOSE.  EPOLL_CTL_DEL takes the
\* socket off the ready list as well.
Close(w, c) ==
  /\ ready' = [ready EXCEPT ![w] = @ \ {c}]
  /\ interest' = [interest EXCEPT ![c] = {}]
  /\ ch' = [ch EXCEPT ![c].st = "closed"]
  /\ SkipEvent(w)

\* The status code of the answer (ws_parse_header, ws_open_file 408-466, 610-634): a
\* path that is no regular file takes the label error, which makes it 500.
StatusOf(request) ==
  CASE request = "file" -> 200
    [] request = "missing" -> 404
    [] request = "forbidden" -> 403
    [] OTHER -> 500

\* A mutant: one piece per event.
ReadOne(c) == ch[c].read + 1

\* ws_read reads until EAGAIN.
ReadAll(c) == sent[c]

\* ws_read up to EAGAIN, and ws_parse_header and ws_open_file when the header is
\* complete (583-636).
Read(w) ==
  LET c == cur[w].item
      complete == ReadAll(c) >= Full /\ ch[c].ec = 0
  IN
  /\ wpc[w] = "read"
  /\ client[c] = "open"
  /\ \/ /\ ~complete
        /\ ch' = [ch EXCEPT ![c].read = ReadAll(c)]
     \/ /\ complete
        /\ \E request \in Requests :
             ch' = [ch EXCEPT ![c].read = ReadAll(c),
                              ![c].ec = StatusOf(request),
                              ![c].content_size = IF request = "file" THEN size ELSE @]
  /\ IF ch'[c].ec # 0 THEN Goto(w, "send") /\ UNCHANGED cur ELSE Continue(w)
  /\ UNCHANGED <<clientVars, backlog, interest, ready, stream, events, last, size,
                 faults, crashed>>

\* The end of the input or an error closes the client, data before it or not.
ReadEnds(w) ==
  LET c == cur[w].item IN
  /\ wpc[w] = "read"
  /\ \/ client[c] # "open" /\ UNCHANGED faults
     \/ sent[c] > ch[c].read /\ Fails("input")
  /\ Close(w, c)
  /\ UNCHANGED <<clientVars, backlog, stream, events, last, size, crashed>>

\* ws_try_send up to the first write.  When the header cannot be prepared, rc is
\* still 0 (305, 338), which is WS_OK.
TrySend(w) ==
  LET c == cur[w].item IN
  /\ wpc[w] = "send"
  /\ \/ /\ ~ch[c].prepared
        /\ ch' = [ch EXCEPT ![c].prepared = TRUE,
                            ![c].content_size = IF ch[c].ec = 200 THEN @ ELSE ErrorSize]
        /\ Goto(w, "header")
        /\ UNCHANGED faults
     \/ /\ ~ch[c].prepared
        /\ Fails("prepare")
        /\ ch' = [ch EXCEPT ![c].dirty = TRUE,
                            ![c].content_size = IF ch[c].ec = 200 THEN @ ELSE ErrorSize]
        /\ Goto(w, "sent")
     \/ /\ ch[c].prepared
        /\ Goto(w, IF ch[c].header_sent < HeaderSize THEN "header" ELSE "content")
        /\ UNCHANGED <<ch, faults>>
  /\ UNCHANGED <<clientVars, backlog, interest, ready, stream, events, cur, last, size,
                 crashed>>

\* A mutant: a string or file is written from its start again.
FromStart(done) == 0

\* Where the next write begins.
FromSent(done) == done

\* write and sendfile: n units more.
Written(c, kind, done, n) ==
  [stream EXCEPT ![c] = @ \o [i \in 1..n |-> <<kind, FromSent(done) + i>>]]

Smaller(m, n) == IF m < n THEN m ELSE n

\* How much a write is to write.
Left(length, done) == length - done

\* A mutant: WS_EAGAIN is an error like any other.
AgainIsError(w) ==
  /\ Room(cur[w].item) <= 0
  /\ Close(w, cur[w].item)
  /\ UNCHANGED stream

\* ws_try_send returns WS_EAGAIN.
Again(w) ==
  /\ Room(cur[w].item) <= 0
  /\ Goto(w, "again")
  /\ UNCHANGED <<ready, interest, ch, stream, cur>>

\* It returns WS_ERROR, as a write to a client that is gone can.
Broken(w) ==
  /\ client[cur[w].item] = "closed"
  /\ Close(w, cur[w].item)
  /\ UNCHANGED stream

\* ws_send_str of the header (252-267, 319-327), one write per step.
WriteHeader(w) ==
  LET c == cur[w].item
      n == Smaller(Room(c), Left(HeaderSize, ch[c].header_sent))
  IN
  /\ wpc[w] = "header"
  /\ \/ /\ Room(c) > 0
        /\ stream' = Written(c, "header", ch[c].header_sent, n)
        /\ ch' = [ch EXCEPT ![c].header_sent = @ + n]
        /\ Goto(w, IF ch'[c].header_sent = HeaderSize THEN "content" ELSE "header")
        /\ UNCHANGED <<ready, interest, cur>>
     \/ Again(w)
     \/ Broken(w)
  /\ UNCHANGED <<clientVars, backlog, events, last, size, faults, crashed>>

\* What there is to send: the string, or what the file has by now.
Available(c) == IF ch[c].ec = 200 THEN Smaller(size, ch[c].content_size)
                ELSE ch[c].content_size

\* ws_send_str or ws_send_file of the content, one write or sendfile per step.  At
\* the end of a file that has shrunk sendfile returns 0 and the loop of 281-299
\* goes on for ever, which is no step.
WriteContent(w) ==
  LET c == cur[w].item
      n == Smaller(Room(c), Left(Available(c), ch[c].content_sent))
  IN
  /\ wpc[w] = "content"
  /\ ch[c].content_sent < Available(c)
  /\ \/ /\ Room(c) > 0
        /\ stream' = Written(c, "content", ch[c].content_sent, n)
        /\ ch' = [ch EXCEPT ![c].content_sent = @ + n]
        /\ Goto(w, IF ch'[c].content_sent = ch[c].content_size THEN "sent" ELSE "content")
        /\ UNCHANGED <<ready, interest, cur>>
     \/ Again(w)
     \/ Broken(w)
  /\ UNCHANGED <<clientVars, backlog, events, last, size, faults, crashed>>

\* WS_ALREADY_DONE: everything was sent, or the file is empty.
AlreadyDone(w) ==
  LET c == cur[w].item IN
  /\ wpc[w] = "content"
  /\ ch[c].content_sent = ch[c].content_size
  /\ Close(w, c)
  /\ UNCHANGED <<clientVars, backlog, stream, events, last, size, faults, crashed>>

\* EPOLLOUT is wanted while the answer is not written.
Watched(w) == IF wpc[w] = "again" THEN {"in", "out"} ELSE {"in"}

\* WS_TRY_SEND_CLOSE, 353-369; after an EPOLLIN the EPOLLOUT of the same event.
Rearm(w) ==
  /\ wpc[w] \in {"again", "sent"}
  /\ Watch(w, cur[w].item, Watched(w))
  /\ IF OutToo(w) THEN SendOnOut(w) ELSE Continue(w)
  /\ UNCHANGED <<clientVars, backlog, ch, stream, events, last, size, faults, crashed>>

-----------------------------------------------------------------------------
Worker(w) ==
  \/ Wait(w) \/ NextEvent(w) \/ Accept(w) \/ AcceptedAll(w) \/ AcceptFails(w)
  \/ Read(w) \/ ReadEnds(w) \/ TrySend(w) \/ WriteHeader(w) \/ WriteContent(w)
  \/ AlreadyDone(w) \/ Rearm(w)

Around ==
  \/ \E c \in Clients : Connect(c) \/ Send(c) \/ Leave(c) \/ Receive(c)
  \/ Resize

Next == ~crashed /\ (Around \/ \E w \in Workers : Worker(w))

Spec == Init /\ [][Next]_vars

\* Threads are scheduled, and a client reads what it is sent.
FairSpec ==
  /\ Spec
  /\ \A w \in Workers : WF_vars(~crashed /\ Worker(w))
  /\ \A c \in Clients : WF_vars(~crashed /\ Receive(c))

-----------------------------------------------------------------------------
(* Properties *)

HandleTypes ==
  [owner : Workers \cup {None}, st : {"none", "open", "closed", "leaked"},
   read : Nat, ec : {0, 200, 403, 404, 500}, content_size : Nat,
   prepared : BOOLEAN, dirty : BOOLEAN, header_sent : 0..HeaderSize, content_sent : Nat]

\* No write goes past the end of the header or of a socket's buffers, and no event
\* past the end of events (544-548).
TypeOK ==
  /\ client \in [Clients -> {"none", "open", "half", "closed"}]
  /\ sent \in [Clients -> Nat] /\ got \in [Clients -> Nat]
  /\ backlog \subseteq Clients
  /\ interest \in [Clients -> SUBSET Masks]
  /\ ready \in [Workers -> SUBSET Items]
  /\ ch \in [Clients -> HandleTypes]
  /\ stream \in [Clients -> Seq(Units)]
  /\ \A c \in Clients : Len(stream[c]) - got[c] \in 0..Cap
  /\ wpc \in [Workers -> {"wait", "next", "accept", "read", "send", "header",
                          "content", "again", "sent", "dead"}]
  /\ events \in [Workers -> SUBSET [item : Items, mask : SUBSET Masks]]
  /\ \A w \in Workers : Cardinality(events[w]) <= MaxEvents
  /\ cur \in [Workers -> [item : Items \cup {None}, mask : SUBSET Masks]]
  /\ last \in [Workers -> Clients \cup {None}]
  /\ size \in Sizes /\ faults \subseteq Faults /\ crashed \in BOOLEAN

\* What client c is to be sent: the header once, then the content once.
AnswerUnits(c) == HeaderSize + ch[c].content_size
Unit(i) == IF i <= HeaderSize THEN <<"header", i>> ELSE <<"content", i - HeaderSize>>

\* A client gets the units of its answer one after the other and none twice,
\* however often the writing was broken off and taken up by another event, and
\* a second request does not start a second answer (242-340).
AnswerIntact ==
  \A c \in Clients : ~ch[c].dirty =>
    /\ Len(stream[c]) > 0 => ch[c].ec # 0 /\ Len(stream[c]) <= AnswerUnits(c)
    /\ \A i \in 1..Len(stream[c]) : stream[c][i] = Unit(i)

Answering(c) ==
  ch[c].prepared /\ ch[c].header_sent + ch[c].content_sent < AnswerUnits(c)

\* A worker is about to look at the event.
Held(w, c) == wpc[w] \notin {"wait", "next", "dead"} /\ cur[w].item = c
Announced(w, c, m) ==
  \/ c \in ready[w]
  \/ \E e \in events[w] : e.item = c /\ m \in e.mask
  \/ Held(w, c)

\* Edge-triggered events come once.  Whenever a client's socket can be read, or
\* has room and its answer is not all written, its worker has been told and has
\* not looked yet; and a connection that waits to be accepted is announced to a
\* worker, unless one died (350-378, 542-650).
NoLostEvent ==
  /\ \A c \in Clients : \A w \in Workers :
       ch[c].st = "open" /\ ch[c].owner = w /\ wpc[w] # "dead" =>
         /\ Readable(c) => Announced(w, c, "in")
         /\ Answering(c) /\ Room(c) > 0 => Announced(w, c, "out")
  /\ backlog # {} => \E w \in Workers : wpc[w] = "dead" \/ Announced(w, Listen, "in")

\* No event points to a handle that was freed (data.ptr), and none is worked on
\* after its client was closed, whatever was closed between epoll_wait and the
\* event's turn.
NoDanglingEvent ==
  \A w \in Workers : wpc[w] # "dead" =>
    \A c \in Clients :
      \/ c \in ready[w]
      \/ \E e \in events[w] : e.item = c
      \/ cur[w].item = c
      => ch[c].st = "open" /\ ch[c].owner = w

\* The server closes a connection only when the client left, when the answer is
\* written, or when it had no memory for the input.
ClosedWhenDone ==
  \A c \in Clients : ch[c].st = "closed" =>
    \/ client[c] \in {"half", "closed"}
    \/ ch[c].ec # 0 /\ Len(stream[c]) = AnswerUnits(c)
    \/ faults \cap {"input", "prepare"} # {}

\* A worker in the loop of sendfile at the end of a file that has shrunk.
Spinning(w) ==
  /\ wpc[w] = "content"
  /\ Available(cur[w].item) <= ch[cur[w].item].content_sent
  /\ ch[cur[w].item].content_sent < ch[cur[w].item].content_size

\* A client that sends a request and reads gets the whole answer, unless it leaves,
\* a worker died or spins, or memory was short.
Answered ==
  \A c \in Clients :
    sent[c] >= Full ~>
      \/ ch[c].ec # 0 /\ got[c] = AnswerUnits(c)
      \/ client[c] \in {"half", "closed"}
      \/ \E w \in Workers : wpc[w] = "dead" \/ Spinning(w)
      \/ crashed \/ faults \cap {"input", "prepare"} # {}
=============================================================================
