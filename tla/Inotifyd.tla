------------------------------ MODULE Inotifyd ------------------------------
(***************************************************************************)
(* The file watcher of src/hw9/main.c: one thread around select() that     *)
(* accepts clients on a Unix socket, reads inotify events of one file and  *)
(* tells them to every client.  SIGHUP asks it to read its configuration   *)
(* again: the path of the file and the path of the socket.                 *)
(*                                                                         *)
(* Around the server: clients connect, stop reading for a while and go     *)
(* away, files are modified, removed, renamed over one another and made    *)
(* anew, the configuration is rewritten, SIGHUP arrives between any two    *)
(* steps, and a server that ended is started again.  A path is a name: it  *)
(* bears a file, a symbolic link or nothing.  inotify_add_watch follows    *)
(* the link and watches the file whatever it is called later; lstat takes  *)
(* the name as it is now and does not follow.  A message is abstracted to  *)
(* the event it tells and to what its size was taken of.                   *)
(***************************************************************************)
EXTENDS Naturals, Sequences, FiniteSets

CONSTANTS
  Conns,        \* the connections clients make
  MaxClients,   \* bound: max_clients, which the build fixes, is at most this (144)
  Paths, Socks, \* paths of files and of sockets
  Files, Links, \* files and symbolic links, which paths name
  LinkTo,       \* the path a link leads to
  Names,        \* what the paths name at first
  Texts,        \* contents the configuration file takes
  None,         \* an empty slot of clients, a path that names nothing, no size
  MaxEvents,    \* bound: changes of files and configuration, signals, failed
                \* accepts, clients that stop reading
  MaxRuns       \* bound: how often the server is started

\* A line of the configuration is a path, blank, or not there.
Lines(paths) == paths \cup {"blank", "eof"}
NoText == [file |-> "nofile", sock |-> "nofile"]      \* fopen fails (115)

\* A string of the program: a path, NULL, or memory that was freed.
Strings(paths) == paths \cup {"null", "freed"}

ASSUME InotifydAssumption ==
  /\ MaxClients \in Nat \ {0} /\ MaxEvents \in Nat /\ MaxRuns \in Nat
  /\ Texts \subseteq [file : Lines(Paths), sock : Lines(Socks)] \cup {NoText}
  /\ LinkTo \in [Links -> Paths] /\ Names \subseteq [Paths -> Files \cup Links \cup {None}]
  /\ None \notin Conns \cup Files \cup Links \cup Socks /\ Files \cap Links = {}
  /\ (Paths \cup Socks) \cap {"blank", "eof", "nofile", "null", "freed"} = {}

VARIABLES
  pc,            \* "down", or where main is
  conf,          \* struct config
  reloadFailed,  \* the last reload failed
  bound,         \* the path the socket is bound to
  watch,         \* the file ifd watches
  queue,         \* inotify events not yet read
  event, i,      \* in_event, and the slot of the loop over the clients
  max_clients,   \* the size of clients
  clients, clients_num,
  stat_error, end_loop, reload_config,
  told,          \* the events handled in this run, as clients were told them
  names,         \* what each path names
  made,          \* the files and links there have been
  moved,         \* the path in use has come to name something else since the
                 \* watch was made
  sockets,       \* the socket files that exist
  text,          \* the configuration file
  backlog,       \* connections not yet accepted
  conn,          \* a client's end: "none", "open" or "closed"
  served,        \* what the server answered an open one: "no" or "ready", or "busy"
  got, since,    \* events it was told, and how many were told before it came
                 \* (while it is open)
  stalled,       \* clients whose socket buffer is full
  spent, runs    \* the bounds' counters

confVars   == <<conf, reloadFailed>>
watchVars  == <<watch, queue>>
loopVars   == <<event, i, stat_error, end_loop, told>>
slotVars   == <<max_clients, clients, clients_num>>
nameVars   == <<names, made, moved>>
diskVars   == <<nameVars, sockets, text>>
clientVars == <<backlog, conn, served, got, since, stalled>>
runVars    == <<bound, runs>>
vars == <<pc, confVars, watchVars, loopVars, slotVars, reload_config, diskVars,
          clientVars, spent, runVars>>

Slots == 0..(max_clients - 1)
Running == pc # "down"
Null == [file |-> "null", sock |-> "null"]
Event == [kind : {"modify", "delete", "ignored"}, file : Files]
NoEvent == [kind |-> "none", file |-> None]

Init ==
  /\ pc = "down" /\ conf = Null /\ reloadFailed = FALSE
  /\ bound = None /\ watch = None /\ queue = <<>>
  /\ event = NoEvent /\ i = 0
  /\ max_clients \in 1..MaxClients
  /\ clients = [k \in Slots |-> None] /\ clients_num = 0
  /\ stat_error = FALSE /\ end_loop = FALSE /\ reload_config = FALSE
  /\ told = <<>>
  /\ names \in Names /\ made = {names[p] : p \in Paths} \ {None} /\ moved = FALSE
  /\ sockets = {} /\ text \in Texts
  /\ backlog = <<>> /\ stalled = {}
  /\ conn = [c \in Conns |-> "none"]
  /\ served = [c \in Conns |-> "no"]
  /\ got = [c \in Conns |-> <<>>] /\ since = [c \in Conns |-> 0]
  /\ spent = 0 /\ runs = 0

-----------------------------------------------------------------------------
(* read_conf and the start of the server *)

Parses == text.file \in Paths /\ text.sock \in Socks

Destroyed(s) == IF s = "null" THEN "null" ELSE "freed"

\* What read_conf makes of the configuration c in memory (109-142): it fills
\* the caller's struct line by line, and on an error destroys what it holds.
ReadInto(c) ==
  CASE Parses               -> text
    [] text = NoText        -> [file |-> Destroyed(c.file), sock |-> Destroyed(c.sock)]
    [] text.file = "eof"    -> [file |-> "null", sock |-> Destroyed(c.sock)]
    [] text.file = "blank"  -> [file |-> "freed", sock |-> Destroyed(c.sock)]
    [] text.sock = "eof"    -> [file |-> "freed", sock |-> "null"]
    [] text.sock = "blank"  -> [file |-> "freed", sock |-> "freed"]
    [] OTHER                -> c

\* exit: unlink(conf.sock_path) (380), whoever made that file.
Unlinked(c) == sockets \ {c.sock}

\* What inotify_add_watch finds under a path (94): a link is followed.  One that
\* leads to a link leads nowhere.
Found(p) == IF names[p] \in Links THEN names[LinkTo[names[p]]] ELSE names[p]

\* main up to its loop (183-260).  Every failure goes to error, where the
\* socket path that was read is unlinked.
Start ==
  /\ pc = "down" /\ runs < MaxRuns
  /\ runs' = runs + 1
  /\ LET c == ReadInto(Null)
         binds == Parses /\ Found(c.file) \in Files /\ c.sock \notin sockets
     IN  /\ conf' = IF binds THEN c ELSE Null
         /\ watch' = IF binds THEN Found(c.file) ELSE None
         /\ bound' = IF binds THEN c.sock ELSE None
         /\ sockets' = IF binds THEN sockets \cup {c.sock} ELSE Unlinked(c)
         /\ pc' = IF binds THEN "top" ELSE "down"
  /\ UNCHANGED <<reloadFailed, queue, loopVars, slotVars, reload_config, nameVars,
                 text, clientVars, spent>>

\* The process is gone: the kernel closes its descriptors, its clients see the
\* end of their connections.
Gone(remaining) ==
  /\ pc' = "down"
  /\ sockets' = remaining
  /\ conf' = Null /\ reloadFailed' = FALSE
  /\ bound' = None /\ watch' = None /\ queue' = <<>>
  /\ event' = NoEvent /\ i' = 0 /\ told' = <<>>
  /\ stat_error' = FALSE /\ end_loop' = FALSE /\ reload_config' = FALSE
  /\ clients' = [k \in Slots |-> None] /\ clients_num' = 0 /\ UNCHANGED max_clients
  /\ backlog' = <<>> /\ stalled' = {}
  /\ conn' = [c \in Conns |-> IF conn[c] = "open" THEN "closed" ELSE conn[c]]
  /\ served' = [c \in Conns |-> IF conn[c] = "open" THEN "no" ELSE served[c]]
  /\ got' = [c \in Conns |-> <<>>] /\ since' = [c \in Conns |-> 0]
  /\ moved' = FALSE
  /\ UNCHANGED <<names, made, text, spent, runs>>

\* exit: (373-384).  A freed path names nothing, or any file that exists.
Exit ==
  /\ pc = "exit"
  /\ \/ Gone(Unlinked(conf))
     \/ conf.sock = "freed" /\ \E s \in sockets : Gone(sockets \ {s})

-----------------------------------------------------------------------------
(* The loop: reload, wait *)

Top ==
  /\ pc = "top"
  /\ pc' = IF end_loop THEN "exit" ELSE IF reload_config THEN "reload" ELSE "select"
  /\ UNCHANGED <<confVars, watchVars, loopVars, slotVars, reload_config, diskVars,
                 clientVars, spent, runVars>>

\* read_conf into the configuration in use (270).  Destroying a string that an
\* earlier failure left freed is undefined: it does nothing, or it aborts.
ReadConf ==
  /\ pc = "reload"
  /\ \/ /\ conf' = ReadInto(conf)
        /\ pc' = IF Parses THEN "rewatch" ELSE "clear"
        /\ reloadFailed' = (reloadFailed \/ ~Parses)
        /\ UNCHANGED <<watchVars, loopVars, slotVars, reload_config, diskVars,
                       clientVars, spent, runVars>>
     \/ /\ ~Parses /\ "freed" \in {conf.file, conf.sock}
        /\ Gone(sockets)

\* A mutant: the new watch is added to the same inotify instance.
QueueKept == queue

\* Events of the old instance go with it: close(*ifd) (98).
QueueAfterRewatch == <<>>

\* inotify_prepare (274-284, 87-107); it fails when there is no file, or for
\* want of a descriptor or a watch.
Rewatch ==
  /\ pc = "rewatch"
  /\ \/ /\ Found(conf.file) \in Files
        /\ watch' = Found(conf.file) /\ queue' = QueueAfterRewatch
        /\ reloadFailed' = FALSE /\ moved' = FALSE
     \/ /\ reloadFailed' = TRUE
        /\ UNCHANGED <<watchVars, moved>>
  /\ pc' = "clear"
  /\ UNCHANGED <<conf, loopVars, slotVars, reload_config, names, made, sockets, text,
                 clientVars, spent, runVars>>

\* reload_config = 0 (286), whatever has arrived since it was read.
ClearFlag ==
  /\ pc = "clear"
  /\ reload_config' = FALSE
  /\ pc' = "select"
  /\ UNCHANGED <<confVars, watchVars, loopVars, slotVars, diskVars, clientVars, spent,
                 runVars>>

EnterSelect ==
  /\ pc = "select"
  /\ pc' = "wait"
  /\ UNCHANGED <<confVars, watchVars, loopVars, slotVars, reload_config, diskVars,
                 clientVars, spent, runVars>>

\* FD_ISSET(sock) and FD_ISSET(ifd) (297, 315).
SockReady == backlog # <<>>
IfdReady == queue # <<>>

\* select returns; a connection goes before an event (297-313).
Select ==
  /\ pc = "wait" /\ (SockReady \/ IfdReady)
  /\ pc' = IF SockReady THEN "accept" ELSE "read"
  /\ UNCHANGED <<confVars, watchVars, loopVars, slotVars, reload_config, diskVars,
                 clientVars, spent, runVars>>

-----------------------------------------------------------------------------
(* A connection *)

\* What the bounds are spent on, as long as a server runs or may be started.
Spend ==
  /\ Running \/ runs < MaxRuns
  /\ spent < MaxEvents /\ spent' = spent + 1

Room == clients_num < max_clients

\* accept, and write of "Ready" or of "Server is busy" (298-312).  write is
\* not send with MSG_NOSIGNAL: SIGPIPE kills a server whose client has left.
Accept ==
  /\ pc = "accept"
  /\ LET c == Head(backlog) IN
     \/ /\ conn[c] = "closed"
        /\ Gone(sockets)
     \/ /\ conn[c] = "open"
        /\ backlog' = Tail(backlog)
        /\ pc' = "top"
        /\ IF Room
           THEN /\ clients' = [clients EXCEPT ![clients_num] = c]
                /\ clients_num' = clients_num + 1
                /\ UNCHANGED max_clients
                /\ served' = [served EXCEPT ![c] = "ready"]
                /\ since' = [since EXCEPT ![c] = Len(told)]
                /\ UNCHANGED conn
           ELSE /\ served' = [served EXCEPT ![c] = "busy"]
                /\ conn' = [conn EXCEPT ![c] = "closed"]
                /\ UNCHANGED <<slotVars, since>>
        /\ UNCHANGED <<confVars, watchVars, loopVars, reload_config, diskVars, got,
                       stalled, spent, runVars>>

\* accept fails, for want of a descriptor: this ends the server when it has room
\* (299-300), and is passed over when it has none (306-312).
AcceptFails ==
  /\ pc = "accept" /\ Spend
  /\ pc' = IF Room THEN "exit" ELSE "top"
  /\ UNCHANGED <<confVars, watchVars, loopVars, slotVars, reload_config, diskVars,
                 clientVars, runVars>>

-----------------------------------------------------------------------------
(* An event *)

\* A mutant: the last event of what was read.
LastEvent == queue[Len(queue)]

\* The event that is handled: `ret` becomes lstat's result, so the loop over
\* what was read ends after its first event (321-325).
HandledEvent == Head(queue)

\* What lstat(conf.file) finds: what the path names now, itself if it is a link
\* (325).  A freed path may name anything.
Stats ==
  CASE conf.file = "null"  -> {None}
    [] conf.file = "freed" -> {names[p] : p \in Paths} \cup {None}
    [] OTHER               -> {names[conf.file]}

\* What the size is of that clients are told: stat_error is never reset (326, 355).
SizeOf(error, stat) == IF error THEN None ELSE stat

ReadEvents ==
  /\ pc = "read"
  /\ queue' = <<>>
  /\ event' = HandledEvent
  /\ \E stat \in Stats :
       /\ stat_error' = (stat_error \/ stat = None)
       /\ told' = Append(told, [event |-> event', size |-> SizeOf(stat_error', stat)])
  /\ end_loop' = (end_loop \/ event'.kind = "delete")
  /\ i' = 0
  /\ pc' = "notify"
  /\ UNCHANGED <<confVars, watch, slotVars, reload_config, diskVars, clientVars, spent,
                 runVars>>

\* A mutant: a client that left ends the loop.
NextSlotOrBreak(c) == IF c # None /\ conn[c] = "closed" THEN max_clients ELSE i + 1

\* A mutant: an empty slot is passed over without counting it.
NextSlotIfTaken(c) == IF c = None THEN i ELSE i + 1

\* `continue` in NOTIFY_CLIENT (168) goes on with the next client.
NextSlot(c) == i + 1

\* A mutant: the number of clients goes down with a client.
FreeSlotAndCount ==
  /\ clients' = [clients EXCEPT ![i] = None]
  /\ clients_num' = clients_num - 1
  /\ UNCHANGED max_clients

\* EPIPE: clients[i] = 0 (163-169).
FreeSlot ==
  /\ clients' = [clients EXCEPT ![i] = None]
  /\ UNCHANGED <<max_clients, clients_num>>

\* The messages of one event to the client in slot i (333-363).  send blocks
\* while the client's buffer is full.
Notify ==
  /\ pc = "notify" /\ i < max_clients
  /\ LET c == clients[i] IN
     /\ \/ /\ c = None
           /\ UNCHANGED <<slotVars, got>>
        \/ /\ c # None /\ conn[c] = "closed"
           /\ FreeSlot
           /\ UNCHANGED got
        \/ /\ c # None /\ conn[c] = "open" /\ c \notin stalled
           /\ got' = [got EXCEPT ![c] = Append(@, told[Len(told)])]
           /\ UNCHANGED slotVars
     /\ i' = NextSlot(c)
  /\ UNCHANGED <<pc, confVars, watchVars, event, stat_error, end_loop, told,
                 reload_config, diskVars, backlog, conn, served, since, stalled, spent,
                 runVars>>

Notified ==
  /\ pc = "notify" /\ i >= max_clients
  /\ pc' = "top"
  /\ UNCHANGED <<confVars, watchVars, loopVars, slotVars, reload_config, diskVars,
                 clientVars, spent, runVars>>

Server == \/ Exit \/ Top \/ ReadConf \/ Rewatch \/ ClearFlag \/ EnterSelect \/ Select
          \/ Accept \/ AcceptFails \/ ReadEvents \/ Notify \/ Notified

-----------------------------------------------------------------------------
(* The world around it *)

\* The handler sets the flag.  A select that waits returns EINTR (291); a send
\* that waits fails, which ends the server (156, 170).
Hup ==
  /\ Running /\ Spend
  /\ reload_config' = TRUE
  /\ pc' = CASE pc = "wait" /\ ~SockReady /\ ~IfdReady -> "top"
             [] pc = "notify" /\ i < max_clients /\ clients[i] \in stalled -> "exit"
             [] OTHER -> pc
  /\ UNCHANGED <<confVars, watchVars, loopVars, slotVars, diskVars, clientVars, runVars>>

\* inotify merges an event with an equal one at the end of the queue.
Queued(e) == IF queue # <<>> /\ queue[Len(queue)] = e THEN queue ELSE Append(queue, e)

Named(f) == \E p \in Paths : names[p] = f

Modify(f) ==
  /\ watch = f /\ Named(f) /\ Spend
  /\ queue' = Queued([kind |-> "modify", file |-> f])
  /\ UNCHANGED <<pc, confVars, watch, loopVars, slotVars, reload_config, diskVars,
                 clientVars, runVars>>

\* The paths come to name other things.  A file that has lost its last name is
\* deleted (nobody keeps it open), and the watch with it, which the kernel tells
\* as IN_IGNORED.  A file that is only renamed keeps its watch, without an event.
Renamed(new) ==
  /\ Spend
  /\ names' = new
  /\ moved' = (moved \/ \E p \in Paths : conf.file = p /\ new[p] # names[p])
  /\ queue' = IF watch # None /\ Named(watch) /\ \A p \in Paths : new[p] # watch
              THEN queue \o <<[kind |-> "delete", file |-> watch],
                              [kind |-> "ignored", file |-> watch]>>
              ELSE queue
  /\ UNCHANGED <<pc, confVars, watch, loopVars, slotVars, reload_config, sockets, text,
                 clientVars, runVars>>

Remove(p) ==
  /\ names[p] # None
  /\ Renamed([names EXCEPT ![p] = None])
  /\ UNCHANGED made

\* An editor or logrotate: q comes to name what p named.
Rename(p, q) ==
  /\ names[p] \notin {None, names[q]}
  /\ Renamed([names EXCEPT ![p] = None, ![q] = names[p]])
  /\ UNCHANGED made

Create(p) ==
  /\ names[p] = None
  /\ \E x \in (Files \cup Links) \ made :
       /\ Renamed([names EXCEPT ![p] = x])
       /\ made' = made \cup {x}

Rewrite ==
  /\ Spend
  /\ \E t \in Texts \ {text} : text' = t
  /\ UNCHANGED <<pc, confVars, watchVars, loopVars, slotVars, reload_config, nameVars,
                 sockets, clientVars, runVars>>

Connect(c) ==
  /\ Running /\ pc # "exit" /\ bound \in sockets
  /\ conn[c] = "none"
  /\ conn' = [conn EXCEPT ![c] = "open"]
  /\ backlog' = Append(backlog, c)
  /\ UNCHANGED <<pc, confVars, watchVars, loopVars, slotVars, reload_config, diskVars,
                 served, got, since, stalled, spent, runVars>>

Leave(c) ==
  /\ conn[c] = "open"
  /\ conn' = [conn EXCEPT ![c] = "closed"]
  /\ served' = [served EXCEPT ![c] = "no"]
  /\ got' = [got EXCEPT ![c] = <<>>] /\ since' = [since EXCEPT ![c] = 0]
  /\ stalled' = stalled \ {c}
  /\ UNCHANGED <<pc, confVars, watchVars, loopVars, slotVars, reload_config, diskVars,
                 backlog, spent, runVars>>

\* A client stops reading until its buffer is full, or reads again.
StallOrRead(c) ==
  /\ conn[c] = "open" /\ served[c] = "ready"
  /\ \/ c \notin stalled /\ Spend /\ stalled' = stalled \cup {c}
     \/ c \in stalled /\ stalled' = stalled \ {c} /\ UNCHANGED spent
  /\ UNCHANGED <<pc, confVars, watchVars, loopVars, slotVars, reload_config, diskVars,
                 backlog, conn, served, got, since, runVars>>

World == \/ Start \/ Hup \/ Rewrite
         \/ \E f \in Files : Modify(f)
         \/ \E p \in Paths : Remove(p) \/ Create(p) \/ \E q \in Paths : Rename(p, q)
         \/ \E c \in Conns : Connect(c) \/ Leave(c) \/ StallOrRead(c)

Next == Server \/ World

Spec == Init /\ [][Next]_vars

\* The server is scheduled.  Nothing is promised of the world.
FairSpec == Spec /\ WF_vars(Server)

-----------------------------------------------------------------------------
(* Properties *)

\* The variables have their types; the table never takes more than max_clients.
TypeOK ==
  /\ pc \in {"down", "top", "reload", "rewatch", "clear", "select", "wait", "accept",
             "read", "notify", "exit"}
  /\ conf.file \in Strings(Paths)
  /\ conf.sock \in Strings(Socks)
  /\ reloadFailed \in BOOLEAN
  /\ bound \in Socks \cup {None} /\ watch \in Files \cup {None}
  /\ queue \in Seq(Event) /\ event \in Event \cup {NoEvent}
  /\ max_clients \in 1..MaxClients /\ i \in 0..max_clients
  /\ clients \in [Slots -> Conns \cup {None}] /\ clients_num \in 0..max_clients
  /\ {stat_error, end_loop, reload_config} \subseteq BOOLEAN
  /\ told \in Seq([event : Event, size : Files \cup Links \cup {None}])
  /\ names \in [Paths -> Files \cup Links \cup {None}] /\ made \subseteq Files \cup Links
  /\ moved \in BOOLEAN /\ sockets \subseteq Socks /\ text \in Texts
  /\ backlog \in Seq(Conns) /\ stalled \subseteq Conns
  /\ conn \in [Conns -> {"none", "open", "closed"}]
  /\ served \in [Conns -> {"no", "ready", "busy"}]
  /\ \A c \in Conns : got[c] \in Seq([event : Event, size : Files \cup Links \cup {None}])
  /\ since \in [Conns -> Nat]
  /\ spent \in 0..MaxEvents /\ runs \in 0..MaxRuns

\* Every client that was told Ready and has not left is in exactly one slot,
\* below clients_num: no later client takes its place (298-304, 163-169).
KeepsItsSlot ==
  Running =>
    \A c \in Conns :
      conn[c] = "open" /\ served[c] = "ready" =>
        Cardinality({k \in Slots : k < clients_num /\ clients[k] = c}) = 1

\* A client that was told Ready has been told every event handled since, in
\* order and once, also while others leave, up to the event being told or cut
\* off by the failure that ends the server (333-363).
SameNews ==
  \A k \in Slots : clients[k] # None /\ conn[clients[k]] = "open" =>
    LET c == clients[k]
        now == Len(told) - (IF pc \in {"notify", "exit"} /\ i <= k THEN 1 ELSE 0)
    IN  got[c] = SubSeq(told, since[c] + 1, now)

\* The size clients are being told is that of the file the event is of, across
\* reloads, unless the last reload failed half-way (274-276), the path has come to
\* name something else since the watch was made, or it is a link, which the watch
\* follows and lstat does not (94, 325).  A reload that succeeds sets it right.
NewsAboutOneFile ==
  pc = "notify" =>
    LET news == told[Len(told)]
    IN  \/ news.size \in {None, news.event.file}
        \/ reloadFailed \/ moved
        \/ conf.file \in Paths /\ names[conf.file] \in Links

\* A client that connected is answered, as long as the server lives, accept does
\* not fail for ever (MaxEvents) and no client holds it up in send (289-313).
Answered ==
  \A c \in Conns :
    (\E k \in 1..Len(backlog) : backlog[k] = c)
      ~> (stalled # {} \/ \A k \in 1..Len(backlog) : backlog[k] # c)

\* When the removal of the watched file is the first event to read, the server
\* ends, unless it turned to another file or is held up in send (329, 264).
RemovalEnds ==
  \A f \in Files :
    (queue # <<>> /\ Head(queue) = [kind |-> "delete", file |-> f])
      ~> (~Running \/ watch # f \/ stalled # {})
=============================================================================
