---------------------------- MODULE SocketProofs ----------------------------
(***************************************************************************)
(* Proofs about the two programs that read and write sockets that do not   *)
(* block: about the HTTP server (WebServer), for any workers, any clients, *)
(* any sizes and any failures, and about the figlet client (FigletClient), *)
(* for any command, banner and answer, however their bytes arrive.         *)
(***************************************************************************)
EXTENDS WebServer, FigletClient, SequenceTheorems, FiniteSetTheorems, TLAPS

-----------------------------------------------------------------------------
(* The server *)

Types == TypeOK /\ \A w \in Workers : IsFiniteSet(events[w])

Alive(w) == wpc[w] # "dead"
AtClient == {"read", "send", "header", "content", "again", "sent"}

\* The event in hand is of the kind the place in the code says, and the batch
\* holds one event of each item.
EventInv(w) ==
  /\ wpc[w] \in {"wait", "next"} => cur[w] = NoEvent
  /\ wpc[w] = "wait" => events[w] = {}
  /\ wpc[w] = "accept" => cur[w].item = Listen
  /\ wpc[w] \in AtClient => cur[w].item \in Clients
  /\ \A e \in events[w] : e.mask # {}
  /\ \A e, f \in events[w] : e.item = f.item => e = f
  /\ cur[w].item \in Clients => \A e \in events[w] : e.item # cur[w].item

\* The worker's ch is a client of its own, if perhaps one it closed.
LastInv(w) ==
  Alive(w) /\ last[w] # None => ch[last[w]].owner = w /\ ch[last[w]].st \in {"open", "closed"}

\* A handle is made for a connection taken from the backlog.
HandleInv(c) ==
  /\ c \in backlog => ch[c].st = "none"
  /\ ch[c].st = "none" => ~ch[c].prepared
  /\ ch[c].st # "none" \/ c \in backlog => client[c] # "none"
  /\ ch[c].st = "open" => ch[c].owner \in Workers

\* What was written is what the counters say.
AnswerInv(c) ==
  /\ ch[c].prepared => ch[c].ec # 0 /\ ch[c].content_sent <= ch[c].content_size
  /\ ~ch[c].prepared => ch[c].header_sent = 0 /\ ch[c].content_sent = 0
  /\ ch[c].content_sent > 0 => ch[c].header_sent = HeaderSize
  /\ Len(stream[c]) = ch[c].header_sent + ch[c].content_sent
  /\ \A i \in 1..Len(stream[c]) : stream[c][i] = Unit(i)

\* Nobody hears of EPOLLOUT before there is an answer.
OutInv ==
  /\ \A c \in Clients : "out" \in interest[c] => ch[c].prepared
  /\ \A w \in Workers :
       /\ \A e \in events[w] : e.item \in Clients /\ "out" \in e.mask => ch[e.item].prepared
       /\ cur[w].item \in Clients /\ "out" \in cur[w].mask => ch[cur[w].item].prepared

\* How far the answer is when the worker is about to write, or did.
StageInv(w) ==
  LET c == cur[w].item IN
  /\ wpc[w] = "send" => ch[c].ec # 0
  /\ wpc[w] \in {"header", "content", "again"} => ch[c].prepared
  /\ wpc[w] = "header" => ch[c].header_sent < HeaderSize
  /\ wpc[w] = "content" => ch[c].header_sent = HeaderSize
  /\ wpc[w] = "sent" => ~Answering(c)

\* The epoll instance watches for what there is to do.
InterestInv ==
  \A c \in Clients : \A w \in Workers :
    ch[c].st = "open" /\ ch[c].owner = w /\ Alive(w) =>
      /\ "in" \in interest[c]
      /\ Answering(c) /\ ~Held(w, c) => "out" \in interest[c]

IInv ==
  /\ Types
  /\ \A w \in Workers : EventInv(w) /\ LastInv(w) /\ StageInv(w)
  /\ \A c \in Clients : HandleInv(c) /\ AnswerInv(c)
  /\ OutInv /\ InterestInv /\ NoDanglingEvent /\ ClosedWhenDone /\ NoLostEvent

-----------------------------------------------------------------------------
\* What is only about handles and workers stays when the rest of the world moves.
LEMMA WorkersStay ==
    ASSUME IInv, UNCHANGED <<interest, ch, stream, workerVars>>
    PROVE  /\ \A w \in Workers : (EventInv(w) /\ LastInv(w) /\ StageInv(w))'
           /\ \A c \in Clients : AnswerInv(c)'
           /\ OutInv' /\ InterestInv'
<1>1. \A w \in Workers : EventInv(w)' /\ LastInv(w)'
  BY DEF IInv, EventInv, LastInv, Alive, workerVars
<1>2. \A w \in Workers : StageInv(w)'
  BY DEF IInv, StageInv, Answering, AnswerUnits, workerVars
<1>3. \A c \in Clients : AnswerInv(c)'
  BY DEF IInv, AnswerInv
<1>4. OutInv'
  BY DEF IInv, OutInv, workerVars
<1>5. InterestInv'
  BY DEF IInv, InterestInv, Answering, AnswerUnits, Held, Alive, workerVars
<1>6. QED
  BY <1>1, <1>2, <1>3, <1>4, <1>5

\* Nobody else has to do with the client of the event in hand.
LEMMA MyClient ==
    ASSUME IInv, NEW w \in Workers, wpc[w] \in AtClient
    PROVE  LET c == cur[w].item IN
           /\ c \in Clients /\ c # Listen
           /\ ch[c].st = "open" /\ ch[c].owner = w /\ c \notin backlog
           /\ client[c] # "none"
           /\ \A e \in events[w] : e.item # c
           /\ \A v \in Workers : v # w /\ wpc[v] # "dead" =>
                cur[v].item # c /\ c \notin ready[v] /\ \A e \in events[v] : e.item # c
           /\ Held(w, c) /\ Alive(w)
<1>1. cur[w].item \in Clients /\ Alive(w) /\ \A e \in events[w] : e.item # cur[w].item
  BY DEF IInv, EventInv, AtClient, Alive
<1>2. ch[cur[w].item].st = "open" /\ ch[cur[w].item].owner = w
  BY <1>1 DEF IInv, NoDanglingEvent, Alive
<1>3. cur[w].item \notin backlog /\ client[cur[w].item] # "none" /\ cur[w].item # Listen
  BY <1>1, <1>2, WebServerAssumption DEF IInv, HandleInv
<1>4. \A v \in Workers : v # w /\ wpc[v] # "dead" =>
        cur[v].item # cur[w].item /\ cur[w].item \notin ready[v]
        /\ \A e \in events[v] : e.item # cur[w].item
  BY <1>1, <1>2 DEF IInv, NoDanglingEvent
<1>5. Held(w, cur[w].item)
  BY DEF Held, AtClient
<1>6. QED
  BY <1>1, <1>2, <1>3, <1>4, <1>5

LEMMA Appended ==
    ASSUME NEW S, NEW s \in Seq(S), NEW n \in Nat, NEW f \in [1..n -> S]
    PROVE  /\ s \o f \in Seq(S)
           /\ Len(s \o f) = Len(s) + n
           /\ \A i \in 1..Len(s) : (s \o f)[i] = s[i]
           /\ \A i \in (Len(s) + 1)..(Len(s) + n) : (s \o f)[i] = f[i - Len(s)]
<1>1. f \in Seq(S) /\ Len(f) = n /\ Len(s) \in Nat
  BY LenProperties
<1>2. /\ s \o f \in Seq(S)
      /\ Len(s \o f) = Len(s) + Len(f)
      /\ \A i \in 1..(Len(s) + Len(f)) : (s \o f)[i] = IF i <= Len(s) THEN s[i] ELSE f[i - Len(s)]
  BY <1>1, ConcatProperties
<1>3. QED
  BY <1>1, <1>2

-----------------------------------------------------------------------------
LEMMA InitHolds == Init => IInv
<1> SUFFICES ASSUME Init PROVE IInv
  OBVIOUS
<1>2. \A c \in Clients : stream[c] = <<>> /\ Len(stream[c]) = 0
  BY DEF Init
<1>3. Types
  <2>1. IsFiniteSet({}) /\ Cardinality({}) = 0
    BY FS_EmptySet
  <2>2. /\ stream \in [Clients -> Seq(Units)] /\ ch \in [Clients -> HandleTypes]
        /\ \A c \in Clients : Len(stream[c]) - got[c] \in 0..Cap
    BY <1>2, WebServerAssumption DEF Init, NoHandle, HandleTypes
  <2>3. \A w \in Workers : events[w] = {} /\ IsFiniteSet(events[w]) /\ Cardinality(events[w]) <= MaxEvents
    BY <2>1, WebServerAssumption DEF Init
  <2>4. cur \in [Workers -> [item : Items \cup {None}, mask : SUBSET Masks]]
    BY DEF Init, NoEvent
  <2>5. QED
    BY <2>2, <2>3, <2>4, WebServerAssumption DEF Init, Types, TypeOK
<1>4. \A w \in Workers : EventInv(w) /\ LastInv(w) /\ StageInv(w)
  BY WebServerAssumption DEF Init, EventInv, LastInv, StageInv, NoEvent, AtClient
<1>5. \A c \in Clients : HandleInv(c) /\ AnswerInv(c)
  BY <1>2 DEF Init, HandleInv, AnswerInv, NoHandle
<1>6. OutInv /\ InterestInv /\ NoDanglingEvent /\ ClosedWhenDone /\ NoLostEvent
  BY WebServerAssumption
     DEF Init, OutInv, InterestInv, NoDanglingEvent, ClosedWhenDone, NoLostEvent, NoHandle,
         NoEvent
<1>7. QED
  BY <1>3, <1>4, <1>5, <1>6 DEF IInv

-----------------------------------------------------------------------------
\* Something happens to a socket.
LEMMA PokedFacts ==
    ASSUME IInv, NEW c \in Clients, NEW m, ready' = Poked(c, m)
    PROVE  /\ ready' \in [Workers -> SUBSET Items]
           /\ \A w \in Workers : ready[w] \subseteq ready'[w]
           /\ \A w \in Workers : \A i \in ready'[w] : i \notin ready[w] =>
                i = c /\ ch[c].st = "open" /\ ch[c].owner = w
           /\ ch[c].st = "open" /\ m \in interest[c] => c \in ready'[ch[c].owner]
<1>1. ready \in [Workers -> SUBSET Items] /\ c \in Items
  BY DEF IInv, Types, TypeOK, Items
<1>2. ch[c].st = "open" => ch[c].owner \in Workers
  BY DEF IInv, HandleInv
<1>3. QED
  BY <1>1, <1>2 DEF Poked

\* More may be announced; what was is.
LEMMA StillAnnounced ==
    ASSUME UNCHANGED workerVars, NEW w \in Workers, ready[w] \subseteq ready'[w],
           NEW i, NEW m, Announced(w, i, m)
    PROVE  Announced(w, i, m)'
BY DEF Announced, Held, workerVars

LEMMA SendStep ==
    ASSUME IInv, NEW c \in Clients, Send(c)
    PROVE  IInv'
<1>1. UNCHANGED <<client, got, backlog, interest, ch, stream, workerVars, size, faults, crashed>>
      /\ sent' = [sent EXCEPT ![c] = @ + 1] /\ ready' = Poked(c, "in") /\ client[c] = "open"
  BY DEF Send
<1>2. /\ ready' \in [Workers -> SUBSET Items]
      /\ \A w \in Workers : ready[w] \subseteq ready'[w]
      /\ \A w \in Workers : \A i : i \in ready'[w] /\ i \notin ready[w] =>
           i = c /\ ch[c].st = "open" /\ ch[c].owner = w
      /\ ch[c].st = "open" /\ "in" \in interest[c] => c \in ready'[ch[c].owner]
  BY <1>1, PokedFacts
<1>3. Types'
  BY <1>1, <1>2 DEF IInv, Types, TypeOK, workerVars
<1>4. /\ \A w \in Workers : (EventInv(w) /\ LastInv(w) /\ StageInv(w))'
      /\ \A d \in Clients : AnswerInv(d)'
      /\ OutInv' /\ InterestInv'
  BY <1>1, WorkersStay
<1>5. \A d \in Clients : HandleInv(d)'
  BY <1>1 DEF IInv, HandleInv
<1>6. NoDanglingEvent'
  BY <1>1, <1>2 DEF IInv, NoDanglingEvent, workerVars
<1>7. ClosedWhenDone'
  BY <1>1 DEF IInv, ClosedWhenDone, AnswerUnits
<1>8. NoLostEvent'
  <2>1. \A w \in Workers : \A i, m : Announced(w, i, m) => Announced(w, i, m)'
    BY <1>1, <1>2, StillAnnounced
  <2>2. \A d \in Clients : (Readable(d)' => Readable(d) \/ d = c) /\ Room(d)' = Room(d)
                           /\ Answering(d)' = Answering(d)
    BY <1>1 DEF IInv, Types, TypeOK, Readable, Room, Answering, AnswerUnits
  <2>3. \A w \in Workers : ch[c].st = "open" /\ ch[c].owner = w /\ Alive(w) => Announced(w, c, "in")'
    BY <1>1, <1>2 DEF IInv, InterestInv, Announced
  <2>4. QED
    BY <1>1, <2>1, <2>2, <2>3 DEF IInv, NoLostEvent, Alive, workerVars
<1>9. QED
  BY <1>3, <1>4, <1>5, <1>6, <1>7, <1>8 DEF IInv

LEMMA LeaveStep ==
    ASSUME IInv, NEW c \in Clients, Leave(c)
    PROVE  IInv'
<1>1. /\ UNCHANGED <<sent, got, backlog, interest, ch, stream, workerVars, size, faults, crashed>>
      /\ ready' = Poked(c, "in") /\ client[c] \in {"open", "half"}
      /\ \/ client' = [client EXCEPT ![c] = "half"]
         \/ client' = [client EXCEPT ![c] = "closed"]
  BY DEF Leave
<1>2. /\ ready' \in [Workers -> SUBSET Items]
      /\ \A w \in Workers : ready[w] \subseteq ready'[w]
      /\ \A w \in Workers : \A i : i \in ready'[w] /\ i \notin ready[w] =>
           i = c /\ ch[c].st = "open" /\ ch[c].owner = w
      /\ ch[c].st = "open" /\ "in" \in interest[c] => c \in ready'[ch[c].owner]
  BY <1>1, PokedFacts
<1>3. client' \in [Clients -> {"none", "open", "half", "closed"}]
      /\ client'[c] \in {"half", "closed"}
      /\ \A d \in Clients : d # c => client'[d] = client[d]
  BY <1>1 DEF IInv, Types, TypeOK
<1>4. Types'
  BY <1>1, <1>2, <1>3 DEF IInv, Types, TypeOK, workerVars
<1>5. /\ \A w \in Workers : (EventInv(w) /\ LastInv(w) /\ StageInv(w))'
      /\ \A d \in Clients : AnswerInv(d)'
      /\ OutInv' /\ InterestInv'
  BY <1>1, WorkersStay
<1>6. \A d \in Clients : HandleInv(d)'
  BY <1>1, <1>3 DEF IInv, HandleInv
<1>7. NoDanglingEvent'
  BY <1>1, <1>2 DEF IInv, NoDanglingEvent, workerVars
<1>8. ClosedWhenDone'
  BY <1>1, <1>3 DEF IInv, ClosedWhenDone, AnswerUnits
<1>9. NoLostEvent'
  <2>1. \A w \in Workers : \A i, m : Announced(w, i, m) => Announced(w, i, m)'
    BY <1>1, <1>2, StillAnnounced
  <2>2. \A d \in Clients : (Readable(d)' => Readable(d) \/ d = c) /\ Room(d)' = Room(d)
                           /\ Answering(d)' = Answering(d)
    BY <1>1, <1>3 DEF IInv, Types, TypeOK, Readable, Room, Answering, AnswerUnits
  <2>3. \A w \in Workers : ch[c].st = "open" /\ ch[c].owner = w /\ Alive(w) => Announced(w, c, "in")'
    BY <1>1, <1>2 DEF IInv, InterestInv, Announced
  <2>4. QED
    BY <1>1, <2>1, <2>2, <2>3 DEF IInv, NoLostEvent, Alive, workerVars
<1>10. QED
  BY <1>4, <1>5, <1>6, <1>7, <1>8, <1>9 DEF IInv

\* A buffer that was full has room: whoever has more to write hears of it.
LEMMA ReceiveStep ==
    ASSUME IInv, NEW c \in Clients, Receive(c)
    PROVE  IInv'
<1>1. /\ UNCHANGED <<client, sent, backlog, interest, ch, stream, workerVars, size, faults, crashed>>
      /\ got' = [got EXCEPT ![c] = @ + 1] /\ got[c] < Len(stream[c])
      /\ ready' = IF Room(c) = 0 THEN Poked(c, "out") ELSE ready
  BY DEF Receive
<1>2. /\ ready' \in [Workers -> SUBSET Items]
      /\ \A w \in Workers : ready[w] \subseteq ready'[w]
      /\ \A w \in Workers : \A i : i \in ready'[w] /\ i \notin ready[w] =>
           i = c /\ ch[c].st = "open" /\ ch[c].owner = w
      /\ Room(c) = 0 /\ ch[c].st = "open" /\ "out" \in interest[c] => c \in ready'[ch[c].owner]
  <2>1. ready \in [Workers -> SUBSET Items]
    BY DEF IInv, Types, TypeOK
  <2>2. CASE Room(c) = 0
    BY <1>1, <2>2, PokedFacts
  <2>3. CASE Room(c) # 0
    BY <1>1, <2>1, <2>3
  <2>4. QED
    BY <2>2, <2>3
<1>3. /\ \A d \in Clients : Len(stream[d]) \in Nat /\ got[d] \in Nat /\ Room(d) \in Nat
      /\ got' \in [Clients -> Nat] /\ got'[c] = got[c] + 1
      /\ \A d \in Clients : d # c => got'[d] = got[d]
  <2>1. \A d \in Clients : Len(stream[d]) \in Nat /\ got[d] \in Nat
    BY LenProperties DEF IInv, Types, TypeOK
  <2>2. got \in [Clients -> Nat] /\ Cap \in Nat /\ \A d \in Clients : Len(stream[d]) - got[d] \in 0..Cap
    BY WebServerAssumption DEF IInv, Types, TypeOK
  <2>3. \A d \in Clients : Room(d) \in Nat
    BY <2>1, <2>2 DEF Room
  <2>4. got' = [got EXCEPT ![c] = got[c] + 1] /\ got[c] + 1 \in Nat
    BY <1>1, <2>1
  <2>5. QED
    BY <2>1, <2>2, <2>3, <2>4
<1>4. Types'
  <2>1. \A d \in Clients : Len(stream'[d]) - got'[d] \in 0..Cap
    BY <1>1, <1>3, WebServerAssumption DEF IInv, Types, TypeOK
  <2>2. QED
    BY <1>1, <1>2, <1>3, <2>1 DEF IInv, Types, TypeOK, workerVars
<1>5. /\ \A w \in Workers : (EventInv(w) /\ LastInv(w) /\ StageInv(w))'
      /\ \A d \in Clients : AnswerInv(d)'
      /\ OutInv' /\ InterestInv'
  BY <1>1, WorkersStay
<1>6. \A d \in Clients : HandleInv(d)'
  BY <1>1 DEF IInv, HandleInv
<1>7. NoDanglingEvent'
  BY <1>1, <1>2 DEF IInv, NoDanglingEvent, workerVars
<1>8. ClosedWhenDone'
  BY <1>1 DEF IInv, ClosedWhenDone, AnswerUnits
<1>9. NoLostEvent'
  <2>1. \A w \in Workers : \A i, m : Announced(w, i, m) => Announced(w, i, m)'
    BY <1>1, <1>2, StillAnnounced
  <2>2. \A d \in Clients : Readable(d)' = Readable(d) /\ Answering(d)' = Answering(d)
                           /\ (d # c => Room(d)' = Room(d))
    BY <1>1, <1>3 DEF Readable, Room, Answering, AnswerUnits
  <2>3. \A w \in Workers : ch[c].st = "open" /\ ch[c].owner = w /\ Alive(w) /\ Answering(c) =>
          Announced(w, c, "out")'
    <3>1. SUFFICES ASSUME NEW w \in Workers, ch[c].st = "open", ch[c].owner = w, Alive(w),
                          Answering(c)
                   PROVE  Announced(w, c, "out")'
      OBVIOUS
    <3>2. CASE Held(w, c)
      BY <2>1, <3>2 DEF Announced
    <3>3. CASE Room(c) = 0 /\ ~Held(w, c)
      BY <1>2, <3>1, <3>3 DEF IInv, InterestInv, Announced
    <3>4. CASE Room(c) > 0
      BY <2>1, <3>1, <3>4 DEF IInv, NoLostEvent, Alive
    <3>5. QED
      BY <1>3, <3>2, <3>3, <3>4
  <2>4. QED
    BY <1>1, <2>1, <2>2, <2>3 DEF IInv, NoLostEvent, Alive, workerVars
<1>10. QED
  BY <1>4, <1>5, <1>6, <1>7, <1>8, <1>9 DEF IInv

LEMMA ResizeStep ==
    ASSUME IInv, Resize
    PROVE  IInv'
<1>1. /\ UNCHANGED <<clientVars, backlog, interest, ready, ch, stream, workerVars, crashed>>
      /\ size' \in Sizes /\ faults' = faults \cup {"resize"} /\ "resize" \in Faults
  BY DEF Resize, Fails
<1>2. Types'
  BY <1>1 DEF IInv, Types, TypeOK, clientVars, workerVars
<1>3. /\ \A w \in Workers : (EventInv(w) /\ LastInv(w) /\ StageInv(w))'
      /\ \A d \in Clients : AnswerInv(d)'
      /\ OutInv' /\ InterestInv'
  BY <1>1, WorkersStay
<1>4. \A d \in Clients : HandleInv(d)'
  BY <1>1 DEF IInv, HandleInv, clientVars
<1>5. NoDanglingEvent' /\ ClosedWhenDone'
  BY <1>1 DEF IInv, NoDanglingEvent, ClosedWhenDone, AnswerUnits, clientVars, workerVars
<1>6. NoLostEvent'
  BY <1>1 DEF IInv, NoLostEvent, Announced, Held, Readable, Room, Answering, AnswerUnits,
              clientVars, workerVars
<1>7. QED
  BY <1>2, <1>3, <1>4, <1>5, <1>6 DEF IInv

\* A new connection is announced to some instance.
LEMMA ConnectStep ==
    ASSUME IInv, NEW c \in Clients, Connect(c)
    PROVE  IInv'
<1>1. /\ UNCHANGED <<sent, got, interest, ch, stream, workerVars, size, faults, crashed>>
      /\ client[c] = "none" /\ client' = [client EXCEPT ![c] = "open"]
      /\ backlog' = backlog \cup {c}
      /\ \E woken \in Woken :
           ready' = [w \in Workers |-> ready[w] \cup {i \in {Listen} : w \in woken}]
  BY DEF Connect
<1>2. PICK woken \in Woken :
        ready' = [w \in Workers |-> ready[w] \cup {i \in {Listen} : w \in woken}]
  BY <1>1
<1>3. \E w \in Workers : w \in woken
  BY <1>2, WebServerAssumption DEF Woken
<1>4. /\ ready' \in [Workers -> SUBSET Items]
      /\ \A w \in Workers : ready[w] \subseteq ready'[w]
      /\ \A w \in Workers : \A i : i \in ready'[w] /\ i \notin ready[w] => i = Listen
      /\ \E w \in Workers : Listen \in ready'[w]
  BY <1>2, <1>3 DEF IInv, Types, TypeOK, Items
<1>5. client' \in [Clients -> {"none", "open", "half", "closed"}] /\ client'[c] = "open"
      /\ \A d \in Clients : d # c => client'[d] = client[d]
  BY <1>1 DEF IInv, Types, TypeOK
<1>6. ch[c].st = "none" /\ c \notin backlog
  BY <1>1 DEF IInv, HandleInv
<1>7. Types'
  BY <1>1, <1>4, <1>5 DEF IInv, Types, TypeOK, workerVars
<1>8. /\ \A w \in Workers : (EventInv(w) /\ LastInv(w) /\ StageInv(w))'
      /\ \A d \in Clients : AnswerInv(d)'
      /\ OutInv' /\ InterestInv'
  BY <1>1, WorkersStay
<1>9. \A d \in Clients : HandleInv(d)'
  BY <1>1, <1>5, <1>6 DEF IInv, HandleInv
<1>10. NoDanglingEvent'
  BY <1>1, <1>4, WebServerAssumption DEF IInv, NoDanglingEvent, workerVars
<1>11. ClosedWhenDone'
  BY <1>1, <1>5, <1>6 DEF IInv, ClosedWhenDone, AnswerUnits
<1>12. NoLostEvent'
  <2>1. \A w \in Workers : \A i, m : Announced(w, i, m) => Announced(w, i, m)'
    BY <1>1, <1>4, StillAnnounced
  <2>2. \A d \in Clients : (d # c => Readable(d)' = Readable(d)) /\ Room(d)' = Room(d)
                           /\ Answering(d)' = Answering(d)
    BY <1>1, <1>5 DEF Readable, Room, Answering, AnswerUnits
  <2>3. \E w \in Workers : Announced(w, Listen, "in")'
    BY <1>4 DEF Announced
  <2>4. QED
    BY <1>1, <1>6, <2>1, <2>2, <2>3 DEF IInv, NoLostEvent, workerVars
<1>13. QED
  BY <1>7, <1>8, <1>9, <1>10, <1>11, <1>12 DEF IInv

-----------------------------------------------------------------------------
\* Where a worker goes and what it holds, the others being where they were.
LEMMA Moves ==
    ASSUME IInv, NEW w \in Workers, NEW l, Goto(w, l)
    PROVE  wpc'[w] = l /\ \A v \in Workers : v # w => wpc'[v] = wpc[v]
BY DEF IInv, Types, TypeOK, Goto

LEMMA Continues ==
    ASSUME IInv, NEW w \in Workers, Continue(w)
    PROVE  /\ wpc'[w] = "next" /\ cur'[w] = NoEvent
           /\ \A v \in Workers : v # w => wpc'[v] = wpc[v] /\ cur'[v] = cur[v]
BY DEF IInv, Types, TypeOK, Continue, Goto

LEMMA StatusSet ==
    ASSUME NEW h \in HandleTypes, NEW s \in {"none", "open", "closed", "leaked"}
    PROVE  [h EXCEPT !.st = s] \in HandleTypes
BY DEF HandleTypes

LEMMA OwnerSet ==
    ASSUME NEW h \in HandleTypes, NEW w \in Workers
    PROVE  [h EXCEPT !.owner = w] \in HandleTypes
BY DEF HandleTypes

\* A client is closed for one of the reasons there are.
LEMMA CloseStep ==
    ASSUME IInv, NEW w \in Workers, wpc[w] \in AtClient,
           Close(w, cur[w].item),
           UNCHANGED <<clientVars, backlog, stream, events, last, size, crashed>>,
           faults \subseteq faults', faults' \subseteq Faults,
           \/ client[cur[w].item] \in {"half", "closed"}
           \/ ch[cur[w].item].ec # 0 /\ Len(stream[cur[w].item]) = AnswerUnits(cur[w].item)
           \/ "input" \in faults'
    PROVE  IInv'
<1>1. PICK k : k = cur[w].item
  OBVIOUS
<1>2. /\ k \in Clients /\ k # Listen /\ ch[k].st = "open" /\ ch[k].owner = w /\ k \notin backlog
      /\ client[k] # "none"
      /\ \A e \in events[w] : e.item # k
      /\ \A v \in Workers : v # w /\ wpc[v] # "dead" =>
           cur[v].item # k /\ k \notin ready[v] /\ \A e \in events[v] : e.item # k
      /\ Held(w, k) /\ Alive(w)
  BY <1>1, MyClient
<1>3. /\ ready' = [ready EXCEPT ![w] = @ \ {k}]
      /\ interest' = [interest EXCEPT ![k] = {}]
      /\ ch' = [ch EXCEPT ![k].st = "closed"]
      /\ Continue(w)
  BY <1>1 DEF Close, SkipEvent
<1>4. /\ wpc'[w] = "next" /\ cur'[w] = NoEvent
      /\ \A v \in Workers : v # w => wpc'[v] = wpc[v] /\ cur'[v] = cur[v]
  BY <1>3, Continues
<1>5. /\ ch' \in [Clients -> HandleTypes]
      /\ \A d \in Clients : d # k => ch'[d] = ch[d]
      /\ ch'[k].st = "closed" /\ ch'[k].owner = ch[k].owner /\ ch'[k].ec = ch[k].ec
      /\ ch'[k].prepared = ch[k].prepared /\ ch'[k].content_size = ch[k].content_size
      /\ ch'[k].header_sent = ch[k].header_sent /\ ch'[k].content_sent = ch[k].content_sent
      /\ ch'[k].read = ch[k].read
  <2>1. ch \in [Clients -> HandleTypes] /\ ch[k] \in HandleTypes
    BY <1>2 DEF IInv, Types, TypeOK
  <2>2. ch' = [ch EXCEPT ![k] = [ch[k] EXCEPT !.st = "closed"]]
    BY <1>3
  <2>3. [ch[k] EXCEPT !.st = "closed"] \in HandleTypes
    BY <2>1, StatusSet
  <2>4. ch' \in [Clients -> HandleTypes] /\ ch'[k] = [ch[k] EXCEPT !.st = "closed"]
        /\ \A d \in Clients : d # k => ch'[d] = ch[d]
    BY <1>2, <2>1, <2>2, <2>3
  <2>5. QED
    BY <2>1, <2>4 DEF HandleTypes
<1>6. /\ interest' \in [Clients -> SUBSET Masks] /\ interest'[k] = {}
      /\ \A d \in Clients : d # k => interest'[d] = interest[d]
      /\ ready' \in [Workers -> SUBSET Items]
      /\ \A v \in Workers : v # w => ready'[v] = ready[v]
      /\ ready'[w] = ready[w] \ {k}
  BY <1>2, <1>3 DEF IInv, Types, TypeOK
<1>7. UNCHANGED <<client, sent, got, backlog, stream, events, last, size, crashed>>
  BY DEF clientVars
<1>8. Types'
  <2>1. wpc' \in [Workers -> {"wait", "next", "accept", "read", "send", "header",
                              "content", "again", "sent", "dead"}]
        /\ cur' \in [Workers -> [item : Items \cup {None}, mask : SUBSET Masks]]
    BY <1>3 DEF Continue, Goto, NoEvent, IInv, Types, TypeOK
  <2>2. QED
    BY <1>5, <1>6, <1>7, <2>1 DEF IInv, Types, TypeOK
<1>9. \A v \in Workers : EventInv(v)'
  <2>1. EventInv(w)'
    BY <1>4, <1>7, WebServerAssumption DEF IInv, EventInv, NoEvent, AtClient
  <2>2. \A v \in Workers : v # w => EventInv(v)'
    BY <1>4, <1>7 DEF IInv, EventInv
  <2>3. QED
    BY <2>1, <2>2
<1>10. \A v \in Workers : LastInv(v)'
  <2>1. \A v \in Workers : last[v] # None => last[v] \in Clients
    BY DEF IInv, Types, TypeOK
  <2>2. LastInv(w)'
    BY <1>2, <1>5, <1>7, <2>1 DEF IInv, LastInv
  <2>3. \A v \in Workers : v # w => LastInv(v)'
    BY <1>2, <1>4, <1>5, <1>7, <2>1 DEF IInv, LastInv, Alive
  <2>4. QED
    BY <2>2, <2>3
<1>11. \A v \in Workers : StageInv(v)'
  <2>1. SUFFICES ASSUME NEW v \in Workers PROVE StageInv(v)'
    OBVIOUS
  <2>2. CASE v = w
    BY <1>4, <2>2 DEF StageInv
  <2>3. CASE v # w /\ wpc[v] \in AtClient
    <3>1. cur[v].item \in Clients /\ cur[v].item # k
      BY <1>2, <2>3 DEF IInv, EventInv, AtClient
    <3>2. QED
      BY <1>4, <1>5, <2>3, <3>1 DEF IInv, StageInv, Answering, AnswerUnits
  <2>4. CASE v # w /\ wpc[v] \notin AtClient
    BY <1>4, <2>4 DEF StageInv, AtClient
  <2>5. QED
    BY <2>2, <2>3, <2>4
<1>12. \A d \in Clients : HandleInv(d)'
  BY <1>2, <1>5, <1>7 DEF IInv, HandleInv
<1>13. \A d \in Clients : AnswerInv(d)'
  <2>1. AnswerInv(k)'
    BY <1>2, <1>5, <1>7 DEF IInv, AnswerInv
  <2>2. ASSUME NEW d \in Clients, d # k PROVE AnswerInv(d)'
    <3>1. ch'[d] = ch[d] /\ stream'[d] = stream[d]
      BY <1>5, <1>7, <2>2
    <3>2. AnswerInv(d)
      BY <2>2 DEF IInv
    <3>3. QED
      BY <3>1, <3>2 DEF AnswerInv
  <2>3. QED
    BY <2>1, <2>2
<1>14. OutInv'
  BY <1>2, <1>4, <1>5, <1>6, <1>7 DEF IInv, OutInv, NoEvent
<1>15. InterestInv'
  BY <1>2, <1>4, <1>5, <1>6, <1>7
     DEF IInv, InterestInv, Answering, AnswerUnits, Held, Alive, EventInv, NoEvent
<1>16. NoDanglingEvent'
  <2>1. SUFFICES ASSUME NEW v \in Workers, wpc'[v] # "dead", NEW d \in Clients,
                        d \in ready'[v] \/ (\E e \in events'[v] : e.item = d) \/ cur'[v].item = d
                 PROVE  ch'[d].st = "open" /\ ch'[d].owner = v
    BY DEF NoDanglingEvent
  <2>2. wpc[v] # "dead" /\ d # k
    BY <1>2, <1>4, <1>6, <1>7, <2>1, WebServerAssumption DEF Alive, NoEvent
  <2>3. d \in ready[v] \/ (\E e \in events[v] : e.item = d) \/ cur[v].item = d
    BY <1>4, <1>6, <1>7, <2>1, WebServerAssumption DEF NoEvent
  <2>4. ch[d].st = "open" /\ ch[d].owner = v
    BY <2>2, <2>3 DEF IInv, NoDanglingEvent
  <2>5. QED
    BY <1>5, <2>2, <2>4
<1>17. ClosedWhenDone'
  BY <1>1, <1>2, <1>5, <1>7 DEF IInv, ClosedWhenDone, AnswerUnits
<1>18. NoLostEvent'
  <2>1. \A v \in Workers : \A i, m : Announced(v, i, m) /\ i # k => Announced(v, i, m)'
    BY <1>1, <1>4, <1>6, <1>7 DEF Announced, Held
  <2>2. \A d \in Clients : d # k => Readable(d)' = Readable(d) /\ Room(d)' = Room(d)
                                    /\ Answering(d)' = Answering(d) /\ ch'[d] = ch[d]
    BY <1>5, <1>7 DEF Readable, Room, Answering, AnswerUnits
  <2>3. \A v \in Workers : wpc'[v] = "dead" <=> wpc[v] = "dead"
    BY <1>2, <1>4 DEF Alive
  <2>4. QED
    BY <1>2, <1>5, <1>7, <2>1, <2>2, <2>3 DEF IInv, NoLostEvent
<1>19. QED
  BY <1>8, <1>9, <1>10, <1>11, <1>12, <1>13, <1>14, <1>15, <1>16, <1>17, <1>18 DEF IInv

-----------------------------------------------------------------------------
\* The other workers are where they were.
Others(w) ==
  \A v \in Workers : v # w =>
    wpc'[v] = wpc[v] /\ cur'[v] = cur[v] /\ events'[v] = events[v] /\ last'[v] = last[v]

\* A step that looks at no client leaves what is about clients as it was.
LEMMA ClientsStay ==
    ASSUME IInv, NEW w \in Workers, Others(w),
           UNCHANGED <<clientVars, backlog, interest, ch, stream, faults>>
    PROVE  /\ \A v \in Workers : v # w => EventInv(v)' /\ LastInv(v)' /\ StageInv(v)'
           /\ \A c \in Clients : HandleInv(c)' /\ AnswerInv(c)'
           /\ ClosedWhenDone'
           /\ \A c \in Clients : Readable(c)' = Readable(c) /\ Room(c)' = Room(c)
                                 /\ Answering(c)' = Answering(c)
<1>1. \A v \in Workers : v # w => EventInv(v)' /\ LastInv(v)'
  BY DEF IInv, EventInv, LastInv, Alive, Others
<1>2. \A v \in Workers : v # w => StageInv(v)'
  BY DEF IInv, StageInv, Answering, AnswerUnits, Others
<1>3. \A c \in Clients : HandleInv(c)' /\ AnswerInv(c)'
  BY DEF IInv, HandleInv, AnswerInv, clientVars
<1>4. ClosedWhenDone'
  BY DEF IInv, ClosedWhenDone, AnswerUnits, clientVars
<1>5. \A c \in Clients : Readable(c)' = Readable(c) /\ Room(c)' = Room(c)
                         /\ Answering(c)' = Answering(c)
  BY DEF Readable, Room, Answering, AnswerUnits, clientVars
<1>6. QED
  BY <1>1, <1>2, <1>3, <1>4, <1>5

\* A batch is no longer than the part of the ready list it is made of.
LEMMA BatchBound ==
    ASSUME NEW batch, IsFiniteSet(batch),
           NEW E, E \subseteq {[item |-> i, mask |-> Mask(i)] : i \in batch}
    PROVE  IsFiniteSet(E) /\ Cardinality(E) <= Cardinality(batch)
<1> DEFINE R == {[item |-> i, mask |-> Mask(i)] : i \in batch}
           f == [i \in batch |-> [item |-> i, mask |-> Mask(i)]]
<1>1. f \in Surjection(batch, R)
  BY DEF Surjection
<1>2. IsFiniteSet(R) /\ Cardinality(R) <= Cardinality(batch)
  BY <1>1, FS_Surjection
<1>3. IsFiniteSet(E) /\ Cardinality(E) <= Cardinality(R)
  BY <1>2, FS_Subset
<1>4. Cardinality(E) \in Nat /\ Cardinality(R) \in Nat /\ Cardinality(batch) \in Nat
  BY <1>2, <1>3, FS_CardinalityType
<1>5. QED
  BY <1>2, <1>3, <1>4

LEMMA WaitStep ==
    ASSUME IInv, NEW w \in Workers, Wait(w)
    PROVE  IInv'
<1>1. /\ wpc[w] = "wait" /\ Goto(w, "next")
      /\ UNCHANGED <<client, sent, got, backlog, interest, ch, stream, cur, last, size,
                     faults, crashed>>
  BY DEF Wait, clientVars
<1>2. PICK batch \in SUBSET ready[w] :
        /\ Cardinality(batch) <= MaxEvents
        /\ ready' = [ready EXCEPT ![w] = @ \ batch]
        /\ events' = [events EXCEPT ![w] =
             {e \in {[item |-> i, mask |-> Mask(i)] : i \in batch} : e.mask # {}}]
  BY DEF Wait
<1>3. cur[w] = NoEvent /\ events[w] = {}
  BY <1>1 DEF IInv, EventInv
<1>4. wpc'[w] = "next" /\ \A v \in Workers : v # w => wpc'[v] = wpc[v]
  BY <1>1, Moves
<1>5. /\ ready' \in [Workers -> SUBSET Items] /\ ready'[w] = ready[w] \ batch
      /\ \A v \in Workers : v # w => ready'[v] = ready[v]
      /\ batch \subseteq Items
  BY <1>2 DEF IInv, Types, TypeOK
<1>6. \A i \in Items : Mask(i) \in SUBSET Masks
  BY DEF Mask, Masks, IInv, Types, TypeOK, Items
<1>7. PICK E : E = {e \in {[item |-> i, mask |-> Mask(i)] : i \in batch} : e.mask # {}}
  OBVIOUS
<1>8. /\ E \subseteq [item : Items, mask : SUBSET Masks]
      /\ \A e \in E : e.item \in batch /\ e.mask = Mask(e.item) /\ e.mask # {}
      /\ \A e, f \in E : e.item = f.item => e = f
      /\ \A i \in batch : Mask(i) # {} => \E e \in E : e.item = i /\ e.mask = Mask(i)
  <2>1. \A e : e \in E <=> (\E i \in batch : e = [item |-> i, mask |-> Mask(i)]) /\ e.mask # {}
    BY <1>7
  <2>2. \A e \in E : e = [item |-> e.item, mask |-> Mask(e.item)] /\ e.item \in batch
                     /\ e.mask # {}
    BY <2>1
  <2>3. \A e \in E : e \in [item : Items, mask : SUBSET Masks]
    BY <1>5, <1>6, <2>2
  <2>4. \A i \in batch : Mask(i) # {} => \E e \in E : e.item = i /\ e.mask = Mask(i)
    <3>1. SUFFICES ASSUME NEW i \in batch, Mask(i) # {}
                   PROVE  \E e \in E : e.item = i /\ e.mask = Mask(i)
      OBVIOUS
    <3>2. PICK e : e = [item |-> i, mask |-> Mask(i)]
      OBVIOUS
    <3>3. e.item = i /\ e.mask = Mask(i)
      BY <3>2
    <3>4. e \in E
      BY <2>1, <3>1, <3>2, <3>3
    <3>5. QED
      BY <3>3, <3>4
  <2>5. \A e, f \in E : e.item = f.item => e = f
    BY <2>2
  <2>6. QED
    BY <2>2, <2>3, <2>4, <2>5
<1>9. /\ events'[w] = E /\ \A v \in Workers : v # w => events'[v] = events[v]
      /\ events' \in [Workers -> SUBSET [item : Items, mask : SUBSET Masks]]
  BY <1>2, <1>7, <1>8 DEF IInv, Types, TypeOK
<1>10. IsFiniteSet(E) /\ Cardinality(E) <= MaxEvents
  <2>1. IsFiniteSet(Items)
    BY WebServerAssumption, FS_AddElement DEF Items
  <2>2. IsFiniteSet(batch)
    BY <1>5, <2>1, FS_Subset
  <2>3. IsFiniteSet(E) /\ Cardinality(E) <= Cardinality(batch)
    <3>1. E \subseteq {[item |-> i, mask |-> Mask(i)] : i \in batch}
      BY <1>7
    <3>2. QED
      BY <2>2, <3>1, BatchBound
  <2>4. QED
    BY <1>2, <2>2, <2>3, WebServerAssumption, FS_CardinalityType
<1>11. Types'
  <2>1. wpc' \in [Workers -> {"wait", "next", "accept", "read", "send", "header",
                              "content", "again", "sent", "dead"}]
    BY <1>1 DEF Goto, IInv, Types, TypeOK
  <2>2. \A v \in Workers : IsFiniteSet(events'[v]) /\ Cardinality(events'[v]) <= MaxEvents
    BY <1>9, <1>10 DEF IInv, Types, TypeOK
  <2>3. QED
    BY <1>1, <1>5, <1>9, <2>1, <2>2 DEF IInv, Types, TypeOK
<1>12. Others(w)
  BY <1>1, <1>4, <1>9 DEF Others
<1>13. /\ \A v \in Workers : v # w => EventInv(v)' /\ LastInv(v)' /\ StageInv(v)'
       /\ \A c \in Clients : HandleInv(c)' /\ AnswerInv(c)'
       /\ ClosedWhenDone'
       /\ \A c \in Clients : Readable(c)' = Readable(c) /\ Room(c)' = Room(c)
                             /\ Answering(c)' = Answering(c)
  BY <1>1, <1>12, ClientsStay DEF clientVars
<1>14. EventInv(w)' /\ LastInv(w)' /\ StageInv(w)'
  <2>1. EventInv(w)'
    BY <1>1, <1>3, <1>4, <1>8, <1>9, WebServerAssumption DEF EventInv, NoEvent, AtClient
  <2>2. LastInv(w)'
    BY <1>1, <1>4 DEF IInv, LastInv, Alive
  <2>3. StageInv(w)'
    BY <1>4 DEF StageInv
  <2>4. QED
    BY <2>1, <2>2, <2>3
<1>15. OutInv'
  <2>1. \A c \in Clients : "out" \in Mask(c) => ch[c].prepared
    BY WebServerAssumption DEF Mask, IInv, OutInv
  <2>2. \A e \in E : e.item \in Clients /\ "out" \in e.mask => ch[e.item].prepared
    BY <1>8, <2>1
  <2>3. QED
    BY <1>1, <1>9, <2>2 DEF IInv, OutInv
<1>16. InterestInv'
  BY <1>1, <1>3, <1>4, <1>13 DEF IInv, InterestInv, Held, Alive
<1>17. NoDanglingEvent'
  <2>1. SUFFICES ASSUME NEW v \in Workers, wpc'[v] # "dead", NEW d \in Clients,
                        d \in ready'[v] \/ (\E e \in events'[v] : e.item = d) \/ cur'[v].item = d
                 PROVE  ch'[d].st = "open" /\ ch'[d].owner = v
    BY DEF NoDanglingEvent
  <2>2. wpc[v] # "dead"
    BY <1>1, <1>4, <2>1
  <2>3. d \in ready[v] \/ (\E e \in events[v] : e.item = d) \/ cur[v].item = d
    BY <1>1, <1>2, <1>5, <1>8, <1>9, <2>1
  <2>4. QED
    BY <1>1, <2>2, <2>3 DEF IInv, NoDanglingEvent
<1>18. NoLostEvent'
  <2>1. \A v \in Workers : \A i, m : v # w /\ Announced(v, i, m) => Announced(v, i, m)'
    BY <1>1, <1>4, <1>5, <1>9 DEF Announced, Held
  <2>2. \A i, m : Announced(w, i, m) /\ i \in Items /\ m \in Mask(i) => Announced(w, i, m)'
    <3>1. SUFFICES ASSUME NEW i \in Items, NEW m, Announced(w, i, m), m \in Mask(i)
                   PROVE  Announced(w, i, m)'
      OBVIOUS
    <3>2. i \in ready[w]
      BY <1>1, <1>3, <3>1 DEF Announced, Held
    <3>3. CASE i \in batch
      BY <1>8, <1>9, <3>1, <3>3 DEF Announced
    <3>4. CASE i \notin batch
      BY <1>5, <3>2, <3>4 DEF Announced
    <3>5. QED
      BY <3>3, <3>4
  <2>3. \A c \in Clients : ch[c].st = "open" /\ ch[c].owner = w =>
          /\ Readable(c) => "in" \in Mask(c)
          /\ Answering(c) /\ Room(c) > 0 => "out" \in Mask(c)
    BY <1>1, WebServerAssumption DEF IInv, InterestInv, Mask, Alive, Held
  <2>4. backlog # {} => "in" \in Mask(Listen)
    BY DEF Mask
  <2>5. \A v \in Workers : wpc'[v] = "dead" <=> wpc[v] = "dead"
    BY <1>1, <1>4
  <2>6. Listen \in Items /\ \A c \in Clients : c \in Items
    BY DEF Items
  <2>7. ASSUME NEW c \in Clients, NEW v \in Workers, ch[c].st = "open", ch[c].owner = v,
               wpc[v] # "dead"
        PROVE  /\ Readable(c) => Announced(v, c, "in")'
               /\ Answering(c) /\ Room(c) > 0 => Announced(v, c, "out")'
    BY <2>1, <2>2, <2>3, <2>6, <2>7 DEF IInv, NoLostEvent
  <2>8. backlog # {} => \E v \in Workers : wpc[v] = "dead" \/ Announced(v, Listen, "in")'
    BY <2>1, <2>2, <2>4, <2>6 DEF IInv, NoLostEvent
  <2>9. QED
    BY <1>1, <1>13, <2>5, <2>7, <2>8 DEF NoLostEvent
<1>19. QED
  BY <1>11, <1>13, <1>14, <1>15, <1>16, <1>17, <1>18 DEF IInv

\* The batch is looked through: back to epoll_wait.
LEMMA BatchDone ==
    ASSUME IInv, NEW w \in Workers, wpc[w] = "next", events[w] = {}, Goto(w, "wait"),
           UNCHANGED <<clientVars, backlog, interest, ready, ch, stream, events, cur, last,
                       size, faults, crashed>>
    PROVE  IInv'
<1>1. wpc'[w] = "wait" /\ cur[w] = NoEvent /\ \A v \in Workers : v # w => wpc'[v] = wpc[v]
  BY Moves DEF IInv, EventInv
<1>2. Types'
  BY DEF IInv, Types, TypeOK, Goto, clientVars
<1>3. Others(w)
  BY <1>1 DEF Others
<1>4. /\ \A v \in Workers : v # w => EventInv(v)' /\ LastInv(v)' /\ StageInv(v)'
      /\ \A c \in Clients : HandleInv(c)' /\ AnswerInv(c)'
      /\ ClosedWhenDone'
      /\ \A c \in Clients : Readable(c)' = Readable(c) /\ Room(c)' = Room(c)
                            /\ Answering(c)' = Answering(c)
  BY <1>3, ClientsStay
<1>5. EventInv(w)' /\ LastInv(w)' /\ StageInv(w)'
  BY <1>1 DEF IInv, EventInv, LastInv, StageInv, Alive, AtClient
<1>6. OutInv'
  BY DEF IInv, OutInv
<1>7. \A v \in Workers : \A c : (Held(v, c)' <=> Held(v, c)) /\ (Alive(v)' <=> Alive(v))
  BY <1>1 DEF Held, Alive
<1>8. InterestInv'
  BY <1>4, <1>7 DEF IInv, InterestInv
<1>9. NoDanglingEvent'
  BY <1>7 DEF IInv, NoDanglingEvent, Alive
<1>10. NoLostEvent'
  BY <1>4, <1>7 DEF IInv, NoLostEvent, Announced, Alive
<1>11. QED
  BY <1>2, <1>4, <1>5, <1>6, <1>8, <1>9, <1>10 DEF IInv

\* An event is taken in hand.
LEMMA TakeStep ==
    ASSUME IInv, NEW w \in Workers, NEW e \in events[w], wpc[w] = "next",
           events' = [events EXCEPT ![w] = @ \ {e}],
           cur' = [cur EXCEPT ![w] = e],
           IF e.item = Listen
             THEN Goto(w, "accept") /\ UNCHANGED last
             ELSE /\ Goto(w, IF "in" \in e.mask THEN "read" ELSE "send")
                  /\ last' = [last EXCEPT ![w] = e.item],
           UNCHANGED <<clientVars, backlog, interest, ready, ch, stream, size, faults, crashed>>
    PROVE  IInv'
<1>1. /\ e \in [item : Items, mask : SUBSET Masks] /\ e.item \in Items /\ e.mask \subseteq Masks
      /\ e.mask # {} /\ cur[w] = NoEvent
      /\ \A f \in events[w] : f.item = e.item => f = e
  BY DEF IInv, EventInv, Types, TypeOK
<1>2. PICK l \in {"accept", "read", "send"} :
        /\ Goto(w, l)
        /\ l = "accept" <=> e.item = Listen
        /\ l = "send" => "in" \notin e.mask
  BY <1>1
<1>3. /\ wpc'[w] = l /\ cur'[w] = e /\ events'[w] = events[w] \ {e}
      /\ \A v \in Workers : v # w => wpc'[v] = wpc[v] /\ cur'[v] = cur[v] /\ events'[v] = events[v]
  BY <1>2, Moves DEF IInv, Types, TypeOK
<1>4. /\ last' \in [Workers -> Clients \cup {None}]
      /\ \A v \in Workers : v # w => last'[v] = last[v]
      /\ last'[w] = IF e.item = Listen THEN last[w] ELSE e.item
  BY <1>1 DEF IInv, Types, TypeOK, Items
<1>5. e.item # Listen => e.item \in Clients /\ ch[e.item].st = "open" /\ ch[e.item].owner = w
  BY <1>1 DEF IInv, NoDanglingEvent, Items
<1>6. Types'
  <2>1. wpc' \in [Workers -> {"wait", "next", "accept", "read", "send", "header",
                              "content", "again", "sent", "dead"}]
    BY <1>2 DEF Goto, IInv, Types, TypeOK
  <2>2. IsFiniteSet(events'[w]) /\ Cardinality(events'[w]) <= MaxEvents
    <3>1. IsFiniteSet(events[w]) /\ Cardinality(events[w]) <= MaxEvents
      BY DEF IInv, Types, TypeOK
    <3>2. IsFiniteSet(events'[w]) /\ Cardinality(events'[w]) = Cardinality(events[w]) - 1
      BY <1>3, <3>1, FS_RemoveElement
    <3>3. QED
      BY <3>1, <3>2, WebServerAssumption, FS_CardinalityType
  <2>3. \A v \in Workers : IsFiniteSet(events'[v]) /\ Cardinality(events'[v]) <= MaxEvents
    BY <1>3, <2>2 DEF IInv, Types, TypeOK
  <2>4. /\ events' \in [Workers -> SUBSET [item : Items, mask : SUBSET Masks]]
        /\ cur' \in [Workers -> [item : Items \cup {None}, mask : SUBSET Masks]]
    BY <1>1 DEF IInv, Types, TypeOK
  <2>5. QED
    BY <1>4, <2>1, <2>3, <2>4 DEF IInv, Types, TypeOK, clientVars
<1>7. Others(w)
  BY <1>3, <1>4 DEF Others
<1>8. /\ \A v \in Workers : v # w => EventInv(v)' /\ LastInv(v)' /\ StageInv(v)'
      /\ \A c \in Clients : HandleInv(c)' /\ AnswerInv(c)'
      /\ ClosedWhenDone'
      /\ \A c \in Clients : Readable(c)' = Readable(c) /\ Room(c)' = Room(c)
                            /\ Answering(c)' = Answering(c)
  BY <1>7, ClientsStay
<1>9. EventInv(w)'
  <2>1. \A f \in events'[w] : f \in events[w] /\ f # e
    BY <1>3
  <2>2. QED
    BY <1>1, <1>2, <1>3, <1>5, <2>1 DEF IInv, EventInv, AtClient
<1>10. LastInv(w)'
  <2>1. Alive(w)
    BY DEF Alive
  <2>2. QED
    BY <1>4, <1>5, <2>1 DEF IInv, LastInv
<1>11. StageInv(w)'
  <2>1. l = "send" => e.item \in Clients /\ "out" \in e.mask
    BY <1>1, <1>2, <1>5 DEF Masks
  <2>2. l = "send" => ch[e.item].ec # 0
    BY <2>1 DEF IInv, OutInv, AnswerInv
  <2>3. QED
    BY <1>3, <2>2 DEF StageInv
<1>12. OutInv'
  <2>1. \A f \in events[w] : f.item \in Clients /\ "out" \in f.mask => ch[f.item].prepared
    BY DEF IInv, OutInv
  <2>2. QED
    BY <1>3, <2>1 DEF IInv, OutInv
<1>13. InterestInv'
  BY <1>3, <1>8 DEF IInv, InterestInv, Held, Alive
<1>14. NoDanglingEvent'
  <2>1. SUFFICES ASSUME NEW v \in Workers, wpc'[v] # "dead", NEW d \in Clients,
                        d \in ready'[v] \/ (\E f \in events'[v] : f.item = d) \/ cur'[v].item = d
                 PROVE  ch'[d].st = "open" /\ ch'[d].owner = v
    BY DEF NoDanglingEvent
  <2>2. wpc[v] # "dead"
    BY <1>3, <2>1
  <2>3. d \in ready[v] \/ (\E f \in events[v] : f.item = d) \/ cur[v].item = d
    BY <1>3, <2>1
  <2>4. QED
    BY <2>2, <2>3 DEF IInv, NoDanglingEvent
<1>15. NoLostEvent'
  <2>1. \A v \in Workers : \A i, m : v # w /\ Announced(v, i, m) => Announced(v, i, m)'
    BY <1>3 DEF Announced, Held
  <2>2. \A i, m : Announced(w, i, m) => Announced(w, i, m)'
    <3>1. SUFFICES ASSUME NEW i, NEW m, Announced(w, i, m) PROVE Announced(w, i, m)'
      OBVIOUS
    <3>2. CASE i = e.item
      BY <1>2, <1>3, <3>2 DEF Announced, Held
    <3>3. CASE i # e.item
      BY <1>3, <3>1, <3>3 DEF Announced, Held
    <3>4. QED
      BY <3>2, <3>3
  <2>3. \A v \in Workers : wpc'[v] = "dead" <=> wpc[v] = "dead"
    BY <1>2, <1>3
  <2>4. QED
    BY <1>8, <2>1, <2>2, <2>3 DEF IInv, NoLostEvent
<1>16. QED
  BY <1>6, <1>8, <1>9, <1>10, <1>11, <1>12, <1>13, <1>14, <1>15 DEF IInv

LEMMA NextEventStep ==
    ASSUME IInv, NEW w \in Workers, NextEvent(w)
    PROVE  IInv'
<1>1. CASE /\ events[w] = {} /\ Goto(w, "wait") /\ UNCHANGED <<events, cur, last>>
  BY <1>1, BatchDone DEF NextEvent
<1>2. CASE \E e \in events[w] :
             /\ events' = [events EXCEPT ![w] = @ \ {e}]
             /\ cur' = [cur EXCEPT ![w] = e]
             /\ IF e.item = Listen
                THEN Goto(w, "accept") /\ UNCHANGED last
                ELSE /\ Goto(w, IF "in" \in e.mask THEN "read" ELSE "send")
                     /\ last' = [last EXCEPT ![w] = e.item]
  BY <1>2, TakeStep DEF NextEvent
<1>3. QED
  BY <1>1, <1>2 DEF NextEvent

-----------------------------------------------------------------------------
LEMMA AcceptedAllStep ==
    ASSUME IInv, NEW w \in Workers, AcceptedAll(w)
    PROVE  IInv'
<1>1. /\ wpc[w] = "accept" /\ backlog = {} /\ Continue(w)
      /\ UNCHANGED <<client, sent, got, backlog, interest, ready, ch, stream, events, last, size,
                     faults, crashed>>
  BY DEF AcceptedAll, clientVars
<1>2. /\ wpc'[w] = "next" /\ cur'[w] = NoEvent
      /\ \A v \in Workers : v # w => wpc'[v] = wpc[v] /\ cur'[v] = cur[v]
  BY <1>1, Continues
<1>3. cur[w].item = Listen
  BY <1>1 DEF IInv, EventInv
<1>4. Types'
  <2>1. wpc' \in [Workers -> {"wait", "next", "accept", "read", "send", "header",
                              "content", "again", "sent", "dead"}]
        /\ cur' \in [Workers -> [item : Items \cup {None}, mask : SUBSET Masks]]
    BY <1>1 DEF Continue, Goto, NoEvent, IInv, Types, TypeOK
  <2>2. QED
    BY <1>1, <2>1 DEF IInv, Types, TypeOK
<1>5. Others(w)
  BY <1>1, <1>2 DEF Others
<1>6. /\ \A v \in Workers : v # w => EventInv(v)' /\ LastInv(v)' /\ StageInv(v)'
      /\ \A c \in Clients : HandleInv(c)' /\ AnswerInv(c)'
      /\ ClosedWhenDone'
      /\ \A c \in Clients : Readable(c)' = Readable(c) /\ Room(c)' = Room(c)
                            /\ Answering(c)' = Answering(c)
  BY <1>1, <1>5, ClientsStay DEF clientVars
<1>7. EventInv(w)' /\ LastInv(w)' /\ StageInv(w)'
  BY <1>1, <1>2, WebServerAssumption
     DEF IInv, EventInv, LastInv, StageInv, Alive, AtClient, NoEvent
<1>8. OutInv'
  BY <1>1, <1>2, WebServerAssumption DEF IInv, OutInv, NoEvent
<1>9. \A v \in Workers, c \in Clients : (Held(v, c)' <=> Held(v, c)) /\ (Alive(v)' <=> Alive(v))
  BY <1>1, <1>2, <1>3, WebServerAssumption DEF Held, Alive, NoEvent
<1>10. InterestInv'
  BY <1>1, <1>6, <1>9 DEF IInv, InterestInv
<1>11. NoDanglingEvent'
  BY <1>1, <1>2, WebServerAssumption DEF IInv, NoDanglingEvent, NoEvent
<1>12. NoLostEvent'
  BY <1>1, <1>6, <1>9 DEF IInv, NoLostEvent, Announced, Alive
<1>13. QED
  BY <1>4, <1>6, <1>7, <1>8, <1>10, <1>11, <1>12 DEF IInv

LEMMA AcceptStep ==
    ASSUME IInv, NEW w \in Workers, Accept(w)
    PROVE  IInv'
<1>1. PICK c \in backlog :
        /\ backlog' = backlog \ {c}
        /\ ch' = [ch EXCEPT ![c].st = "open", ![c].owner = w]
        /\ last' = [last EXCEPT ![w] = c]
        /\ Watch(w, c, {"in"})
  BY DEF Accept
<1>2. /\ wpc[w] = "accept"
      /\ UNCHANGED <<client, sent, got, stream, events, size, faults, crashed, wpc, cur>>
  BY DEF Accept, AcceptMore, clientVars
<1>3. c \in Clients /\ ch[c].st = "none" /\ ~ch[c].prepared /\ client[c] # "none"
  BY DEF IInv, HandleInv, Types, TypeOK
<1>4. /\ ch' \in [Clients -> HandleTypes]
      /\ \A d \in Clients : d # c => ch'[d] = ch[d]
      /\ ch'[c].st = "open" /\ ch'[c].owner = w /\ ch'[c].ec = ch[c].ec
      /\ ch'[c].prepared = ch[c].prepared /\ ch'[c].content_size = ch[c].content_size
      /\ ch'[c].header_sent = ch[c].header_sent /\ ch'[c].content_sent = ch[c].content_sent
      /\ ch'[c].read = ch[c].read
  <2>1. PICK h \in HandleTypes : h = ch[c]
    BY <1>3 DEF IInv, Types, TypeOK
  <2>2. PICK g : g = [[h EXCEPT !.st = "open"] EXCEPT !.owner = w]
    OBVIOUS
  <2>3. PICK f : f = [ch EXCEPT ![c] = [h EXCEPT !.st = "open"]]
    OBVIOUS
  <2>4. [h EXCEPT !.st = "open"] \in HandleTypes
    BY StatusSet
  <2>5. f \in [Clients -> HandleTypes] /\ f[c] = [h EXCEPT !.st = "open"]
        /\ \A d \in Clients : d # c => f[d] = ch[d]
    BY <1>3, <2>3, <2>4 DEF IInv, Types, TypeOK
  <2>6. g \in HandleTypes
    BY <2>2, <2>4, OwnerSet
  <2>7. ch' = [f EXCEPT ![c] = g]
    BY <1>1, <2>1, <2>2, <2>3, <2>5
  <2>8. g.st = "open" /\ g.owner = w /\ g.ec = h.ec
        /\ g.prepared = h.prepared /\ g.content_size = h.content_size
        /\ g.header_sent = h.header_sent /\ g.content_sent = h.content_sent
        /\ g.read = h.read
    BY <2>2 DEF HandleTypes
  <2>9. ch' \in [Clients -> HandleTypes] /\ ch'[c] = g /\ \A d \in Clients : d # c => ch'[d] = ch[d]
    BY <1>3, <2>5, <2>6, <2>7
  <2>10. QED
    BY <2>1, <2>8, <2>9
<1>5. last' \in [Workers -> Clients \cup {None}] /\ last'[w] = c
      /\ \A v \in Workers : v # w => last'[v] = last[v]
  BY <1>1, <1>3 DEF IInv, Types, TypeOK
<1>6. /\ interest' \in [Clients -> SUBSET Masks] /\ interest'[c] = {"in"}
      /\ \A d \in Clients : d # c => interest'[d] = interest[d]
      /\ ready' \in [Workers -> SUBSET Items]
      /\ \A v \in Workers : v # w => ready'[v] = ready[v]
      /\ ready[w] \subseteq ready'[w] /\ ready'[w] \subseteq ready[w] \cup {c}
      /\ Readable(c) => c \in ready'[w]
  <2>1. /\ interest' = [interest EXCEPT ![c] = {"in"}]
        /\ ready' = [ready EXCEPT ![w] = @ \cup {c}] \/ (ready' = ready /\ ~Readable(c))
    BY <1>1 DEF Watch
  <2>2. interest \in [Clients -> SUBSET Masks] /\ ready \in [Workers -> SUBSET Items]
        /\ c \in Items /\ {"in"} \subseteq Masks
    BY <1>3 DEF IInv, Types, TypeOK, Items, Masks
  <2>3. QED
    BY <1>3, <2>1, <2>2
<1>7. Types'
  BY <1>1, <1>2, <1>4, <1>5, <1>6 DEF IInv, Types, TypeOK
<1>8. \A v \in Workers : EventInv(v)'
  BY <1>2 DEF IInv, EventInv
<1>9. \A v \in Workers : LastInv(v)'
  <2>1. LastInv(w)'
    BY <1>4, <1>5 DEF LastInv
  <2>2. ASSUME NEW v \in Workers, v # w, Alive(v), last[v] # None
        PROVE  ch'[last[v]] = ch[last[v]] /\ ch[last[v]].owner = v
               /\ ch[last[v]].st \in {"open", "closed"}
    <3>1. last[v] \in Clients
      BY <2>2 DEF IInv, Types, TypeOK
    <3>2. ch[last[v]].owner = v /\ ch[last[v]].st \in {"open", "closed"}
      BY <2>2 DEF IInv, LastInv
    <3>3. QED
      BY <1>3, <1>4, <3>1, <3>2
  <2>3. \A v \in Workers : v # w => LastInv(v)'
    BY <1>2, <1>5, <2>2 DEF LastInv, Alive
  <2>4. QED
    BY <2>1, <2>3
<1>10. \A d \in Clients : Room(d)' = Room(d) /\ Readable(d)' = Readable(d)
                          /\ Answering(d)' = Answering(d)
  <2>1. \A d \in Clients : ch'[d].prepared = ch[d].prepared /\ ch'[d].read = ch[d].read
          /\ ch'[d].header_sent = ch[d].header_sent /\ ch'[d].content_sent = ch[d].content_sent
          /\ ch'[d].content_size = ch[d].content_size
    BY <1>4
  <2>2. QED
    BY <1>2, <2>1 DEF Readable, Room, Answering, AnswerUnits
<1>11. \A v \in Workers : StageInv(v)'
  <2>1. \A v \in Workers : wpc[v] \in AtClient =>
          cur[v].item \in Clients /\ ch'[cur[v].item].prepared = ch[cur[v].item].prepared
          /\ ch'[cur[v].item].ec = ch[cur[v].item].ec
          /\ ch'[cur[v].item].header_sent = ch[cur[v].item].header_sent
    BY <1>4 DEF IInv, EventInv
  <2>2. QED
    BY <1>2, <1>10, <2>1 DEF IInv, StageInv, AtClient
<1>12. \A d \in Clients : HandleInv(d)' /\ AnswerInv(d)'
  <2>1. HandleInv(c)' /\ AnswerInv(c)'
    BY <1>1, <1>2, <1>3, <1>4 DEF IInv, HandleInv, AnswerInv
  <2>2. \A d \in Clients : d # c => HandleInv(d)' /\ AnswerInv(d)'
    BY <1>1, <1>2, <1>4 DEF IInv, HandleInv, AnswerInv
  <2>3. QED
    BY <2>1, <2>2
<1>13. OutInv'
  <2>1. \A d \in Clients : ch'[d].prepared = ch[d].prepared
    BY <1>4
  <2>2. QED
    BY <1>2, <1>6, <2>1 DEF IInv, OutInv
<1>14. InterestInv'
  <2>1. ~Answering(c)
    BY <1>3 DEF Answering
  <2>2. QED
    BY <1>2, <1>4, <1>6, <1>10, <2>1 DEF IInv, InterestInv, Held, Alive
<1>15. NoDanglingEvent'
  <2>1. SUFFICES ASSUME NEW v \in Workers, wpc'[v] # "dead", NEW d \in Clients,
                        d \in ready'[v] \/ (\E e \in events'[v] : e.item = d) \/ cur'[v].item = d
                 PROVE  ch'[d].st = "open" /\ ch'[d].owner = v
    BY DEF NoDanglingEvent
  <2>2. CASE d \in ready[v] \/ (\E e \in events[v] : e.item = d) \/ cur[v].item = d
    <3>1. ch[d].st = "open" /\ ch[d].owner = v
      BY <1>2, <2>1, <2>2 DEF IInv, NoDanglingEvent
    <3>2. QED
      BY <1>3, <1>4, <3>1
  <2>3. CASE d = c /\ v = w
    BY <1>4, <2>3
  <2>4. QED
    BY <1>2, <1>6, <2>1, <2>2, <2>3
<1>16. ClosedWhenDone'
  BY <1>2, <1>4 DEF IInv, ClosedWhenDone, AnswerUnits
<1>17. NoLostEvent'
  <2>1. \A v \in Workers : \A i, m : Announced(v, i, m) => Announced(v, i, m)'
    BY <1>2, <1>6 DEF Announced, Held
  <2>2. Announced(w, Listen, "in")'
    BY <1>2 DEF Announced, Held, IInv, EventInv
  <2>3. Readable(c) => Announced(w, c, "in")'
    BY <1>6 DEF Announced
  <2>4. ~Answering(c)
    BY <1>3 DEF Answering
  <2>5. QED
    BY <1>2, <1>4, <1>10, <2>1, <2>2, <2>3, <2>4 DEF IInv, NoLostEvent
<1>18. QED
  BY <1>7, <1>8, <1>9, <1>11, <1>12, <1>13, <1>14, <1>15, <1>16, <1>17 DEF IInv

\* What a worker that ends leaves: its handle is of a client of its own, or of one
\* it could not register.
Gone(w) ==
  /\ backlog' \subseteq backlog /\ faults \subseteq faults' /\ faults' \subseteq Faults
  /\ last' \in [Workers -> Clients \cup {None}]
  /\ \A v \in Workers : v # w => last'[v] = last[v]
  /\ last'[w] \notin backlog'
  /\ last'[w] # None => \/ ch[last'[w]].st = "none"
                        \/ ch[last'[w]].owner = w /\ ch[last'[w]].st \in {"open", "closed"}

\* The worker's end, and what it does to the handle it last had.
LEMMA AcceptFailsStep ==
    ASSUME IInv, NEW w \in Workers, AcceptFails(w)
    PROVE  IInv'
<1>1. /\ wpc[w] = "accept" /\ Goto(w, "dead")
      /\ UNCHANGED <<client, sent, got, interest, ready, stream, events, cur, size>>
  BY DEF AcceptFails, clientVars
<1>2. Gone(w)
  <2>1. backlog \subseteq Clients /\ last \in [Workers -> Clients \cup {None}] /\ faults \subseteq Faults
    BY DEF IInv, Types, TypeOK
  <2>2. last[w] # None => last[w] \in Clients /\ last[w] \notin backlog /\ ch[last[w]].owner = w
                          /\ ch[last[w]].st \in {"open", "closed"}
    BY <1>1, <2>1 DEF IInv, LastInv, Alive, HandleInv
  <2>3. CASE Fails("accept") /\ UNCHANGED <<backlog, last>>
    BY <2>1, <2>2, <2>3, WebServerAssumption DEF Fails, Gone
  <2>4. ASSUME NEW c \in backlog, backlog' = backlog \ {c}, Fails("create"),
               last' = [last EXCEPT ![w] = None]
        PROVE  Gone(w)
    BY <2>1, <2>4, WebServerAssumption DEF Fails, Gone
  <2>5. ASSUME NEW c \in backlog, backlog' = backlog \ {c}, Fails("register"),
               last' = [last EXCEPT ![w] = c]
        PROVE  Gone(w)
    BY <2>1, <2>5 DEF Fails, Gone, IInv, HandleInv
  <2>6. QED
    BY <2>3, <2>4, <2>5 DEF AcceptFails
<1>3. PICK z : z = last'[w]
  OBVIOUS
<1>4. \/ UNCHANGED ch /\ crashed' \in BOOLEAN
      \/ ch' = [ch EXCEPT ![z].st = "leaked"] /\ z \in Clients /\ z # None /\ UNCHANGED crashed
  BY <1>2, <1>3 DEF Gone, AcceptFails, IInv, Types, TypeOK
<1>5. /\ ch' \in [Clients -> HandleTypes] /\ crashed' \in BOOLEAN
      /\ \A d \in Clients :
           /\ ch'[d].owner = ch[d].owner /\ ch'[d].ec = ch[d].ec
           /\ ch'[d].prepared = ch[d].prepared /\ ch'[d].content_size = ch[d].content_size
           /\ ch'[d].header_sent = ch[d].header_sent /\ ch'[d].content_sent = ch[d].content_sent
           /\ ch'[d].read = ch[d].read
           /\ \/ ch'[d].st = ch[d].st
              \/ d = z /\ z # None /\ ch'[d].st = "leaked"
  <2>1. ch \in [Clients -> HandleTypes] /\ crashed \in BOOLEAN
    BY DEF IInv, Types, TypeOK
  <2>2. CASE UNCHANGED ch /\ crashed' \in BOOLEAN
    BY <2>1, <2>2
  <2>3. CASE ch' = [ch EXCEPT ![z].st = "leaked"] /\ z \in Clients /\ z # None /\ UNCHANGED crashed
    <3>1. PICK h \in HandleTypes : h = ch[z]
      BY <2>1, <2>3
    <3>2. PICK g : g = [h EXCEPT !.st = "leaked"]
      OBVIOUS
    <3>3. g \in HandleTypes
      BY <3>2, StatusSet
    <3>4. g.st = "leaked" /\ g.owner = h.owner /\ g.ec = h.ec
          /\ g.prepared = h.prepared /\ g.content_size = h.content_size
          /\ g.header_sent = h.header_sent /\ g.content_sent = h.content_sent
          /\ g.read = h.read
      BY <3>2 DEF HandleTypes
    <3>5. ch' \in [Clients -> HandleTypes] /\ ch'[z] = g /\ \A d \in Clients : d # z => ch'[d] = ch[d]
      BY <2>1, <2>3, <3>1, <3>2, <3>3
    <3>6. QED
      BY <2>1, <2>3, <3>1, <3>4, <3>5
  <2>4. QED
    BY <1>4, <2>2, <2>3
<1>6. wpc'[w] = "dead" /\ \A v \in Workers : v # w => wpc'[v] = wpc[v]
  BY <1>1, Moves
<1>7. Types'
  <2>1. wpc' \in [Workers -> {"wait", "next", "accept", "read", "send", "header",
                              "content", "again", "sent", "dead"}]
    BY <1>1 DEF Goto, IInv, Types, TypeOK
  <2>2. backlog' \subseteq Clients
    BY <1>2 DEF Gone, IInv, Types, TypeOK
  <2>3. QED
    BY <1>1, <1>2, <1>5, <2>1, <2>2 DEF Gone, IInv, Types, TypeOK
\* Only a client of the worker's own, or one never registered, changes.
<1>8. \A d \in Clients : ch'[d].st = ch[d].st \/ ch[d].st = "none" \/ ch[d].owner = w
  BY <1>2, <1>3, <1>5 DEF Gone
<1>9. \A v \in Workers : EventInv(v)'
  BY <1>1, <1>6 DEF IInv, EventInv, AtClient
<1>10. \A v \in Workers : LastInv(v)'
  <2>1. LastInv(w)'
    BY <1>6 DEF LastInv, Alive
  <2>2. ASSUME NEW v \in Workers, v # w, Alive(v), last[v] # None
        PROVE  ch'[last[v]].owner = v /\ ch'[last[v]].st \in {"open", "closed"}
    <3>1. last[v] \in Clients
      BY <2>2 DEF IInv, Types, TypeOK
    <3>2. ch[last[v]].owner = v /\ ch[last[v]].st \in {"open", "closed"}
      BY <2>2 DEF IInv, LastInv
    <3>3. QED
      BY <1>5, <1>8, <2>2, <3>1, <3>2
  <2>3. \A v \in Workers : v # w => LastInv(v)'
    BY <1>2, <1>6, <2>2 DEF Gone, LastInv, Alive
  <2>4. QED
    BY <2>1, <2>3
<1>11. \A d \in Clients : Room(d)' = Room(d) /\ Readable(d)' = Readable(d)
                          /\ Answering(d)' = Answering(d)
  BY <1>1, <1>5 DEF Readable, Room, Answering, AnswerUnits
<1>12. \A v \in Workers : StageInv(v)'
  <2>1. StageInv(w)'
    BY <1>6 DEF StageInv
  <2>2. \A v \in Workers : wpc[v] \in AtClient =>
          cur[v].item \in Clients /\ ch'[cur[v].item].prepared = ch[cur[v].item].prepared
          /\ ch'[cur[v].item].ec = ch[cur[v].item].ec
          /\ ch'[cur[v].item].header_sent = ch[cur[v].item].header_sent
    BY <1>5 DEF IInv, EventInv
  <2>3. \A v \in Workers : v # w => StageInv(v)'
    BY <1>1, <1>6, <1>11, <2>2 DEF IInv, StageInv, AtClient
  <2>4. QED
    BY <2>1, <2>3
<1>13. \A d \in Clients : HandleInv(d)'
  <2>1. ASSUME NEW d \in Clients, ch'[d].st = ch[d].st
        PROVE  HandleInv(d)'
    BY <1>1, <1>2, <1>5, <2>1 DEF Gone, IInv, HandleInv
  <2>2. ASSUME NEW d \in Clients, d = z, z # None, ch'[d].st = "leaked"
        PROVE  HandleInv(d)'
    <3>1. client[d] # "none"
      <4>1. CASE ch[d].st # "none"
        BY <4>1 DEF IInv, HandleInv
      <4>2. CASE ch[d].st = "none"
        <5>1. \E c \in backlog : last' = [last EXCEPT ![w] = c]
          <6>1. ~(last[w] = d)
            BY <1>1, <2>2, <4>2 DEF IInv, LastInv, Alive
          <6>2. QED
            BY <1>3, <2>2, <6>1 DEF AcceptFails, IInv, Types, TypeOK
        <5>2. d \in backlog
          BY <1>3, <2>2, <5>1 DEF IInv, Types, TypeOK
        <5>3. QED
          BY <5>2 DEF IInv, HandleInv
      <4>3. QED
        BY <4>1, <4>2
    <3>2. QED
      BY <1>1, <1>2, <1>3, <2>2, <3>1 DEF Gone, HandleInv
  <2>3. QED
    BY <1>5, <2>1, <2>2
<1>14. \A d \in Clients : AnswerInv(d)'
  BY <1>1, <1>5 DEF IInv, AnswerInv
<1>15. OutInv'
  BY <1>1, <1>5 DEF IInv, OutInv
<1>16. InterestInv'
  <2>1. \A d \in Clients, v \in Workers : ch'[d].st = "open" /\ ch'[d].owner = v /\ Alive(v)' =>
          v # w /\ ch[d].st = "open" /\ ch[d].owner = v /\ Alive(v) /\ (Held(v, d)' <=> Held(v, d))
    BY <1>1, <1>5, <1>6 DEF Alive, Held
  <2>2. QED
    BY <1>1, <1>11, <2>1 DEF IInv, InterestInv
<1>17. NoDanglingEvent'
  <2>1. SUFFICES ASSUME NEW v \in Workers, wpc'[v] # "dead", NEW d \in Clients,
                        d \in ready'[v] \/ (\E e \in events'[v] : e.item = d) \/ cur'[v].item = d
                 PROVE  ch'[d].st = "open" /\ ch'[d].owner = v
    BY DEF NoDanglingEvent
  <2>2. v # w /\ ch[d].st = "open" /\ ch[d].owner = v
    BY <1>1, <1>6, <2>1 DEF IInv, NoDanglingEvent
  <2>3. QED
    BY <1>5, <1>8, <2>2
<1>18. ClosedWhenDone'
  BY <1>1, <1>2, <1>5 DEF Gone, IInv, ClosedWhenDone, AnswerUnits
<1>19. NoLostEvent'
  <2>1. \A v \in Workers : \A i, m : v # w /\ Announced(v, i, m) => Announced(v, i, m)'
    BY <1>1, <1>6 DEF Announced, Held
  <2>2. \A d \in Clients, v \in Workers : ch'[d].st = "open" /\ ch'[d].owner = v /\ wpc'[v] # "dead" =>
          v # w /\ ch[d].st = "open" /\ ch[d].owner = v /\ wpc[v] # "dead"
    BY <1>5, <1>6
  <2>3. QED
    BY <1>6, <1>11, <2>1, <2>2 DEF IInv, NoLostEvent
<1>20. QED
  BY <1>7, <1>9, <1>10, <1>12, <1>13, <1>14, <1>15, <1>16, <1>17, <1>18, <1>19 DEF IInv

-----------------------------------------------------------------------------
\* What every step of worker w at its client k does that does not close it.
Works(w, k) ==
  /\ wpc[w] \in AtClient /\ k = cur[w].item
  /\ UNCHANGED <<client, sent, got, backlog, events, last>> /\ faults \subseteq faults'
  /\ \A v \in Workers : v # w => wpc'[v] = wpc[v] /\ cur'[v] = cur[v] /\ ready'[v] = ready[v]
  /\ ready[w] \subseteq ready'[w] /\ ready'[w] \subseteq ready[w] \cup {k}
  /\ \A d \in Clients : d # k =>
       ch'[d] = ch[d] /\ stream'[d] = stream[d] /\ interest'[d] = interest[d]
  /\ ch'[k].st = ch[k].st /\ ch'[k].owner = ch[k].owner
  /\ ch[k].prepared => ch'[k].prepared
  /\ "in" \in interest'[k] /\ ("out" \in interest'[k] => ch'[k].prepared)

\* It goes on with its client, or it is done with the event and has been told
\* again of what is left to do.
GoesOn(w, k) ==
  \/ wpc'[w] \in AtClient /\ cur'[w].item = k /\ cur'[w].mask \subseteq cur[w].mask
  \/ /\ wpc'[w] = "next" /\ cur'[w] = NoEvent
     /\ Answering(k)' => "out" \in interest'[k]
     /\ Readable(k)' \/ (Answering(k)' /\ (Room(k) > 0)') => k \in ready'[w]

LEMMA WorkStep ==
    ASSUME IInv, NEW w \in Workers, NEW k, Works(w, k), GoesOn(w, k),
           Types', StageInv(w)', AnswerInv(k)'
    PROVE  IInv'
<1>1. /\ k \in Clients /\ k # Listen /\ ch[k].st = "open" /\ ch[k].owner = w /\ k \notin backlog
      /\ client[k] # "none"
      /\ \A e \in events[w] : e.item # k
      /\ \A v \in Workers : v # w /\ wpc[v] # "dead" =>
           cur[v].item # k /\ k \notin ready[v] /\ \A e \in events[v] : e.item # k
      /\ Held(w, k) /\ Alive(w)
  BY MyClient DEF Works
<1>2. UNCHANGED <<client, sent, got, backlog, events, last>> /\ faults \subseteq faults'
      /\ k = cur[w].item
  BY DEF Works
<1>3. \A v \in Workers : v # w => wpc'[v] = wpc[v] /\ cur'[v] = cur[v] /\ ready'[v] = ready[v]
  BY DEF Works
<1>4. \A d \in Clients : d # k =>
        ch'[d] = ch[d] /\ stream'[d] = stream[d] /\ interest'[d] = interest[d]
  BY DEF Works
<1>5. /\ ch'[k].st = "open" /\ ch'[k].owner = w
      /\ ch[k].prepared => ch'[k].prepared
      /\ "in" \in interest'[k] /\ ("out" \in interest'[k] => ch'[k].prepared)
  BY <1>1 DEF Works
<1>6. /\ wpc'[w] # "dead" /\ wpc'[w] # "wait" /\ wpc'[w] # "accept"
      /\ \/ wpc'[w] \in AtClient /\ cur'[w].item = k
         \/ wpc'[w] = "next" /\ cur'[w] = NoEvent
  BY DEF GoesOn, AtClient
<1>7. \A v \in Workers : EventInv(v)'
  <2>1. EventInv(w)'
    BY <1>1, <1>2, <1>6, WebServerAssumption DEF IInv, EventInv, NoEvent, AtClient
  <2>2. \A v \in Workers : v # w => EventInv(v)'
    BY <1>2, <1>3 DEF IInv, EventInv
  <2>3. QED
    BY <2>1, <2>2
<1>8. \A v \in Workers : LastInv(v)'
  <2>1. ASSUME NEW v \in Workers, Alive(v), last[v] # None
        PROVE  ch'[last[v]].owner = v /\ ch'[last[v]].st \in {"open", "closed"}
    <3>1. last[v] \in Clients
      BY <2>1 DEF IInv, Types, TypeOK
    <3>2. ch[last[v]].owner = v /\ ch[last[v]].st \in {"open", "closed"}
      BY <2>1 DEF IInv, LastInv
    <3>3. QED
      BY <1>1, <1>4, <1>5, <3>1, <3>2
  <2>2. \A v \in Workers : Alive(v)' => Alive(v)
    BY <1>1, <1>3 DEF Alive
  <2>3. QED
    BY <1>2, <2>1, <2>2 DEF LastInv
<1>9. \A v \in Workers : StageInv(v)'
  <2>1. SUFFICES ASSUME NEW v \in Workers, v # w PROVE StageInv(v)'
    OBVIOUS
  <2>2. CASE wpc[v] \in AtClient
    <3>1. cur[v].item \in Clients /\ cur[v].item # k
      BY <1>1, <2>1, <2>2 DEF IInv, EventInv, AtClient
    <3>2. QED
      BY <1>3, <1>4, <2>1, <2>2, <3>1 DEF IInv, StageInv, Answering, AnswerUnits
  <2>3. CASE wpc[v] \notin AtClient
    BY <1>3, <2>1, <2>3 DEF StageInv, AtClient
  <2>4. QED
    BY <2>2, <2>3
<1>10. \A d \in Clients : HandleInv(d)'
  <2>1. HandleInv(k)'
    BY <1>1, <1>2, <1>5 DEF HandleInv
  <2>2. \A d \in Clients : d # k => HandleInv(d)'
    BY <1>2, <1>4 DEF IInv, HandleInv
  <2>3. QED
    BY <2>1, <2>2
<1>11. \A d \in Clients : AnswerInv(d)'
  <2>1. ASSUME NEW d \in Clients, d # k PROVE AnswerInv(d)'
    BY <1>4, <2>1 DEF IInv, AnswerInv
  <2>2. QED
    BY <2>1
<1>12. \A d \in Clients : ch[d].prepared => ch'[d].prepared
  BY <1>4, <1>5
<1>13. OutInv'
  <2>1. \A d \in Clients : "out" \in interest'[d] => ch'[d].prepared
    BY <1>4, <1>5 DEF IInv, OutInv
  <2>2. \A v \in Workers : \A e \in events'[v] : e.item \in Clients /\ "out" \in e.mask =>
          ch'[e.item].prepared
    BY <1>2, <1>12 DEF IInv, OutInv
  <2>3. cur'[w].item \in Clients /\ "out" \in cur'[w].mask => ch'[cur'[w].item].prepared
    BY <1>2, <1>12, WebServerAssumption DEF IInv, OutInv, GoesOn, NoEvent
  <2>4. \A v \in Workers : v # w /\ cur'[v].item \in Clients /\ "out" \in cur'[v].mask =>
          ch'[cur'[v].item].prepared
    BY <1>3, <1>12 DEF IInv, OutInv
  <2>5. QED
    BY <2>1, <2>2, <2>3, <2>4 DEF OutInv
<1>14. \A d \in Clients : d # k => Readable(d)' = Readable(d) /\ Room(d)' = Room(d)
                                   /\ Answering(d)' = Answering(d) /\ ch'[d] = ch[d]
  BY <1>2, <1>4 DEF Readable, Room, Answering, AnswerUnits
<1>15. InterestInv'
  <2>1. SUFFICES ASSUME NEW d \in Clients, NEW v \in Workers, ch'[d].st = "open",
                        ch'[d].owner = v, Alive(v)'
                 PROVE  /\ "in" \in interest'[d]
                        /\ Answering(d)' /\ ~Held(v, d)' => "out" \in interest'[d]
    BY DEF InterestInv
  <2>2. CASE d = k
    BY <1>5, <2>1, <2>2 DEF GoesOn, Held, AtClient
  <2>3. CASE d # k
    <3>1. Held(v, d)' <=> Held(v, d)
      BY <1>2, <1>3, <1>6, <2>3, WebServerAssumption DEF Held, NoEvent
    <3>2. Alive(v)
      BY <1>1, <1>3, <2>1 DEF Alive
    <3>3. QED
      BY <1>4, <1>14, <2>1, <2>3, <3>1, <3>2 DEF IInv, InterestInv
  <2>4. QED
    BY <2>2, <2>3
<1>16. NoDanglingEvent'
  <2>1. SUFFICES ASSUME NEW v \in Workers, wpc'[v] # "dead", NEW d \in Clients,
                        d \in ready'[v] \/ (\E e \in events'[v] : e.item = d) \/ cur'[v].item = d
                 PROVE  ch'[d].st = "open" /\ ch'[d].owner = v
    BY DEF NoDanglingEvent
  <2>2. CASE d = k /\ v = w
    BY <1>5, <2>2
  <2>3. CASE ~(d = k /\ v = w)
    <3>1. wpc[v] # "dead"
      BY <1>1, <1>3, <2>1 DEF Alive
    <3>2. d \in ready[v] \/ (\E e \in events[v] : e.item = d) \/ cur[v].item = d
      BY <1>2, <1>3, <1>6, <2>1, <2>3, WebServerAssumption DEF Works, NoEvent
    <3>3. ch[d].st = "open" /\ ch[d].owner = v
      BY <3>1, <3>2 DEF IInv, NoDanglingEvent
    <3>4. QED
      BY <1>1, <1>4, <1>5, <3>3
  <2>4. QED
    BY <2>2, <2>3
<1>17. ClosedWhenDone'
  BY <1>2, <1>4, <1>5 DEF IInv, ClosedWhenDone, AnswerUnits
<1>18. NoLostEvent'
  <2>1. \A v \in Workers : \A i, m : i # k /\ Announced(v, i, m) => Announced(v, i, m)'
    BY <1>2, <1>3, <1>6 DEF Announced, Held, Works
  <2>2. /\ Readable(k)' => Announced(w, k, "in")'
        /\ Answering(k)' /\ (Room(k) > 0)' => Announced(w, k, "out")'
    BY DEF GoesOn, Announced, Held, AtClient
  <2>3. \A v \in Workers : wpc'[v] = "dead" <=> wpc[v] = "dead"
    BY <1>1, <1>3, <1>6 DEF Alive
  <2>4. QED
    BY <1>1, <1>2, <1>5, <1>14, <2>1, <2>2, <2>3 DEF IInv, NoLostEvent
<1>19. QED
  BY <1>7, <1>8, <1>9, <1>10, <1>11, <1>13, <1>15, <1>16, <1>17, <1>18 DEF IInv

-----------------------------------------------------------------------------
\* A field of a handle is assigned.
LEMMA SetRead ==
    ASSUME NEW h \in HandleTypes, NEW n \in Nat
    PROVE  [h EXCEPT !.read = n] \in HandleTypes
BY DEF HandleTypes

LEMMA SetStatus ==
    ASSUME NEW h \in HandleTypes, NEW n \in {0, 200, 403, 404, 500}
    PROVE  [h EXCEPT !.ec = n] \in HandleTypes
BY DEF HandleTypes

LEMMA SetSize ==
    ASSUME NEW h \in HandleTypes, NEW n \in Nat
    PROVE  [h EXCEPT !.content_size = n] \in HandleTypes
BY DEF HandleTypes

LEMMA SetPrepared ==
    ASSUME NEW h \in HandleTypes, NEW b \in BOOLEAN
    PROVE  [h EXCEPT !.prepared = b] \in HandleTypes
BY DEF HandleTypes

LEMMA SetDirty ==
    ASSUME NEW h \in HandleTypes, NEW b \in BOOLEAN
    PROVE  [h EXCEPT !.dirty = b] \in HandleTypes
BY DEF HandleTypes

LEMMA SetHeaderSent ==
    ASSUME NEW h \in HandleTypes, NEW n \in 0..HeaderSize
    PROVE  [h EXCEPT !.header_sent = n] \in HandleTypes
BY DEF HandleTypes

LEMMA SetContentSent ==
    ASSUME NEW h \in HandleTypes, NEW n \in Nat
    PROVE  [h EXCEPT !.content_sent = n] \in HandleTypes
BY DEF HandleTypes

\* Only client k's handle is another one.
LEMMA OneHandle ==
    ASSUME NEW f \in [Clients -> HandleTypes], NEW k \in Clients, NEW g \in HandleTypes
    PROVE  /\ [f EXCEPT ![k] = g] \in [Clients -> HandleTypes]
           /\ [f EXCEPT ![k] = g][k] = g
           /\ \A d \in Clients : d # k => [f EXCEPT ![k] = g][d] = f[d]
OBVIOUS

\* What a worker knows about its client before a step.
LEMMA MyHandle ==
    ASSUME IInv, NEW w \in Workers, wpc[w] \in AtClient, NEW k, k = cur[w].item
    PROVE  /\ k \in Clients /\ ch \in [Clients -> HandleTypes] /\ ch[k] \in HandleTypes
           /\ "in" \in interest[k] /\ ("out" \in interest[k] => ch[k].prepared)
           /\ cur[w].mask \subseteq Masks /\ ("out" \in cur[w].mask => ch[k].prepared)
           /\ sent[k] \in Nat /\ got[k] \in Nat /\ Len(stream[k]) \in Nat
           /\ stream[k] \in Seq(Units) /\ Room(k) \in Nat
           /\ size \in Nat
<1>1. k \in Clients /\ ch[k].st = "open" /\ ch[k].owner = w /\ Alive(w)
  BY MyClient
<1>2. "in" \in interest[k] /\ ("out" \in interest[k] => ch[k].prepared)
      /\ ("out" \in cur[w].mask => ch[k].prepared)
  BY <1>1 DEF IInv, InterestInv, OutInv
<1>3. cur[w].mask \subseteq Masks /\ sent[k] \in Nat /\ got[k] \in Nat /\ stream[k] \in Seq(Units)
      /\ ch \in [Clients -> HandleTypes] /\ ch[k] \in HandleTypes
      /\ Len(stream[k]) - got[k] \in 0..Cap
  BY <1>1 DEF IInv, Types, TypeOK
<1>4. Len(stream[k]) \in Nat
  BY <1>3, LenProperties
<1>5. Room(k) \in Nat /\ size \in Nat
  BY <1>3, <1>4, WebServerAssumption DEF Room, IInv, Types, TypeOK
<1>6. QED
  BY <1>1, <1>2, <1>3, <1>4, <1>5

\* Where the worker is keeps its type, whichever way it goes on.
LEMMA GotoTypes ==
    ASSUME IInv, NEW w \in Workers, NEW l \in {"next", "send", "header", "content", "again", "sent"},
           Goto(w, l)
    PROVE  wpc' \in [Workers -> {"wait", "next", "accept", "read", "send", "header",
                                 "content", "again", "sent", "dead"}]
BY DEF IInv, Types, TypeOK, Goto

LEMMA ContinueTypes ==
    ASSUME IInv, NEW w \in Workers, Continue(w)
    PROVE  /\ wpc' \in [Workers -> {"wait", "next", "accept", "read", "send", "header",
                                    "content", "again", "sent", "dead"}]
           /\ cur' \in [Workers -> [item : Items \cup {None}, mask : SUBSET Masks]]
BY DEF IInv, Types, TypeOK, Continue, Goto, NoEvent

LEMMA ReadEndsStep ==
    ASSUME IInv, NEW w \in Workers, ReadEnds(w)
    PROVE  IInv'
<1>1. /\ wpc[w] \in AtClient /\ Close(w, cur[w].item)
      /\ UNCHANGED <<clientVars, backlog, stream, events, last, size, crashed>>
      /\ (client[cur[w].item] # "open" /\ UNCHANGED faults) \/ Fails("input")
  BY DEF ReadEnds, AtClient
<1>2. cur[w].item \in Clients /\ client[cur[w].item] # "none"
  BY <1>1, MyClient
<1>3. client[cur[w].item] \in {"none", "open", "half", "closed"} /\ faults \subseteq Faults
  BY <1>2 DEF IInv, Types, TypeOK
<1>4. /\ faults \subseteq faults' /\ faults' \subseteq Faults
      /\ client[cur[w].item] \in {"half", "closed"} \/ "input" \in faults'
  BY <1>1, <1>2, <1>3 DEF Fails
<1>5. QED
  BY <1>1, <1>4, CloseStep

LEMMA AlreadyDoneStep ==
    ASSUME IInv, NEW w \in Workers, AlreadyDone(w)
    PROVE  IInv'
<1>1. PICK k : k = cur[w].item
  OBVIOUS
<1>2. /\ wpc[w] = "content" /\ wpc[w] \in AtClient /\ Close(w, k)
      /\ ch[k].content_sent = ch[k].content_size
      /\ UNCHANGED <<clientVars, backlog, stream, events, last, size, faults, crashed>>
  BY <1>1 DEF AlreadyDone, AtClient
<1>3. k \in Clients
  BY <1>1, <1>2, MyHandle
<1>4. ch[k].ec # 0 /\ Len(stream[k]) = AnswerUnits(k)
  BY <1>1, <1>2, <1>3 DEF IInv, StageInv, AnswerInv, AnswerUnits
<1>5. faults' \subseteq Faults
  BY <1>2 DEF IInv, Types, TypeOK
<1>6. QED
  BY <1>1, <1>2, <1>4, <1>5, CloseStep

LEMMA ReadStep ==
    ASSUME IInv, NEW w \in Workers, Read(w)
    PROVE  IInv'
<1>1. PICK k : k = cur[w].item
  OBVIOUS
<1>2. /\ wpc[w] = "read" /\ wpc[w] \in AtClient /\ client[k] = "open"
      /\ UNCHANGED <<client, sent, got, backlog, interest, ready, stream, events, last, size,
                     faults, crashed>>
      /\ \/ ch' = [ch EXCEPT ![k].read = sent[k]]
         \/ /\ ch[k].ec = 0
            /\ \E request \in Requests :
                 ch' = [ch EXCEPT ![k].read = sent[k],
                                  ![k].ec = StatusOf(request),
                                  ![k].content_size = IF request = "file" THEN size ELSE @]
      /\ IF ch'[k].ec # 0 THEN Goto(w, "send") /\ UNCHANGED cur ELSE Continue(w)
  BY <1>1 DEF Read, AtClient, ReadAll, clientVars
<1>3. /\ k \in Clients /\ ch \in [Clients -> HandleTypes] /\ ch[k] \in HandleTypes
      /\ "in" \in interest[k] /\ ("out" \in interest[k] => ch[k].prepared)
      /\ sent[k] \in Nat /\ size \in Nat
  BY <1>1, <1>2, MyHandle
<1>4. /\ ch' \in [Clients -> HandleTypes]
      /\ \A d \in Clients : d # k => ch'[d] = ch[d]
      /\ ch'[k].st = ch[k].st /\ ch'[k].owner = ch[k].owner
      /\ ch'[k].prepared = ch[k].prepared
      /\ ch'[k].header_sent = ch[k].header_sent /\ ch'[k].content_sent = ch[k].content_sent
      /\ ch'[k].read = sent[k]
      /\ ch[k].ec # 0 => ch'[k].ec = ch[k].ec /\ ch'[k].content_size = ch[k].content_size
  <2>1. PICK f : f = [ch EXCEPT ![k].read = sent[k]]
    OBVIOUS
  <2>2. f \in [Clients -> HandleTypes] /\ f[k] = [ch[k] EXCEPT !.read = sent[k]]
        /\ \A d \in Clients : d # k => f[d] = ch[d]
    BY <1>3, <2>1, SetRead, OneHandle
  <2>3. f[k] \in HandleTypes /\ f[k].st = ch[k].st /\ f[k].owner = ch[k].owner
        /\ f[k].prepared = ch[k].prepared
        /\ f[k].header_sent = ch[k].header_sent /\ f[k].content_sent = ch[k].content_sent
        /\ f[k].read = sent[k] /\ f[k].ec = ch[k].ec /\ f[k].content_size = ch[k].content_size
    BY <1>3, <2>2 DEF HandleTypes
  <2>4. CASE ch' = [ch EXCEPT ![k].read = sent[k]]
    BY <2>1, <2>2, <2>3, <2>4
  <2>5. CASE ch[k].ec = 0 /\ \E request \in Requests :
                 ch' = [ch EXCEPT ![k].read = sent[k],
                                  ![k].ec = StatusOf(request),
                                  ![k].content_size = IF request = "file" THEN size ELSE @]
    <3>1. PICK request \in Requests :
            ch' = [ch EXCEPT ![k].read = sent[k],
                             ![k].ec = StatusOf(request),
                             ![k].content_size = IF request = "file" THEN size ELSE @]
      BY <2>5
    <3>2. PICK e \in {0, 200, 403, 404, 500} : e = StatusOf(request)
      BY WebServerAssumption DEF StatusOf, RequestKinds
    <3>3. PICK z \in Nat : z = IF request = "file" THEN size ELSE f[k].content_size
      BY <1>3, <2>3 DEF HandleTypes
    <3>4. PICK g : g = [f EXCEPT ![k].ec = e]
      OBVIOUS
    <3>5. g \in [Clients -> HandleTypes] /\ g[k] = [f[k] EXCEPT !.ec = e]
          /\ \A d \in Clients : d # k => g[d] = f[d]
      <4>1. [f[k] EXCEPT !.ec = e] \in HandleTypes
        <5>1. PICK h \in HandleTypes : h = f[k]
          BY <2>3
        <5>2. e \in {0, 200, 403, 404, 500}
          BY <3>2
        <5>3. [h EXCEPT !.ec = e] \in HandleTypes
          BY <5>2 DEF HandleTypes
        <5>4. QED
          BY <5>1, <5>3
      <4>2. g = [f EXCEPT ![k] = [f[k] EXCEPT !.ec = e]]
        BY <3>4
      <4>3. QED
        BY <1>3, <2>2, <4>1, <4>2, OneHandle
    <3>6. g[k] \in HandleTypes /\ g[k].st = f[k].st /\ g[k].owner = f[k].owner
          /\ g[k].prepared = f[k].prepared
          /\ g[k].header_sent = f[k].header_sent /\ g[k].content_sent = f[k].content_sent
          /\ g[k].read = f[k].read /\ g[k].ec = e /\ g[k].content_size = f[k].content_size
      BY <2>3, <3>5 DEF HandleTypes
    <3>7. ch' = [g EXCEPT ![k].content_size = z]
      BY <2>1, <3>1, <3>2, <3>3, <3>4, <3>6
    <3>8. ch' \in [Clients -> HandleTypes] /\ ch'[k] = [g[k] EXCEPT !.content_size = z]
          /\ \A d \in Clients : d # k => ch'[d] = g[d]
      <4>1. [g[k] EXCEPT !.content_size = z] \in HandleTypes
        BY <3>3, <3>6, SetSize
      <4>2. ch' = [g EXCEPT ![k] = [g[k] EXCEPT !.content_size = z]]
        BY <3>7
      <4>3. QED
        BY <1>3, <3>5, <4>1, <4>2, OneHandle
    <3>9. ch'[k].st = g[k].st /\ ch'[k].owner = g[k].owner
          /\ ch'[k].prepared = g[k].prepared
          /\ ch'[k].header_sent = g[k].header_sent /\ ch'[k].content_sent = g[k].content_sent
          /\ ch'[k].read = g[k].read
      BY <3>6, <3>8 DEF HandleTypes
    <3>10. QED
      BY <2>2, <2>3, <2>5, <3>5, <3>6, <3>8, <3>9
  <2>6. QED
    BY <1>2, <2>4, <2>5
<1>5. CASE ch'[k].ec # 0
  <2>1. Goto(w, "send") /\ UNCHANGED cur
    BY <1>2, <1>5
  <2>2. wpc'[w] = "send" /\ \A v \in Workers : v # w => wpc'[v] = wpc[v]
    BY <2>1, Moves
  <2>3. Types'
    BY <1>2, <1>4, <2>1, GotoTypes DEF IInv, Types, TypeOK
  <2>4. Works(w, k)
    BY <1>1, <1>2, <1>3, <1>4, <2>1, <2>2 DEF Works
  <2>5. GoesOn(w, k)
    BY <1>1, <2>1, <2>2 DEF GoesOn, AtClient
  <2>6. StageInv(w)'
    BY <1>1, <1>5, <2>1, <2>2 DEF StageInv
  <2>7. AnswerInv(k)'
    BY <1>2, <1>3, <1>4 DEF IInv, AnswerInv
  <2>8. QED
    BY <2>3, <2>4, <2>5, <2>6, <2>7, WorkStep
<1>6. CASE ch'[k].ec = 0
  <2>1. Continue(w)
    BY <1>2, <1>6
  <2>2. wpc'[w] = "next" /\ cur'[w] = NoEvent
        /\ \A v \in Workers : v # w => wpc'[v] = wpc[v] /\ cur'[v] = cur[v]
    BY <2>1, Continues
  <2>3. Types'
    BY <1>2, <1>4, <2>1, ContinueTypes DEF IInv, Types, TypeOK
  <2>4. Works(w, k)
    BY <1>1, <1>2, <1>3, <1>4, <2>2 DEF Works
  <2>5. AnswerInv(k)'
    BY <1>2, <1>3, <1>4 DEF IInv, AnswerInv
  <2>6. ~Answering(k)' /\ ~Readable(k)'
    <3>1. ~ch'[k].prepared
      BY <1>6, <2>5 DEF AnswerInv
    <3>2. ~(sent'[k] > ch'[k].read)
      <4>1. sent'[k] = sent[k] /\ ch'[k].read = sent[k] /\ sent[k] \in Nat
        BY <1>2, <1>3, <1>4
      <4>2. QED
        BY <4>1
    <3>3. QED
      BY <1>2, <3>1, <3>2 DEF Answering, Readable
  <2>7. GoesOn(w, k)
    BY <2>2, <2>6 DEF GoesOn
  <2>8. StageInv(w)'
    BY <2>2 DEF StageInv
  <2>9. QED
    BY <2>3, <2>4, <2>5, <2>7, <2>8, WorkStep
<1>7. QED
  BY <1>5, <1>6

\* The header is prepared or fails to be; or the answer is taken up again.
LEMMA TrySendStep ==
    ASSUME IInv, NEW w \in Workers, TrySend(w)
    PROVE  IInv'
<1>1. PICK k : k = cur[w].item
  OBVIOUS
<1>2. /\ wpc[w] = "send" /\ wpc[w] \in AtClient
      /\ UNCHANGED <<client, sent, got, backlog, interest, ready, stream, events, cur, last, size,
                     crashed>>
  BY DEF TrySend, AtClient, clientVars
<1>3. /\ k \in Clients /\ ch \in [Clients -> HandleTypes] /\ ch[k] \in HandleTypes
      /\ "in" \in interest[k] /\ ("out" \in interest[k] => ch[k].prepared)
  BY <1>1, <1>2, MyHandle
<1>4. ch[k].ec # 0 /\ AnswerInv(k)
  BY <1>1, <1>2, <1>3 DEF IInv, StageInv
<1>5. PICK z \in Nat : z = IF ch[k].ec = 200 THEN ch[k].content_size ELSE ErrorSize
  BY <1>3, WebServerAssumption DEF HandleTypes
<1>6. CASE /\ ~ch[k].prepared /\ Goto(w, "header") /\ UNCHANGED faults
           /\ ch' = [ch EXCEPT ![k].prepared = TRUE,
                               ![k].content_size = IF ch[k].ec = 200 THEN @ ELSE ErrorSize]
  <2>1. PICK f : f = [ch EXCEPT ![k].prepared = TRUE]
    OBVIOUS
  <2>2. f \in [Clients -> HandleTypes] /\ f[k] = [ch[k] EXCEPT !.prepared = TRUE]
        /\ \A d \in Clients : d # k => f[d] = ch[d]
    <3>1. [ch[k] EXCEPT !.prepared = TRUE] \in HandleTypes
      BY <1>3, SetPrepared
    <3>2. f = [ch EXCEPT ![k] = [ch[k] EXCEPT !.prepared = TRUE]]
      BY <2>1
    <3>3. QED
      BY <1>3, <3>1, <3>2, OneHandle
  <2>3. f[k] \in HandleTypes /\ f[k].st = ch[k].st /\ f[k].owner = ch[k].owner
        /\ f[k].prepared
        /\ f[k].header_sent = ch[k].header_sent /\ f[k].content_sent = ch[k].content_sent
        /\ f[k].ec = ch[k].ec /\ f[k].content_size = ch[k].content_size
    <3>1. PICK h \in HandleTypes : h = ch[k]
      BY <1>3
    <3>2. PICK b \in BOOLEAN : b = TRUE
      OBVIOUS
    <3>3. PICK g : g = [h EXCEPT !.prepared = b]
      OBVIOUS
    <3>4. g \in HandleTypes
      <4>1. b \in BOOLEAN
        BY <3>2
      <4>2. [h EXCEPT !.prepared = b] \in HandleTypes
        BY <4>1 DEF HandleTypes
      <4>3. QED
        BY <3>3, <4>2
    <3>5. g.st = h.st /\ g.owner = h.owner /\ g.header_sent = h.header_sent
          /\ g.content_sent = h.content_sent /\ g.ec = h.ec /\ g.content_size = h.content_size
      BY <3>3 DEF HandleTypes
    <3>6. g.prepared
      BY <3>2, <3>3 DEF HandleTypes
    <3>7. f[k] = g
      BY <2>2, <3>1, <3>2, <3>3
    <3>8. QED
      BY <3>1, <3>4, <3>5, <3>6, <3>7
  <2>4. ch' = [f EXCEPT ![k].content_size = z]
    BY <1>5, <1>6, <2>1, <2>3
  <2>5. ch' \in [Clients -> HandleTypes] /\ ch'[k] = [f[k] EXCEPT !.content_size = z]
        /\ \A d \in Clients : d # k => ch'[d] = f[d]
    <3>1. [f[k] EXCEPT !.content_size = z] \in HandleTypes
      BY <1>5, <2>3, SetSize
    <3>2. ch' = [f EXCEPT ![k] = [f[k] EXCEPT !.content_size = z]]
      BY <2>4
    <3>3. QED
      BY <1>3, <2>2, <3>1, <3>2, OneHandle
  <2>6. ch'[k].st = ch[k].st /\ ch'[k].owner = ch[k].owner /\ ch'[k].prepared
        /\ ch'[k].header_sent = ch[k].header_sent /\ ch'[k].content_sent = ch[k].content_sent
        /\ ch'[k].ec = ch[k].ec /\ ch'[k].content_size = z
    BY <2>3, <2>5 DEF HandleTypes
  <2>7. wpc'[w] = "header" /\ \A v \in Workers : v # w => wpc'[v] = wpc[v]
    BY <1>6, Moves
  <2>8. Types'
    BY <1>2, <1>6, <2>5, GotoTypes DEF IInv, Types, TypeOK
  <2>9. Works(w, k)
    BY <1>1, <1>2, <1>3, <1>6, <2>2, <2>5, <2>6, <2>7 DEF Works
  <2>10. GoesOn(w, k)
    BY <1>1, <1>2, <2>7 DEF GoesOn, AtClient
  <2>11. StageInv(w)'
    BY <1>1, <1>2, <1>4, <1>6, <2>6, <2>7, WebServerAssumption DEF StageInv, AnswerInv
  <2>12. AnswerInv(k)'
    BY <1>2, <1>4, <1>5, <1>6, <2>6 DEF AnswerInv
  <2>13. QED
    BY <2>8, <2>9, <2>10, <2>11, <2>12, WorkStep
<1>7. CASE /\ ~ch[k].prepared /\ Fails("prepare") /\ Goto(w, "sent")
           /\ ch' = [ch EXCEPT ![k].dirty = TRUE,
                               ![k].content_size = IF ch[k].ec = 200 THEN @ ELSE ErrorSize]
  <2>1. PICK f : f = [ch EXCEPT ![k].dirty = TRUE]
    OBVIOUS
  <2>2. f \in [Clients -> HandleTypes] /\ f[k] = [ch[k] EXCEPT !.dirty = TRUE]
        /\ \A d \in Clients : d # k => f[d] = ch[d]
    <3>1. [ch[k] EXCEPT !.dirty = TRUE] \in HandleTypes
      BY <1>3, SetDirty
    <3>2. f = [ch EXCEPT ![k] = [ch[k] EXCEPT !.dirty = TRUE]]
      BY <2>1
    <3>3. QED
      BY <1>3, <3>1, <3>2, OneHandle
  <2>3. f[k] \in HandleTypes /\ f[k].st = ch[k].st /\ f[k].owner = ch[k].owner
        /\ f[k].prepared = ch[k].prepared
        /\ f[k].header_sent = ch[k].header_sent /\ f[k].content_sent = ch[k].content_sent
        /\ f[k].ec = ch[k].ec /\ f[k].content_size = ch[k].content_size
    <3>1. PICK h \in HandleTypes : h = ch[k]
      BY <1>3
    <3>2. PICK b \in BOOLEAN : b = TRUE
      OBVIOUS
    <3>3. PICK g : g = [h EXCEPT !.dirty = b]
      OBVIOUS
    <3>4. g \in HandleTypes
      <4>1. b \in BOOLEAN
        BY <3>2
      <4>2. [h EXCEPT !.dirty = b] \in HandleTypes
        BY <4>1 DEF HandleTypes
      <4>3. QED
        BY <3>3, <4>2
    <3>5. g.st = h.st /\ g.owner = h.owner /\ g.header_sent = h.header_sent
          /\ g.content_sent = h.content_sent /\ g.ec = h.ec /\ g.content_size = h.content_size
      BY <3>3 DEF HandleTypes
    <3>6. g.prepared = h.prepared
      BY <3>2, <3>3 DEF HandleTypes
    <3>7. f[k] = g
      BY <2>2, <3>1, <3>2, <3>3
    <3>8. QED
      BY <3>1, <3>4, <3>5, <3>6, <3>7
  <2>4. ch' = [f EXCEPT ![k].content_size = z]
    BY <1>5, <1>7, <2>1, <2>3
  <2>5. ch' \in [Clients -> HandleTypes] /\ ch'[k] = [f[k] EXCEPT !.content_size = z]
        /\ \A d \in Clients : d # k => ch'[d] = f[d]
    <3>1. [f[k] EXCEPT !.content_size = z] \in HandleTypes
      BY <1>5, <2>3, SetSize
    <3>2. ch' = [f EXCEPT ![k] = [f[k] EXCEPT !.content_size = z]]
      BY <2>4
    <3>3. QED
      BY <1>3, <2>2, <3>1, <3>2, OneHandle
  <2>6. ch'[k].st = ch[k].st /\ ch'[k].owner = ch[k].owner /\ ~ch'[k].prepared
        /\ ch'[k].header_sent = ch[k].header_sent /\ ch'[k].content_sent = ch[k].content_sent
        /\ ch'[k].ec = ch[k].ec
    BY <1>7, <2>3, <2>5 DEF HandleTypes
  <2>7. wpc'[w] = "sent" /\ \A v \in Workers : v # w => wpc'[v] = wpc[v]
    BY <1>7, Moves
  <2>8. faults \subseteq faults' /\ faults' \subseteq Faults
    BY <1>7 DEF Fails, IInv, Types, TypeOK
  <2>9. Types'
    BY <1>2, <1>7, <2>5, <2>8, GotoTypes DEF IInv, Types, TypeOK
  <2>10. Works(w, k)
    BY <1>1, <1>2, <1>3, <1>7, <2>2, <2>5, <2>6, <2>7, <2>8 DEF Works
  <2>11. GoesOn(w, k)
    BY <1>1, <1>2, <2>7 DEF GoesOn, AtClient
  <2>12. StageInv(w)'
    BY <1>1, <1>2, <2>6, <2>7 DEF StageInv, Answering
  <2>13. AnswerInv(k)'
    BY <1>2, <1>4, <1>7, <2>6 DEF AnswerInv
  <2>14. QED
    BY <2>9, <2>10, <2>11, <2>12, <2>13, WorkStep
<1>8. CASE /\ ch[k].prepared /\ UNCHANGED <<ch, faults>>
           /\ Goto(w, IF ch[k].header_sent < HeaderSize THEN "header" ELSE "content")
  <2>1. PICK l \in {"header", "content"} :
          l = IF ch[k].header_sent < HeaderSize THEN "header" ELSE "content"
    OBVIOUS
  <2>2. Goto(w, l)
    BY <1>8, <2>1
  <2>3. wpc'[w] = l /\ \A v \in Workers : v # w => wpc'[v] = wpc[v]
    BY <2>2, Moves
  <2>4. Types'
    BY <1>2, <1>8, <2>1, <2>2, GotoTypes DEF IInv, Types, TypeOK
  <2>5. Works(w, k)
    BY <1>1, <1>2, <1>3, <1>8, <2>3 DEF Works
  <2>6. GoesOn(w, k)
    BY <1>1, <1>2, <2>1, <2>3 DEF GoesOn, AtClient
  <2>7. ch[k].header_sent \in 0..HeaderSize
    BY <1>3 DEF HandleTypes
  <2>8. StageInv(w)'
    BY <1>1, <1>2, <1>8, <2>1, <2>3, <2>7, WebServerAssumption DEF StageInv
  <2>9. AnswerInv(k)'
    BY <1>2, <1>4, <1>8 DEF AnswerInv
  <2>10. QED
    BY <2>4, <2>5, <2>6, <2>8, <2>9, WorkStep
<1>9. QED
  BY <1>1, <1>6, <1>7, <1>8 DEF TrySend

\* A write that took something is followed by the next one.
LEMMA AgainStep ==
    ASSUME IInv, NEW w \in Workers, wpc[w] \in {"header", "content"}, Again(w),
           UNCHANGED <<clientVars, backlog, events, last, size, faults, crashed>>
    PROVE  IInv'
<1>1. PICK k : k = cur[w].item
  OBVIOUS
<1>2. /\ wpc[w] \in AtClient /\ Goto(w, "again")
      /\ UNCHANGED <<client, sent, got, backlog, interest, ready, ch, stream, events, cur, last,
                     size, faults, crashed>>
  BY DEF Again, AtClient, clientVars
<1>3. /\ k \in Clients
      /\ "in" \in interest[k] /\ ("out" \in interest[k] => ch[k].prepared)
  BY <1>1, <1>2, MyHandle
<1>4. wpc'[w] = "again" /\ \A v \in Workers : v # w => wpc'[v] = wpc[v]
  BY <1>2, Moves
<1>5. Types'
  BY <1>2, GotoTypes DEF IInv, Types, TypeOK
<1>6. Works(w, k)
  BY <1>1, <1>2, <1>3, <1>4 DEF Works
<1>7. GoesOn(w, k)
  BY <1>1, <1>2, <1>4 DEF GoesOn, AtClient
<1>8. StageInv(w)'
  BY <1>1, <1>2, <1>4 DEF IInv, StageInv
<1>9. AnswerInv(k)'
  BY <1>2, <1>3 DEF IInv, AnswerInv
<1>10. QED
  BY <1>5, <1>6, <1>7, <1>8, <1>9, WorkStep

LEMMA BrokenStep ==
    ASSUME IInv, NEW w \in Workers, wpc[w] \in {"header", "content"}, Broken(w),
           UNCHANGED <<clientVars, backlog, events, last, size, faults, crashed>>
    PROVE  IInv'
<1>1. wpc[w] \in AtClient /\ Close(w, cur[w].item) /\ client[cur[w].item] = "closed"
      /\ UNCHANGED stream
  BY DEF Broken, AtClient
<1>2. faults' \subseteq Faults
  BY DEF IInv, Types, TypeOK
<1>3. QED
  BY <1>1, <1>2, CloseStep

\* n more units of the answer are in the socket's buffers.
LEMMA WrittenFacts ==
    ASSUME IInv, NEW k \in Clients, NEW kind \in {"header", "content"}, NEW done \in Nat, NEW n \in Nat,
           stream' = Written(k, kind, done, n)
    PROVE  /\ stream' \in [Clients -> Seq(Units)]
           /\ \A d \in Clients : d # k => stream'[d] = stream[d]
           /\ Len(stream[k]) \in Nat
           /\ Len(stream'[k]) = Len(stream[k]) + n
           /\ \A i \in 1..Len(stream[k]) : stream'[k][i] = stream[k][i]
           /\ \A i \in (Len(stream[k]) + 1)..(Len(stream[k]) + n) :
                stream'[k][i] = <<kind, done + (i - Len(stream[k]))>>
<1>1. stream \in [Clients -> Seq(Units)] /\ stream[k] \in Seq(Units)
  BY DEF IInv, Types, TypeOK
<1>2. PICK f : f = [i \in 1..n |-> <<kind, done + i>>]
  OBVIOUS
<1>3. \A i \in 1..n : <<kind, done + i>> \in Units
  BY DEF Units
<1>4. f \in [1..n -> Units]
  BY <1>2, <1>3
<1>5. stream' = [stream EXCEPT ![k] = stream[k] \o f]
  BY <1>2 DEF Written, FromSent
<1>6. Len(stream[k]) \in Nat
  BY <1>1, LenProperties
<1>7. /\ stream[k] \o f \in Seq(Units)
      /\ Len(stream[k] \o f) = Len(stream[k]) + n
      /\ \A i \in 1..Len(stream[k]) : (stream[k] \o f)[i] = stream[k][i]
      /\ \A i \in (Len(stream[k]) + 1)..(Len(stream[k]) + n) :
           (stream[k] \o f)[i] = f[i - Len(stream[k])]
  BY <1>1, <1>4, Appended
<1>8. stream' \in [Clients -> Seq(Units)] /\ stream'[k] = stream[k] \o f
      /\ \A d \in Clients : d # k => stream'[d] = stream[d]
  BY <1>1, <1>5, <1>7
<1>9. \A i \in (Len(stream[k]) + 1)..(Len(stream[k]) + n) :
        f[i - Len(stream[k])] = <<kind, done + (i - Len(stream[k]))>>
  <2>1. \A i \in (Len(stream[k]) + 1)..(Len(stream[k]) + n) : i - Len(stream[k]) \in 1..n
    BY <1>6
  <2>2. \A j \in 1..n : f[j] = <<kind, done + j>>
    BY <1>2
  <2>3. QED
    BY <2>1, <2>2
<1>10. QED
  BY <1>6, <1>7, <1>8, <1>9

LEMMA WriteHeaderStep ==
    ASSUME IInv, NEW w \in Workers, WriteHeader(w)
    PROVE  IInv'
<1>1. PICK k : k = cur[w].item
  OBVIOUS
<1>2. PICK n : n = Smaller(Room(k), Left(HeaderSize, ch[k].header_sent))
  OBVIOUS
<1>3. /\ wpc[w] = "header" /\ wpc[w] \in AtClient
      /\ UNCHANGED <<clientVars, backlog, events, last, size, faults, crashed>>
  BY DEF WriteHeader, AtClient
<1>4. CASE /\ Room(k) > 0
           /\ stream' = Written(k, "header", ch[k].header_sent, n)
           /\ ch' = [ch EXCEPT ![k].header_sent = @ + n]
           /\ Goto(w, IF ch'[k].header_sent = HeaderSize THEN "content" ELSE "header")
           /\ UNCHANGED <<ready, interest, cur>>
  <2>1. /\ k \in Clients /\ ch \in [Clients -> HandleTypes] /\ ch[k] \in HandleTypes
        /\ "in" \in interest[k] /\ ("out" \in interest[k] => ch[k].prepared)
        /\ Room(k) \in Nat /\ got[k] \in Nat /\ Len(stream[k]) \in Nat
    BY <1>1, <1>3, MyHandle
  <2>2. PICK hs \in 0..HeaderSize : hs = ch[k].header_sent
    BY <2>1 DEF HandleTypes
  <2>3. AnswerInv(k) /\ ch[k].prepared /\ hs < HeaderSize
    BY <1>1, <1>3, <2>1, <2>2 DEF IInv, StageInv
  <2>4. /\ hs \in Nat /\ hs + n \in 0..HeaderSize /\ n \in Nat /\ n > 0 /\ n <= Room(k)
    BY <1>2, <1>4, <2>1, <2>2, <2>3, WebServerAssumption DEF Smaller, Left
  <2>5. ch[k].content_sent \in Nat /\ ch[k].content_sent = 0 /\ Len(stream[k]) = hs
    <3>1. ch[k].content_sent \in Nat
      BY <2>1 DEF HandleTypes
    <3>2. ch[k].content_sent = 0
      BY <2>2, <2>3, <3>1 DEF AnswerInv
    <3>3. QED
      BY <2>2, <2>3, <2>4, <3>2 DEF AnswerInv
  <2>6. /\ stream' \in [Clients -> Seq(Units)]
        /\ \A d \in Clients : d # k => stream'[d] = stream[d]
        /\ Len(stream'[k]) = Len(stream[k]) + n
        /\ \A i \in 1..Len(stream[k]) : stream'[k][i] = stream[k][i]
        /\ \A i \in (Len(stream[k]) + 1)..(Len(stream[k]) + n) :
             stream'[k][i] = <<"header", hs + (i - Len(stream[k]))>>
    BY <1>4, <2>1, <2>2, <2>4, WrittenFacts
  <2>7. PICK m \in 0..HeaderSize : m = hs + n
    BY <2>4
  <2>8. PICK h \in HandleTypes : h = ch[k]
    BY <2>1
  <2>9. [h EXCEPT !.header_sent = m] \in HandleTypes
    BY <2>7 DEF HandleTypes
  <2>10. ch' = [ch EXCEPT ![k] = [h EXCEPT !.header_sent = m]]
    BY <1>4, <2>2, <2>7, <2>8
  <2>11. /\ ch' \in [Clients -> HandleTypes] /\ ch'[k] = [h EXCEPT !.header_sent = m]
         /\ \A d \in Clients : d # k => ch'[d] = ch[d]
    BY <2>1, <2>9, <2>10, OneHandle
  <2>12. /\ ch'[k].st = ch[k].st /\ ch'[k].owner = ch[k].owner /\ ch'[k].ec = ch[k].ec
         /\ ch'[k].prepared = ch[k].prepared /\ ch'[k].content_size = ch[k].content_size
         /\ ch'[k].content_sent = ch[k].content_sent /\ ch'[k].header_sent = m
    BY <2>8, <2>11 DEF HandleTypes
  <2>13. PICK l \in {"content", "header"} : l = IF m = HeaderSize THEN "content" ELSE "header"
    OBVIOUS
  <2>14. Goto(w, l)
    BY <1>4, <2>12, <2>13
  <2>15. wpc'[w] = l /\ \A v \in Workers : v # w => wpc'[v] = wpc[v]
    BY <2>14, Moves
  <2>16. Types'
    <3>1. Len(stream[k]) - got[k] \in 0..Cap /\ n <= Cap - (Len(stream[k]) - got[k])
      BY <2>1, <2>4 DEF IInv, Types, TypeOK, Room
    <3>2. Len(stream'[k]) - got[k] \in 0..Cap
      <4>1. \A a, b \in Nat : a - b \in 0..Cap /\ n <= Cap - (a - b) => (a + n) - b \in 0..Cap
        BY <2>4, WebServerAssumption
      <4>2. (Len(stream[k]) + n) - got[k] \in 0..Cap
        BY <2>1, <3>1, <4>1
      <4>3. QED
        BY <2>6, <4>2
    <3>3. \A d \in Clients : Len(stream'[d]) - got[d] \in 0..Cap
      BY <2>6, <3>2 DEF IInv, Types, TypeOK
    <3>4. wpc' \in [Workers -> {"wait", "next", "accept", "read", "send", "header",
                                "content", "again", "sent", "dead"}]
      BY <2>13, <2>14, GotoTypes
    <3>5. QED
      BY <1>3, <1>4, <2>6, <2>11, <3>3, <3>4 DEF IInv, Types, TypeOK, clientVars
  <2>17. Works(w, k)
    BY <1>1, <1>3, <1>4, <2>1, <2>6, <2>11, <2>12, <2>15 DEF Works, clientVars
  <2>18. GoesOn(w, k)
    BY <1>1, <1>4, <2>13, <2>15 DEF GoesOn, AtClient
  <2>19. StageInv(w)'
    <3>1. m < HeaderSize \/ m = HeaderSize
      BY <2>7, WebServerAssumption
    <3>2. QED
      BY <1>1, <1>4, <2>3, <2>12, <2>13, <2>15, <3>1 DEF StageInv
  <2>20. AnswerInv(k)'
    <3>1. Len(stream'[k]) = m + ch'[k].content_sent
      BY <2>4, <2>5, <2>6, <2>7, <2>12
    <3>2. \A i \in 1..Len(stream'[k]) : stream'[k][i] = Unit(i)
      <4>1. SUFFICES ASSUME NEW i \in 1..Len(stream'[k]) PROVE stream'[k][i] = Unit(i)
        OBVIOUS
      <4>2. CASE i <= Len(stream[k])
        <5>1. i \in 1..Len(stream[k])
          BY <2>1, <4>1, <4>2
        <5>2. QED
          BY <2>3, <2>6, <5>1 DEF AnswerInv
      <4>3. CASE i > Len(stream[k])
        <5>1. i \in (Len(stream[k]) + 1)..(Len(stream[k]) + n) /\ i <= HeaderSize
              /\ hs + (i - Len(stream[k])) = i
          BY <2>1, <2>4, <2>5, <2>6, <4>1, <4>3, WebServerAssumption
        <5>2. QED
          BY <2>6, <5>1 DEF Unit
      <4>4. QED
        BY <2>1, <2>4, <2>6, <4>1, <4>2, <4>3
    <3>3. QED
      BY <2>3, <2>5, <2>12, <3>1, <3>2 DEF AnswerInv
  <2>21. QED
    BY <2>16, <2>17, <2>18, <2>19, <2>20, WorkStep
<1>5. CASE Again(w)
  BY <1>3, <1>5, AgainStep
<1>6. CASE Broken(w)
  BY <1>3, <1>6, BrokenStep
<1>7. QED
  BY <1>1, <1>2, <1>4, <1>5, <1>6 DEF WriteHeader

LEMMA WriteContentStep ==
    ASSUME IInv, NEW w \in Workers, WriteContent(w)
    PROVE  IInv'
<1>1. PICK k : k = cur[w].item
  OBVIOUS
<1>2. PICK n : n = Smaller(Room(k), Left(Available(k), ch[k].content_sent))
  OBVIOUS
<1>3. /\ wpc[w] = "content" /\ wpc[w] \in AtClient
      /\ UNCHANGED <<clientVars, backlog, events, last, size, faults, crashed>>
      /\ ch[k].content_sent < Available(k)
  BY <1>1 DEF WriteContent, AtClient
<1>4. CASE /\ Room(k) > 0
           /\ stream' = Written(k, "content", ch[k].content_sent, n)
           /\ ch' = [ch EXCEPT ![k].content_sent = @ + n]
           /\ Goto(w, IF ch'[k].content_sent = ch[k].content_size THEN "sent" ELSE "content")
           /\ UNCHANGED <<ready, interest, cur>>
  <2>1. /\ k \in Clients /\ ch \in [Clients -> HandleTypes] /\ ch[k] \in HandleTypes
        /\ "in" \in interest[k] /\ ("out" \in interest[k] => ch[k].prepared)
        /\ Room(k) \in Nat /\ got[k] \in Nat /\ Len(stream[k]) \in Nat /\ size \in Nat
    BY <1>1, <1>3, MyHandle
  <2>2. PICK cs \in Nat : cs = ch[k].content_sent
    BY <2>1 DEF HandleTypes
  <2>3. PICK z \in Nat : z = ch[k].content_size
    BY <2>1 DEF HandleTypes
  <2>4. AnswerInv(k) /\ ch[k].prepared /\ ch[k].header_sent = HeaderSize
    BY <1>1, <1>3, <2>1 DEF IInv, StageInv
  <2>5. PICK av \in Nat : av = Available(k) /\ av <= z
    BY <2>1, <2>3 DEF Available, Smaller
  <2>6. /\ cs + n \in Nat /\ n \in Nat /\ n > 0 /\ n <= Room(k) /\ cs + n <= z
    BY <1>2, <1>3, <1>4, <2>1, <2>2, <2>5 DEF Smaller, Left
  <2>7. Len(stream[k]) = HeaderSize + cs
    BY <2>2, <2>4 DEF AnswerInv
  <2>8. /\ stream' \in [Clients -> Seq(Units)]
        /\ \A d \in Clients : d # k => stream'[d] = stream[d]
        /\ Len(stream'[k]) = Len(stream[k]) + n
        /\ \A i \in 1..Len(stream[k]) : stream'[k][i] = stream[k][i]
        /\ \A i \in (Len(stream[k]) + 1)..(Len(stream[k]) + n) :
             stream'[k][i] = <<"content", cs + (i - Len(stream[k]))>>
    <3>1. stream' = Written(k, "content", cs, n) /\ cs \in Nat
      BY <1>4, <2>2
    <3>2. k \in Clients /\ n \in Nat /\ cs \in Nat /\ "content" \in {"header", "content"}
      BY <2>1, <2>6, <3>1
    <3>3. QED
      BY <3>1, <3>2, WrittenFacts
  <2>9. PICK m \in Nat : m = cs + n
    BY <2>6
  <2>10. PICK h \in HandleTypes : h = ch[k]
    BY <2>1
  <2>11. [h EXCEPT !.content_sent = m] \in HandleTypes
    BY <2>9 DEF HandleTypes
  <2>12. ch' = [ch EXCEPT ![k] = [h EXCEPT !.content_sent = m]]
    BY <1>4, <2>2, <2>9, <2>10
  <2>13. /\ ch' \in [Clients -> HandleTypes] /\ ch'[k] = [h EXCEPT !.content_sent = m]
         /\ \A d \in Clients : d # k => ch'[d] = ch[d]
    BY <2>1, <2>11, <2>12, OneHandle
  <2>14. /\ ch'[k].st = ch[k].st /\ ch'[k].owner = ch[k].owner /\ ch'[k].ec = ch[k].ec
         /\ ch'[k].prepared = ch[k].prepared /\ ch'[k].content_size = z
         /\ ch'[k].content_sent = m /\ ch'[k].header_sent = HeaderSize
    <3>1. /\ ch'[k].st = h.st /\ ch'[k].owner = h.owner /\ ch'[k].ec = h.ec
          /\ ch'[k].prepared = h.prepared /\ ch'[k].content_size = h.content_size
          /\ ch'[k].content_sent = m /\ ch'[k].header_sent = h.header_sent
      BY <2>13 DEF HandleTypes
    <3>2. QED
      BY <2>3, <2>4, <2>10, <3>1
  <2>15. PICK l \in {"sent", "content"} : l = IF m = z THEN "sent" ELSE "content"
    OBVIOUS
  <2>16. Goto(w, l)
    BY <1>4, <2>3, <2>14, <2>15
  <2>17. wpc'[w] = l /\ \A v \in Workers : v # w => wpc'[v] = wpc[v]
    BY <2>16, Moves
  <2>18. Types'
    <3>1. Len(stream[k]) - got[k] \in 0..Cap /\ n <= Cap - (Len(stream[k]) - got[k])
      BY <2>1, <2>6 DEF IInv, Types, TypeOK, Room
    <3>2. Len(stream'[k]) - got[k] \in 0..Cap
      <4>1. \A a, b \in Nat : a - b \in 0..Cap /\ n <= Cap - (a - b) => (a + n) - b \in 0..Cap
        BY <2>6, WebServerAssumption
      <4>2. (Len(stream[k]) + n) - got[k] \in 0..Cap
        BY <2>1, <3>1, <4>1
      <4>3. QED
        BY <2>8, <4>2
    <3>3. \A d \in Clients : Len(stream'[d]) - got[d] \in 0..Cap
      BY <2>8, <3>2 DEF IInv, Types, TypeOK
    <3>4. wpc' \in [Workers -> {"wait", "next", "accept", "read", "send", "header",
                                "content", "again", "sent", "dead"}]
      BY <2>15, <2>16, GotoTypes
    <3>5. QED
      BY <1>3, <1>4, <2>8, <2>13, <3>3, <3>4 DEF IInv, Types, TypeOK, clientVars
  <2>19. Works(w, k)
    BY <1>1, <1>3, <1>4, <2>1, <2>8, <2>13, <2>14, <2>17 DEF Works, clientVars
  <2>20. GoesOn(w, k)
    BY <1>1, <1>4, <2>15, <2>17 DEF GoesOn, AtClient
  <2>21. StageInv(w)'
    <3>1. m = z => ~Answering(k)'
      BY <2>14, WebServerAssumption DEF Answering, AnswerUnits
    <3>2. QED
      BY <1>1, <1>4, <2>4, <2>14, <2>15, <2>17, <3>1 DEF StageInv
  <2>22. AnswerInv(k)'
    <3>1. Len(stream'[k]) = HeaderSize + m
      BY <2>6, <2>7, <2>8, <2>9, WebServerAssumption
    <3>2. \A i \in 1..Len(stream'[k]) : stream'[k][i] = Unit(i)
      <4>1. SUFFICES ASSUME NEW i \in 1..Len(stream'[k]) PROVE stream'[k][i] = Unit(i)
        OBVIOUS
      <4>2. CASE i <= Len(stream[k])
        <5>1. i \in 1..Len(stream[k])
          BY <2>1, <4>1, <4>2
        <5>2. QED
          BY <2>4, <2>8, <5>1 DEF AnswerInv
      <4>3. CASE i > Len(stream[k])
        <5>1. i \in (Len(stream[k]) + 1)..(Len(stream[k]) + n) /\ ~(i <= HeaderSize)
              /\ cs + (i - Len(stream[k])) = i - HeaderSize
          <6>1. \A a, j \in Nat : a = HeaderSize + cs /\ j > a /\ j <= a + n =>
                  j \in (a + 1)..(a + n) /\ ~(j <= HeaderSize) /\ cs + (j - a) = j - HeaderSize
            <7>1. n \in Nat /\ cs \in Nat /\ HeaderSize \in Nat
              BY <2>2, <2>6, WebServerAssumption
            <7>2. QED
              BY <7>1
          <6>2. i \in Nat /\ i <= Len(stream[k]) + n /\ Len(stream[k]) \in Nat
            BY <2>1, <2>6, <2>8, <4>1
          <6>3. QED
            BY <2>7, <4>3, <6>1, <6>2
        <5>2. QED
          BY <2>8, <5>1 DEF Unit
      <4>4. QED
        BY <2>1, <2>6, <2>8, <4>1, <4>2, <4>3
    <3>3. m <= z
      BY <2>6, <2>9
    <3>4. QED
      BY <2>4, <2>14, <3>1, <3>2, <3>3 DEF AnswerInv
  <2>23. QED
    BY <2>18, <2>19, <2>20, <2>21, <2>22, WorkStep
<1>5. CASE Again(w)
  BY <1>3, <1>5, AgainStep
<1>6. CASE Broken(w)
  BY <1>3, <1>6, BrokenStep
<1>7. QED
  BY <1>1, <1>2, <1>4, <1>5, <1>6 DEF WriteContent

\* The socket is watched for what is left to do; an EPOLLOUT of the same event is
\* looked at before the next event.
LEMMA RearmStep ==
    ASSUME IInv, NEW w \in Workers, Rearm(w)
    PROVE  IInv'
<1>1. PICK k : k = cur[w].item
  OBVIOUS
<1>2. /\ wpc[w] \in {"again", "sent"} /\ wpc[w] \in AtClient
      /\ Watch(w, k, Watched(w))
      /\ IF OutToo(w) THEN SendOnOut(w) ELSE Continue(w)
      /\ UNCHANGED <<client, sent, got, backlog, ch, stream, events, last, size, faults, crashed>>
  BY <1>1 DEF Rearm, AtClient, clientVars
<1>3. k \in Clients /\ ("out" \in cur[w].mask => ch[k].prepared)
  BY <1>1, <1>2, MyHandle
<1>4. AnswerInv(k) /\ (wpc[w] = "again" => ch[k].prepared) /\ (wpc[w] = "sent" => ~Answering(k))
  BY <1>1, <1>2, <1>3 DEF IInv, StageInv
<1>5. PICK m \in SUBSET Masks :
        /\ m = Watched(w) /\ "in" \in m
        /\ "out" \in m => ch[k].prepared
        /\ Answering(k) => "out" \in m
  BY <1>2, <1>4 DEF Watched, Masks
<1>6. /\ interest' \in [Clients -> SUBSET Masks] /\ interest'[k] = m
      /\ \A d \in Clients : d # k => interest'[d] = interest[d]
      /\ ready' \in [Workers -> SUBSET Items]
      /\ \A v \in Workers : v # w => ready'[v] = ready[v]
      /\ ready[w] \subseteq ready'[w] /\ ready'[w] \subseteq ready[w] \cup {k}
      /\ Readable(k) \/ (Answering(k) /\ Room(k) > 0) => k \in ready'[w]
  <2>1. /\ interest' = [interest EXCEPT ![k] = m]
        /\ \/ ready' = [ready EXCEPT ![w] = @ \cup {k}]
           \/ ready' = ready /\ ~Readable(k) /\ ~(Answering(k) /\ Room(k) > 0)
    BY <1>2, <1>5 DEF Watch
  <2>2. interest \in [Clients -> SUBSET Masks] /\ ready \in [Workers -> SUBSET Items] /\ k \in Items
    BY <1>3 DEF IInv, Types, TypeOK, Items
  <2>3. QED
    BY <1>3, <1>5, <2>1, <2>2
<1>7. Readable(k)' = Readable(k) /\ Room(k)' = Room(k) /\ Answering(k)' = Answering(k)
  BY <1>2 DEF Readable, Room, Answering, AnswerUnits
<1>8. AnswerInv(k)'
  BY <1>2, <1>4 DEF AnswerInv
<1>9. CASE OutToo(w)
  <2>1. Goto(w, "send") /\ cur' = [cur EXCEPT ![w].mask = {"out"}]
        /\ cur[w].mask = Masks
    BY <1>2, <1>9 DEF SendOnOut, OutToo
  <2>2. wpc'[w] = "send" /\ \A v \in Workers : v # w => wpc'[v] = wpc[v]
    BY <2>1, Moves
  <2>3. /\ cur' \in [Workers -> [item : Items \cup {None}, mask : SUBSET Masks]]
        /\ cur'[w].item = k /\ cur'[w].mask = {"out"}
        /\ \A v \in Workers : v # w => cur'[v] = cur[v]
    <3>1. cur \in [Workers -> [item : Items \cup {None}, mask : SUBSET Masks]]
      BY DEF IInv, Types, TypeOK
    <3>2. {"out"} \in SUBSET Masks
      BY DEF Masks
    <3>3. QED
      BY <1>1, <2>1, <3>1, <3>2
  <2>4. Types'
    BY <1>2, <1>6, <2>1, <2>3, GotoTypes DEF IInv, Types, TypeOK
  <2>5. Works(w, k)
    BY <1>1, <1>2, <1>5, <1>6, <2>2, <2>3 DEF Works
  <2>6. GoesOn(w, k)
    BY <2>1, <2>2, <2>3 DEF GoesOn, AtClient, Masks
  <2>7. StageInv(w)'
    <3>1. ch[k].ec # 0
      BY <1>3, <1>4, <2>1 DEF AnswerInv, Masks
    <3>2. QED
      BY <1>2, <2>2, <2>3, <3>1 DEF StageInv
  <2>8. QED
    BY <1>8, <2>4, <2>5, <2>6, <2>7, WorkStep
<1>10. CASE ~OutToo(w)
  <2>1. Continue(w)
    BY <1>2, <1>10
  <2>2. /\ wpc'[w] = "next" /\ cur'[w] = NoEvent
        /\ \A v \in Workers : v # w => wpc'[v] = wpc[v] /\ cur'[v] = cur[v]
    BY <2>1, Continues
  <2>3. Types'
    BY <1>2, <1>6, <2>1, ContinueTypes DEF IInv, Types, TypeOK
  <2>4. Works(w, k)
    BY <1>1, <1>2, <1>5, <1>6, <2>2 DEF Works
  <2>5. GoesOn(w, k)
    BY <1>5, <1>6, <1>7, <2>2 DEF GoesOn
  <2>6. StageInv(w)'
    BY <2>2 DEF StageInv
  <2>7. QED
    BY <1>8, <2>3, <2>4, <2>5, <2>6, WorkStep
<1>11. QED
  BY <1>9, <1>10

-----------------------------------------------------------------------------
LEMMA Inductive == IInv /\ [Next]_vars => IInv'
<1> SUFFICES ASSUME IInv, [Next]_vars PROVE IInv'
  OBVIOUS
<1>1. ASSUME NEW c \in Clients, Connect(c) \/ Send(c) \/ Leave(c) \/ Receive(c)
      PROVE  IInv'
  BY <1>1, ConnectStep, SendStep, LeaveStep, ReceiveStep
<1>2. CASE Resize
  BY <1>2, ResizeStep
<1>3. ASSUME NEW w \in Workers, Worker(w)
      PROVE  IInv'
  <2>1. CASE Wait(w) \/ NextEvent(w) \/ Accept(w) \/ AcceptedAll(w) \/ AcceptFails(w)
    BY <2>1, WaitStep, NextEventStep, AcceptStep, AcceptedAllStep, AcceptFailsStep
  <2>2. CASE Read(w) \/ ReadEnds(w) \/ TrySend(w)
    BY <2>2, ReadStep, ReadEndsStep, TrySendStep
  <2>3. CASE WriteHeader(w) \/ WriteContent(w) \/ AlreadyDone(w) \/ Rearm(w)
    BY <2>3, WriteHeaderStep, WriteContentStep, AlreadyDoneStep, RearmStep
  <2>4. QED
    BY <1>3, <2>1, <2>2, <2>3 DEF Worker
<1>4. CASE UNCHANGED vars
  <2>1. UNCHANGED <<interest, ready, ch, stream, workerVars, clientVars, backlog, size, faults,
                    crashed>>
    BY <1>4 DEF vars
  <2>2. /\ \A w \in Workers : (EventInv(w) /\ LastInv(w) /\ StageInv(w))'
        /\ \A c \in Clients : AnswerInv(c)'
        /\ OutInv' /\ InterestInv'
    BY <2>1, WorkersStay
  <2>3. Types'
    BY <2>1 DEF IInv, Types, TypeOK, workerVars, clientVars
  <2>4. (\A c \in Clients : HandleInv(c)') /\ NoDanglingEvent' /\ ClosedWhenDone'
    BY <2>1 DEF IInv, HandleInv, NoDanglingEvent, ClosedWhenDone, AnswerUnits, workerVars, clientVars
  <2>5. NoLostEvent'
    BY <2>1 DEF IInv, NoLostEvent, Announced, Held, Readable, Room, Answering, AnswerUnits,
                workerVars, clientVars
  <2>6. QED
    BY <2>2, <2>3, <2>4, <2>5 DEF IInv
<1>5. QED
  BY <1>1, <1>2, <1>3, <1>4 DEF Next, Around

LEMMA Safe == Spec => []IInv
<1>1. Init => IInv
  BY InitHolds
<1>2. IInv /\ [Next]_vars => IInv'
  BY Inductive
<1>3. QED
  BY <1>1, <1>2, PTL DEF Spec

\* The state has its types; no write goes past the end of the header or of a socket's
\* buffers, and no event past the end of events (544-548).
THEOREM TypeCorrect == Spec => []TypeOK
<1>1. IInv => TypeOK
  BY DEF IInv, Types
<1>2. QED
  BY <1>1, Safe, PTL

\* However often the writing of an answer was broken off and taken up by another
\* event, a client gets its units one after the other and none twice (242-340).
THEOREM Intact == Spec => []AnswerIntact
<1>1. IInv => AnswerIntact
  <2>1. SUFFICES ASSUME IInv, NEW c \in Clients
                 PROVE  /\ Len(stream[c]) > 0 => ch[c].ec # 0 /\ Len(stream[c]) <= AnswerUnits(c)
                        /\ \A i \in 1..Len(stream[c]) : stream[c][i] = Unit(i)
    BY DEF AnswerIntact
  <2>2. AnswerInv(c)
    BY <2>1 DEF IInv
  <2>3. PICK hs \in 0..HeaderSize, cs \in Nat, z \in Nat :
          hs = ch[c].header_sent /\ cs = ch[c].content_sent /\ z = ch[c].content_size
    <3>1. ch[c] \in HandleTypes
      BY <2>1 DEF IInv, Types, TypeOK
    <3>2. QED
      BY <3>1 DEF HandleTypes
  <2>4. ~ch[c].prepared => Len(stream[c]) = 0
    BY <2>2, <2>3 DEF AnswerInv
  <2>5. ch[c].prepared => ch[c].ec # 0 /\ Len(stream[c]) <= AnswerUnits(c)
    BY <2>2, <2>3, WebServerAssumption DEF AnswerInv, AnswerUnits
  <2>6. QED
    BY <2>2, <2>4, <2>5 DEF AnswerInv
<1>2. QED
  BY <1>1, Safe, PTL

\* No event points to a handle that was freed, and none is worked on after its client
\* was closed (data.ptr, 542-655).
THEOREM NoneDangling == Spec => []NoDanglingEvent
<1>1. IInv => NoDanglingEvent
  BY DEF IInv
<1>2. QED
  BY <1>1, Safe, PTL

\* The server closes a connection only when the client left, when the answer is
\* written, or when it had no memory for the input.
THEOREM ClosedDone == Spec => []ClosedWhenDone
<1>1. IInv => ClosedWhenDone
  BY DEF IInv
<1>2. QED
  BY <1>1, Safe, PTL

\* Whatever there is to read, to write or to accept, the edge-triggered event that
\* says so has not been dropped (350-378, 542-650).
THEOREM NoneLost == Spec => []NoLostEvent
<1>1. IInv => NoLostEvent
  BY DEF IInv
<1>2. QED
  BY <1>1, Safe, PTL

-----------------------------------------------------------------------------
(* The client *)

\* The bytes: strings, of which the provers do not know that these three are.
Bytes == STRING \cup {"\r", "\n", "."}

\* What the server said when it has greeted, and when it has answered.
Greeting == server.banner \o Prompt
Reply == Message \o server.art \o Prompt

\* What the server is and what was read are bytes.
SessionTypes ==
  /\ server \in [banner : Banners, art : Arts, greeted : BOOLEAN,
                  answered : BOOLEAN, closed : BOOLEAN]
  /\ res \in Seq(Bytes) /\ net \in Seq(Bytes)
  /\ timeout \in Nat

\* What was read and what is on its way is what the server said to this
\* prompt, as long as there is time.
StreamInv ==
  /\ pc \in {"connect", "banner"} =>
        received = <<>> /\ ~server.answered
  /\ pc = "connect" => res = <<>> /\ net = <<>> /\ ~server.greeted
  /\ pc = "banner" => res \o net = IF server.greeted THEN Greeting ELSE <<>>
  /\ pc = "send" => res = <<>>
  /\ pc \in {"send", "answer"} =>
        server.greeted /\ res \o net = IF server.answered THEN Reply ELSE <<>>
  /\ pc = "done" /\ rc = 0 => output = Printable(server.art)

\* The server says nothing that looks like a prompt before it prompts.
Clean == ~HasPrompt(server.banner) /\ ~HasPrompt(Message \o server.art)

SessionInv == SessionTypes /\ (Clean /\ timeout > 0 => StreamInv)

LEMMA PromptIs == /\ Prompt \in Seq(Bytes) /\ Len(Prompt) = 3
                  /\ Prompt[1] = "\r" /\ Prompt[2] = "\n" /\ Prompt[3] = "."
BY DEF Prompt, Bytes

LEMMA Joined ==
  ASSUME NEW s \in Seq(Bytes), NEW t \in Seq(Bytes)
  PROVE  /\ s \o t \in Seq(Bytes) /\ Len(s \o t) = Len(s) + Len(t)
         /\ \A i \in 1..(Len(s) + Len(t)) : (s \o t)[i] = IF i <= Len(s) THEN s[i] ELSE t[i - Len(s)]
OBVIOUS

\* A prompt in a text is three bytes of it.
LEMMA PromptAt ==
  ASSUME NEW s \in Seq(Bytes)
  PROVE  HasPrompt(s) <=> \E i \in 1..(Len(s) - 2) : s[i] = "\r" /\ s[i + 1] = "\n" /\ s[i + 2] = "."
<1>1. SUFFICES ASSUME NEW i \in 1..(Len(s) - 2)
               PROVE  SubSeq(s, i, i + 2) = Prompt <=> s[i] = "\r" /\ s[i + 1] = "\n" /\ s[i + 2] = "."
  BY DEF HasPrompt
<1>2. PICK t : t = SubSeq(s, i, i + 2)
  OBVIOUS
<1>3. /\ t \in Seq(Bytes) /\ Len(t) = 3
      /\ t[1] = s[i] /\ t[2] = s[i + 1] /\ t[3] = s[i + 2]
  <2>1. i \in Int /\ i + 2 \in Int /\ i <= i + 2 /\ Len(s) \in Nat
    OBVIOUS
  <2>2. \A j \in i..(i + 2) : s[j] \in Bytes
    BY <2>1, ElementOfSeq
  <2>3. /\ t \in Seq(Bytes) /\ Len(t) = 3
        /\ \A j \in 1..3 : t[j] = s[i + j - 1]
    <3>1. (i + 2) - i + 1 = 3
      BY <2>1
    <3> QED
      BY <1>2, <2>1, <3>1
  <2> QED
    BY <2>1, <2>3
<1>4. ASSUME s[i] = "\r" /\ s[i + 1] = "\n" /\ s[i + 2] = "." PROVE t = Prompt
  <2>1. \A j \in 1..3 : t[j] = Prompt[j]
    <3>1. \A j \in 1..3 : j = 1 \/ j = 2 \/ j = 3
      OBVIOUS
    <3> QED
      BY <1>3, <1>4, <3>1, PromptIs
  <2> QED
    BY <1>3, <2>1, PromptIs, SeqEqual
<1> QED
  BY <1>2, <1>3, <1>4, PromptIs

\* The client that has read a prompt has read all there is.
LEMMA WholeText ==
  ASSUME NEW a \in Seq(Bytes), NEW r \in Seq(Bytes), NEW t \in Seq(Bytes),
         r \o t = a \o Prompt, HasPrompt(r), ~HasPrompt(a)
  PROVE  r = a \o Prompt /\ t = <<>>
<1>1. /\ Len(r) + Len(t) = Len(a) + 3 /\ Len(r) \in Nat /\ Len(t) \in Nat /\ Len(a) \in Nat
      /\ a \o Prompt \in Seq(Bytes)
  <2>1. Len(r \o t) = Len(r) + Len(t) /\ Len(a \o Prompt) = Len(a) + 3 /\ a \o Prompt \in Seq(Bytes)
    <3>1. Prompt \in Seq(Bytes) /\ Len(Prompt) = 3
      BY PromptIs
    <3>2. Len(r \o t) = Len(r) + Len(t)
      BY Joined
    <3>3. Len(a \o Prompt) = Len(a) + Len(Prompt)
      BY <3>1, Joined
    <3>4. a \o Prompt \in Seq(Bytes)
      BY <3>1, Joined
    <3> QED
      BY <3>1, <3>2, <3>3, <3>4
  <2> QED
    BY <2>1
<1>2. /\ \A i \in 1..Len(r) : r[i] = (a \o Prompt)[i]
      /\ \A i \in 1..Len(a) : (a \o Prompt)[i] = a[i]
      /\ \A i \in 1..3 : (a \o Prompt)[Len(a) + i] = Prompt[i]
  <2>1. \A i \in 1..(Len(r) + Len(t)) : (r \o t)[i] = IF i <= Len(r) THEN r[i] ELSE t[i - Len(r)]
    BY Joined
  <2>2. \A i \in 1..(Len(a) + 3) : (a \o Prompt)[i] = IF i <= Len(a) THEN a[i] ELSE Prompt[i - Len(a)]
    <3>1. Prompt \in Seq(Bytes) /\ Len(Prompt) = 3
      BY PromptIs
    <3>2. \A i \in 1..(Len(a) + Len(Prompt)) :
             (a \o Prompt)[i] = IF i <= Len(a) THEN a[i] ELSE Prompt[i - Len(a)]
      BY <3>1, Joined
    <3> QED
      BY <3>1, <3>2
  <2>3. \A i \in 1..3 : Len(a) + i \in 1..(Len(a) + 3) /\ ~(Len(a) + i <= Len(a)) /\ (Len(a) + i) - Len(a) = i
    BY <1>1
  <2>4. \A i \in 1..Len(r) : i \in 1..(Len(r) + Len(t)) /\ i <= Len(r)
    BY <1>1
  <2>5. \A i \in 1..Len(a) : i \in 1..(Len(a) + 3) /\ i <= Len(a)
    BY <1>1
  <2> QED
    BY <2>1, <2>2, <2>3, <2>4, <2>5
<1>3. PICK i \in 1..(Len(r) - 2) : r[i] = "\r" /\ r[i + 1] = "\n" /\ r[i + 2] = "."
  BY PromptAt
<1>4. i \in Nat /\ i >= 1 /\ i + 2 <= Len(r)
  BY <1>1
<1>5. ~(i + 2 <= Len(a))
  <2>1. SUFFICES ASSUME i + 2 <= Len(a) PROVE FALSE
    OBVIOUS
  <2>2. i \in 1..Len(a) /\ i + 1 \in 1..Len(a) /\ i + 2 \in 1..Len(a) /\ i \in 1..(Len(a) - 2)
    BY <1>1, <1>4, <2>1
  <2>3. i \in 1..Len(r) /\ i + 1 \in 1..Len(r) /\ i + 2 \in 1..Len(r)
    BY <1>1, <1>4
  <2>4. a[i] = "\r" /\ a[i + 1] = "\n" /\ a[i + 2] = "."
    BY <1>2, <1>3, <2>2, <2>3
  <2> QED
    BY <2>2, <2>4, PromptAt
\* The last byte of a prompt is neither of the two before it.
<1>6. i + 2 = Len(a) + 3
  <2>1. i + 2 \in 1..Len(r) /\ (i + 2 = Len(a) + 1 \/ i + 2 = Len(a) + 2 \/ i + 2 = Len(a) + 3)
    BY <1>1, <1>4, <1>5
  <2>2. (a \o Prompt)[i + 2] = "."
    BY <1>2, <1>3, <2>1
  <2>3. (a \o Prompt)[Len(a) + 1] = "\r" /\ (a \o Prompt)[Len(a) + 2] = "\n"
    <3>1. 1 \in 1..3 /\ 2 \in 1..3
      OBVIOUS
    <3>2. (a \o Prompt)[Len(a) + 1] = Prompt[1] /\ (a \o Prompt)[Len(a) + 2] = Prompt[2]
      BY <1>2, <3>1
    <3> QED
      BY <3>2, PromptIs
  <2> QED
    BY <2>1, <2>2, <2>3, PromptIs
<1>7. Len(r) = Len(a) + 3 /\ Len(t) = 0
  BY <1>1, <1>4, <1>6
<1>8. Len(r) = Len(a \o Prompt)
  BY <1>7, Joined, PromptIs
<1>9. r = a \o Prompt
  BY <1>1, <1>2, <1>8, SeqEqual
<1> QED
  BY <1>7, <1>9, EmptySeq

\* Echo and prompt are taken off.
LEMMA Stripped ==
  ASSUME NEW a \in Seq(Bytes), Message \in Seq(Bytes)
  PROVE  Strip(Message \o a \o Prompt) = a
<1>1. PICK s : s = Message \o a \o Prompt
  OBVIOUS
<1>2. PICK b : b = Message \o a
  OBVIOUS
<1>3. /\ b \in Seq(Bytes) /\ Len(b) = Len(Message) + Len(a)
      /\ \A i \in 1..(Len(Message) + Len(a)) : b[i] = IF i <= Len(Message) THEN Message[i] ELSE a[i - Len(Message)]
  BY <1>2, Joined
<1>4. /\ s \in Seq(Bytes) /\ Len(s) = Len(b) + 3
      /\ \A i \in 1..(Len(b) + 3) : s[i] = IF i <= Len(b) THEN b[i] ELSE Prompt[i - Len(b)]
  <2>1. Prompt \in Seq(Bytes) /\ Len(Prompt) = 3 /\ s = b \o Prompt
    BY <1>1, <1>2, PromptIs
  <2>2. /\ b \o Prompt \in Seq(Bytes) /\ Len(b \o Prompt) = Len(b) + Len(Prompt)
        /\ \A i \in 1..(Len(b) + Len(Prompt)) :
              (b \o Prompt)[i] = IF i <= Len(b) THEN b[i] ELSE Prompt[i - Len(b)]
    BY <1>3, <2>1, Joined
  <2> QED
    BY <2>1, <2>2
<1>5. PICK m \in Nat, l \in Nat : m = Len(Message) /\ l = Len(a)
  OBVIOUS
<1>6. PICK t : t = SubSeq(s, m + 1, m + l)
  OBVIOUS
<1>7. Strip(s) = t
  <2>1. Len(s) - Len(Prompt) = m + l
    BY <1>3, <1>4, <1>5, PromptIs
  <2> QED
    BY <1>5, <1>6, <2>1 DEF Strip
<1>8. t \in Seq(Bytes) /\ Len(t) = l /\ \A i \in 1..l : t[i] = s[m + i]
  <2>1. \A i \in (m + 1)..(m + l) : i \in 1..Len(s)
    BY <1>3, <1>4, <1>5
  <2>2. \A i \in (m + 1)..(m + l) : s[i] \in Bytes
    BY <1>4, <2>1, ElementOfSeq
  <2>3. m + 1 \in Int /\ m + l \in Int
    OBVIOUS
  <2>4. /\ t \in Seq(Bytes) /\ Len(t) = IF m + 1 <= m + l THEN (m + l) - (m + 1) + 1 ELSE 0
        /\ \A i \in 1..((m + l) - (m + 1) + 1) : t[i] = s[(m + 1) + i - 1]
    <3>1. m \in Nat /\ l \in Nat /\ m + l <= Len(s) /\ s \in Seq(Bytes)
      BY <1>3, <1>4, <1>5
    <3> QED
      BY <1>6, <3>1
  <2>5. (m + l) - (m + 1) + 1 = l /\ \A i \in 1..l : (m + 1) + i - 1 = m + i
    OBVIOUS
  <2>6. Len(t) = l
    BY <2>4
  <2>7. \A i \in 1..l : t[i] = s[m + i]
    BY <2>4, <2>5
  <2> QED
    BY <2>4, <2>6, <2>7
<1>9. \A i \in 1..l : s[m + i] = a[i]
  <2>1. SUFFICES ASSUME NEW i \in 1..l PROVE s[m + i] = a[i]
    OBVIOUS
  <2>2. m + i \in 1..Len(b) /\ m + i \in 1..(Len(b) + 3) /\ m + i <= Len(b)
    BY <1>3, <1>5
  <2>3. s[m + i] = b[m + i]
    BY <1>4, <2>2
  <2>4. m + i \in 1..(Len(Message) + Len(a)) /\ ~(m + i <= Len(Message)) /\ (m + i) - Len(Message) = i
    BY <1>5
  <2> QED
    BY <1>3, <2>3, <2>4
<1>10. t = a
  BY <1>5, <1>8, <1>9, SeqEqual
<1> QED
  BY <1>1, <1>7, <1>10

\* The constants are bytes too.
LEMMA SessionBytes ==
  /\ Message \in Seq(Bytes) /\ Message # <<>>
  /\ Banners \subseteq Seq(Bytes) /\ Arts \subseteq Seq(Bytes)
  /\ Timeout \in Nat /\ Timeout > 0
<1>1. STRING \subseteq Bytes
  BY DEF Bytes
<1>2. \A s \in Seq(STRING) : s \in Seq(Bytes)
  BY <1>1, SeqMonotonic
<1> QED
  BY <1>2, FigletClientAssumption

\* So is what the server says.
LEMMA TextBytes ==
  ASSUME SessionTypes
  PROVE  /\ server.banner \in Seq(Bytes) /\ server.art \in Seq(Bytes) /\ Message \o server.art \in Seq(Bytes)
         /\ Greeting \in Seq(Bytes) /\ Reply \in Seq(Bytes)
         /\ Greeting = server.banner \o Prompt /\ Reply = (Message \o server.art) \o Prompt
<1>1. server.banner \in Seq(Bytes) /\ server.art \in Seq(Bytes) /\ Message \in Seq(Bytes) /\ Prompt \in Seq(Bytes)
  BY SessionBytes, PromptIs DEF SessionTypes
<1>2. Message \o server.art \in Seq(Bytes)
  BY <1>1, Joined
<1>3. Greeting \in Seq(Bytes) /\ Reply \in Seq(Bytes)
  BY <1>1, <1>2, Joined DEF Greeting, Reply
<1> QED
  BY <1>1, <1>2, <1>3 DEF Greeting, Reply

LEMMA Regrouped ==
  ASSUME NEW s \in Seq(Bytes), NEW t \in Seq(Bytes), NEW u \in Seq(Bytes)
  PROVE  (s \o t) \o u = s \o (t \o u)
BY ConcatAssociative

\* A read moves bytes from the way to the buffer.
LEMMA ReadMoves ==
  ASSUME NEW r \in Seq(Bytes), NEW t \in Seq(Bytes), NEW n \in 1..Len(t)
  PROVE  /\ r \o SubSeq(t, 1, n) \in Seq(Bytes) /\ SubSeq(t, n + 1, Len(t)) \in Seq(Bytes)
         /\ (r \o SubSeq(t, 1, n)) \o SubSeq(t, n + 1, Len(t)) = r \o t
<1>1. PICK a : a = SubSeq(t, 1, n)
  OBVIOUS
<1>2. PICK b : b = SubSeq(t, n + 1, Len(t))
  OBVIOUS
<1>3. a \o b = t
  <2>1. 1 \in 1..(Len(t) + 1) /\ n \in 0..Len(t) /\ Len(t) \in n..Len(t)
    OBVIOUS
  <2>2. SubSeq(t, 1, n) \o SubSeq(t, n + 1, Len(t)) = SubSeq(t, 1, Len(t))
    BY <2>1, ConcatAdjacentSubSeq
  <2>3. SubSeq(t, 1, Len(t)) = t
    BY SubSeqFull
  <2> QED
    BY <1>1, <1>2, <2>2, <2>3
<1>4. a \in Seq(Bytes) /\ b \in Seq(Bytes)
  BY <1>1, <1>2
<1>5. r \o a \in Seq(Bytes)
  BY <1>4, Joined
<1>6. (r \o a) \o b = r \o (a \o b)
  BY <1>4, Regrouped
<1> QED
  BY <1>1, <1>2, <1>3, <1>4, <1>5, <1>6

\* Concatenation with nothing.
LEMMA Nothing ==
  ASSUME NEW s \in Seq(Bytes), NEW t \in Seq(Bytes)
  PROVE  (s \o t = <<>> => s = <<>> /\ t = <<>>) /\ <<>> \o s = s /\ s \o <<>> = s
BY ConcatEqualIffEmpty, ConcatEmptySeq

\* The invariant holds at the start and after every step.
LEMMA SessionInit == FigletInit => SessionInv
<1>1. SUFFICES ASSUME FigletInit PROVE SessionInv
  OBVIOUS
<1>2. SessionTypes
  <2>1. <<>> \in Seq(Bytes)
    BY EmptySeq
  <2> QED
    BY <1>1, <2>1, SessionBytes DEF FigletInit, SessionTypes
<1>3. StreamInv
  BY <1>1 DEF FigletInit, StreamInv
<1> QED
  BY <1>2, <1>3 DEF SessionInv

\* The session stays of its types, the texts stay, and time does not come back.
LEMMA SessionTypesStep ==
  ASSUME SessionTypes, [FigletNext]_figletVars
  PROVE  /\ SessionTypes'
         /\ server'.banner = server.banner /\ server'.art = server.art
         /\ timeout' <= timeout
<1>1. Prompt \in Seq(Bytes) /\ server.banner \in Seq(Bytes) /\ server.art \in Seq(Bytes)
      /\ Message \in Seq(Bytes) /\ <<>> \in Seq(Bytes)
  BY SessionBytes, TextBytes, PromptIs, EmptySeq
<1>2. CASE Client
  <2>1. server' = server
    BY <1>2 DEF Client, TryAddress, ReadBanner, LeaveBanner, SendCommand, LeaveSend, ReadAnswer, ReadFails, SendFails,
                PrintAnswer, WouldBlock, Fail
  <2>2. timeout' \in Nat /\ timeout' <= timeout
    BY <1>2 DEF Client, TryAddress, ReadBanner, LeaveBanner, SendCommand, LeaveSend, ReadAnswer, ReadFails, SendFails,
                PrintAnswer, WouldBlock, Fail, ReadBytes, Second, SessionTypes
  <2>3. \/ res' = res /\ net' = net
        \/ res' = <<>> /\ net' = net
        \/ \E n \in 1..Len(net) : ReadBytes(n)
    BY <1>2 DEF Client, TryAddress, ReadBanner, LeaveBanner, SendCommand, LeaveSend, ReadAnswer, ReadFails, SendFails,
                PrintAnswer, WouldBlock, Fail, Forget
  <2>4. res' \in Seq(Bytes) /\ net' \in Seq(Bytes)
    <3>1. ASSUME NEW n \in 1..Len(net), ReadBytes(n) PROVE res' \in Seq(Bytes) /\ net' \in Seq(Bytes)
      BY <3>1, ReadMoves DEF ReadBytes, SessionTypes
    <3> QED
      BY <1>1, <2>3, <3>1 DEF SessionTypes
  <2> QED
    BY <2>1, <2>2, <2>4 DEF SessionTypes
<1>3. CASE Greet \/ Answer \/ ServerCloses
  <2>1. server' \in [banner : {server.banner}, art : {server.art}, greeted : BOOLEAN,
                     answered : BOOLEAN, closed : BOOLEAN]
    BY <1>3 DEF Greet, Answer, ServerCloses, SessionTypes
  <2>2. res' = res /\ timeout' = timeout
    BY <1>3 DEF Greet, Answer, ServerCloses, program
  <2>3. net' \in Seq(Bytes)
    <3>1. (net \o server.banner) \o Prompt \in Seq(Bytes)
      BY <1>1, Joined DEF SessionTypes
    <3>2. ((net \o Message) \o server.art) \o Prompt \in Seq(Bytes)
      BY <1>1, Joined DEF SessionTypes
    <3> QED
      BY <1>3, <3>1, <3>2 DEF Greet, Answer, ServerCloses, SessionTypes
  <2> QED
    BY <2>1, <2>2, <2>3 DEF SessionTypes
<1>4. CASE UNCHANGED figletVars
  BY <1>4 DEF figletVars, program, SessionTypes
<1> QED
  BY <1>2, <1>3, <1>4 DEF FigletNext

\* The client's steps: it leaves a loop with the whole text, or when the time is
\* over.
LEMMA ClientStream ==
  ASSUME SessionTypes, Clean, StreamInv, timeout > 0, timeout' > 0, Client
  PROVE  StreamInv'
<1> DEFINE Same == Greeting' = Greeting /\ Reply' = Reply /\ server' = server
<1>1. Same
  BY DEF Client, TryAddress, ReadBanner, LeaveBanner, SendCommand, LeaveSend, ReadAnswer, ReadFails, SendFails,
         PrintAnswer, WouldBlock, Fail, Greeting, Reply
<1>2. CASE pc' = "done" /\ rc' = 1
  BY <1>2 DEF StreamInv
<1>3. CASE TryAddress
  <2>1. res' = res /\ net' = net /\ received' = received /\ output' = output
    BY <1>3 DEF TryAddress, Fail
  <2>2. pc = "connect" /\ (pc' = "banner" \/ pc' = "connect" \/ (pc' = "done" /\ rc' = 1))
    BY <1>3 DEF TryAddress, Fail
  <2>3. <<>> \o <<>> = <<>>
    BY Nothing, EmptySeq
  <2> HIDE DEF Same
  <2> QED
    BY <1>1, <2>1, <2>2, <2>3 DEF StreamInv, Same
<1>4. CASE WouldBlock
  BY <1>1, <1>4 DEF WouldBlock, StreamInv
<1>5. ASSUME pc \in {"banner", "answer"}, NEW n \in 1..Len(net), ReadBytes(n), UNCHANGED <<pc, output, rc, received>>
      PROVE  StreamInv'
  <2>1. res' \o net' = res \o net
    BY <1>5, ReadMoves DEF ReadBytes, SessionTypes
  <2> QED
    BY <1>1, <1>5, <2>1 DEF StreamInv
<1>6. CASE LeaveBanner
  <2>1. pc = "banner" /\ pc' = "send" /\ res' = <<>> /\ net' = net /\ HasPrompt(res)
    BY <1>6 DEF LeaveBanner, Forget
  <2>2. server.greeted
    <3>1. SUFFICES ASSUME ~server.greeted PROVE FALSE
      BY DEF SessionTypes
    <3>2. res = <<>>
      BY <2>1, <3>1, Nothing DEF StreamInv, SessionTypes
    <3> QED
      BY <2>1, <3>2 DEF HasPrompt
  <2>3. net = <<>>
    <3>1. res \o net = server.banner \o Prompt
      BY <2>1, <2>2 DEF StreamInv, Greeting
    <3> QED
      BY <2>1, <3>1, WholeText, TextBytes DEF SessionTypes, Clean
  <2>4. <<>> \o <<>> = <<>>
    BY Nothing, EmptySeq
  <2> QED
    BY <1>1, <2>1, <2>2, <2>3, <2>4 DEF StreamInv
<1>7. CASE SendCommand
  <2>1. WouldBlock \/ (pc = "send" /\ UNCHANGED <<pc, res, net, output, rc>>)
    BY <1>7 DEF SendCommand
  <2> QED
    BY <1>1, <1>4, <2>1 DEF StreamInv
<1>8. CASE LeaveSend
  BY <1>1, <1>8 DEF LeaveSend, StreamInv
<1>9. CASE PrintAnswer
  <2>1. pc = "answer" /\ pc' = "done" /\ output' = Printable(Strip(res)) /\ HasPrompt(res)
    BY <1>9 DEF PrintAnswer
  <2>2. server.answered
    <3>1. SUFFICES ASSUME ~server.answered PROVE FALSE
      BY DEF SessionTypes
    <3>2. res = <<>>
      BY <2>1, <3>1, Nothing DEF StreamInv, SessionTypes
    <3> QED
      BY <2>1, <3>2 DEF HasPrompt
  <2>3. res = (Message \o server.art) \o Prompt
    <3>1. res \o net = (Message \o server.art) \o Prompt
      BY <2>1, <2>2 DEF StreamInv, Reply
    <3> QED
      BY <2>1, <3>1, WholeText, TextBytes DEF SessionTypes, Clean
  <2>4. Strip(res) = server.art
    BY <2>3, Stripped, TextBytes, SessionBytes
  <2> QED
    BY <1>1, <2>1, <2>4 DEF StreamInv
<1>10. (ReadFails \/ SendFails) => pc' = "done" /\ rc' = 1
  BY DEF ReadFails, SendFails, Fail
<1>11. ReadBanner \/ ReadAnswer =>
          \/ WouldBlock
          \/ /\ pc \in {"banner", "answer"}
             /\ \E n \in 1..Len(net) : ReadBytes(n) /\ UNCHANGED <<pc, output, rc, received>>
  BY DEF ReadBanner, ReadAnswer
<1> QED
  BY <1>2, <1>3, <1>4, <1>5, <1>6, <1>7, <1>8, <1>9, <1>10, <1>11 DEF Client

\* The server's steps: what it says is appended to what is on its way.
LEMMA ServerStream ==
  ASSUME SessionTypes, StreamInv, Greet \/ Answer \/ ServerCloses
  PROVE  StreamInv'
<1>1. UNCHANGED <<pc, res, rc, output, received>>
  BY DEF Greet, Answer, ServerCloses, program
<1>2. CASE ServerCloses
  <2>1. server' = [server EXCEPT !.closed = TRUE] /\ net' = net
    BY <1>2 DEF ServerCloses
  <2>2. /\ server'.banner = server.banner /\ server'.art = server.art
        /\ server'.greeted = server.greeted /\ server'.answered = server.answered
    BY <2>1 DEF SessionTypes
  <2> QED
    BY <1>1, <1>2, <2>1, <2>2 DEF ServerCloses, StreamInv, Greeting, Reply
<1>3. CASE Greet
  <2>1. server' = [server EXCEPT !.greeted = TRUE] /\ net' = (net \o server.banner) \o Prompt
        /\ pc # "connect" /\ ~server.greeted
    BY <1>3 DEF Greet
  <2>2. /\ server'.banner = server.banner /\ server'.art = server.art
        /\ server'.greeted = TRUE /\ server'.answered = server.answered
    BY <2>1 DEF SessionTypes
  <2>3. CASE pc = "banner"
    <3>1. res = <<>> /\ net = <<>>
      BY <2>1, <2>3, Nothing DEF StreamInv, SessionTypes
    <3>2. net' = Greeting /\ res \o net' = Greeting
      BY <2>1, <3>1, Nothing, TextBytes
    <3> QED
      BY <1>1, <2>1, <2>2, <2>3, <3>2 DEF StreamInv, Greeting, Reply
  <2>4. CASE pc # "banner"
    BY <1>1, <2>1, <2>2, <2>4 DEF StreamInv
  <2> QED
    BY <2>3, <2>4
<1>4. CASE Answer
  <2>1. server' = [server EXCEPT !.answered = TRUE] /\ net' = ((net \o Message) \o server.art) \o Prompt
        /\ server.greeted /\ ~server.answered /\ received = Message
    BY <1>4 DEF Answer
  <2>2. /\ server'.banner = server.banner /\ server'.art = server.art
        /\ server'.greeted = server.greeted /\ server'.answered = TRUE
    BY <2>1 DEF SessionTypes
  <2>3. pc \notin {"connect", "banner"}
    BY <2>1, SessionBytes DEF StreamInv
  <2>4. CASE pc \in {"send", "answer"}
    <3>1. res = <<>> /\ net = <<>>
      BY <2>1, <2>4, Nothing DEF StreamInv, SessionTypes
    <3>2. net' = Reply /\ res \o net' = Reply
      BY <2>1, <3>1, Nothing, TextBytes, SessionBytes
    <3> QED
      BY <1>1, <2>1, <2>2, <2>3, <2>4, <3>1, <3>2 DEF StreamInv, Reply
  <2>5. CASE pc \notin {"send", "answer"}
    BY <1>1, <2>2, <2>3, <2>5 DEF StreamInv
  <2> QED
    BY <2>4, <2>5
<1> QED
  BY <1>2, <1>3, <1>4

LEMMA SessionNext == SessionInv /\ [FigletNext]_figletVars => SessionInv'
<1>1. SUFFICES ASSUME SessionInv, [FigletNext]_figletVars PROVE SessionInv'
  OBVIOUS
<1>2. /\ SessionTypes /\ SessionTypes'
      /\ server'.banner = server.banner /\ server'.art = server.art
      /\ timeout \in Nat /\ timeout' \in Nat /\ timeout' <= timeout
  BY <1>1, SessionTypesStep DEF SessionInv, SessionTypes
<1>3. ASSUME Clean', timeout' > 0 PROVE StreamInv'
  <2>1. Clean
    BY <1>2, <1>3 DEF Clean, HasPrompt
  <2>2. timeout > 0 /\ StreamInv
    BY <1>1, <1>2, <1>3, <2>1 DEF SessionInv
  <2>3. CASE Client
    BY <1>2, <1>3, <2>1, <2>2, <2>3, <1>1, ClientStream
  <2>4. CASE Greet \/ Answer \/ ServerCloses
    BY <1>1, <1>2, <2>2, <2>4, ServerStream
  <2>5. CASE UNCHANGED figletVars
    BY <2>2, <2>5 DEF figletVars, program, StreamInv, Greeting, Reply
  <2> QED
    BY <1>1, <2>3, <2>4, <2>5 DEF FigletNext
<1> QED
  BY <1>2, <1>3 DEF SessionInv

\* What the client prints with status 0, and in time, is the server's answer to
\* its command, however the bytes came (main.c 142-188).
THEOREM AnswerPrinted == FigletSpec => []PrintedIsAnswer
<1>1. FigletInit => SessionInv
  BY SessionInit
<1>2. SessionInv /\ [FigletNext]_figletVars => SessionInv'
  BY SessionNext
<1>3. SessionInv => PrintedIsAnswer
  BY DEF SessionInv, SessionTypes, StreamInv, Clean, PrintedIsAnswer
<1> QED
  BY <1>1, <1>2, <1>3, PTL DEF FigletSpec
=============================================================================
