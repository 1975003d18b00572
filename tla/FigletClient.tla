---------------------------- MODULE FigletClient ----------------------------
(***************************************************************************)
(* The figlet client of src/hw12/main.c: it connects to a telnet server,   *)
(* reads up to the prompt, sends one command and reads the answer up to    *)
(* the next prompt, all in main and with a socket that does not block.     *)
(* Reads and writes move any number of bytes; one that would block costs a *)
(* second of the timeout the three loops share.  The server, which is not  *)
(* part of the program, sends when it likes, and may close.                *)
(***************************************************************************)
EXTENDS Integers, Sequences

CONSTANTS
  Message,    \* the command, with its end of line
  Banners,    \* what the server may say before its first prompt
  Arts,       \* what it may answer before the next one
  Timeout,    \* timeout: 10 in the code
  Addresses,  \* addresses of the server
  BufSize     \* bufsize - 1: what one read takes at most

ASSUME FigletClientAssumption ==
  /\ Message \in Seq(STRING) /\ Message # <<>>
  /\ Banners \cup Arts \subseteq Seq(STRING)
  /\ {Timeout, Addresses, BufSize} \subseteq Nat \ {0}

Prompt == <<"\r", "\n", ".">>

VARIABLES
  pc,       \* where main is: "connect", "banner", "send", "answer", "done"
  address,  \* the address being tried
  timeout,
  res,      \* what was read
  toWrite,  \* to_write
  output,   \* what is printed
  rc,       \* the exit status
  server,   \* what the server says, and whether it has
  net,      \* the bytes on their way to the client
  received  \* the bytes the server received

program == <<pc, address, timeout, res, toWrite, output, rc>>
figletVars == <<program, server, net, received>>

FigletInit ==
  /\ pc = "connect" /\ address = 1 /\ timeout = Timeout
  /\ res = <<>> /\ toWrite = Len(Message) /\ output = <<>> /\ rc = 0
  /\ server \in [banner : Banners, art : Arts, greeted : {FALSE},
                 answered : {FALSE}, closed : {FALSE}]
  /\ net = <<>> /\ received = <<>>

Fail ==
  /\ pc' = "done" /\ rc' = 1
  /\ UNCHANGED <<address, timeout, res, toWrite, output>>

\* The addresses are tried one after the other, with the same socket.
TryAddress ==
  /\ pc = "connect"
  /\ \/ /\ pc' = "banner"
        /\ UNCHANGED <<address, timeout, res, toWrite, output, rc>>
     \/ /\ address < Addresses /\ address' = address + 1
        /\ UNCHANGED <<pc, timeout, res, toWrite, output, rc>>
     \/ address = Addresses /\ Fail
  /\ UNCHANGED <<server, net, received>>

\* A mutant: a read that would block costs nothing.
NoCost(n) == n

\* timeout--
Second(n) == n - 1

\* read or write fails with EAGAIN.
WouldBlock ==
  /\ timeout > 0
  /\ timeout' = Second(timeout)
  /\ UNCHANGED <<pc, address, res, toWrite, output, rc, server, net,
                 received>>

HasPrompt(s) == \E i \in 1..Len(s) - 2 : SubSeq(s, i, i + 2) = Prompt

\* One read of n bytes.  At the end of the stream read gives 0, which is no
\* error: the loop turns without a second going by.
ReadBytes(n) ==
  /\ n <= Len(net) /\ n <= BufSize
  /\ res' = res \o SubSeq(net, 1, n)
  /\ net' = SubSeq(net, n + 1, Len(net))
NothingToRead == net = <<>> /\ ~server.closed
ReadFails ==
  /\ pc \in {"banner", "answer"} /\ timeout > 0
  /\ server.closed /\ Fail
  /\ UNCHANGED <<server, net, received>>

\* A mutant: what was read is kept.
Keep(s) == s

\* btrunc(res, 0)
Forget(s) == <<>>

ReadBanner ==
  /\ pc = "banner" /\ timeout > 0 /\ ~HasPrompt(res)
  /\ \/ NothingToRead /\ WouldBlock
     \/ \E n \in 1..Len(net) :
          /\ ReadBytes(n)
          /\ UNCHANGED <<pc, address, timeout, toWrite, output, rc, server,
                         received>>

\* The loop ends at the prompt or when the timeout is 0, which CHECK_TIMEOUT
\* takes for success.
LeaveBanner ==
  /\ pc = "banner" /\ (HasPrompt(res) \/ timeout = 0)
  /\ pc' = "send" /\ res' = Forget(res)
  /\ UNCHANGED <<address, timeout, toWrite, output, rc, server, net, received>>

\* Each write starts with the first byte of the command.
SendCommand ==
  /\ pc = "send" /\ timeout > 0 /\ toWrite > 0
  /\ \/ WouldBlock
     \/ \E n \in 1..toWrite :
          /\ received' = received \o SubSeq(Message, 1, n)
          /\ toWrite' = toWrite - n
          /\ UNCHANGED <<pc, address, timeout, res, output, rc, server, net>>
SendFails ==
  /\ pc = "send" /\ timeout > 0 /\ toWrite > 0
  /\ server.closed /\ Fail
  /\ UNCHANGED <<server, net, received>>
LeaveSend ==
  /\ pc = "send" /\ (toWrite = 0 \/ timeout = 0)
  /\ pc' = "answer"
  /\ UNCHANGED <<address, timeout, res, toWrite, output, rc, server, net,
                 received>>

ReadAnswer ==
  /\ pc = "answer" /\ timeout > 0 /\ ~HasPrompt(res)
  /\ \/ NothingToRead /\ WouldBlock
     \/ \E n \in 1..Len(net) :
          /\ ReadBytes(n)
          /\ UNCHANGED <<pc, address, timeout, toWrite, output, rc, server,
                         received>>

\* Neither control characters nor the prompt at the end are printed.
Printable(s) == SelectSeq(s, LAMBDA c : c # "\r")
Strip(s) == SubSeq(s, Len(Message) + 1, Len(s) - Len(Prompt))
PrintAnswer ==
  /\ pc = "answer" /\ (HasPrompt(res) \/ timeout = 0)
  /\ output' = Printable(Strip(res))
  /\ pc' = "done" /\ rc' = 0
  /\ UNCHANGED <<address, timeout, res, toWrite, server, net, received>>

Client ==
  \/ TryAddress \/ ReadBanner \/ LeaveBanner \/ SendCommand \/ LeaveSend
  \/ ReadAnswer \/ ReadFails \/ SendFails \/ PrintAnswer

\* The server greets, echoes and answers a whole command, and may close.
Greet ==
  /\ pc # "connect" /\ ~server.greeted /\ ~server.closed
  /\ net' = net \o server.banner \o Prompt
  /\ server' = [server EXCEPT !.greeted = TRUE]
  /\ UNCHANGED <<program, received>>
Answer ==
  /\ server.greeted /\ ~server.answered /\ ~server.closed /\ received = Message
  /\ net' = net \o Message \o server.art \o Prompt
  /\ server' = [server EXCEPT !.answered = TRUE]
  /\ UNCHANGED <<program, received>>
ServerCloses ==
  /\ pc # "connect" /\ ~server.closed
  /\ server' = [server EXCEPT !.closed = TRUE]
  /\ UNCHANGED <<program, net, received>>

FigletNext == Client \/ Greet \/ Answer \/ ServerCloses

FigletSpec == FigletInit /\ [][FigletNext]_figletVars /\ WF_figletVars(Client)

-----------------------------------------------------------------------------
\* When the client prints and there was still time, it prints the whole answer
\* to its command and nothing else, however the bytes came; unless the server
\* says what looks like a prompt before it prompts.  When the time was over,
\* it prints what it has with status 0 (main.c:68-74, 142-188).
PrintedIsAnswer ==
  pc = "done" /\ rc = 0 /\ timeout > 0 =>
    \/ HasPrompt(server.banner) \/ HasPrompt(Message \o server.art)
    \/ output = Printable(server.art)

\* The client ends, whether the server says anything or not, as long as it
\* does not close: then read gives 0 and the loops go on (main.c:142-187).
EndsUnlessClosed == <>(pc = "done" \/ server.closed)
=============================================================================
