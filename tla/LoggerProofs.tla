---------------------------- MODULE LoggerProofs ----------------------------
(***************************************************************************)
(* Proofs about Logger, for any number of fuzzers, records and sinks and   *)
(* any number of failing stdio calls.                                      *)
(*                                                                         *)
(* The inductive invariant says who holds the mutex (LockInv), what the    *)
(* place inside a call implies (CallInv), whose stack the shared buffer    *)
(* holds (TraceInv), that nothing written is newer than the clock or than  *)
(* a FATAL record being written (StampInv), and that the only unfinished   *)
(* record in a sink is the one at its end, by the holder (WholeInv); and,  *)
(* for the records that must all be there in the end, how far each thread  *)
(* is (StageInv, FirstInv), that a line in a sink is one its thread is     *)
(* through with, and there once (LineInv), and that, until a stdio call    *)
(* fails, each line a thread is through with is there (ThereInv).          *)
(*                                                                         *)
(* That nobody waits for ever has two invariants of its own: where the     *)
(* holder of the mutex is (HolderInv) and what main has left to join       *)
(* (RunInv).                                                               *)
(***************************************************************************)
EXTENDS Logger, TLAPS

Logging == {"write", "symbols", "back", "unlock"}
Inside == {"trace", "stamp"} \cup Logging

LockInv ==
  /\ \A t \in Threads : pc[t] \in Inside => m = t
  /\ stage \in {"enabling", "closing"} => m = Main
  /\ stage = "enabling" => args # <<>>
  /\ pc[Main] # "idle" => stage \in {"started", "ended"}

CallInv ==
  \A t \in Threads :
    /\ pc[t] \in {"trace", "stamp", "symbols", "back"} => level[t] = "fatal"
    /\ pc[t] \in {"trace", "stamp", "write"} => part[t] \in 1..3
    /\ pc[t] = "symbols" => part[t] = 1
    /\ pc[t] = "back" => part[t] \in 1..2

TraceInv ==
  \A t \in Threads :
    /\ pc[t] \in {"stamp", "write", "symbols"} /\ level[t] = "fatal" =>
          btbuf = <<t, n[t]>>
    /\ pc[t] = "back" => bts[t] = <<t, n[t]>>

StampInv ==
  /\ \A t \in Threads : stamp[t] <= clock
  /\ \A s \in 1..MaxSinks : \A i \in 1..Len(out[s]) : out[s][i].rec.stamp <= clock
  /\ \A t \in Threads :
       pc[t] \in Logging /\ level[t] = "fatal" =>
         \A s \in 1..MaxSinks : \A i \in 1..Len(out[s]) :
           out[s][i].rec.stamp <= stamp[t]

\* The record at place i of what sink s received is finished, or it is being
\* written and nothing else follows it.
Settled(s, i) == out[s][i].rec.no < n[out[s][i].rec.thread]
Current(s, i) ==
  LET t == out[s][i].rec.thread IN
    /\ pc[t] \in Logging
    /\ out[s][i].rec = Rec(t)
    /\ \A j \in i..Len(out[s]) : out[s][j].rec = Rec(t)

WholeInv ==
  \A s \in 1..MaxSinks : \A i \in 1..Len(out[s]) : Settled(s, i) \/ Current(s, i)

\* How far main and the fuzzers are: nobody logs before the sinks are open or
\* after the fuzzers were joined, but main.
Before == {"init", "usage", "enable", "enabling", "misused", "started"}
StageInv ==
  /\ stage \in Before =>
       created = {} /\ \A t \in Threads : n[t] = 0 /\ (t # Main => pc[t] = "idle")
  /\ stage \in {"deinit", "closing"} => n[Main] = 2
  /\ stage \in {"create", "join", "ended"} => n[Main] = 1
  /\ stage \in {"ended", "deinit", "closing"} =>
       \A f \in Fuzzers : n[f] = Iterations /\ pc[f] = "idle"

\* The pass that writes a FATAL record, too, starts at the first sink.
FirstInv == \A t \in Threads : pc[t] \in {"trace", "stamp"} => slot[t] = 1

\* Thread t is through with the line of its record k in sink s.
Through(s, t, k) ==
  \/ k < n[t]
  \/ k = n[t] /\ pc[t] = "write" /\ slot[t] > s
  \/ k = n[t] /\ pc[t] \in {"symbols", "back", "unlock"}

\* A line that is there was finished, and only once.
LineInv ==
  \A s \in 1..MaxSinks : \A t \in Threads : \A i \in Logged(s, t) :
    /\ Through(s, t, out[s][i].rec.no)
    /\ \A j \in Logged(s, t) : out[s][j].rec.no = out[s][i].rec.no => i = j

\* A line that was finished is there, unless some stdio call failed.
ThereInv ==
  drops = 0 =>
    \A s \in 1..Len(sinks) : \A t \in Threads : \A k \in 0..n[t] :
      Through(s, t, k) => \E i \in Logged(s, t) : out[s][i].rec.no = k

IInv == /\ TypeOK /\ LockInv /\ CallInv /\ TraceInv /\ StampInv /\ WholeInv
        /\ OwnBacktrace /\ FatalIsNewest /\ RecordsUnbroken
        /\ StageInv /\ FirstInv /\ LineInv /\ ThereInv

-----------------------------------------------------------------------------
LEMMA MainThread ==
  /\ Main \in Threads /\ Main \notin Fuzzers /\ NoThread \notin Threads
  /\ NoTrace \in (Threads \cup {NoThread}) \X Nat
  /\ MaxSinks \in Nat /\ MaxDrops \in Nat
BY ThreadsAssumption, LimitsAssumption DEF Threads, NoTrace

\* A function stays in its set when one value is replaced by another.
LEMMA Replaced ==
  ASSUME NEW S, NEW T, NEW f \in [S -> T], NEW x, NEW y \in T
  PROVE  [f EXCEPT ![x] = y] \in [S -> T]
OBVIOUS

LEMMA Steps ==
  ASSUME TypeOK, NEW t \in Threads
  PROVE  /\ slot \in [Threads -> Nat \ {0}] /\ part \in [Threads -> Nat \ {0}]
         /\ clock \in Nat /\ stamp \in [Threads -> Nat]
         /\ [slot EXCEPT ![t] = 1] \in [Threads -> Nat \ {0}]
         /\ [slot EXCEPT ![t] = @ + 1] \in [Threads -> Nat \ {0}]
         /\ [part EXCEPT ![t] = 1] \in [Threads -> Nat \ {0}]
         /\ [part EXCEPT ![t] = @ + 1] \in [Threads -> Nat \ {0}]
         /\ clock + 1 \in Nat
         /\ [stamp EXCEPT ![t] = clock + 1] \in [Threads -> Nat]
         /\ [n EXCEPT ![t] = @ + 1] \in [Threads -> Nat]
         /\ [bts EXCEPT ![t] = NoTrace] \in [Threads -> (Threads \cup {NoThread}) \X Nat]
<1> DEFINE P == Nat \ {0}
<1>1. /\ slot \in [Threads -> P] /\ part \in [Threads -> P]
      /\ n \in [Threads -> Nat] /\ stamp \in [Threads -> Nat] /\ clock \in Nat
      /\ bts \in [Threads -> (Threads \cup {NoThread}) \X Nat]
  BY DEF TypeOK
<1>2. slot[t] + 1 \in P /\ part[t] + 1 \in P /\ n[t] + 1 \in Nat /\ 1 \in P
  BY <1>1
<1>3. clock + 1 \in Nat /\ NoTrace \in (Threads \cup {NoThread}) \X Nat
  BY <1>1, MainThread
<1> HIDE DEF P
<1>4. [slot EXCEPT ![t] = 1] \in [Threads -> P] /\ [slot EXCEPT ![t] = slot[t] + 1] \in [Threads -> P]
  BY <1>1, <1>2, Replaced
<1>5. [part EXCEPT ![t] = 1] \in [Threads -> P] /\ [part EXCEPT ![t] = part[t] + 1] \in [Threads -> P]
  BY <1>1, <1>2, Replaced
<1>6. [stamp EXCEPT ![t] = clock + 1] \in [Threads -> Nat]
  BY <1>1, <1>3, Replaced
<1>7. [n EXCEPT ![t] = n[t] + 1] \in [Threads -> Nat]
  BY <1>1, <1>2, Replaced
<1>8. [bts EXCEPT ![t] = NoTrace] \in [Threads -> (Threads \cup {NoThread}) \X Nat]
  BY <1>1, <1>3, Replaced
<1>9. QED
  BY <1>1, <1>3, <1>4, <1>5, <1>6, <1>7, <1>8 DEF P

\* Every action keeps the types.
LEMMA TypeStep ==
  ASSUME TypeOK, LockInv, CallInv, Next
  PROVE  TypeOK'
<1> USE MainThread
<1>1. CASE MainStep
  <2>1. CASE LoggerInit
    <3>1. <<>> \in Seq(Kinds) /\ Len(<<>>) <= MaxSinks
      OBVIOUS
    <3>2. QED
      BY <2>1, <3>1 DEF TypeOK, LoggerInit, callVars
  <2>2. CASE Usage
    BY <2>2 DEF TypeOK, Usage, callVars
  <2>3. CASE EnableLock
    BY <2>3 DEF TypeOK, EnableLock, callVars
  <2>4. CASE Enable
    <3>1. args # <<>>
      BY <2>4 DEF TypeOK, Enable, LockInv
    <3>2. QED
      <4>1. args' \in Seq(Kinds)
        BY <2>4, <3>1 DEF TypeOK, Enable
      <4>2. sinks' \in Seq(Kinds) /\ Len(sinks') <= MaxSinks
        <5>1. sinks \in Seq(Kinds) /\ Len(sinks) <= MaxSinks /\ Head(args) \in Kinds
          BY <3>1 DEF TypeOK
        <5>2. \/ Len(sinks) < MaxSinks /\ sinks' = Append(sinks, Head(args))
              \/ sinks' = sinks
          BY <2>4, <5>1 DEF Enable, SinksFull
        <5>3. QED
          BY <5>1, <5>2
      <4>3. /\ UNCHANGED <<created, initialized, btbuf, callVars, clock, drops, out>>
            /\ m' = NoThread /\ stage' = "enable"
        BY <2>4 DEF Enable
      <4>4. QED
        BY <4>1, <4>2, <4>3 DEF TypeOK, callVars
  <2>5. CASE AllEnabled
    BY <2>5 DEF TypeOK, AllEnabled, callVars
  <2>6. CASE CreateFuzzer
    BY <2>6 DEF TypeOK, CreateFuzzer, callVars, After
  <2>7. CASE Join
    BY <2>7 DEF TypeOK, Join, callVars, After
  <2>8. CASE DeinitLock
    <3>1. slot' \in [Threads -> Nat \ {0}]
      BY <2>8 DEF TypeOK, DeinitLock
    <3>2. QED
      BY <2>8, <3>1 DEF TypeOK, DeinitLock
  <2>9. CASE CloseSink
    <3>1. slot' \in [Threads -> Nat \ {0}]
      <4>1. slot' = slot \/ slot' = [slot EXCEPT ![Main] = @ + 1]
        BY <2>9 DEF CloseSink
      <4>2. QED
        BY <4>1, Steps
    <3>2. QED
      BY <2>9, <3>1 DEF TypeOK, CloseSink, After
  <2>10. CASE MutexDestroy
    <3>1. <<>> \in Seq(Kinds) /\ Len(<<>>) <= MaxSinks
      OBVIOUS
    <3>2. QED
      BY <2>10, <3>1 DEF TypeOK, MutexDestroy, callVars, After
  <2>11. QED
    BY <1>1, <2>1, <2>2, <2>3, <2>4, <2>5, <2>6, <2>7, <2>8, <2>9, <2>10 DEF MainStep
<1>2. ASSUME NEW t \in Threads, LogStep(t)
      PROVE  TypeOK'
  <2>1. CASE Call(t)
    <3>1. level' \in [Threads -> {"log", "fatal"}]
      BY <2>1 DEF TypeOK, Call
    <3>2. clock' \in Nat /\ stamp' \in [Threads -> Nat]
      <4>1. \/ clock' = clock + 1 /\ stamp' = [stamp EXCEPT ![t] = clock + 1]
            \/ clock' = clock /\ stamp' = stamp
        BY <2>1 DEF Call, TakeStamp, NoStamp
      <4>2. QED
        BY <4>1, Steps
    <3>3. QED
      BY <2>1, <3>1, <3>2 DEF TypeOK, Call, Goto, mainVars
  <2>2. CASE Lock(t)
    <3>1. slot' \in [Threads -> Nat \ {0}] /\ part' \in [Threads -> Nat \ {0}]
      BY <2>2, Steps DEF Lock
    <3>2. QED
      BY <2>2, <3>1 DEF TypeOK, Lock, Goto, mainVars
  <2>3. CASE Backtrace(t)
    BY <2>3 DEF TypeOK, Backtrace, Goto, mainVars
  <2>4. CASE FatalStamp(t)
    <3>1. clock' \in Nat /\ stamp' \in [Threads -> Nat]
      <4>1. \/ clock' = clock + 1 /\ stamp' = [stamp EXCEPT ![t] = clock + 1]
            \/ clock' = clock /\ stamp' = stamp
        BY <2>4 DEF FatalStamp, TakeStamp, NoStamp
      <4>2. QED
        BY <4>1, Steps
    <3>2. QED
      BY <2>4, <3>1 DEF TypeOK, FatalStamp, Goto, mainVars
  <2>5. CASE PrintRecord(t)
    <3> DEFINE piece == [rec |-> Rec(t), part |-> Parts(pc[t])[part[t]], trace |-> bts[t]]
    <3>1. Rec(t) \in Record
      BY DEF TypeOK, Rec, Record
    <3>2. Parts(pc[t])[part[t]] \in {"prefix", "message", "newline", "title", "frames"}
      <4>1. CASE pc[t] = "write"
        BY <2>5, <4>1 DEF CallInv, Parts, LogParts
      <4>2. CASE pc[t] = "back"
        BY <2>5, <4>2 DEF CallInv, Parts, BackParts
      <4>3. QED
        BY <2>5, <4>1, <4>2 DEF PrintRecord
    <3>3. piece \in Written
      BY <3>1, <3>2 DEF TypeOK, Written
    <3>4. slot[t] \in 1..MaxSinks
      <4>1. slot[t] \in Nat \ {0} /\ slot[t] <= Len(sinks) /\ Len(sinks) <= MaxSinks
        BY <2>5 DEF TypeOK, PrintRecord
      <4>2. Len(sinks) \in Nat
        BY DEF TypeOK
      <4>3. QED
        BY <4>1, <4>2
    <3>5. out' \in [1..MaxSinks -> Seq(Written)] /\ drops' \in 0..MaxDrops
      <4>1. out \in [1..MaxSinks -> Seq(Written)] /\ drops \in 0..MaxDrops
        BY DEF TypeOK
      <4>2. \/ out' = [out EXCEPT ![slot[t]] = Append(@, piece)] /\ drops' = drops
            \/ drops < MaxDrops /\ drops' = drops + 1 /\ out' = out
        BY <2>5 DEF PrintRecord
      <4>3. Append(out[slot[t]], piece) \in Seq(Written)
        BY <3>3, <3>4, <4>1
      <4> HIDE DEF piece
      <4>4. [out EXCEPT ![slot[t]] = Append(@, piece)] \in [1..MaxSinks -> Seq(Written)]
        BY <4>1, <4>3, Replaced
      <4>5. out' \in [1..MaxSinks -> Seq(Written)]
        BY <4>1, <4>2, <4>4
      <4>6. drops' \in 0..MaxDrops
        BY <4>1, <4>2
      <4>7. QED
        BY <4>5, <4>6
    <3>6. part' \in [Threads -> Nat \ {0}] /\ slot' \in [Threads -> Nat \ {0}]
      <4>1. \/ part' = [part EXCEPT ![t] = @ + 1] /\ slot' = slot
            \/ part' = [part EXCEPT ![t] = 1] /\ slot' = [slot EXCEPT ![t] = @ + 1]
        BY <2>5 DEF PrintRecord
      <4>2. QED
        BY <4>1, Steps
    <3>7. QED
      BY <2>5, <3>5, <3>6 DEF TypeOK, PrintRecord, mainVars
  <2>6. CASE PassDone(t)
    <3>1. slot' \in [Threads -> Nat \ {0}] /\ part' \in [Threads -> Nat \ {0}]
      BY <2>6, Steps DEF PassDone
    <3>2. QED
      BY <2>6, <3>1 DEF TypeOK, PassDone, Goto, AfterPass, mainVars
  <2>7. CASE Symbols(t)
    BY <2>7 DEF TypeOK, Symbols, Goto, mainVars
  <2>8. CASE Unlock(t)
    <3>1. t = Main => stage \in {"started", "ended"}
      BY <2>8 DEF Unlock, LockInv
    <3>2. stage' \in {"init", "usage", "enable", "enabling", "started", "create",
                      "join", "ended", "deinit", "closing", "exit", "misused"}
      BY <2>8, <3>1 DEF TypeOK, Unlock, After
    <3>3. /\ n' \in [Threads -> Nat]
          /\ bts' \in [Threads -> (Threads \cup {NoThread}) \X Nat]
      BY <2>8, Steps DEF Unlock
    <3>4. QED
      BY <2>8, <3>2, <3>3 DEF TypeOK, Unlock, Goto
  <2>9. QED
    BY <1>2, <2>1, <2>2, <2>3, <2>4, <2>5, <2>6, <2>7, <2>8 DEF LogStep
<1>3. QED
  BY <1>1, <1>2 DEF Next

-----------------------------------------------------------------------------
\* The mutex has one holder, and main waits for its own calls.
LEMMA LockStep ==
  ASSUME TypeOK, LockInv, Next
  PROVE  LockInv'
<1> USE MainThread
<1>1. CASE MainStep
  <2>1. CASE EnableLock
    <3>1. \A t \in Threads : pc[t] \notin Inside
      BY <2>1 DEF EnableLock, LockInv
    <3>2. QED
      BY <2>1, <3>1 DEF EnableLock, LockInv, callVars, Inside, Logging
  <2>2. CASE Enable
    <3>1. pc[Main] = "idle" /\ \A t \in Threads : pc[t] \in Inside => t = Main
      BY <2>2 DEF Enable, LockInv
    <3>2. \A t \in Threads : pc[t] \notin Inside
      BY <3>1 DEF Inside, Logging
    <3>3. QED
      BY <2>2, <3>1, <3>2 DEF Enable, LockInv, callVars
  <2>3. CASE DeinitLock
    <3>1. \A t \in Threads : pc[t] \notin Inside
      BY <2>3 DEF DeinitLock, LockInv
    <3>2. QED
      BY <2>3, <3>1 DEF DeinitLock, LockInv
  <2>4. CASE LoggerInit \/ Usage
    BY <2>4 DEF LoggerInit, Usage, LockInv, callVars
  <2>5. CASE AllEnabled
    BY <2>5 DEF AllEnabled, LockInv, callVars
  <2>6. CASE CreateFuzzer
    BY <2>6 DEF CreateFuzzer, LockInv, callVars, After
  <2>7. CASE Join
    BY <2>7 DEF Join, LockInv, callVars, After
  <2>8. CASE CloseSink
    BY <2>8 DEF CloseSink, LockInv, After
  <2>9. CASE MutexDestroy
    BY <2>9 DEF MutexDestroy, LockInv, callVars, After
  <2>10. QED
    BY <1>1, <2>1, <2>2, <2>3, <2>4, <2>5, <2>6, <2>7, <2>8, <2>9 DEF MainStep
<1>2. ASSUME NEW t \in Threads, LogStep(t)
      PROVE  LockInv'
  <2> pc \in [Threads -> {"idle", "wait", "trace", "stamp", "write", "symbols",
                          "back", "unlock"}]
    BY DEF TypeOK
  <2>1. CASE Call(t)
    BY <2>1 DEF Call, HasCall, Goto, LockInv, mainVars, Inside, Logging
  <2>2. CASE Lock(t)
    <3>1. m = NoThread /\ m' = t /\ pc[t] = "wait"
      BY <2>2 DEF Lock, MayEnter
    <3>2. \A u \in Threads : u # t => pc'[u] \notin Inside
      BY <2>2, <3>1 DEF Lock, Goto, LockInv
    <3>3. QED
      BY <2>2, <3>1, <3>2 DEF Lock, Goto, LockInv, mainVars
  <2>3. CASE Backtrace(t) \/ FatalStamp(t) \/ PassDone(t) \/ Symbols(t)
    <3>1. pc[t] \in Inside /\ m' = m /\ UNCHANGED mainVars
      BY <2>3 DEF Backtrace, FatalStamp, PassDone, Symbols, Inside, Logging
    <3>2. \A u \in Threads : u # t => pc'[u] = pc[u]
      BY <2>3 DEF Backtrace, FatalStamp, PassDone, Symbols, Goto
    <3>3. pc[t] # "idle"
      BY <3>1 DEF Inside, Logging
    <3>4. QED
      BY <3>1, <3>2, <3>3 DEF LockInv, mainVars
  <2>4. CASE PrintRecord(t)
    BY <2>4 DEF PrintRecord, LockInv, mainVars
  <2>5. CASE Unlock(t)
    <3>1. m = t /\ pc' = [pc EXCEPT ![t] = "idle"] /\ args' = args
      BY <2>5 DEF Unlock, Goto, LockInv, Inside, Logging
    <3>2. \A u \in Threads : pc'[u] \notin Inside
      BY <3>1 DEF LockInv, Inside, Logging
    <3>3. CASE t = Main
      BY <2>5, <3>1, <3>2, <3>3 DEF Unlock, LockInv, After
    <3>4. CASE t # Main
      BY <2>5, <3>1, <3>2, <3>4 DEF Unlock, LockInv
    <3>5. QED
      BY <3>3, <3>4
  <2>6. QED
    BY <1>2, <2>1, <2>2, <2>3, <2>4, <2>5 DEF LogStep
<1>3. QED
  BY <1>1, <1>2 DEF Next

\* main's own steps leave what a logging call uses alone.
LEMMA MainQuiet ==
  ASSUME MainStep
  PROVE  /\ UNCHANGED <<btbuf, pc, level, stamp, bts, part, n, clock, out>>
BY DEF MainStep, LoggerInit, Usage, EnableLock, Enable, AllEnabled, CreateFuzzer, Join,
       DeinitLock, CloseSink, MutexDestroy, callVars

LEMMA CallStep ==
  ASSUME TypeOK, CallInv, Next
  PROVE  CallInv'
<1>1. CASE MainStep
  BY <1>1, MainQuiet DEF CallInv
<1>2. ASSUME NEW t \in Threads, LogStep(t)
      PROVE  CallInv'
  <2>0. /\ pc \in [Threads -> {"idle", "wait", "trace", "stamp", "write", "symbols",
                               "back", "unlock"}]
        /\ part \in [Threads -> Nat \ {0}]
        /\ level \in [Threads -> {"log", "fatal"}]
    BY DEF TypeOK
  <2>1. CASE Call(t)
    BY <2>0, <2>1 DEF CallInv, Call, Goto
  <2>2. CASE Lock(t)
    BY <2>0, <2>2 DEF CallInv, Lock, Goto
  <2>3. CASE Backtrace(t)
    BY <2>0, <2>3 DEF CallInv, Backtrace, Goto
  <2>4. CASE FatalStamp(t)
    <3>1. /\ pc[t] = "stamp" /\ pc' = [pc EXCEPT ![t] = "write"]
          /\ level' = level /\ part' = part
      BY <2>4 DEF FatalStamp, Goto
    <3>2. part[t] \in 1..3
      BY <2>4 DEF FatalStamp, CallInv
    <3>3. QED
      BY <2>0, <3>1, <3>2 DEF CallInv
  <2>5. CASE PrintRecord(t)
    <3>1. pc' = pc /\ level' = level /\ pc[t] \in {"write", "back"}
      BY <2>5 DEF PrintRecord
    <3>2. \A u \in Threads : u # t => part'[u] = part[u]
      BY <2>0, <2>5 DEF PrintRecord
    <3>3. \/ part[t] < Len(Parts(pc[t])) /\ part'[t] = part[t] + 1
          \/ part'[t] = 1
      BY <2>0, <2>5 DEF PrintRecord
    <3>4. pc[t] = "write" => Len(Parts(pc[t])) = 3
      BY DEF Parts, LogParts
    <3>5. pc[t] = "back" => Len(Parts(pc[t])) = 2
      BY DEF Parts, BackParts
    <3>6. part[t] \in Nat \ {0}
      BY <2>0
    <3>7. QED
      BY <3>1, <3>2, <3>3, <3>4, <3>5, <3>6 DEF CallInv
  <2>6. CASE PassDone(t)
    BY <2>0, <2>6 DEF CallInv, PassDone, AfterPass, Goto
  <2>7. CASE Symbols(t)
    BY <2>0, <2>7 DEF CallInv, Symbols, Goto
  <2>8. CASE Unlock(t)
    BY <2>0, <2>8 DEF CallInv, Unlock, Goto
  <2>9. QED
    BY <1>2, <2>1, <2>2, <2>3, <2>4, <2>5, <2>6, <2>7, <2>8 DEF LogStep
<1>3. QED
  BY <1>1, <1>2 DEF Next

\* While a thread is inside, no other is.
LEMMA Alone ==
  ASSUME LockInv, NEW t \in Threads, NEW u \in Threads,
         pc[t] \in Inside, pc[u] \in Inside
  PROVE  t = u
BY DEF LockInv

\* The shared buffer holds the stack of the FATAL call that is being written.
LEMMA TraceStep ==
  ASSUME TypeOK, LockInv, CallInv, TraceInv, Next
  PROVE  TraceInv'
<1>1. CASE MainStep
  BY <1>1, MainQuiet DEF TraceInv
<1>2. ASSUME NEW t \in Threads, LogStep(t)
      PROVE  TraceInv'
  <2>0. /\ pc \in [Threads -> {"idle", "wait", "trace", "stamp", "write", "symbols",
                               "back", "unlock"}]
        /\ level \in [Threads -> {"log", "fatal"}]
        /\ n \in [Threads -> Nat]
        /\ bts \in [Threads -> (Threads \cup {NoThread}) \X Nat]
    BY DEF TypeOK
  <2>1. CASE Call(t)
    BY <2>0, <2>1 DEF TraceInv, Call, Goto
  <2>2. CASE Lock(t)
    BY <2>0, <2>2 DEF TraceInv, Lock, Goto
  <2>3. CASE Backtrace(t)
    <3>1. pc[t] \in Inside
      BY <2>3 DEF Backtrace, Inside
    <3>2. \A u \in Threads : u # t => pc'[u] \notin Inside /\ pc'[u] = pc[u]
      BY <2>0, <2>3, <3>1, Alone DEF Backtrace, Goto
    <3>3. pc'[t] = "stamp" /\ btbuf' = <<t, n[t]>> /\ n' = n
      BY <2>0, <2>3 DEF Backtrace, Goto
    <3>4. QED
      BY <3>2, <3>3 DEF TraceInv, Inside, Logging
  <2>4. CASE FatalStamp(t)
    BY <2>0, <2>4 DEF TraceInv, CallInv, FatalStamp, Goto
  <2>5. CASE PrintRecord(t)
    BY <2>5 DEF TraceInv, PrintRecord
  <2>6. CASE PassDone(t)
    BY <2>0, <2>6 DEF TraceInv, PassDone, AfterPass, Goto
  <2>7. CASE Symbols(t)
    <3>1. pc[t] = "symbols" /\ level[t] = "fatal"
      BY <2>7 DEF CallInv, Symbols
    <3>2. btbuf = <<t, n[t]>>
      BY <3>1 DEF TraceInv
    <3>3. QED
      BY <2>0, <2>7, <3>2 DEF TraceInv, Symbols, Goto
  <2>8. CASE Unlock(t)
    BY <2>0, <2>8 DEF TraceInv, Unlock, Goto
  <2>9. QED
    BY <1>2, <2>1, <2>2, <2>3, <2>4, <2>5, <2>6, <2>7, <2>8 DEF LogStep
<1>3. QED
  BY <1>1, <1>2 DEF Next

-----------------------------------------------------------------------------
LEMMA WrittenTypes ==
  ASSUME TypeOK, NEW s \in 1..MaxSinks
  PROVE  /\ Len(out[s]) \in Nat
         /\ \A i \in 1..Len(out[s]) :
              /\ out[s][i].rec.thread \in Threads
              /\ out[s][i].rec.no \in Nat
              /\ out[s][i].rec.stamp \in Nat
<1>1. out[s] \in Seq(Written)
  BY DEF TypeOK
<1>2. Len(out[s]) \in Nat
  BY <1>1
<1>3. ASSUME NEW i \in 1..Len(out[s])
      PROVE  /\ out[s][i].rec.thread \in Threads
             /\ out[s][i].rec.no \in Nat
             /\ out[s][i].rec.stamp \in Nat
  <2>1. out[s][i] \in Written
    BY <1>1, <1>3
  <2>2. out[s][i].rec \in Record
    BY <2>1 DEF Written
  <2>3. QED
    BY <2>2 DEF Record
<1>4. QED
  BY <1>2, <1>3

\* Only a stdio call changes a sink: one call is added to it at most.
Added(t, s, i) ==
  /\ i = Len(out[s]) + 1
  /\ out'[s][i].rec = Rec(t)
  /\ out'[s][i].part = "frames" => pc[t] = "back"
  /\ out'[s][i].trace = bts[t]

LEMMA PrintAdds ==
  ASSUME TypeOK, CallInv, NEW t \in Threads, PrintRecord(t), NEW s \in 1..MaxSinks
  PROVE  /\ Len(out'[s]) \in {Len(out[s]), Len(out[s]) + 1}
         /\ \A i \in 1..Len(out'[s]) :
              \/ i \in 1..Len(out[s]) /\ out'[s][i] = out[s][i]
              \/ Added(t, s, i)
<1> DEFINE piece == [rec |-> Rec(t), part |-> Parts(pc[t])[part[t]], trace |-> bts[t]]
<1>1. out[s] \in Seq(Written) /\ Len(out[s]) \in Nat
  <2>1. out[s] \in Seq(Written)
    BY DEF TypeOK
  <2>2. QED
    BY <2>1
<1>2. CASE out' = out
  BY <1>1, <1>2
<1>3. CASE out' = [out EXCEPT ![slot[t]] = Append(@, piece)]
  <2>1. CASE s # slot[t]
    BY <1>1, <1>3, <2>1 DEF TypeOK
  <2>2. CASE s = slot[t]
    <3>1. out'[s] = Append(out[s], piece)
      BY <1>3, <2>2 DEF TypeOK
    <3>2. /\ Len(out'[s]) = Len(out[s]) + 1
          /\ out'[s][Len(out[s]) + 1] = piece
          /\ \A i \in 1..Len(out[s]) : out'[s][i] = out[s][i]
      BY <1>1, <3>1
    <3>3. piece.part = "frames" => pc[t] = "back"
      <4>1. SUFFICES ASSUME pc[t] = "write"
                     PROVE  piece.part # "frames"
        BY DEF PrintRecord
      <4>2. QED
        BY <4>1 DEF CallInv, Parts, LogParts
    <3>4. Added(t, s, Len(out[s]) + 1)
      BY <3>2, <3>3 DEF Added
    <3>5. QED
      BY <1>1, <3>2, <3>4
  <2>3. QED
    BY <2>1, <2>2
<1>4. QED
  BY <1>2, <1>3 DEF PrintRecord

LEMMA OnlyPrint ==
  ASSUME Next, ~\E t \in Threads : PrintRecord(t)
  PROVE  out' = out
BY MainQuiet DEF Next, LogStep, Call, Lock, Backtrace, FatalStamp, PassDone, Symbols, Unlock

\* Stamps written are in the past, and before that of a FATAL record.
LEMMA StampStep ==
  ASSUME TypeOK, LockInv, CallInv, StampInv, Next
  PROVE  StampInv'
<1>0. /\ pc \in [Threads -> {"idle", "wait", "trace", "stamp", "write", "symbols",
                             "back", "unlock"}]
      /\ level \in [Threads -> {"log", "fatal"}]
      /\ stamp \in [Threads -> Nat] /\ clock \in Nat
  BY DEF TypeOK
<1>1. ASSUME out' = out, clock' = clock, stamp' = stamp,
             \A t \in Threads : pc'[t] \in Logging /\ level'[t] = "fatal" =>
                                 pc[t] \in Logging /\ level[t] = "fatal"
      PROVE  StampInv'
  BY <1>1 DEF StampInv
<1>2. CASE MainStep
  BY <1>1, <1>2, MainQuiet
<1>3. ASSUME NEW t \in Threads, LogStep(t)
      PROVE  StampInv'
  <2>1. CASE Call(t)
    <3>1. /\ pc' = [pc EXCEPT ![t] = "wait"] /\ out' = out
          /\ \A u \in Threads : u # t => level'[u] = level[u]
      BY <1>0, <2>1 DEF Call, Goto
    <3>2. \/ clock' = clock + 1 /\ stamp' = [stamp EXCEPT ![t] = clock + 1]
          \/ clock' = clock /\ stamp' = stamp
      BY <2>1 DEF Call, TakeStamp, NoStamp
    <3>3. clock' \in Nat /\ clock <= clock' /\ \A u \in Threads : stamp'[u] <= clock'
      BY <1>0, <3>2 DEF StampInv
    <3>4. \A s \in 1..MaxSinks : \A i \in 1..Len(out[s]) : out[s][i].rec.stamp <= clock'
      BY <1>0, <3>3, WrittenTypes DEF StampInv
    <3>5. \A u \in Threads : pc'[u] \in Logging => u # t /\ pc'[u] = pc[u]
      BY <1>0, <3>1 DEF Logging
    <3>6. \A u \in Threads : u # t => stamp'[u] = stamp[u]
      BY <1>0, <3>2
    <3>7. QED
      BY <3>1, <3>3, <3>4, <3>5, <3>6 DEF StampInv
  <2>2. CASE Lock(t)
    BY <1>0, <1>1, <2>2 DEF Lock, Goto, Logging
  <2>3. CASE Backtrace(t)
    BY <1>0, <1>1, <2>3 DEF Backtrace, Goto, Logging
  <2>4. CASE FatalStamp(t)
    <3>1. /\ pc' = [pc EXCEPT ![t] = "write"] /\ out' = out /\ level' = level
          /\ pc[t] \in Inside /\ level[t] = "fatal"
      BY <2>4 DEF FatalStamp, Goto, Inside, CallInv
    <3>2. clock' = clock + 1 /\ stamp' = [stamp EXCEPT ![t] = clock + 1]
      BY <2>4, <3>1 DEF FatalStamp, TakeStamp, Stamps
    <3>3. clock' \in Nat /\ clock <= clock' /\ \A u \in Threads : stamp'[u] <= clock'
      BY <1>0, <3>2 DEF StampInv
    <3>4. \A s \in 1..MaxSinks : \A i \in 1..Len(out[s]) : out[s][i].rec.stamp <= clock'
      BY <1>0, <3>3, WrittenTypes DEF StampInv
    <3>5. \A u \in Threads : pc'[u] \in Logging => u = t
      BY <1>0, <3>1, Alone DEF Inside, Logging
    <3>6. stamp'[t] = clock'
      BY <1>0, <3>2
    <3>7. QED
      BY <3>1, <3>3, <3>4, <3>5, <3>6 DEF StampInv
  <2>5. CASE PrintRecord(t)
    <3>1. /\ UNCHANGED <<pc, level, stamp, clock>>
          /\ pc[t] \in Logging
      BY <2>5 DEF PrintRecord, Logging
    <3>2. \A s \in 1..MaxSinks : \A i \in 1..Len(out'[s]) :
            \/ i \in 1..Len(out[s]) /\ out'[s][i].rec.stamp = out[s][i].rec.stamp
            \/ out'[s][i].rec.stamp = stamp[t]
      <4>1. Rec(t).stamp = stamp[t]
        BY DEF Rec
      <4>2. ASSUME NEW s \in 1..MaxSinks, NEW i \in 1..Len(out'[s])
            PROVE  \/ i \in 1..Len(out[s]) /\ out'[s][i] = out[s][i]
                   \/ out'[s][i].rec = Rec(t)
        <5>1. \/ i \in 1..Len(out[s]) /\ out'[s][i] = out[s][i]
              \/ Added(t, s, i)
          BY <2>5, PrintAdds
        <5>2. QED
          BY <5>1 DEF Added
      <4>3. QED
        BY <4>1, <4>2
    <3>3. \A s \in 1..MaxSinks : \A i \in 1..Len(out'[s]) : out'[s][i].rec.stamp <= clock
      BY <3>2 DEF StampInv
    <3>4. \A u \in Threads : pc[u] \in Logging => u = t
      BY <3>1, Alone DEF Inside
    <3>5. ASSUME level[t] = "fatal", NEW s \in 1..MaxSinks, NEW i \in 1..Len(out'[s])
          PROVE  out'[s][i].rec.stamp <= stamp[t]
      <4>1. CASE out'[s][i].rec.stamp = stamp[t]
        BY <1>0, <4>1
      <4>2. CASE i \in 1..Len(out[s]) /\ out'[s][i].rec.stamp = out[s][i].rec.stamp
        BY <3>1, <3>5, <4>2 DEF StampInv
      <4>3. QED
        BY <3>2, <4>1, <4>2
    <3>6. QED
      BY <3>1, <3>3, <3>4, <3>5 DEF StampInv
  <2>6. CASE PassDone(t)
    BY <1>0, <1>1, <2>6 DEF PassDone, AfterPass, Goto, Logging
  <2>7. CASE Symbols(t)
    BY <1>0, <1>1, <2>7 DEF Symbols, Goto, Logging
  <2>8. CASE Unlock(t)
    BY <1>0, <1>1, <2>8 DEF Unlock, Goto, Logging
  <2>9. QED
    BY <1>3, <2>1, <2>2, <2>3, <2>4, <2>5, <2>6, <2>7, <2>8 DEF LogStep
<1>4. QED
  BY <1>2, <1>3 DEF Next

\* An unfinished record is the holder's, and the last in each sink.
LEMMA WholeStep ==
  ASSUME TypeOK, LockInv, CallInv, WholeInv, Next
  PROVE  WholeInv'
<1>0. /\ pc \in [Threads -> {"idle", "wait", "trace", "stamp", "write", "symbols",
                             "back", "unlock"}]
      /\ level \in [Threads -> {"log", "fatal"}]
      /\ stamp \in [Threads -> Nat] /\ n \in [Threads -> Nat]
  BY DEF TypeOK
<1>1. ASSUME out' = out, n' = n,
             \A t \in Threads : pc[t] \in Logging =>
               /\ pc'[t] \in Logging
               /\ level'[t] = level[t] /\ stamp'[t] = stamp[t]
      PROVE  WholeInv'
  <2> SUFFICES ASSUME NEW s \in 1..MaxSinks, NEW i \in 1..Len(out[s])
               PROVE  Settled(s, i)' \/ Current(s, i)'
    BY <1>1 DEF WholeInv
  <2>1. CASE Settled(s, i)
    BY <1>1, <2>1 DEF Settled
  <2>2. CASE Current(s, i)
    <3> DEFINE u == out[s][i].rec.thread
    <3>1. u \in Threads /\ pc[u] \in Logging
      BY <2>2, WrittenTypes DEF Current
    <3>2. Rec(u)' = Rec(u) /\ pc'[u] \in Logging
      BY <1>1, <3>1 DEF Rec
    <3>3. QED
      BY <1>1, <2>2, <3>2 DEF Current
  <2>3. QED
    BY <2>1, <2>2 DEF WholeInv
<1>2. CASE MainStep
  BY <1>1, <1>2, MainQuiet
<1>3. ASSUME NEW t \in Threads, LogStep(t)
      PROVE  WholeInv'
  <2>1. CASE Call(t)
    BY <1>0, <1>1, <2>1 DEF Call, Goto, Logging, TakeStamp, NoStamp
  <2>2. CASE Lock(t)
    BY <1>0, <1>1, <2>2 DEF Lock, Goto, Logging
  <2>3. CASE Backtrace(t)
    BY <1>0, <1>1, <2>3 DEF Backtrace, Goto, Logging
  <2>4. CASE FatalStamp(t)
    BY <1>0, <1>1, <2>4 DEF FatalStamp, Goto, Logging, TakeStamp, NoStamp
  <2>5. CASE PrintRecord(t)
    <3>1. UNCHANGED <<pc, level, stamp, n>> /\ pc[t] \in Logging
      BY <2>5 DEF PrintRecord, Logging
    <3>2. SUFFICES ASSUME NEW s \in 1..MaxSinks, NEW i \in 1..Len(out'[s])
                   PROVE  Settled(s, i)' \/ Current(s, i)'
      BY DEF WholeInv
    <3>3. Len(out[s]) \in Nat
      BY WrittenTypes
    <3>4. /\ Len(out'[s]) \in {Len(out[s]), Len(out[s]) + 1}
          /\ \A j \in 1..Len(out'[s]) :
               \/ j \in 1..Len(out[s]) /\ out'[s][j] = out[s][j]
               \/ j = Len(out[s]) + 1 /\ out'[s][j].rec = Rec(t)
      BY <2>5, PrintAdds DEF Added
    <3>5. Rec(t)' = Rec(t) /\ Rec(t).thread = t
      BY <3>1 DEF Rec
    <3>6. CASE i = Len(out[s]) + 1 /\ out'[s][i].rec = Rec(t)
      <4>1. \A j \in i..Len(out'[s]) : j = i
        BY <3>3, <3>4, <3>6
      <4>2. QED
        BY <3>1, <3>5, <3>6, <4>1 DEF Current
    <3>7. CASE i \in 1..Len(out[s]) /\ out'[s][i] = out[s][i]
      <4>1. CASE Settled(s, i)
        BY <3>1, <3>7, <4>1 DEF Settled
      <4>2. CASE Current(s, i)
        <5>1. out[s][i].rec.thread = t
          BY <3>1, <3>7, <4>2, WrittenTypes, Alone DEF Current, Inside
        <5>2. out'[s][i].rec = Rec(t)
          BY <3>7, <4>2, <5>1 DEF Current
        <5>3. \A j \in i..Len(out[s]) : out[s][j].rec = Rec(t)
          BY <4>2, <5>1 DEF Current
        <5>4. ASSUME NEW j \in i..Len(out'[s])
              PROVE  out'[s][j].rec = Rec(t)
          <6>1. j \in 1..Len(out'[s])
            BY <3>3, <3>4, <3>7
          <6>2. CASE j \in 1..Len(out[s]) /\ out'[s][j] = out[s][j]
            BY <3>3, <3>7, <5>3, <6>2
          <6>3. QED
            BY <3>4, <6>1, <6>2
        <5>5. QED
          BY <3>1, <3>5, <5>2, <5>4 DEF Current
      <4>3. QED
        BY <3>7, <4>1, <4>2 DEF WholeInv
    <3>8. QED
      BY <3>4, <3>6, <3>7
  <2>6. CASE PassDone(t)
    BY <1>0, <1>1, <2>6 DEF PassDone, AfterPass, Goto, Logging
  <2>7. CASE Symbols(t)
    BY <1>0, <1>1, <2>7 DEF Symbols, Goto, Logging
  <2>8. CASE Unlock(t)
    <3>1. /\ pc[t] \in Logging /\ out' = out
          /\ n' = [n EXCEPT ![t] = @ + 1] /\ pc' = [pc EXCEPT ![t] = "idle"]
      BY <2>8 DEF Unlock, Goto, Logging
    <3>2. SUFFICES ASSUME NEW s \in 1..MaxSinks, NEW i \in 1..Len(out[s])
                   PROVE  Settled(s, i)'
      BY <3>1 DEF WholeInv
    <3> DEFINE u == out[s][i].rec.thread
    <3>3. u \in Threads /\ out[s][i].rec.no \in Nat
      BY WrittenTypes
    <3>4. CASE Settled(s, i)
      <4>1. n[u] \in Nat /\ n'[u] \in {n[u], n[u] + 1}
        BY <1>0, <3>1, <3>3
      <4>2. QED
        BY <3>1, <3>3, <3>4, <4>1 DEF Settled
    <3>5. CASE Current(s, i)
      <4>1. u = t
        BY <3>1, <3>3, <3>5, Alone DEF Current, Inside
      <4>2. out[s][i].rec = Rec(t)
        BY <3>5, <4>1 DEF Current
      <4>3. out[s][i].rec.no = n[t]
        BY <4>2 DEF Rec
      <4>4. QED
        BY <1>0, <3>1, <4>1, <4>3 DEF Settled
    <3>6. QED
      BY <3>4, <3>5 DEF WholeInv
  <2>9. QED
    BY <1>3, <2>1, <2>2, <2>3, <2>4, <2>5, <2>6, <2>7, <2>8 DEF LogStep
<1>4. QED
  BY <1>2, <1>3 DEF Next

-----------------------------------------------------------------------------
\* The records main and the fuzzers have logged, by main's stage.
LEMMA StageStep ==
  ASSUME TypeOK, LockInv, StageInv, Next
  PROVE  StageInv'
<1> USE MainThread DEF Before
<1>0. /\ pc \in [Threads -> {"idle", "wait", "trace", "stamp", "write", "symbols",
                             "back", "unlock"}]
      /\ n \in [Threads -> Nat]
      /\ Fuzzers \subseteq Threads
  BY DEF TypeOK, Threads
<1>1. CASE MainStep
  <2>0. UNCHANGED <<pc, n>>
    BY <1>1, MainQuiet
  <2>1. CASE LoggerInit \/ Usage \/ EnableLock \/ Enable \/ AllEnabled
    BY <2>0, <2>1 DEF LoggerInit, Usage, EnableLock, Enable, AllEnabled, StageInv
  <2>2. CASE CreateFuzzer
    BY <2>0, <2>2 DEF CreateFuzzer, StageInv, After
  <2>3. CASE Join
    BY <2>0, <2>3 DEF Join, Joined, Finished, StageInv, After
  <2>4. CASE DeinitLock \/ CloseSink \/ MutexDestroy
    BY <2>0, <2>4 DEF DeinitLock, CloseSink, MutexDestroy, StageInv, After
  <2>5. QED
    BY <1>1, <2>1, <2>2, <2>3, <2>4 DEF MainStep
<1>2. ASSUME NEW t \in Threads, LogStep(t)
      PROVE  StageInv'
  <2>1. CASE Call(t)
    <3>1. /\ UNCHANGED <<stage, created, n>> /\ pc' = [pc EXCEPT ![t] = "wait"]
          /\ HasCall(t)
      BY <2>1 DEF Call, Goto, mainVars
    <3>2. CASE t = Main
      BY <1>0, <3>1, <3>2 DEF StageInv, HasCall
    <3>3. CASE t # Main
      <4>1. t \in created /\ n[t] < Iterations /\ t \in Fuzzers
        BY <3>1, <3>3 DEF HasCall, Threads
      <4>2. stage \notin Before /\ stage \notin {"ended", "deinit", "closing"}
        <5>1. n[t] \in Nat /\ Iterations \in Nat
          BY <1>0, LimitsAssumption
        <5>2. QED
          BY <4>1, <5>1 DEF StageInv
      <4>3. QED
        BY <3>1, <4>2 DEF StageInv
    <3>4. QED
      BY <3>2, <3>3
  <2>2. CASE Lock(t) \/ Backtrace(t) \/ FatalStamp(t) \/ PassDone(t) \/ Symbols(t)
    <3>1. UNCHANGED <<stage, created, n>> /\ pc[t] # "idle"
      BY <2>2 DEF Lock, Backtrace, FatalStamp, PassDone, Symbols, mainVars
    <3>2. ASSUME NEW u \in Threads, pc[u] = "idle"
          PROVE  pc'[u] = "idle"
      <4>1. u # t
        BY <3>1, <3>2
      <4>2. QED
        BY <1>0, <2>2, <3>2, <4>1 DEF Lock, Backtrace, FatalStamp, PassDone, Symbols, Goto
    <3>3. QED
      BY <1>0, <3>1, <3>2 DEF StageInv
  <2>3. CASE PrintRecord(t)
    BY <2>3 DEF PrintRecord, StageInv, mainVars
  <2>4. CASE Unlock(t)
    <3>1. /\ pc[t] = "unlock" /\ created' = created
          /\ n' = [n EXCEPT ![t] = @ + 1] /\ pc' = [pc EXCEPT ![t] = "idle"]
      BY <2>4 DEF Unlock, Goto
    <3>2. CASE t = Main
      <4>1. \/ stage = "started" /\ stage' = "create"
            \/ stage = "ended" /\ stage' = "deinit"
        <5>1. stage' = After(stage) /\ stage \in {"started", "ended"}
          BY <2>4, <3>1, <3>2 DEF Unlock, LockInv
        <5>2. stage = "started" => stage' = "create"
          BY <5>1 DEF After
        <5>3. stage = "ended" => stage' = "deinit"
          BY <5>1 DEF After
        <5>4. QED
          BY <5>1, <5>2, <5>3
      <4>2. n'[Main] = n[Main] + 1 /\ \A f \in Fuzzers : n'[f] = n[f] /\ pc'[f] = pc[f]
        BY <1>0, <3>1, <3>2
      <4>3. QED
        BY <4>1, <4>2 DEF StageInv
    <3>3. CASE t # Main
      <4>1. stage' = stage /\ t \in Fuzzers
        BY <2>4, <3>3 DEF Unlock, Threads
      <4>2. stage \notin Before /\ stage \notin {"ended", "deinit", "closing"}
        BY <3>1, <3>3, <4>1 DEF StageInv
      <4>3. n'[Main] = n[Main]
        BY <1>0, <3>1, <3>3
      <4>4. QED
        BY <4>1, <4>2, <4>3 DEF StageInv
    <3>4. QED
      BY <3>2, <3>3
  <2>5. QED
    BY <1>2, <2>1, <2>2, <2>3, <2>4 DEF LogStep
<1>3. QED
  BY <1>1, <1>2 DEF Next

LEMMA FirstStep ==
  ASSUME TypeOK, LockInv, FirstInv, Next
  PROVE  FirstInv'
<1> USE MainThread
<1>0. /\ pc \in [Threads -> {"idle", "wait", "trace", "stamp", "write", "symbols",
                             "back", "unlock"}]
      /\ slot \in [Threads -> Nat \ {0}]
  BY DEF TypeOK
<1>1. CASE MainStep
  <2>1. CASE slot' = slot
    BY <1>1, <2>1, MainQuiet DEF FirstInv
  <2>2. CASE DeinitLock \/ CloseSink
    <3>1. pc[Main] = "idle" /\ \A u \in Threads : u # Main => slot'[u] = slot[u]
      BY <1>0, <2>2 DEF LockInv, DeinitLock, CloseSink
    <3>2. QED
      BY <1>1, <3>1, MainQuiet DEF FirstInv
  <2>3. QED
    BY <1>1, <2>1, <2>2 DEF MainStep, LoggerInit, Usage, EnableLock, Enable, AllEnabled,
       CreateFuzzer, Join, MutexDestroy, callVars
<1>2. ASSUME NEW t \in Threads, LogStep(t)
      PROVE  FirstInv'
  <2>1. CASE Call(t) \/ Symbols(t) \/ Unlock(t)
    <3>1. slot' = slot /\ pc'[t] \notin {"trace", "stamp"}
          /\ \A u \in Threads : u # t => pc'[u] = pc[u]
      BY <1>0, <2>1 DEF Call, Symbols, Unlock, Goto
    <3>2. QED
      BY <3>1 DEF FirstInv
  <2>2. CASE Lock(t)
    BY <1>0, <2>2 DEF Lock, Goto, FirstInv
  <2>3. CASE Backtrace(t) \/ FatalStamp(t)
    BY <1>0, <2>3 DEF Backtrace, FatalStamp, Goto, FirstInv
  <2>4. CASE PrintRecord(t)
    <3>1. /\ pc' = pc /\ pc[t] \notin {"trace", "stamp"}
          /\ \A u \in Threads : u # t => slot'[u] = slot[u]
      BY <1>0, <2>4 DEF PrintRecord
    <3>2. QED
      BY <3>1 DEF FirstInv
  <2>5. CASE PassDone(t)
    BY <1>0, <2>5 DEF PassDone, Goto, AfterPass, FirstInv
  <2>6. QED
    BY <1>2, <2>1, <2>2, <2>3, <2>4, <2>5 DEF LogStep
<1>3. QED
  BY <1>1, <1>2 DEF Next

\* Steps that write nothing: no thread gets behind, and none is through with
\* a line in an open sink that it was not through with before.
LEMMA NothingWritten ==
  ASSUME LineInv, ThereInv, TypeOK, UNCHANGED out,
         drops' = 0 => drops = 0,
         \A s \in 1..MaxSinks : \A t \in Threads : \A k \in Nat :
           Through(s, t, k) => Through(s, t, k)',
         drops' = 0 =>
           \A s \in 1..Len(sinks') : \A t \in Threads : \A k \in 0..n'[t] :
             Through(s, t, k)' => s \in 1..Len(sinks) /\ k \in 0..n[t] /\ Through(s, t, k)
  PROVE  LineInv' /\ ThereInv'
<1>1. \A s \in 1..MaxSinks : \A t \in Threads :
        /\ Logged(s, t)' = Logged(s, t)
        /\ \A i \in Logged(s, t) : out[s][i].rec.no \in Nat /\ i \in 1..Len(out[s])
  BY WrittenTypes DEF Logged
<1>2. LineInv'
  <2>1. SUFFICES ASSUME NEW s \in 1..MaxSinks, NEW t \in Threads, NEW i \in Logged(s, t)
                 PROVE  /\ Through(s, t, out[s][i].rec.no)'
                        /\ \A j \in Logged(s, t) :
                             out[s][j].rec.no = out[s][i].rec.no => i = j
    BY <1>1 DEF LineInv
  <2> DEFINE k == out[s][i].rec.no
  <2>2. k \in Nat /\ Through(s, t, k)
    BY <1>1 DEF LineInv
  <2>3. PICK h \in Nat : h = k
    BY <2>2
  <2>4. Through(s, t, h)'
    BY <2>2, <2>3
  <2>5. Through(s, t, k)'
    BY <2>3, <2>4 DEF Through
  <2>6. QED
    BY <2>5 DEF LineInv
<1>3. ThereInv'
  <2>1. SUFFICES ASSUME drops' = 0, NEW s \in 1..Len(sinks'), NEW t \in Threads,
                        NEW k \in 0..n'[t], Through(s, t, k)'
                 PROVE  \E i \in Logged(s, t)' : out'[s][i].rec.no = k
    BY DEF ThereInv
  <2>2. s \in 1..Len(sinks) /\ k \in 0..n[t] /\ Through(s, t, k)
    BY <2>1
  <2>3. PICK i \in Logged(s, t) : out[s][i].rec.no = k
    BY <2>1, <2>2 DEF ThereInv
  <2>4. s \in 1..MaxSinks
    <3>1. Len(sinks) \in Nat /\ Len(sinks) <= MaxSinks /\ MaxSinks \in Nat
      BY MainThread DEF TypeOK
    <3>2. QED
      BY <2>2, <3>1
  <2>5. QED
    BY <1>1, <2>3, <2>4
<1>4. QED
  BY <1>2, <1>3

\* What one stdio call writes, and the end of a line it may be.
EndsLine(t) == pc[t] = "write" /\ part[t] = 3

LEMMA OneWritten ==
  ASSUME TypeOK, CallInv, NEW t \in Threads, PrintRecord(t), out' # out
  PROVE  /\ drops' = drops
         /\ slot[t] \in 1..MaxSinks /\ slot[t] \in 1..Len(sinks)
         /\ \A s \in 1..MaxSinks : s # slot[t] => out'[s] = out[s]
         /\ LET s == slot[t] IN
              /\ Len(out'[s]) = Len(out[s]) + 1
              /\ \A i \in 1..Len(out[s]) : out'[s][i] = out[s][i]
              /\ out'[s][Len(out[s]) + 1].rec = Rec(t)
              /\ out'[s][Len(out[s]) + 1].part = "newline" <=> EndsLine(t)
<1> DEFINE piece == [rec |-> Rec(t), part |-> Parts(pc[t])[part[t]], trace |-> bts[t]]
<1>1. out' = [out EXCEPT ![slot[t]] = Append(@, piece)] /\ drops' = drops
  BY DEF PrintRecord
<1>2. slot[t] \in 1..MaxSinks /\ slot[t] \in 1..Len(sinks)
  <2>1. slot[t] \in Nat \ {0} /\ slot[t] <= Len(sinks) /\ Len(sinks) <= MaxSinks
    BY DEF TypeOK, PrintRecord
  <2>2. Len(sinks) \in Nat /\ MaxSinks \in Nat
    BY MainThread DEF TypeOK
  <2>3. QED
    BY <2>1, <2>2
<1>3. out \in [1..MaxSinks -> Seq(Written)]
  BY DEF TypeOK
<1>4. out'[slot[t]] = Append(out[slot[t]], piece) /\ out[slot[t]] \in Seq(Written)
  BY <1>1, <1>2, <1>3
<1>5. piece.rec = Rec(t) /\ piece.part = Parts(pc[t])[part[t]]
  OBVIOUS
<1>6. piece.part = "newline" <=> EndsLine(t)
  <2>1. CASE pc[t] = "write"
    <3>1. part[t] \in 1..3 /\ piece.part = LogParts[part[t]]
      BY <1>5, <2>1 DEF CallInv, Parts
    <3>2. QED
      BY <2>1, <3>1 DEF EndsLine, LogParts
  <2>2. CASE pc[t] = "back"
    <3>1. part[t] \in 1..2 /\ piece.part = BackParts[part[t]]
      BY <1>5, <2>2 DEF CallInv, Parts
    <3>2. QED
      BY <2>2, <3>1 DEF EndsLine, BackParts
  <2>3. QED
    BY <2>1, <2>2 DEF PrintRecord
<1> HIDE DEF piece
<1>7. \A s \in 1..MaxSinks : s # slot[t] => out'[s] = out[s]
  BY <1>1, <1>3
<1>8. /\ Len(out'[slot[t]]) = Len(out[slot[t]]) + 1
      /\ \A i \in 1..Len(out[slot[t]]) : out'[slot[t]][i] = out[slot[t]][i]
      /\ out'[slot[t]][Len(out[slot[t]]) + 1] = piece
  BY <1>4
<1>9. QED
  BY <1>1, <1>2, <1>5, <1>6, <1>7, <1>8

\* A stdio call leaves a line complete only where it ends it.
LEMMA PrintThrough ==
  ASSUME TypeOK, CallInv, NEW t \in Threads, PrintRecord(t)
  PROVE  \A s \in 1..MaxSinks : \A u \in Threads : \A k \in Nat :
           Through(s, u, k)' <=>
             \/ Through(s, u, k)
             \/ u = t /\ k = n[t] /\ s = slot[t] /\ EndsLine(t)
<1>0. /\ pc' = pc /\ n' = n /\ pc[t] \in {"write", "back"}
      /\ n \in [Threads -> Nat] /\ slot \in [Threads -> Nat \ {0}]
      /\ part[t] \in Nat
  BY DEF PrintRecord, TypeOK
<1> SUFFICES ASSUME NEW s \in 1..MaxSinks, NEW u \in Threads, NEW k \in Nat
             PROVE  Through(s, u, k)' <=>
                      \/ Through(s, u, k)
                      \/ u = t /\ k = n[t] /\ s = slot[t] /\ EndsLine(t)
  OBVIOUS
<1>1. CASE u # t
  <2>1. slot'[u] = slot[u]
    BY <1>0, <1>1 DEF PrintRecord
  <2>2. QED
    BY <1>0, <1>1, <2>1 DEF Through
<1>2. CASE u = t /\ pc[t] = "back"
  BY <1>0, <1>2 DEF Through, EndsLine
<1>3. CASE u = t /\ pc[t] = "write"
  <2>1. part[t] \in 1..3
    BY <1>3 DEF CallInv
  <2>2. part[t] < 3 => slot' = slot
    BY <1>3, <2>1 DEF PrintRecord, Parts, LogParts
  <2>3. part[t] = 3 => slot'[t] = slot[t] + 1
    BY <1>0, <1>3, <2>1 DEF PrintRecord, Parts, LogParts
  <2>4. slot[t] \in Nat /\ s \in Nat /\ n[t] \in Nat
    BY <1>0
  <2>5. Through(s, u, k) <=> k < n[t] \/ (k = n[t] /\ slot[t] > s)
    BY <1>3 DEF Through
  <2>6. Through(s, u, k)' <=> k < n[t] \/ (k = n[t] /\ slot'[t] > s)
    BY <1>0, <1>3 DEF Through
  <2>7. CASE part[t] < 3
    BY <1>3, <2>1, <2>2, <2>5, <2>6, <2>7 DEF EndsLine
  <2>8. CASE part[t] = 3
    <3>1. slot'[t] > s <=> slot[t] > s \/ s = slot[t]
      BY <2>3, <2>4, <2>8
    <3>2. QED
      BY <1>3, <2>5, <2>6, <2>8, <3>1 DEF EndsLine
  <2>9. QED
    BY <2>1, <2>7, <2>8
<1>4. QED
  BY <1>0, <1>1, <1>2, <1>3

LEMMA LinePrinted ==
  ASSUME TypeOK, CallInv, LineInv, ThereInv, NEW t \in Threads, PrintRecord(t)
  PROVE  LineInv' /\ ThereInv'
<1>0. /\ n' = n /\ pc' = pc /\ sinks' = sinks /\ n \in [Threads -> Nat]
      /\ Rec(t).thread = t /\ Rec(t).no = n[t]
  BY DEF PrintRecord, mainVars, TypeOK, Rec
<1>1. CASE out' = out
  <2>1. drops' # 0
    <3>1. drops' = drops + 1 /\ drops \in Nat
      <4>1. out' # [out EXCEPT ![slot[t]] =
                      Append(@, [rec |-> Rec(t), part |-> Parts(pc[t])[part[t]],
                                 trace |-> bts[t]])]
        <5>1. slot[t] \in 1..MaxSinks
          <6>1. slot[t] \in Nat \ {0} /\ slot[t] <= Len(sinks) /\ Len(sinks) <= MaxSinks
            BY DEF TypeOK, PrintRecord
          <6>2. Len(sinks) \in Nat /\ MaxSinks \in Nat
            BY MainThread DEF TypeOK
          <6>3. QED
            BY <6>1, <6>2
        <5>2. out[slot[t]] \in Seq(Written) /\ out \in [1..MaxSinks -> Seq(Written)]
          BY <5>1 DEF TypeOK
        <5>3. \A x : Append(out[slot[t]], x) # out[slot[t]]
          <6>1. \A x : Len(Append(out[slot[t]], x)) = Len(out[slot[t]]) + 1
            BY <5>2
          <6>2. Len(out[slot[t]]) \in Nat
            BY <5>2
          <6>3. QED
            BY <6>1, <6>2
        <5>4. QED
          BY <1>1, <5>1, <5>2, <5>3
      <4>2. QED
        BY <4>1 DEF PrintRecord, TypeOK
    <3>2. QED
      BY <3>1
  <2>2. QED
    BY <1>1, <2>1, PrintThrough, NothingWritten
<1>2. CASE out' # out
  <2> DEFINE s0 == slot[t]
             last == Len(out[s0]) + 1
  <2>0. /\ drops' = drops
        /\ s0 \in 1..MaxSinks /\ s0 \in 1..Len(sinks)
        /\ \A s \in 1..MaxSinks : s # s0 => out'[s] = out[s]
        /\ Len(out'[s0]) = last
        /\ \A i \in 1..Len(out[s0]) : out'[s0][i] = out[s0][i]
        /\ out'[s0][last].rec = Rec(t)
        /\ out'[s0][last].part = "newline" <=> EndsLine(t)
    BY <1>2, OneWritten
  <2>1. ASSUME NEW s \in 1..MaxSinks, NEW u \in Threads, NEW i \in Logged(s, u)
        PROVE  i \in Logged(s, u)' /\ out'[s][i] = out[s][i] /\ out[s][i].rec.no \in Nat
    <3>1. i \in 1..Len(out[s]) /\ Len(out[s]) \in Nat /\ out[s][i].rec.no \in Nat
      BY WrittenTypes DEF Logged
    <3>2. out'[s][i] = out[s][i] /\ i \in 1..Len(out'[s])
      <4>1. CASE s = s0
        BY <2>0, <3>1, <4>1
      <4>2. CASE s # s0
        BY <2>0, <3>1, <4>2
      <4>3. QED
        BY <4>1, <4>2
    <3>3. QED
      BY <3>1, <3>2 DEF Logged
  <2>2. ASSUME NEW s \in 1..MaxSinks, NEW u \in Threads, NEW i \in Logged(s, u)'
        PROVE  \/ i \in Logged(s, u)
               \/ /\ i = last /\ s = s0 /\ u = t /\ EndsLine(t)
                  /\ out'[s][i].rec.no = n[t]
    <3>1. Len(out[s]) \in Nat /\ i \in 1..Len(out'[s])
      BY WrittenTypes DEF Logged
    <3>2. CASE s # s0
      BY <2>0, <3>2 DEF Logged
    <3>3. CASE s = s0 /\ i # last
      <4>1. i \in 1..Len(out[s])
        BY <2>0, <3>1, <3>3
      <4>2. QED
        BY <2>0, <3>3, <4>1 DEF Logged
    <3>4. CASE s = s0 /\ i = last
      BY <1>0, <2>0, <3>4 DEF Logged
    <3>5. QED
      BY <3>2, <3>3, <3>4
  <2>3. ASSUME NEW i \in Logged(s0, t), EndsLine(t)
        PROVE  out[s0][i].rec.no # n[t]
    <3>1. Through(s0, t, out[s0][i].rec.no)
      BY <2>0 DEF LineInv
    <3>2. slot[t] \in Nat /\ n[t] \in Nat
      BY DEF TypeOK
    <3>3. ~Through(s0, t, n[t])
      BY <2>3, <3>2 DEF Through, EndsLine
    <3>4. QED
      BY <3>1, <3>3
  <2>4. ASSUME NEW s \in 1..MaxSinks, NEW u \in Threads, NEW i \in Logged(s, u)'
        PROVE  Through(s, u, out[s][i].rec.no)'
    <3>1. CASE i \in Logged(s, u)
      <4>1. out[s][i].rec.no \in Nat /\ out'[s][i] = out[s][i]
        BY <2>1, <3>1
      <4>2. PICK h \in Nat : h = out[s][i].rec.no
        BY <4>1
      <4>3. Through(s, u, h)
        BY <3>1, <4>2 DEF LineInv
      <4>4. Through(s, u, h)'
        BY <4>3, PrintThrough
      <4>5. QED
        BY <4>1, <4>2, <4>4 DEF Through
    <3>2. CASE s = s0 /\ u = t /\ EndsLine(t) /\ out'[s][i].rec.no = n[t]
      <4>1. PICK h \in Nat : h = n[t]
        BY DEF TypeOK
      <4>2. Through(s, u, h)'
        BY <3>2, <4>1, PrintThrough
      <4>3. QED
        BY <3>2, <4>1, <4>2 DEF Through
    <3>3. QED
      BY <2>2, <3>1, <3>2
  <2>5. ASSUME NEW s \in 1..MaxSinks, NEW u \in Threads,
               NEW i \in Logged(s, u)', NEW j \in Logged(s, u)',
               out'[s][j].rec.no = out'[s][i].rec.no
        PROVE  i = j
    <3>1. CASE i \in Logged(s, u) /\ j \in Logged(s, u)
      <4>1. out'[s][i] = out[s][i] /\ out'[s][j] = out[s][j]
        BY <2>1, <3>1
      <4>2. QED
        BY <2>5, <3>1, <4>1 DEF LineInv
    <3>2. CASE i \in Logged(s, u) /\ j \notin Logged(s, u)
      <4>1. s = s0 /\ u = t /\ EndsLine(t) /\ out'[s][j].rec.no = n[t]
        BY <2>2, <3>2
      <4>2. out'[s][i] = out[s][i]
        BY <2>1, <3>2
      <4>3. QED
        BY <2>3, <2>5, <3>2, <4>1, <4>2
    <3>3. CASE i \notin Logged(s, u) /\ j \in Logged(s, u)
      <4>1. s = s0 /\ u = t /\ EndsLine(t) /\ out'[s][i].rec.no = n[t]
        BY <2>2, <3>3
      <4>2. out'[s][j] = out[s][j]
        BY <2>1, <3>3
      <4>3. QED
        BY <2>3, <2>5, <3>3, <4>1, <4>2
    <3>4. CASE i \notin Logged(s, u) /\ j \notin Logged(s, u)
      BY <2>2, <3>4
    <3>5. QED
      BY <3>1, <3>2, <3>3, <3>4
  <2>6. LineInv'
    BY <2>4, <2>5 DEF LineInv
  <2>7. ThereInv'
    <3>1. SUFFICES ASSUME drops = 0, NEW s \in 1..Len(sinks), NEW u \in Threads,
                          NEW k \in 0..n[u], Through(s, u, k)'
                   PROVE  \E i \in Logged(s, u)' : out'[s][i].rec.no = k
      BY <1>0, <2>0 DEF ThereInv
    <3>2. s \in 1..MaxSinks /\ k \in Nat
      <4>1. Len(sinks) \in Nat /\ Len(sinks) <= MaxSinks /\ MaxSinks \in Nat /\ n[u] \in Nat
        BY MainThread DEF TypeOK
      <4>2. QED
        BY <4>1
    <3>3. CASE Through(s, u, k)
      <4>1. PICK i \in Logged(s, u) : out[s][i].rec.no = k
        BY <3>1, <3>3 DEF ThereInv
      <4>2. QED
        BY <2>1, <3>2, <4>1
    <3>4. CASE u = t /\ k = n[t] /\ s = s0 /\ EndsLine(t)
      <4>1. last \in Logged(s, u)' /\ out'[s][last].rec.no = k
        <5>1. last \in 1..Len(out'[s])
          <6>1. Len(out[s]) \in Nat
            BY <3>2, WrittenTypes
          <6>2. QED
            BY <2>0, <3>4, <6>1
        <5>2. QED
          BY <1>0, <2>0, <3>4, <5>1 DEF Logged
      <4>2. QED
        BY <4>1
    <3>5. QED
      BY <3>1, <3>2, <3>3, <3>4, PrintThrough
  <2>8. QED
    BY <2>6, <2>7
<1>3. QED
  BY <1>1, <1>2

LEMMA LinesStep ==
  ASSUME TypeOK, LockInv, CallInv, StageInv, FirstInv, LineInv, ThereInv, Next
  PROVE  LineInv' /\ ThereInv'
<1> USE MainThread
<1>0. /\ pc \in [Threads -> {"idle", "wait", "trace", "stamp", "write", "symbols",
                             "back", "unlock"}]
      /\ n \in [Threads -> Nat] /\ slot \in [Threads -> Nat \ {0}]
      /\ Len(sinks) \in Nat /\ Len(sinks) <= MaxSinks
  <2>1. sinks \in Seq(Kinds) /\ Len(sinks) <= MaxSinks
    BY DEF TypeOK
  <2>2. Len(sinks) \in Nat
    BY <2>1
  <2>3. QED
    BY <2>1, <2>2 DEF TypeOK
<1>1. CASE MainStep
  <2>1. UNCHANGED <<pc, n, out, drops>>
    BY <1>1 DEF MainStep, LoggerInit, Usage, EnableLock, Enable, AllEnabled, CreateFuzzer,
                Join, DeinitLock, CloseSink, MutexDestroy, callVars
  <2>2. ASSUME NEW t \in Threads, pc[t] # "idle"
        PROVE  slot'[t] = slot[t]
    <3>1. CASE DeinitLock \/ CloseSink
      <4>1. t # Main
        BY <2>2, <3>1 DEF LockInv, DeinitLock, CloseSink
      <4>2. QED
        BY <1>0, <3>1, <4>1 DEF DeinitLock, CloseSink
    <3>2. CASE slot' = slot
      BY <3>2
    <3>3. QED
      BY <1>1, <3>1, <3>2 DEF MainStep, LoggerInit, Usage, EnableLock, Enable, AllEnabled,
                              CreateFuzzer, Join, MutexDestroy, callVars
  <2>3. \A s \in 1..MaxSinks : \A t \in Threads : \A k \in Nat :
          Through(s, t, k)' <=> Through(s, t, k)
    BY <2>1, <2>2 DEF Through
  <2>4. ASSUME NEW s \in 1..Len(sinks'), NEW t \in Threads, NEW k \in 0..n'[t],
               Through(s, t, k)'
        PROVE  s \in 1..Len(sinks) /\ k \in 0..n[t] /\ Through(s, t, k)
    <3>1. CASE Enable
      <4>1. pc[t] = "idle" /\ n[t] = 0
        BY <3>1 DEF Enable, StageInv, LockInv, Before
      <4>2. QED
        BY <2>1, <2>4, <4>1 DEF Through
    <3>2. CASE sinks' = sinks
      <4>1. s \in 1..MaxSinks /\ k \in Nat
        BY <1>0, <2>1, <3>2
      <4>2. QED
        BY <2>1, <2>3, <2>4, <3>2, <4>1
    <3>3. CASE sinks' = <<>>
      BY <3>3
    <3>4. QED
      BY <1>1, <3>1, <3>2, <3>3 DEF MainStep, LoggerInit, Usage, EnableLock, AllEnabled,
         CreateFuzzer, Join, DeinitLock, CloseSink, MutexDestroy
  <2>5. QED
    BY <2>1, <2>3, <2>4, NothingWritten
<1>2. ASSUME NEW t \in Threads, LogStep(t)
      PROVE  LineInv' /\ ThereInv'
  <2>1. CASE PrintRecord(t)
    BY <2>1, LinePrinted
  <2>2. CASE ~PrintRecord(t)
    <3>1. \/ Call(t) \/ Lock(t) \/ Backtrace(t) \/ FatalStamp(t)
          \/ PassDone(t) \/ Symbols(t) \/ Unlock(t)
      BY <1>2, <2>2 DEF LogStep
    <3>2. UNCHANGED <<out, drops, sinks>>
      BY <3>1 DEF Call, Lock, Backtrace, FatalStamp, PassDone, Symbols, Unlock, mainVars
    <3>3. ASSUME NEW u \in Threads, u # t
          PROVE  pc'[u] = pc[u] /\ n'[u] = n[u] /\ slot'[u] = slot[u]
      BY <1>0, <3>1, <3>3 DEF Call, Lock, Backtrace, FatalStamp, PassDone, Symbols, Unlock, Goto
    <3>4. ASSUME NEW s \in 1..MaxSinks, NEW k \in Nat
          PROVE  /\ Through(s, t, k) => Through(s, t, k)'
                 /\ Through(s, t, k)' /\ s <= Len(sinks) => Through(s, t, k)
      <4>0. n[t] \in Nat /\ slot[t] \in Nat /\ s \in Nat /\ s >= 1
        BY <1>0
      <4>1. CASE Call(t)
        BY <1>0, <4>1 DEF Call, Goto, Through
      <4>2. CASE Lock(t)
        <5>1. pc[t] = "wait" /\ n' = n /\ slot'[t] = 1 /\ pc'[t] \in {"write", "trace"}
          BY <1>0, <4>2 DEF Lock, Goto
        <5>2. QED
          BY <4>0, <5>1 DEF Through
      <4>3. CASE Backtrace(t)
        BY <1>0, <4>3 DEF Backtrace, Goto, Through
      <4>4. CASE FatalStamp(t)
        <5>1. /\ pc[t] = "stamp" /\ n' = n /\ slot'[t] = slot[t] /\ slot[t] = 1
              /\ pc'[t] = "write"
          BY <1>0, <4>4 DEF FatalStamp, Goto, FirstInv
        <5>2. QED
          BY <4>0, <5>1 DEF Through
      <4>5. CASE PassDone(t)
        <5>1. /\ pc[t] \in {"write", "back"} /\ n' = n /\ slot[t] > Len(sinks)
              /\ pc'[t] \in {"symbols", "unlock"}
          BY <1>0, <4>5 DEF PassDone, Goto, AfterPass
        <5>2. s <= Len(sinks) => slot[t] > s
          BY <1>0, <4>0, <5>1
        <5>3. QED
          BY <5>1, <5>2 DEF Through
      <4>6. CASE Symbols(t)
        BY <1>0, <4>6 DEF Symbols, Goto, Through
      <4>7. CASE Unlock(t)
        <5>1. pc[t] = "unlock" /\ n'[t] = n[t] + 1 /\ pc'[t] = "idle"
          BY <1>0, <4>7 DEF Unlock, Goto
        <5>2. k < n'[t] <=> k < n[t] \/ k = n[t]
          BY <4>0, <5>1
        <5>3. QED
          BY <5>1, <5>2 DEF Through
      <4>8. QED
        BY <3>1, <4>1, <4>2, <4>3, <4>4, <4>5, <4>6, <4>7
    <3>5. ASSUME NEW s \in 1..MaxSinks, NEW u \in Threads, NEW k \in Nat
          PROVE  /\ Through(s, u, k) => Through(s, u, k)'
                 /\ Through(s, u, k)' /\ s <= Len(sinks) => Through(s, u, k)
      <4>1. CASE u = t
        BY <3>4, <4>1
      <4>2. CASE u # t
        BY <3>3, <4>2 DEF Through
      <4>3. QED
        BY <4>1, <4>2
    <3>6. ASSUME NEW s \in 1..Len(sinks'), NEW u \in Threads, NEW k \in 0..n'[u],
                 Through(s, u, k)'
          PROVE  s \in 1..Len(sinks) /\ k \in 0..n[u] /\ Through(s, u, k)
      <4>1. s \in 1..MaxSinks /\ s \in 1..Len(sinks) /\ s <= Len(sinks)
        BY <1>0, <3>2
      <4>2. k \in Nat /\ n[u] \in Nat
        <5>1. n' = n \/ n' = [n EXCEPT ![t] = @ + 1]
          BY <3>1 DEF Call, Lock, Backtrace, FatalStamp, PassDone, Symbols, Unlock
        <5>2. [n EXCEPT ![t] = @ + 1] \in [Threads -> Nat]
          BY Steps
        <5>3. n' \in [Threads -> Nat]
          BY <1>0, <5>1, <5>2
        <5>4. QED
          BY <1>0, <3>6, <5>3
      <4>3. Through(s, u, k)
        BY <3>5, <3>6, <4>1, <4>2
      <4>4. k <= n[u]
        BY <4>2, <4>3 DEF Through
      <4>5. QED
        BY <4>1, <4>2, <4>3, <4>4
    <3>7. QED
      BY <3>2, <3>5, <3>6, NothingWritten
  <2>3. QED
    BY <2>1, <2>2
<1>3. QED
  BY <1>1, <1>2 DEF Next

\* What the invariant gives at the end of the run.
LEMMA Complete == IInv => NothingLost
<1> SUFFICES ASSUME IInv, stage \in {"deinit", "closing"}, drops = 0,
                    NEW s \in 1..Len(sinks), NEW t \in Threads,
                    NEW k \in 0..((IF t = Main THEN 2 ELSE Iterations) - 1)
             PROVE  \E i \in Logged(s, t) :
                      /\ out[s][i].rec.no = k
                      /\ \A j \in Logged(s, t) : out[s][j].rec.no = k => i = j
  BY DEF NothingLost
<1> USE MainThread, LimitsAssumption DEF IInv
<1>1. n[t] = IF t = Main THEN 2 ELSE Iterations
  BY DEF StageInv, Threads
<1>2. k \in 0..n[t] /\ k < n[t]
  BY <1>1
<1>3. s \in 1..MaxSinks
  <2>1. Len(sinks) \in Nat /\ Len(sinks) <= MaxSinks
    BY DEF TypeOK
  <2>2. QED
    BY <2>1
<1>4. PICK i \in Logged(s, t) : out[s][i].rec.no = k
  <2>1. Through(s, t, k)
    BY <1>2 DEF Through
  <2>2. QED
    BY <1>2, <2>1 DEF ThereInv
<1>5. QED
  BY <1>3, <1>4 DEF LineInv

-----------------------------------------------------------------------------
\* What the invariant gives for the sinks.
LEMMA SinksStep ==
  ASSUME IInv, Next
  PROVE  OwnBacktrace' /\ FatalIsNewest' /\ RecordsUnbroken'
<1> USE DEF IInv
<1>1. CASE \A t \in Threads : ~PrintRecord(t)
  BY <1>1, OnlyPrint DEF OwnBacktrace, FatalIsNewest, RecordsUnbroken
<1>2. ASSUME NEW t \in Threads, PrintRecord(t)
      PROVE  OwnBacktrace' /\ FatalIsNewest' /\ RecordsUnbroken'
  <2>1. /\ pc[t] \in Logging /\ stamp[t] \in Nat
        /\ Rec(t).thread = t /\ Rec(t).no = n[t]
        /\ Rec(t).level = level[t] /\ Rec(t).stamp = stamp[t]
    BY <1>2 DEF PrintRecord, Logging, Rec, TypeOK
  <2>2. \A s \in 1..MaxSinks : \A i \in 1..Len(out'[s]) :
          \/ i \in 1..Len(out[s]) /\ out'[s][i] = out[s][i]
          \/ Added(t, s, i)
    BY <1>2, PrintAdds
  <2>3. ASSUME NEW s \in 1..MaxSinks
        PROVE  Len(out[s]) \in Nat /\ Len(out'[s]) \in {Len(out[s]), Len(out[s]) + 1}
    BY <1>2, PrintAdds, WrittenTypes
  <2>4. OwnBacktrace'
    <3>1. SUFFICES ASSUME NEW s \in 1..MaxSinks, NEW i \in 1..Len(out'[s]),
                          out'[s][i].part = "frames"
                   PROVE  out'[s][i].trace = <<out'[s][i].rec.thread, out'[s][i].rec.no>>
      BY DEF OwnBacktrace
    <3>2. CASE i \in 1..Len(out[s]) /\ out'[s][i] = out[s][i]
      BY <3>1, <3>2 DEF OwnBacktrace
    <3>3. CASE Added(t, s, i)
      BY <2>1, <3>1, <3>3 DEF Added, TraceInv
    <3>4. QED
      BY <2>2, <3>2, <3>3
  <2>5. FatalIsNewest'
    <3>1. SUFFICES ASSUME NEW s \in 1..MaxSinks,
                          NEW i \in 1..Len(out'[s]), NEW j \in 1..Len(out'[s]),
                          i < j, out'[s][j].rec.level = "fatal"
                   PROVE  out'[s][i].rec.stamp <= out'[s][j].rec.stamp
      BY DEF FatalIsNewest
    <3>2. i \in 1..Len(out[s]) /\ out'[s][i] = out[s][i]
      BY <2>2, <2>3, <3>1 DEF Added
    <3>3. CASE j \in 1..Len(out[s]) /\ out'[s][j] = out[s][j]
      BY <3>1, <3>2, <3>3 DEF FatalIsNewest
    <3>4. CASE Added(t, s, j)
      <4>1. out'[s][j].rec.stamp = stamp[t] /\ level[t] = "fatal"
        BY <2>1, <3>1, <3>4 DEF Added
      <4>2. QED
        BY <2>1, <3>2, <4>1 DEF StampInv
    <3>5. QED
      BY <2>2, <3>3, <3>4
  <2>6. RecordsUnbroken'
    <3>1. SUFFICES ASSUME NEW s \in 1..MaxSinks, NEW j \in 2..Len(out'[s]),
                          out'[s][j].rec # out'[s][j - 1].rec,
                          NEW i \in 1..(j - 1),
                          out'[s][i].rec = out'[s][j].rec
                   PROVE  FALSE
      BY DEF RecordsUnbroken
    <3>2. /\ j \in 1..Len(out'[s]) /\ i \in 1..Len(out'[s]) /\ j - 1 \in 1..Len(out'[s])
          /\ i < j /\ j - 1 < j /\ i <= j - 1
      BY <2>3, <3>1
    <3>3. ASSUME NEW k \in 1..Len(out'[s]), k < j
          PROVE  k \in 1..Len(out[s]) /\ out'[s][k] = out[s][k]
      <4>1. k # Len(out[s]) + 1
        BY <2>3, <3>2, <3>3
      <4>2. QED
        BY <2>2, <3>3, <4>1 DEF Added
    <3> /\ i \in 1..Len(out[s]) /\ out'[s][i] = out[s][i]
        /\ j - 1 \in 1..Len(out[s]) /\ out'[s][j - 1] = out[s][j - 1]
      BY <3>2, <3>3
    <3>4. CASE j \in 1..Len(out[s]) /\ out'[s][j] = out[s][j]
      <4>1. j \in 2..Len(out[s])
        BY <2>3, <3>2, <3>4
      <4>2. QED
        BY <3>1, <3>3, <3>4, <4>1 DEF RecordsUnbroken
    <3>5. CASE Added(t, s, j)
      <4>1. out[s][i].rec = Rec(t)
        BY <3>1, <3>3, <3>5 DEF Added
      <4>2. ~Settled(s, i)
        <5>1. out[s][i].rec.thread = t /\ out[s][i].rec.no = n[t] /\ n[t] \in Nat
          BY <2>1, <4>1 DEF TypeOK
        <5>2. QED
          BY <5>1 DEF Settled
      <4>3. Current(s, i)
        BY <3>3, <4>2 DEF WholeInv
      <4>4. j - 1 \in i..Len(out[s])
        BY <2>3, <3>2, <3>3
      <4>5. out[s][j - 1].rec = Rec(t)
        BY <2>1, <4>1, <4>3, <4>4 DEF Current
      <4>6. QED
        BY <3>1, <3>3, <3>5, <4>5 DEF Added
    <3>6. QED
      BY <2>2, <3>2, <3>4, <3>5
  <2>7. QED
    BY <2>4, <2>5, <2>6
<1>3. QED
  BY <1>1, <1>2

LEMMA InitIInv == Init => IInv
<1> SUFFICES ASSUME Init PROVE IInv
  OBVIOUS
<1> USE MainThread
<1>1. args \in Seq(Kinds)
  BY LimitsAssumption DEF Init, Arguments
<1>2. \A s \in 1..MaxSinks : out[s] = <<>>
  BY DEF Init
<1>3. TypeOK
  <2>1. <<>> \in Seq(Kinds) /\ <<>> \in Seq(Written) /\ Len(<<>>) = 0
    OBVIOUS
  <2>2. 1 \in Nat \ {0} /\ 0 \in Nat /\ 0 \in 0..MaxDrops
    OBVIOUS
  <2>3. /\ slot \in [Threads -> Nat \ {0}] /\ part \in [Threads -> Nat \ {0}]
        /\ stamp \in [Threads -> Nat] /\ n \in [Threads -> Nat]
        /\ bts \in [Threads -> (Threads \cup {NoThread}) \X Nat]
    BY <2>2 DEF Init
  <2>4. /\ out \in [1..MaxSinks -> Seq(Written)]
        /\ sinks \in Seq(Kinds) /\ Len(sinks) <= MaxSinks
    BY <2>1 DEF Init
  <2>5. /\ pc \in [Threads -> {"idle", "wait", "trace", "stamp", "write", "symbols",
                               "back", "unlock"}]
        /\ level \in [Threads -> {"log", "fatal"}]
    BY DEF Init
  <2>6. QED
    BY <1>1, <2>2, <2>3, <2>4, <2>5 DEF Init, TypeOK
<1>4. LockInv /\ CallInv /\ TraceInv
  BY DEF Init, LockInv, CallInv, TraceInv, Inside, Logging
<1>5. StampInv /\ WholeInv
  BY <1>2 DEF Init, StampInv, WholeInv, Logging
<1>6. OwnBacktrace /\ FatalIsNewest /\ RecordsUnbroken
  BY <1>2 DEF OwnBacktrace, FatalIsNewest, RecordsUnbroken
<1>7. StageInv /\ FirstInv /\ LineInv /\ ThereInv
  BY <1>2 DEF Init, StageInv, FirstInv, LineInv, ThereInv, Logged, Before
<1>8. QED
  BY <1>3, <1>4, <1>5, <1>6, <1>7 DEF IInv

LEMMA NextIInv == IInv /\ [Next]_vars => IInv'
<1> SUFFICES ASSUME IInv, [Next]_vars PROVE IInv'
  OBVIOUS
<1>1. CASE Next
  BY <1>1, TypeStep, LockStep, CallStep, TraceStep, StampStep, WholeStep, SinksStep,
     StageStep, FirstStep, LinesStep DEF IInv
<1>2. CASE UNCHANGED vars
  <2> USE <1>2 DEF vars, mainVars, callVars
  <2>1. TypeOK'
    BY DEF IInv, TypeOK
  <2>2. LockInv' /\ CallInv' /\ TraceInv'
    BY DEF IInv, LockInv, CallInv, TraceInv
  <2>3. StampInv'
    <3> UNCHANGED <<pc, level, stamp, clock, out>> /\ StampInv
      BY DEF IInv
    <3> QED
      BY DEF StampInv
  <2>4. WholeInv'
    <3>1. ASSUME NEW s \in 1..MaxSinks, NEW i \in 1..Len(out[s])
          PROVE  Settled(s, i)' \/ Current(s, i)'
      <4>1. Settled(s, i) \/ Current(s, i)
        BY DEF IInv, WholeInv
      <4>2. Settled(s, i) => Settled(s, i)'
        BY DEF Settled
      <4>3. Current(s, i) => Current(s, i)'
        BY DEF Current, Rec
      <4>4. QED
        BY <4>1, <4>2, <4>3
    <3>2. QED
      BY <3>1 DEF WholeInv
  <2>5. OwnBacktrace' /\ FatalIsNewest' /\ RecordsUnbroken'
    BY DEF IInv, OwnBacktrace, FatalIsNewest, RecordsUnbroken
  <2>6. StageInv' /\ FirstInv' /\ LineInv' /\ ThereInv'
    BY DEF IInv, StageInv, FirstInv, LineInv, ThereInv, Logged, Through
  <2>7. QED
    BY <2>1, <2>2, <2>3, <2>4, <2>5, <2>6 DEF IInv
<1>3. QED
  BY <1>1, <1>2

LEMMA Invariance == Spec => []IInv
BY InitIInv, NextIInv, PTL DEF Spec

\* The logger's state keeps its types; in particular there are never more sinks
\* than logger.c has room for.
THEOREM TypeCorrect == Spec => []TypeOK
<1>1. IInv => TypeOK
  BY DEF IInv
<1>2. QED
  BY <1>1, Invariance, PTL

\* However many threads log, the calls that write one record and its backtrace
\* follow one another in every sink.
THEOREM Unbroken == Spec => []RecordsUnbroken
<1>1. IInv => RecordsUnbroken
  BY DEF IInv
<1>2. QED
  BY <1>1, Invariance, PTL

\* The single btbuf is never overwritten between backtrace() and the printing
\* of what it captured.
THEOREM BacktraceSafe == Spec => []OwnBacktrace
<1>1. IInv => OwnBacktrace
  BY DEF IInv
<1>2. QED
  BY <1>1, Invariance, PTL

\* A FATAL record is no older than anything above it in a sink.
THEOREM FatalNewest == Spec => []FatalIsNewest
<1>1. IInv => FatalIsNewest
  BY DEF IInv
<1>2. QED
  BY <1>1, Invariance, PTL

\* When main has joined the fuzzers and logged its last record, every sink that
\* was opened holds each record of each thread once, unless some call of stdio
\* failed: with logger.c's one mutex no record is lost or written twice.
THEOREM AllThere == Spec => []NothingLost
<1>1. IInv => NothingLost
  BY Complete
<1>2. QED
  BY <1>1, Invariance, PTL

-----------------------------------------------------------------------------
(* Waiting for the mutex and for the fuzzers *)

\* The mutex is held by a thread inside a call or by main opening or closing
\* the sinks; main closed them when it keeps the mutex at its end.
HolderInv == m # NoThread => pc[m] \in Inside \/ stage \in {"enabling", "closing", "exit"}

\* main creates every fuzzer before it joins them, and a fuzzer inside its loop
\* has a record left.
RunInv ==
  /\ stage # "init" => initialized
  /\ stage = "create" => created # Fuzzers
  /\ stage = "join" => created = Fuzzers
  /\ \A f \in Fuzzers : n[f] <= Iterations /\ (pc[f] # "idle" => n[f] < Iterations)

LEMMA HolderStep ==
  ASSUME TypeOK, LockInv, HolderInv, Next
  PROVE  HolderInv'
<1> USE MainThread
<1>0. /\ pc \in [Threads -> {"idle", "wait", "trace", "stamp", "write", "symbols",
                             "back", "unlock"}]
      /\ m \in Threads \cup {NoThread}
  BY DEF TypeOK
<1>1. CASE MainStep
  <2>0. pc' = pc
    BY <1>1, MainQuiet
  <2>1. CASE LoggerInit \/ Usage \/ AllEnabled \/ CreateFuzzer \/ Join
    BY <2>0, <2>1 DEF LoggerInit, Usage, AllEnabled, CreateFuzzer, Join, HolderInv
  <2>2. CASE EnableLock \/ Enable \/ DeinitLock
    BY <2>0, <2>2 DEF EnableLock, Enable, DeinitLock, HolderInv
  <2>3. CASE CloseSink \/ MutexDestroy
    BY <2>0, <2>3 DEF CloseSink, MutexDestroy, After, HolderInv
  <2>4. QED
    BY <1>1, <2>1, <2>2, <2>3 DEF MainStep
<1>2. ASSUME NEW t \in Threads, LogStep(t)
      PROVE  HolderInv'
  <2>1. CASE Call(t)
    <3>1. UNCHANGED <<m, stage>> /\ pc[t] = "idle"
      BY <2>1 DEF Call, mainVars
    <3>2. \A u \in Threads : u # t => pc'[u] = pc[u]
      BY <1>0, <2>1 DEF Call, Goto
    <3>3. QED
      BY <1>0, <3>1, <3>2 DEF HolderInv, Inside, Logging
  <2>2. CASE Lock(t)
    <3>1. m' = t /\ pc'[t] \in {"write", "trace"}
      BY <1>0, <2>2 DEF Lock, Goto
    <3>2. QED
      BY <3>1 DEF HolderInv, Inside, Logging
  <2>3. CASE Backtrace(t) \/ FatalStamp(t) \/ PassDone(t) \/ Symbols(t)
    <3>1. UNCHANGED <<m, stage>>
      BY <2>3 DEF Backtrace, FatalStamp, PassDone, Symbols, mainVars
    <3>2. pc'[t] \in Inside /\ \A u \in Threads : u # t => pc'[u] = pc[u]
      BY <1>0, <2>3 DEF Backtrace, FatalStamp, PassDone, AfterPass, Symbols, Goto, Inside, Logging
    <3>3. QED
      BY <1>0, <3>1, <3>2 DEF HolderInv
  <2>4. CASE PrintRecord(t)
    BY <2>4 DEF PrintRecord, mainVars, HolderInv
  <2>5. CASE Unlock(t)
    BY <2>5 DEF Unlock, HolderInv
  <2>6. QED
    BY <1>2, <2>1, <2>2, <2>3, <2>4, <2>5 DEF LogStep
<1>3. QED
  BY <1>1, <1>2 DEF Next

LEMMA RunStep ==
  ASSUME TypeOK, LockInv, StageInv, RunInv, Next
  PROVE  RunInv'
<1> USE MainThread
<1>0. /\ pc \in [Threads -> {"idle", "wait", "trace", "stamp", "write", "symbols",
                             "back", "unlock"}]
      /\ n \in [Threads -> Nat] /\ Fuzzers \subseteq Threads /\ Iterations \in Nat
      /\ Fuzzers # {}
  BY ThreadsAssumption, LimitsAssumption DEF TypeOK, Threads
<1>1. CASE MainStep
  <2>0. UNCHANGED <<pc, n>>
    BY <1>1, MainQuiet
  <2>1. CASE LoggerInit \/ Usage \/ EnableLock \/ Enable \/ AllEnabled
    BY <2>0, <2>1 DEF LoggerInit, Usage, EnableLock, Enable, AllEnabled, RunInv
  <2>2. CASE CreateFuzzer
    BY <2>0, <2>2 DEF CreateFuzzer, RunInv, After
  <2>3. CASE Join
    BY <2>0, <2>3 DEF Join, RunInv, After
  <2>4. CASE DeinitLock \/ CloseSink \/ MutexDestroy
    BY <2>0, <2>4 DEF DeinitLock, CloseSink, MutexDestroy, RunInv, After
  <2>5. QED
    BY <1>1, <2>1, <2>2, <2>3, <2>4 DEF MainStep
<1>2. ASSUME NEW t \in Threads, LogStep(t)
      PROVE  RunInv'
  <2>1. CASE Call(t)
    <3>1. /\ UNCHANGED <<stage, created, initialized, n>> /\ HasCall(t)
          /\ pc' = [pc EXCEPT ![t] = "wait"]
      BY <2>1 DEF Call, Goto, mainVars
    <3>2. t # Main => n[t] < Iterations
      BY <3>1 DEF HasCall
    <3>3. \A f \in Fuzzers : pc'[f] # "idle" => n[f] < Iterations
      BY <1>0, <3>1, <3>2 DEF RunInv
    <3>4. QED
      BY <3>1, <3>3 DEF RunInv
  <2>2. CASE Lock(t) \/ Backtrace(t) \/ FatalStamp(t) \/ PassDone(t) \/ Symbols(t)
    <3>1. UNCHANGED <<stage, created, initialized, n>> /\ pc[t] # "idle"
      BY <2>2 DEF Lock, Backtrace, FatalStamp, PassDone, Symbols, mainVars
    <3>2. \A u \in Threads : u # t => pc'[u] = pc[u]
      BY <1>0, <2>2 DEF Lock, Backtrace, FatalStamp, PassDone, Symbols, Goto
    <3>3. QED
      BY <1>0, <3>1, <3>2 DEF RunInv
  <2>3. CASE PrintRecord(t)
    BY <2>3 DEF PrintRecord, RunInv, mainVars
  <2>4. CASE Unlock(t)
    <3>1. /\ pc[t] = "unlock" /\ UNCHANGED <<created, initialized>>
          /\ n' = [n EXCEPT ![t] = @ + 1] /\ pc' = [pc EXCEPT ![t] = "idle"]
      BY <2>4 DEF Unlock, Goto
    <3>2. \A f \in Fuzzers : n'[f] <= Iterations /\ (pc'[f] # "idle" => n'[f] < Iterations)
      BY <1>0, <3>1 DEF RunInv
    <3>3. CASE t = Main
      <4>1. stage' = After(stage) /\ stage \in {"started", "ended"}
        BY <2>4, <3>1, <3>3 DEF Unlock, LockInv
      <4>2. stage = "started" => stage' = "create" /\ created = {}
        BY <4>1 DEF After, StageInv, Before
      <4>3. stage = "ended" => stage' = "deinit"
        BY <4>1 DEF After
      <4>4. QED
        BY <1>0, <3>1, <3>2, <4>1, <4>2, <4>3 DEF RunInv
    <3>4. CASE t # Main
      <4>1. stage' = stage
        BY <2>4, <3>4 DEF Unlock
      <4>2. QED
        BY <3>1, <3>2, <4>1 DEF RunInv
    <3>5. QED
      BY <3>3, <3>4
  <2>5. QED
    BY <1>2, <2>1, <2>2, <2>3, <2>4 DEF LogStep
<1>3. QED
  BY <1>1, <1>2 DEF Next

LEMMA Runs == Spec => [](HolderInv /\ RunInv)
<1>1. Init => HolderInv /\ RunInv
  BY LimitsAssumption DEF Init, HolderInv, RunInv, Threads
<1>2. IInv /\ HolderInv /\ RunInv /\ [Next]_vars => (HolderInv /\ RunInv)'
  <2>1. IInv => TypeOK /\ LockInv /\ StageInv
    BY DEF IInv
  <2>2. UNCHANGED vars /\ HolderInv /\ RunInv => (HolderInv /\ RunInv)'
    BY DEF vars, mainVars, callVars, HolderInv, RunInv
  <2>3. QED
    BY <2>1, <2>2, HolderStep, RunStep
<1>3. QED
  BY <1>1, <1>2, Invariance, PTL DEF Spec

\* main can go on: where it locks, the mutex is free; where it joins, the
\* fuzzers are through.
MainMoves ==
  \/ stage \in {"init", "usage", "enabling", "closing"}
  \/ stage = "enable" /\ (args # <<>> => m = NoThread)
  \/ stage = "create" /\ created # Fuzzers
  \/ stage = "join" /\ Joined
  \/ stage = "deinit" /\ m = NoThread

\* A thread that logs can go on: it has a call to make, gets the mutex, or has
\* it.
ThreadMoves(t) ==
  /\ Alive
  /\ \/ pc[t] = "idle" /\ HasCall(t) /\ initialized
     \/ pc[t] = "wait" /\ MayEnter(t)
     \/ pc[t] \in Inside

\* Whatever fails and however the threads meet, none waits for a mutex nobody
\* will free: until the program has ended somebody can go on, although
\* logger_deinit never frees the mutex it takes and LOGGER_FATAL locks in one
\* function and unlocks in another (logger.c:30-82, 100-241, main.c:46-71).
NoDeadlock == Alive => MainMoves \/ \E t \in Threads : ThreadMoves(t)

THEOREM SomebodyGoesOn == Spec => []NoDeadlock
<1>1. ASSUME TypeOK, HolderInv, RunInv, LockInv PROVE NoDeadlock
  <2> SUFFICES ASSUME Alive, ~MainMoves PROVE \E t \in Threads : ThreadMoves(t)
    BY DEF NoDeadlock
  <2>0. /\ m \in Threads \cup {NoThread} /\ n \in [Threads -> Nat] /\ Iterations \in Nat
        /\ pc \in [Threads -> {"idle", "wait", "trace", "stamp", "write", "symbols",
                               "back", "unlock"}]
        /\ Main \in Threads /\ Fuzzers \subseteq Threads
    BY <1>1, LimitsAssumption DEF TypeOK, Threads
  <2>1. CASE m # NoThread
    <3>1. stage \notin {"enabling", "closing", "exit"}
      BY DEF MainMoves, Alive
    <3>2. m \in Threads /\ pc[m] \in Inside
      BY <1>1, <2>0, <2>1, <3>1 DEF HolderInv
    <3>3. QED
      BY <3>2 DEF ThreadMoves
  <2>2. CASE m = NoThread
    <3>1. \A t \in Threads : pc[t] \notin Inside
      BY <1>1, <2>2, MainThread DEF LockInv
    <3>2. \A t \in Threads : pc[t] \in {"idle", "wait"}
      BY <2>0, <3>1 DEF Inside, Logging
    <3>3. stage \in {"started", "join", "ended"} /\ initialized
      BY <1>1, <2>2 DEF MainMoves, Alive, TypeOK, RunInv
    <3>4. CASE stage \in {"started", "ended"}
      <4>1. ThreadMoves(Main)
        BY <2>0, <2>2, <3>2, <3>3, <3>4 DEF ThreadMoves, HasCall, MayEnter
      <4>2. QED
        BY <2>0, <4>1
    <3>5. CASE stage = "join"
      <4>1. PICK f \in Fuzzers : ~Finished(f)
        BY <3>5 DEF MainMoves, Joined
      <4>2. f \in created /\ f # Main /\ f \in Threads
        BY <1>1, <2>0, <3>5, MainThread DEF RunInv
      <4>3. pc[f] = "idle" => n[f] < Iterations
        BY <1>1, <2>0, <4>1, <4>2 DEF Finished, RunInv
      <4>4. ThreadMoves(f)
        BY <2>2, <3>2, <3>3, <4>2, <4>3 DEF ThreadMoves, HasCall, MayEnter
      <4>5. QED
        BY <4>2, <4>4
    <3>6. QED
      BY <3>3, <3>4, <3>5
  <2>3. QED
    BY <2>1, <2>2
<1>2. IInv => TypeOK /\ LockInv
  BY DEF IInv
<1>3. QED
  BY <1>1, <1>2, Runs, Invariance, PTL
=============================================================================
