------------------------------- MODULE Logger -------------------------------
(***************************************************************************)
(* The logger of src/hw6 (src/logger.c, src/logger.h) under the program    *)
(* that drives it (bin/main.c): main opens the sinks named on its command  *)
(* line, logs "started", lets the fuzzer threads log concurrently, joins   *)
(* them, logs "ended" and closes the logger.                               *)
(*                                                                         *)
(* A record is not written in one call.  logger_log makes three stdio calls*)
(* per sink (prefix, message, newline); a FATAL record is followed by two  *)
(* more, in a second pass over the sinks, that print the backtrace found in*)
(* the one buffer all threads share.  Each stdio call is a step here, as is*)
(* each operation on the mutex, the buffer and the clock.                  *)
(***************************************************************************)
EXTENDS Naturals, Sequences

CONSTANTS
  Main,         \* the thread that runs main()
  Fuzzers,      \* the threads main creates
  NoThread,     \* the holder of a free mutex
  Iterations,   \* records per fuzzer (ITER_NUM)
  MaxArgs,      \* the driver's limit on sinks (LOGGER_MAX_SINKS, an error code)
  MaxSinks,     \* the library's limit (MAX_SINKS)
  MaxDrops      \* bound: stdio calls that fail unnoticed in one behaviour

ASSUME ThreadsAssumption == 
  Main \notin Fuzzers /\ Fuzzers # {} /\ NoThread \notin Fuzzers \cup {Main}
ASSUME LimitsAssumption ==
  /\ Iterations \in Nat /\ MaxArgs \in Nat
  /\ MaxSinks \in Nat /\ MaxDrops \in Nat

Threads == Fuzzers \cup {Main}
NoTrace == <<NoThread, 0>>
Kinds == {"std", "file"}       \* Sink.is_std

VARIABLES
  args,         \* the sinks still to be opened: the rest of argv
  stage,        \* where main() is
  created,      \* fuzzers that pthread_create has started
  initialized,  \* Logger.initialized
  sinks,        \* Logger.sinks[0 .. cur_sinks - 1]
  m,            \* Logger.m: the thread that holds it, or NoThread
  btbuf,        \* Logger.btbuf: whose call stack it holds, at which record
  pc,           \* each thread's place inside a logging call
  level,        \* level of the call: "log" (below FATAL) or "fatal"
  stamp,        \* timestamp of the call, a local of the two log functions
  bts,          \* what backtrace_symbols returned to the thread
  slot, part,   \* the loop over the sinks, the stdio call within it
  n,            \* records the thread has finished
  clock,        \* CLOCK_REALTIME, as the number of times it was read
  drops,        \* stdio calls that failed
  out           \* what was written through each sink, call by call

mainVars   == <<args, stage, created, initialized, sinks>>
callVars   == <<pc, level, stamp, bts, slot, part, n>>
vars == <<mainVars, m, btbuf, callVars, clock, drops, out>>

LogParts  == <<"prefix", "message", "newline">>
BackParts == <<"title", "frames">>
Parts(p)  == IF p = "write" THEN LogParts ELSE BackParts

Record == [thread : Threads, no : Nat, level : {"log", "fatal"}, stamp : Nat]
Written == [rec : Record, part : {"prefix", "message", "newline", "title", "frames"},
            trace : (Threads \cup {NoThread}) \X Nat]

TypeOK ==
  /\ args \in Seq(Kinds)
  /\ stage \in {"init", "usage", "enable", "enabling", "started", "create",
                "join", "ended", "deinit", "closing", "exit", "misused"}
  /\ created \subseteq Fuzzers
  /\ initialized \in BOOLEAN
  /\ sinks \in Seq(Kinds) /\ Len(sinks) <= MaxSinks
  /\ m \in Threads \cup {NoThread}
  /\ btbuf \in (Threads \cup {NoThread}) \X Nat
  /\ pc \in [Threads -> {"idle", "wait", "trace", "stamp", "write", "symbols",
                         "back", "unlock"}]
  /\ level \in [Threads -> {"log", "fatal"}]
  /\ stamp \in [Threads -> Nat]
  /\ bts \in [Threads -> (Threads \cup {NoThread}) \X Nat]
  /\ slot \in [Threads -> Nat \ {0}] /\ part \in [Threads -> Nat \ {0}]
  /\ n \in [Threads -> Nat]
  /\ clock \in Nat
  /\ drops \in 0..MaxDrops
  /\ out \in [1..MaxSinks -> Seq(Written)]

Arguments == UNION {[1..k -> Kinds] : k \in 0..(MaxArgs + 1)}

Init ==
  /\ args \in Arguments
  /\ stage = "init" /\ created = {} /\ initialized = FALSE /\ sinks = <<>>
  /\ m = NoThread /\ btbuf = NoTrace
  /\ pc = [t \in Threads |-> "idle"]
  /\ level = [t \in Threads |-> "log"]
  /\ stamp = [t \in Threads |-> 0]
  /\ bts = [t \in Threads |-> NoTrace]
  /\ slot = [t \in Threads |-> 1] /\ part = [t \in Threads |-> 1]
  /\ n = [t \in Threads |-> 0]
  /\ clock = 0 /\ drops = 0
  /\ out = [s \in 1..MaxSinks |-> <<>>]

-----------------------------------------------------------------------------
(***************************************************************************)
(* main()                                                                  *)
(***************************************************************************)
\* A mutant: the logger is closed before the last record is logged.
AfterDeinitFirst(s) == CASE s = "started" -> "create"
                         [] s = "create"  -> "join"
                         [] s = "join"    -> "deinit"
                         [] s = "deinit"  -> "ended"
                         [] s = "ended"   -> "exit"

\* The order of main's stages.
After(s) == CASE s = "started" -> "create"
              [] s = "create"  -> "join"
              [] s = "join"    -> "ended"
              [] s = "ended"   -> "deinit"
              [] s = "deinit"  -> "exit"

LoggerInit ==
  /\ stage = "init"
  /\ stage' = "usage"
  /\ initialized' = TRUE /\ sinks' = <<>>
  /\ UNCHANGED <<args, created, m, btbuf, callVars, clock, drops, out>>

\* No sink, or more than LOGGER_MAX_SINKS of them: exit without deinit.
Usage ==
  /\ stage = "usage"
  /\ stage' = IF Len(args) \in 1..MaxArgs THEN "enable" ELSE "misused"
  /\ UNCHANGED <<args, created, initialized, sinks, m, btbuf, callVars, clock,
                 drops, out>>

\* pthread_mutex_lock at the top of logger_enable_stdout / _file.
EnableLock ==
  /\ stage = "enable" /\ args # <<>> /\ m = NoThread
  /\ m' = Main /\ stage' = "enabling"
  /\ UNCHANGED <<args, created, initialized, sinks, btbuf, callVars, clock,
                 drops, out>>

\* The library's limit is reached when no slot is left.
SinksFull == Len(sinks) >= MaxSinks

\* The sink joins the others unless the limit is reached or fopen fails; main
\* ignores both errors.  The mutex is released on every path.
Enable ==
  /\ stage = "enabling"
  /\ \/ ~SinksFull /\ sinks' = Append(sinks, Head(args))
     \/ SinksFull /\ UNCHANGED sinks
     \/ ~SinksFull /\ Head(args) = "file" /\ UNCHANGED sinks
  /\ args' = Tail(args)
  /\ m' = NoThread /\ stage' = "enable"
  /\ UNCHANGED <<created, initialized, btbuf, callVars, clock, drops, out>>

AllEnabled ==
  /\ stage = "enable" /\ args = <<>>
  /\ stage' = "started"
  /\ UNCHANGED <<args, created, initialized, sinks, m, btbuf, callVars, clock,
                 drops, out>>

CreateFuzzer ==
  /\ stage = "create"
  /\ \E f \in Fuzzers \ created :
       /\ created' = created \cup {f}
       /\ stage' = IF created' = Fuzzers THEN After(stage) ELSE stage
  /\ UNCHANGED <<args, initialized, sinks, m, btbuf, callVars, clock, drops, out>>

Finished(f) == n[f] = Iterations /\ pc[f] = "idle"
\* A mutant: only the first of the threads is joined.
JoinedOne == \E f \in Fuzzers : Finished(f)

Joined == \A f \in Fuzzers : Finished(f)

Join ==
  /\ stage = "join" /\ Joined
  /\ stage' = After(stage)
  /\ UNCHANGED <<args, created, initialized, sinks, m, btbuf, callVars, clock,
                 drops, out>>

\* logger_deinit takes the mutex and never releases it: destroying a locked
\* mutex fails, and initialized stays TRUE.
DeinitLock ==
  /\ stage = "deinit" /\ m = NoThread
  /\ m' = Main /\ stage' = "closing"
  /\ slot' = [slot EXCEPT ![Main] = 1]
  /\ UNCHANGED <<args, created, initialized, sinks, btbuf, pc, level, stamp, bts,
                 part, n, clock, drops, out>>

CloseSink ==
  /\ stage = "closing" /\ slot[Main] <= Len(sinks)
  /\ \/ /\ slot' = [slot EXCEPT ![Main] = @ + 1]
        /\ UNCHANGED stage
     \/ /\ sinks[slot[Main]] = "file"         \* fclose fails
        /\ stage' = After("deinit") /\ UNCHANGED slot
  /\ UNCHANGED <<args, created, initialized, sinks, m, btbuf, pc, level, stamp,
                 bts, part, n, clock, drops, out>>

MutexDestroy ==
  /\ stage = "closing" /\ slot[Main] > Len(sinks)
  /\ sinks' = <<>>
  /\ stage' = After("deinit")
  /\ UNCHANGED <<args, created, initialized, m, btbuf, callVars, clock, drops, out>>

MainStep == \/ LoggerInit \/ Usage \/ EnableLock \/ Enable \/ AllEnabled
            \/ CreateFuzzer \/ Join \/ DeinitLock \/ CloseSink \/ MutexDestroy

-----------------------------------------------------------------------------
(***************************************************************************)
(* A logging call: LOGGER_INFO and the like are logger_log; LOGGER_FATAL   *)
(* is logger_lock, backtrace, logger_log_fatal, which unlocks.             *)
(***************************************************************************)
Alive == stage \notin {"exit", "misused"}

\* main logs two records; a fuzzer runs its loop once it is created.
HasCall(t) == IF t = Main THEN stage \in {"started", "ended"}
                          ELSE t \in created /\ n[t] < Iterations

Goto(t, p) == pc' = [pc EXCEPT ![t] = p]

TakeStamp(t) == /\ clock' = clock + 1
                /\ stamp' = [stamp EXCEPT ![t] = clock']
NoStamp == UNCHANGED <<clock, stamp>>

\* A mutant: LOGGER_FATAL, too, reads the clock first of all.
StampsOnEntry(l, place) == place = "entry"

\* logger_log reads the clock on entry, before it asks for the mutex;
\* logger_log_fatal is called with the mutex held and reads it then.
Stamps(l, place) == place = IF l = "log" THEN "entry" ELSE "locked"

Call(t) ==
  /\ pc[t] = "idle" /\ HasCall(t) /\ initialized
  /\ \E l \in {"log", "fatal"} :
       /\ t = Main => l = "log"
       /\ level' = [level EXCEPT ![t] = l]
       /\ IF Stamps(l, "entry") THEN TakeStamp(t) ELSE NoStamp
  /\ Goto(t, "wait")
  /\ UNCHANGED <<mainVars, m, btbuf, bts, slot, part, n, drops, out>>

\* A mutant: LOGGER_FATAL calls backtrace without logger_lock.
MayEnterUnlocked(t) == m = NoThread \/ level[t] = "fatal"

\* Who may go on: pthread_mutex_lock waits for the mutex.
MayEnter(t) == m = NoThread

Lock(t) ==
  /\ pc[t] = "wait" /\ MayEnter(t)
  /\ m' = t
  /\ slot' = [slot EXCEPT ![t] = 1] /\ part' = [part EXCEPT ![t] = 1]
  /\ Goto(t, IF level[t] = "log" THEN "write" ELSE "trace")
  /\ UNCHANGED <<mainVars, btbuf, level, stamp, bts, n, clock, drops, out>>

\* backtrace(logger_get_btbuf(), BT_LEN)
Backtrace(t) ==
  /\ pc[t] = "trace"
  /\ btbuf' = <<t, n[t]>>
  /\ Goto(t, "stamp")
  /\ UNCHANGED <<mainVars, m, level, stamp, bts, slot, part, n, clock, drops, out>>

FatalStamp(t) ==
  /\ pc[t] = "stamp"
  /\ IF Stamps(level[t], "locked") THEN TakeStamp(t) ELSE NoStamp
  /\ Goto(t, "write")
  /\ UNCHANGED <<mainVars, m, btbuf, level, bts, slot, part, n, drops, out>>

Rec(t) == [thread |-> t, no |-> n[t], level |-> level[t], stamp |-> stamp[t]]

\* What follows the pass over the sinks.
AfterPass(t) == IF pc[t] = "write" /\ level[t] = "fatal" THEN "symbols" ELSE "unlock"

\* One fprintf: the call may fail, and its result is not looked at.
PrintRecord(t) ==
  /\ pc[t] \in {"write", "back"} /\ slot[t] <= Len(sinks)
  /\ \/ /\ out' = [out EXCEPT ![slot[t]] =
                     Append(@, [rec |-> Rec(t), part |-> Parts(pc[t])[part[t]],
                                trace |-> bts[t]])]
        /\ UNCHANGED drops
     \/ drops < MaxDrops /\ drops' = drops + 1 /\ UNCHANGED out
  /\ IF part[t] < Len(Parts(pc[t]))
     THEN part' = [part EXCEPT ![t] = @ + 1] /\ UNCHANGED slot
     ELSE part' = [part EXCEPT ![t] = 1] /\ slot' = [slot EXCEPT ![t] = @ + 1]
  /\ UNCHANGED <<mainVars, m, btbuf, pc, level, stamp, bts, n, clock>>

PassDone(t) ==
  /\ pc[t] \in {"write", "back"} /\ slot[t] > Len(sinks)
  /\ Goto(t, AfterPass(t))
  /\ slot' = [slot EXCEPT ![t] = 1] /\ part' = [part EXCEPT ![t] = 1]
  /\ UNCHANGED <<mainVars, m, btbuf, level, stamp, bts, n, clock, drops, out>>

\* backtrace_symbols(Logger.btbuf, btn)
Symbols(t) ==
  /\ pc[t] = "symbols"
  /\ bts' = [bts EXCEPT ![t] = btbuf]
  /\ Goto(t, "back")
  /\ UNCHANGED <<mainVars, m, btbuf, level, stamp, slot, part, n, clock, drops, out>>

Unlock(t) ==
  /\ pc[t] = "unlock"
  /\ m' = NoThread
  /\ n' = [n EXCEPT ![t] = @ + 1]
  /\ stage' = IF t = Main THEN After(stage) ELSE stage
  /\ bts' = [bts EXCEPT ![t] = NoTrace]     \* free(bts)
  /\ Goto(t, "idle")
  /\ UNCHANGED <<args, created, initialized, sinks, btbuf, level, stamp, slot,
                 part, clock, drops, out>>

LogStep(t) == /\ Alive
              /\ \/ Call(t) \/ Lock(t) \/ Backtrace(t) \/ FatalStamp(t)
                 \/ PrintRecord(t) \/ PassDone(t) \/ Symbols(t) \/ Unlock(t)

Next == MainStep \/ \E t \in Threads : LogStep(t)

Spec == Init /\ [][Next]_vars

\* Each thread keeps running.  The mutex need not be fair: a fuzzer makes
\* finitely many calls, so another cannot be overtaken for ever.
FairSpec == /\ Spec
            /\ WF_vars(MainStep)
            /\ \A t \in Threads : WF_vars(LogStep(t))

-----------------------------------------------------------------------------
(***************************************************************************)
(* Properties                                                              *)
(***************************************************************************)
\* In every sink a record stays in one piece: between two stdio calls of one
\* record, backtrace included, there is none of another.
RecordsUnbroken ==
  \A s \in 1..MaxSinks : \A j \in 2..Len(out[s]) :
    out[s][j].rec # out[s][j - 1].rec =>
      \A i \in 1..(j - 1) : out[s][i].rec # out[s][j].rec

\* The backtrace printed under a FATAL record is that of the call that logged
\* it, although every thread captures into the same buffer (README of hw6: the
\* buffer must not be overwritten from another thread).
OwnBacktrace ==
  \A s \in 1..MaxSinks : \A i \in 1..Len(out[s]) :
    out[s][i].part = "frames" => out[s][i].trace = <<out[s][i].rec.thread, out[s][i].rec.no>>

\* A FATAL record is stamped while its thread holds the mutex, so no record
\* above it bears a later time.  This is not so of the other levels, which are
\* stamped before they wait.
FatalIsNewest ==
  \A s \in 1..MaxSinks : \A i, j \in 1..Len(out[s]) :
    i < j /\ out[s][j].rec.level = "fatal" => out[s][i].rec.stamp <= out[s][j].rec.stamp

Logged(s, t) == {i \in 1..Len(out[s]) : /\ out[s][i].rec.thread = t
                                        /\ out[s][i].part = "newline"}

\* When the program has run its course and no stdio call has failed, every sink
\* that was opened holds each record of each thread exactly once.
NothingLost ==
  stage \in {"deinit", "closing"} /\ drops = 0 =>
    \A s \in 1..Len(sinks) : \A t \in Threads :
      LET records == IF t = Main THEN 2 ELSE Iterations
      IN  \A k \in 0..(records - 1) :
          \E i \in Logged(s, t) : /\ out[s][i].rec.no = k
                                  /\ \A j \in Logged(s, t) : out[s][j].rec.no = k => i = j

\* The program ends, whatever fails and however the threads meet.
Terminates == <>(stage \in {"exit", "misused"})
=============================================================================
