------------------------------- MODULE Logger -------------------------------
(***************************************************************************)
(* The logger, src/src/c/logger.c, within one process: its threads and the *)
(* SIGINT handler, which logs as well, share the static buffer of          *)
(* format_log and the log directory, with no lock.                         *)
(*                                                                         *)
(* A frame is a thread or the handler, which runs on top of main.  A call  *)
(* formats once for the file; log_server_message formats twice more, once  *)
(* for nothing and once for the console.  snprintf and strcpy go byte by   *)
(* byte, strcpy as __strcpy_chk of the C library: first strlen, then as    *)
(* many bytes again.  The bytes of a line are the frame that logs it.      *)
(*                                                                         *)
(* Logging takes two locks of the C library that their holder cannot take  *)
(* again: localtime's, and the heap's, in malloc, fopen, free and fclose.  *)
(* (The locks of stdio's streams are recursive.)  Calls on one lock, one   *)
(* after the other, are one here.                                          *)
(***************************************************************************)
EXTENDS Integers, Sequences, FiniteSets

CONSTANTS
  Thread, Main,  \* the threads; the one that runs main and gets signals
  Handler,       \* the frame of the signal handler
  Program,       \* "server" or "client"
  Nul,           \* the byte 0
  BufferSize,    \* MAX_BUFFER_LOG
  Sizes,         \* bytes of a line before snprintf cuts it
  Interrupts,    \* whether someone may press Ctrl+C
  MaxCalls       \* bound: calls of each thread

ASSUME LoggerAssumption ==
  /\ Main \in Thread /\ Handler \notin Thread
  /\ Program \in {"server", "client"}
  /\ Nul \notin Thread \cup {Handler}
  /\ BufferSize \in Nat \ {0}
  /\ Sizes \subseteq Nat
  /\ Interrupts \in BOOLEAN

Frame == Thread \cup {Handler}

\* What becomes of a line.
Logged == [by : Frame, no : Nat, to : {"file", "console", "nowhere"}, whole : BOOLEAN]

VARIABLES
  at,      \* where each frame is in a call of the logger
  pass,    \* which of its formattings
  last,    \* and how many those are
  size,    \* bytes of its line
  pos,     \* its next byte
  length,  \* what strlen has returned to it
  buffer,  \* its copy of the line
  formatted_msg,  \* the static buffer
  lock,    \* who has the heap's lock and localtime's, or Nul
  dir,     \* what ./log is: "absent", "dir" or "file"
  calls,   \* calls each frame has begun
  output,  \* the lines that were written, or that no file could be opened for
  caught,  \* SIGINT came; its next one finds the default action
  ended,   \* the process has ended
  mixed    \* two frames were between snprintf and the end of strcpy at once

loggerVars == <<at, pass, last, size, pos, length, buffer, formatted_msg, lock, dir,
                calls, output, caught, ended, mixed>>
callVars == <<pass, last, size, calls>>
copyVars == <<pos, length, buffer>>
processVars == <<caught, ended>>

Locks == {"heap", "localtime"}

\* elsewhere: in a call outside the logger that has one of the locks.
Places == {"idle", "elsewhere", "malloc", "stat", "mkdir", "free", "fopen", "time",
           "format", "strlen", "strcpy", "write", "kill"}

\* The types of the logger's variables.
LoggerTypeOK ==
  /\ at \in [Frame -> Places]
  /\ pass \in [Frame -> 1 .. 3]
  /\ last \in [Frame -> {1, 3}]
  /\ size \in [Frame -> Nat]
  /\ pos \in [Frame -> Nat]
  /\ length \in [Frame -> Nat]
  /\ buffer \in [Frame -> Seq(Frame \cup {Nul})]
  /\ formatted_msg \in [0 .. BufferSize - 1 -> Frame \cup {Nul}]
  /\ lock \in [Locks -> Frame \cup {Nul}]
  /\ dir \in {"absent", "dir", "file"}
  /\ calls \in [Frame -> Nat]
  /\ output \subseteq Logged
  /\ caught \in BOOLEAN /\ ended \in BOOLEAN /\ mixed \in BOOLEAN

\* A static buffer starts as zeroes.
LoggerInit ==
  /\ at = [f \in Frame |-> "idle"]
  /\ pass = [f \in Frame |-> 1]
  /\ last = [f \in Frame |-> 1]
  /\ size = [f \in Frame |-> 0]
  /\ pos = [f \in Frame |-> 0]
  /\ length = [f \in Frame |-> 0]
  /\ buffer = [f \in Frame |-> <<>>]
  /\ formatted_msg = [i \in 0 .. BufferSize - 1 |-> Nul]
  /\ lock = [l \in Locks |-> Nul]
  /\ dir \in {"absent", "dir", "file"}
  /\ calls = [f \in Frame |-> 0]
  /\ output = {}
  /\ caught = FALSE /\ ended = FALSE /\ mixed = FALSE

\* While the handler runs, main does not.
Runs(f) == ~ended /\ (f = Main => at[Handler] = "idle")

\* The lock that the call a frame is at takes: the line for the file is
\* written between free and fclose.
LockFor(f) ==
  CASE at[f] \in {"malloc", "free", "fopen"} -> {"heap"}
    [] at[f] = "write" /\ pass[f] = 1 -> {"heap"}
    [] at[f] = "time" -> {"localtime"}
    [] OTHER -> {}

\* Mutant: a lock is not given back.
Released_never(f) == lock

Released(f) == [l \in Locks |-> IF lock[l] = f THEN Nul ELSE lock[l]]

\* A call is made with its lock, which its end gives back.
Step(f, from, to) ==
  /\ Runs(f) /\ at[f] = from
  /\ \A l \in LockFor(f) : lock[l] = f
  /\ at' = [at EXCEPT ![f] = to]
  /\ lock' = Released(f)

-----------------------------------------------------------------------------
(* Calls and signals.                                                      *)

Begins(f, n, k) ==
  /\ at' = [at EXCEPT ![f] = "malloc"]
  /\ pass' = [pass EXCEPT ![f] = 1]
  /\ last' = [last EXCEPT ![f] = k]
  /\ size' = [size EXCEPT ![f] = n]
  /\ calls' = [calls EXCEPT ![f] = @ + 1]

\* A thread logs something.  The server's main has logged one line before
\* there is another thread.
log_server_message(t) ==
  /\ Runs(t) /\ at[t] = "idle"
  /\ calls[t] < MaxCalls[t]
  /\ Program = "server" /\ t # Main
       => calls[Main] > 1 \/ (calls[Main] = 1 /\ at[Main] \in {"idle", "elsewhere"})
  /\ \E n \in Sizes, k \in {1, 3} : (Program = "server" => k = 3) /\ Begins(t, n, k)
  /\ UNCHANGED <<copyVars, formatted_msg, lock, dir, output, processVars, mixed>>

\* What else a thread does takes the heap's lock, and in the client, which
\* prints texts with their time, localtime's.
elsewhere(t) ==
  /\ Runs(t) /\ at[t] = "idle"
  /\ \E l \in Locks :
       /\ l = "localtime" => Program = "client"
       /\ lock[l] = Nul
       /\ lock' = [lock EXCEPT ![l] = t]
  /\ at' = [at EXCEPT ![t] = "elsewhere"]
  /\ UNCHANGED <<callVars, copyVars, formatted_msg, dir, output, processVars, mixed>>

elsewhere_returns(t) ==
  /\ Step(t, "elsewhere", "idle")
  /\ UNCHANGED <<callVars, copyVars, formatted_msg, dir, output, processVars, mixed>>

\* The first SIGINT: handle_sig and handle_sigint log a line.
interrupted ==
  /\ Interrupts /\ ~caught /\ ~ended
  /\ caught' = TRUE
  /\ \E n \in Sizes : Begins(Handler, n, IF Program = "server" THEN 3 ELSE 1)
  /\ UNCHANGED <<copyVars, formatted_msg, lock, dir, output, ended, mixed>>

\* signal, as compiled (-std=c11), leaves the second SIGINT to its default.
interrupted_again ==
  /\ Interrupts /\ caught /\ ~ended
  /\ ended' = TRUE
  /\ UNCHANGED <<at, callVars, copyVars, formatted_msg, lock, dir, output, caught, mixed>>

\* The server's handler sends SIGQUIT to its own process group.
handle_sig ==
  /\ Step(Handler, "kill", "idle")
  /\ ended' = TRUE
  /\ UNCHANGED <<callVars, copyVars, formatted_msg, dir, output, caught, mixed>>

\* Where a call ends: the client's handler returns, the server's goes on.
Done(f) == IF Program = "server" /\ f = Handler THEN "kill" ELSE "idle"

\* Mutant: the call never takes a formatting for its last.
AfterPass_again(f) == IF pass[f] <= last[f] THEN "time" ELSE Done(f)

\* What follows a formatting.
AfterPass(f) == IF pass[f] < last[f] THEN "time" ELSE Done(f)

\* Mutant: the formattings are counted on past the last.
NextPass_on(f) == pass' = [pass EXCEPT ![f] = @ + 1]

NextPass(f) == pass' = [pass EXCEPT ![f] = IF @ < last[f] THEN @ + 1 ELSE @]

-----------------------------------------------------------------------------
(* log_file_message, with ensure_log_directory.                            *)

\* The lock of the call a frame is at, malloc, fopen, localtime, free or
\* fclose, is taken once nobody has it.
takes_lock(f) ==
  /\ Runs(f)
  /\ \E l \in LockFor(f) : lock[l] = Nul /\ lock' = [lock EXCEPT ![l] = f]
  /\ UNCHANGED <<at, callVars, copyVars, formatted_msg, dir, output, processVars, mixed>>

malloc(f) ==
  /\ Step(f, "malloc", "stat")
  /\ UNCHANGED <<callVars, copyVars, formatted_msg, dir, output, processVars, mixed>>

\* Mutant: the directory is made without a look.
ensure_log_directory_blind(f) ==
  /\ Step(f, "stat", "mkdir")
  /\ UNCHANGED <<callVars, copyVars, formatted_msg, dir, output, processVars, mixed>>

\* stat: what is there decides; where a file is, the line is lost.
ensure_log_directory(f) ==
  /\ \/ dir = "absent" /\ Step(f, "stat", "mkdir")
     \/ dir = "dir" /\ Step(f, "stat", "fopen")
     \/ dir = "file" /\ Step(f, "stat", "free")
  /\ UNCHANGED <<callVars, copyVars, formatted_msg, dir, output, processVars, mixed>>

\* mkdir: when somebody made the directory after the stat, it fails and the
\* line is lost.
mkdir(f) ==
  /\ Step(f, "mkdir", IF dir = "absent" THEN "fopen" ELSE "free")
  /\ dir' = IF dir = "absent" THEN "dir" ELSE dir
  /\ UNCHANGED <<callVars, copyVars, formatted_msg, output, processVars, mixed>>

\* A line that is lost has its copy of the path freed.
free(f) ==
  /\ Step(f, "free", AfterPass(f)) /\ NextPass(f)
  /\ UNCHANGED <<last, size, calls, copyVars, formatted_msg, dir, output, processVars, mixed>>

\* The other program, started in the same directory, makes it.
other_program ==
  /\ dir = "absent" /\ ~ended
  /\ dir' = "dir"
  /\ UNCHANGED <<at, callVars, copyVars, formatted_msg, lock, output, processVars, mixed>>

Nowhere(f) == [by |-> f, no |-> calls[f], to |-> "nowhere", whole |-> TRUE]

\* fopen fails when the process has no descriptor left, as the server's in time.
fopen(f) ==
  /\ \/ Step(f, "fopen", "time") /\ UNCHANGED <<pass, output>>
     \/ /\ Step(f, "fopen", AfterPass(f)) /\ NextPass(f)
        /\ output' = output \cup {Nowhere(f)}
  /\ UNCHANGED <<last, size, calls, copyVars, formatted_msg, dir, processVars, mixed>>

-----------------------------------------------------------------------------
(* log_message, with format_log.                                           *)

Touching(f) == at[f] \in {"format", "strlen", "strcpy"}

localtime(f) ==
  /\ Step(f, "time", "format")
  /\ pos' = [pos EXCEPT ![f] = 0]
  /\ mixed' = (mixed \/ \E g \in Frame \ {f} : Touching(g))
  /\ UNCHANGED <<callVars, length, buffer, formatted_msg, dir, output, processVars>>

\* Mutant: a whole line is taken to fit where its end does not.
Kept_off(f) == IF size[f] <= BufferSize THEN size[f] ELSE BufferSize

\* The bytes of its line that snprintf writes.
Kept(f) == IF size[f] < BufferSize THEN size[f] ELSE BufferSize - 1

format_log(f) ==
  /\ at[f] = "format"
  /\ formatted_msg' = [formatted_msg EXCEPT ![pos[f]] = IF pos[f] < Kept(f) THEN f ELSE Nul]
  /\ \/ /\ pos[f] < Kept(f)
        /\ Step(f, "format", "format")
        /\ pos' = [pos EXCEPT ![f] = @ + 1]
     \/ /\ pos[f] = Kept(f)
        /\ Step(f, "format", "strlen")
        /\ pos' = [pos EXCEPT ![f] = 0]
  /\ UNCHANGED <<callVars, length, buffer, dir, output, processVars, mixed>>

strlen(f) ==
  /\ at[f] = "strlen"
  /\ \/ /\ formatted_msg[pos[f]] # Nul
        /\ Step(f, "strlen", "strlen")
        /\ pos' = [pos EXCEPT ![f] = @ + 1]
        /\ UNCHANGED <<length, buffer>>
     \/ /\ formatted_msg[pos[f]] = Nul
        /\ Step(f, "strlen", "strcpy")
        /\ length' = [length EXCEPT ![f] = pos[f]]
        /\ pos' = [pos EXCEPT ![f] = 0]
        /\ UNCHANGED buffer
  /\ UNCHANGED <<callVars, formatted_msg, dir, output, processVars, mixed>>

\* Mutant: strncpy up to the length, which leaves the line open.
LastByte_open(f) == length[f] - 1

LastByte(f) == length[f]

\* strcpy copies what strlen counted and the byte after it, whatever they are
\* by now.
log_message(f) ==
  /\ Step(f, "strcpy", IF pos[f] < LastByte(f) THEN "strcpy" ELSE "write")
  /\ buffer' = [buffer EXCEPT ![f] = Append(@, formatted_msg[pos[f]])]
  /\ pos' = [pos EXCEPT ![f] = @ + 1]
  /\ UNCHANGED <<callVars, length, formatted_msg, dir, output, processVars, mixed>>

\* The line as its caller meant it, closed.
Meant(f) == [i \in 1 .. Kept(f) + 1 |-> IF i <= Kept(f) THEN f ELSE Nul]

Line(f, to) ==
  [by |-> f, no |-> calls[f], to |-> to, whole |-> buffer[f] = Meant(f)]

\* free, fputs and fclose append the line to the file in one write; the second
\* formatting is not used; the third is printed.
log_print_message(f) ==
  /\ Step(f, "write", AfterPass(f))
  /\ output' = output \cup
       CASE pass[f] = 1 -> {Line(f, "file")}
         [] pass[f] = 2 -> {}
         [] pass[f] = 3 -> {Line(f, "console")}
  /\ NextPass(f)
  /\ pos' = [pos EXCEPT ![f] = 0]
  /\ length' = [length EXCEPT ![f] = 0]
  /\ buffer' = [buffer EXCEPT ![f] = <<>>]
  /\ UNCHANGED <<last, size, calls, formatted_msg, dir, processVars, mixed>>

-----------------------------------------------------------------------------
FrameStep(f) ==
  \/ takes_lock(f)
  \/ malloc(f)
  \/ ensure_log_directory(f)
  \/ mkdir(f)
  \/ free(f)
  \/ fopen(f)
  \/ localtime(f)
  \/ format_log(f)
  \/ strlen(f)
  \/ log_message(f)
  \/ log_print_message(f)

LoggerNext ==
  \/ \E t \in Thread : log_server_message(t) \/ elsewhere(t) \/ elsewhere_returns(t)
  \/ \E f \in Frame : FrameStep(f)
  \/ interrupted \/ interrupted_again \/ handle_sig
  \/ other_program

LoggerSpec == LoggerInit /\ [][LoggerNext]_loggerVars

-----------------------------------------------------------------------------
(* What the log keeps.                                                     *)

\* The unbounded strlen and strcpy of log_message (logger.c:17) end inside
\* both buffers, although other frames write the static one meanwhile.
CopyStaysInside ==
  /\ formatted_msg[BufferSize - 1] = Nul
  /\ \A f \in Frame : Touching(f) => pos[f] < BufferSize
  /\ \A f \in Frame : Len(buffer[f]) <= BufferSize

\* Every line is written as its caller meant it, cut to the buffer and closed,
\* until two frames have used the buffer at once; so one thread alone, or
\* several that happen to take turns, lose nothing (logger.c:28).
LinesWhole == ~mixed => \A l \in output : l.whole

InFile(f) == at[f] \notin {"idle", "elsewhere", "kill"} /\ pass[f] = 1

\* Of all it logs, a frame loses one line of the file at most to the race for
\* the directory (logger.c:149-162), besides those for which fopen fails, when
\* ./log is no file.
LostOnce ==
  dir # "file" => \A f \in Frame :
    Cardinality({l \in output : l.by = f /\ l.to \in {"file", "nowhere"}})
      >= calls[f] - (IF InFile(f) THEN 2 ELSE 1)

-----------------------------------------------------------------------------
(* What makes CopyStaysInside, LinesWhole and LostOnce inductive.          *)

\* What a frame has written into the static buffer is its line up to here.
Holds(f, n) == \A i \in 0 .. n - 1 : formatted_msg[i] = f

\* Where a frame is in either buffer, whoever else writes the static one.
Inside(f) ==
  /\ at[f] = "format" => pos[f] <= Kept(f)
  /\ at[f] = "strlen" => pos[f] < BufferSize
  /\ at[f] = "strcpy" => /\ pos[f] <= length[f] /\ length[f] < BufferSize
                         /\ Len(buffer[f]) = pos[f]
  /\ at[f] = "write" => Len(buffer[f]) <= BufferSize
  /\ at[f] \notin {"strcpy", "write"} => buffer[f] = <<>>

WithinBuffers ==
  /\ ~caught => at[Handler] = "idle"
  /\ formatted_msg[BufferSize - 1] = Nul
  /\ \A f \in Frame : Inside(f)

\* How far the line of a frame has come while nobody disturbed it.
Clean(f) ==
  /\ at[f] = "format" => Holds(f, pos[f])
  /\ at[f] \in {"strlen", "strcpy"}
       => Holds(f, Kept(f)) /\ formatted_msg[Kept(f)] = Nul /\ pos[f] <= Kept(f)
  /\ at[f] = "strcpy" => length[f] = Kept(f) /\ buffer[f] = [i \in 1 .. pos[f] |-> f]
  /\ at[f] = "write" => buffer[f] = Meant(f)

Undisturbed ==
  /\ \A f, g \in Frame : Touching(f) /\ Touching(g) => f = g
  /\ \A f \in Frame : Clean(f)
  /\ \A l \in output : l.whole

\* Calls of f whose part for the file is over.
Filed(f) == IF InFile(f) THEN calls[f] - 1 ELSE calls[f]

\* Those of them whose line is in no file, though one could be opened.
Lost(f) ==
  {n \in 1 .. Filed(f) :
     ~ \E l \in output : l.by = f /\ l.no = n /\ l.to \in {"file", "nowhere"}}

\* A frame that has lost a line knows of the directory from now on.
Losses ==
  /\ IsFiniteSet(output)
  /\ \A f \in Frame :
       at[f] \in {"malloc", "stat", "mkdir", "free", "fopen"} => pass[f] = 1
  /\ dir # "file" => \A f \in Frame :
       /\ \A i, j \in Lost(f) : i = j
       /\ Lost(f) # {} => dir = "dir" /\ at[f] \notin {"mkdir", "free"}
       /\ at[f] = "free" => dir = "dir"

\* A lock is held by a frame in the call that takes it, and by no other.
LockHeld ==
  \A l \in Locks : \A f \in Frame :
    lock[l] = f => l \in LockFor(f) \/ (f \in Thread /\ at[f] = "elsewhere")

\* The inductive invariant.
LoggerInv ==
  /\ LoggerTypeOK
  /\ WithinBuffers
  /\ ~mixed => Undisturbed
  /\ Losses
  /\ LockHeld

-----------------------------------------------------------------------------
(* Progress, when the kernel schedules every thread.                       *)

\* A lock that is free again and again is got at last.
LiveLoggerSpec ==
  /\ LoggerSpec
  /\ \A f \in Frame : WF_loggerVars(FrameStep(f)) /\ SF_loggerVars(takes_lock(f))
  /\ \A t \in Thread : WF_loggerVars(elsewhere_returns(t))
  /\ WF_loggerVars(handle_sig)

\* A frame waits for a lock that another has.
Waits(f) == \E l \in LockFor(f) : lock[l] \notin {f, Nul}

\* The handler interrupted main where it had a lock, and waits there for main.
Stuck == \E l \in LockFor(Handler) : lock[l] = Main

InCall(f) == at[f] \notin {"idle", "elsewhere"}

\* While some frame is in a call, one that has or wants a lock can take its
\* next step, unless the process has ended or the handler waits for main.
SomeoneMoves ==
  (\E f \in Frame : InCall(f)) /\ ~ended /\ ~Stuck
    => \E f \in Frame : at[f] # "idle" /\ Runs(f) /\ ~Waits(f)

\* Logging returns to its caller, and the handler of the server to its end:
\* the one thing that can hang them is that SIGINT came while main was inside
\* localtime, or inside malloc, free, fopen or fclose, in the logger or out of
\* it (server.c:451, client.c:591, logger.c:32, 96, 106, 114-116).
CallsReturn == \A f \in Frame : InCall(f) ~> (~InCall(f) \/ ended \/ Stuck)

\* "Flag to indicate if Ctrl+C (SIGINT) was caught" (server.c:18): the flag is
\* set and the process ended by the handler, after the line it logs.
InterruptEnds == caught ~> ended
=============================================================================
