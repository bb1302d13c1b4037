---------------------------- MODULE LoggerProofs ----------------------------
(***************************************************************************)
(* The static buffer of the logger, for any number of threads, any size of *)
(* the buffer and lines of any length.                                     *)
(***************************************************************************)
EXTENDS Logger, FiniteSetTheorems, TLAPS

\* What snprintf keeps of a line leaves room for its end.
LEMMA KeptFits ==
  ASSUME NEW f \in Frame, LoggerTypeOK
  PROVE  Kept(f) \in Nat /\ Kept(f) < BufferSize
BY LoggerAssumption DEF Kept, LoggerTypeOK

\* Kept depends on the size of the line alone.
LEMMA KeptStays ==
  ASSUME NEW f \in Frame, size'[f] = size[f]
  PROVE  Kept(f)' = Kept(f)
BY DEF Kept

LEMMA NextPassTyped ==
  ASSUME NEW f \in Frame, LoggerTypeOK, NextPass(f)
  PROVE  pass' \in [Frame -> 1 .. 3]
<1>1. pass \in [Frame -> 1 .. 3] /\ last[f] \in {1, 3}
  BY DEF LoggerTypeOK
<1>2. (IF pass[f] < last[f] THEN pass[f] + 1 ELSE pass[f]) \in 1 .. 3
  BY <1>1
<1> QED BY <1>1, <1>2 DEF NextPass

\* A frame gives its locks back, to nobody.
LEMMA ReleasedTyped ==
  ASSUME NEW f \in Frame, LoggerTypeOK
  PROVE  Released(f) \in [Locks -> Frame \cup {Nul}]
BY DEF Released, LoggerTypeOK

\* The steps of a call that only ask the system for something.
Asks(f) ==
  \/ malloc(f) \/ ensure_log_directory(f) \/ mkdir(f) \/ free(f) \/ fopen(f)

\* Where such a step leads.
LEMMA AskingStep ==
  ASSUME NEW f \in Frame, LoggerTypeOK, Asks(f)
  PROVE  /\ at[f] \in {"malloc", "stat", "mkdir", "free", "fopen"}
         /\ \E l \in {"stat", "mkdir", "free", "fopen", "time", "kill", "idle"} :
              at' = [at EXCEPT ![f] = l]
         /\ pass' \in [Frame -> 1 .. 3]
         /\ lock' = Released(f) /\ dir' \in {"absent", "dir", "file"}
         /\ output' \subseteq Logged
         /\ \A l \in output' : l \in output \/ l.whole
         /\ UNCHANGED <<last, size, calls, copyVars, formatted_msg, processVars, mixed>>
<1> USE DEF LoggerTypeOK
<1>1. AfterPass(f) \in {"time", "kill", "idle"}
  BY DEF AfterPass, Done
<1>2. NextPass(f) => pass' \in [Frame -> 1 .. 3]
  BY NextPassTyped
<1>3. CASE malloc(f) \/ ensure_log_directory(f)
  BY <1>3 DEF malloc, ensure_log_directory, Step, callVars
<1>4. CASE mkdir(f) \/ free(f)
  BY <1>1, <1>2, <1>4 DEF mkdir, free, Step, callVars
<1>5. CASE fopen(f)
  <2>1. /\ pass' \in [Frame -> 1 .. 3]
        /\ \E l \in {"time", "kill", "idle"} : at' = [at EXCEPT ![f] = l]
        /\ at[f] = "fopen" /\ lock' = Released(f)
        /\ UNCHANGED <<last, size, calls, copyVars, formatted_msg, dir, processVars, mixed>>
    BY <1>1, <1>2, <1>5 DEF fopen, Step
  <2>2. \/ output' = output
        \/ output' = output \cup {Nowhere(f)}
    BY <1>5 DEF fopen
  <2>3. Nowhere(f) \in Logged /\ Nowhere(f).whole
    BY DEF Logged, Nowhere
  <2>4. output' \subseteq Logged /\ \A l \in output' : l \in output \/ l.whole
    BY <2>2, <2>3
  <2> QED BY <2>1, <2>4
<1> QED BY <1>3, <1>4, <1>5 DEF Asks

\* A step that leaves every frame where it is in the logger, or out of it.
Aside ==
  /\ UNCHANGED <<callVars, copyVars, formatted_msg, output, caught, mixed>>
  /\ lock' \in [Locks -> Frame \cup {Nul}] /\ ended' \in BOOLEAN
  /\ dir' = dir \/ (dir = "absent" /\ dir' = "dir")
  /\ \/ at' = at
     \/ \E f \in Frame, l \in {"idle", "elsewhere"} :
          /\ at[f] \in {"idle", "elsewhere", "kill"}
          /\ at' = [at EXCEPT ![f] = l]
          /\ f = Handler => l = "idle"

LEMMA AsideStep ==
  ASSUME LoggerTypeOK,
         \/ \E f \in Frame : takes_lock(f)
         \/ \E t \in Thread : elsewhere(t) \/ elsewhere_returns(t)
         \/ interrupted_again \/ handle_sig \/ other_program
  PROVE  Aside
<1>1. lock \in [Locks -> Frame \cup {Nul}] /\ Handler \in Frame
  BY DEF LoggerTypeOK, Frame
<1>2. ASSUME NEW f \in Frame, takes_lock(f) PROVE Aside
  <2>1. LockFor(f) \subseteq Locks
    BY DEF LockFor, Locks
  <2>2. lock' \in [Locks -> Frame \cup {Nul}]
    BY <1>1, <1>2, <2>1 DEF takes_lock
  <2> QED BY <1>2, <2>2 DEF takes_lock, Aside, processVars, LoggerTypeOK
<1>3. ASSUME NEW t \in Thread, elsewhere(t) PROVE Aside
  <2>1. t \in Frame /\ t # Handler
    BY LoggerAssumption DEF Frame
  <2>2. lock' \in [Locks -> Frame \cup {Nul}]
    BY <1>1, <1>3, <2>1 DEF elsewhere
  <2> QED BY <1>3, <2>1, <2>2 DEF elsewhere, Aside, processVars, LoggerTypeOK
<1>4. ASSUME NEW t \in Thread, elsewhere_returns(t) PROVE Aside
  <2>1. t \in Frame
    BY DEF Frame
  <2> QED
    BY <1>4, <2>1, ReleasedTyped
    DEF elsewhere_returns, Step, Aside, processVars, LoggerTypeOK
<1>5. CASE handle_sig
  BY <1>1, <1>5, ReleasedTyped DEF handle_sig, Step, Aside, processVars
<1>6. CASE interrupted_again \/ other_program
  BY <1>1, <1>6 DEF interrupted_again, other_program, Aside, processVars, LoggerTypeOK
<1> QED BY <1>2, <1>3, <1>4, <1>5, <1>6

\* A frame begins a call.
Starts(f) ==
  /\ at[f] = "idle" \/ (f = Handler /\ ~caught)
  /\ at' = [at EXCEPT ![f] = "malloc"]
  /\ pass' \in [Frame -> 1 .. 3] /\ last' \in [Frame -> {1, 3}]
  /\ size' \in [Frame -> Nat] /\ \A g \in Frame \ {f} : size'[g] = size[g]
  /\ calls' \in [Frame -> Nat] /\ caught' \in BOOLEAN
  /\ caught' \/ (~caught /\ f # Handler)
  /\ UNCHANGED <<copyVars, formatted_msg, lock, dir, output, ended, mixed>>

LEMMA StartingStep ==
  ASSUME LoggerTypeOK,
         interrupted \/ \E t \in Thread : log_server_message(t)
  PROVE  \E f \in Frame : Starts(f)
<1> USE LoggerAssumption DEF LoggerTypeOK
<1>1. ASSUME NEW f \in Frame, NEW n \in Sizes, NEW k \in {1, 3}, Begins(f, n, k)
      PROVE  /\ at' = [at EXCEPT ![f] = "malloc"]
             /\ pass' \in [Frame -> 1 .. 3] /\ last' \in [Frame -> {1, 3}]
             /\ size' \in [Frame -> Nat] /\ \A g \in Frame \ {f} : size'[g] = size[g]
             /\ calls' \in [Frame -> Nat]
  <2>1. /\ pass \in [Frame -> 1 .. 3] /\ last \in [Frame -> {1, 3}]
        /\ size \in [Frame -> Nat] /\ calls \in [Frame -> Nat] /\ n \in Nat
    OBVIOUS
  <2>2. /\ at' = [at EXCEPT ![f] = "malloc"] /\ pass' = [pass EXCEPT ![f] = 1]
        /\ last' = [last EXCEPT ![f] = k] /\ size' = [size EXCEPT ![f] = n]
        /\ calls' = [calls EXCEPT ![f] = @ + 1]
    BY <1>1 DEF Begins
  <2> QED BY ONLY <2>1, <2>2
<1>2. CASE interrupted
  <2>1. PICK n \in Sizes, k \in {1, 3} : Begins(Handler, n, k)
    BY <1>2 DEF interrupted
  <2>2. Handler \in Frame
    BY DEF Frame
  <2>3. Starts(Handler)
    BY <1>1, <1>2, <2>1, <2>2 DEF interrupted, Starts
  <2> QED BY <2>2, <2>3
<1>3. ASSUME NEW t \in Thread, log_server_message(t)
      PROVE  \E f \in Frame : Starts(f)
  <2>1. PICK n \in Sizes, k \in {1, 3} : Begins(t, n, k)
    BY <1>3 DEF log_server_message
  <2>2. t \in Frame
    BY DEF Frame
  <2>3. /\ UNCHANGED <<copyVars, formatted_msg, lock, dir, output, ended, mixed>>
        /\ caught' = caught
    BY <1>3 DEF log_server_message, processVars
  <2>4. t # Handler
    OBVIOUS
  <2>5. at[t] = "idle"
    BY <1>3 DEF log_server_message
  <2>6. caught' \/ (~caught /\ t # Handler)
    BY <2>3, <2>4
  <2>7. caught' \in BOOLEAN
    BY <2>3
  <2>8. /\ at' = [at EXCEPT ![t] = "malloc"]
        /\ pass' \in [Frame -> 1 .. 3] /\ last' \in [Frame -> {1, 3}]
        /\ size' \in [Frame -> Nat] /\ \A g \in Frame \ {t} : size'[g] = size[g]
        /\ calls' \in [Frame -> Nat]
    BY <1>1, <2>1, <2>2
  <2>9. Starts(t)
    BY ONLY <2>3, <2>5, <2>6, <2>7, <2>8, Zenon DEF Starts
  <2> QED BY <2>2, <2>9
<1> QED BY <1>2, <1>3

-----------------------------------------------------------------------------
(* Types.                                                                  *)

LEMMA TypedInit == ASSUME LoggerInit PROVE LoggerTypeOK
<1>1. output \subseteq Logged
  BY DEF LoggerInit
<1>2. lock \in [Locks -> Frame \cup {Nul}]
  BY DEF LoggerInit
<1>3. at \in [Frame -> Places]
  BY DEF LoggerInit, Places
<1>4. /\ buffer \in [Frame -> Seq(Frame \cup {Nul})]
      /\ formatted_msg \in [0 .. BufferSize - 1 -> Frame \cup {Nul}]
  BY DEF LoggerInit
<1>5. /\ pass \in [Frame -> 1 .. 3] /\ last \in [Frame -> {1, 3}]
      /\ size \in [Frame -> Nat] /\ pos \in [Frame -> Nat]
      /\ length \in [Frame -> Nat] /\ calls \in [Frame -> Nat]
  BY DEF LoggerInit
<1> QED BY <1>1, <1>2, <1>3, <1>4, <1>5 DEF LoggerInit, LoggerTypeOK

\* A step of frame f that leaves everything but its place and its copying.
Copies(f) ==
  /\ pass' = pass /\ last' = last /\ size' = size /\ calls' = calls
  /\ dir' = dir /\ output' = output /\ caught' = caught /\ ended' = ended

LEMMA CopyingStep ==
  ASSUME NEW f \in Frame,
         localtime(f) \/ format_log(f) \/ strlen(f) \/ log_message(f)
  PROVE  Copies(f)
BY DEF localtime, format_log, strlen, log_message, Copies, callVars, processVars

LEMMA TypedStep ==
  ASSUME LoggerTypeOK, WithinBuffers, [LoggerNext]_loggerVars
  PROVE  LoggerTypeOK'
<1> USE LoggerAssumption
<1>1. ASSUME NEW f \in Frame, Asks(f)
      PROVE  LoggerTypeOK'
  <2>1. PICK l \in Places : at' = [at EXCEPT ![f] = l]
    BY <1>1, AskingStep DEF Places
  <2>2. /\ last' = last /\ size' = size /\ calls' = calls
        /\ pos' = pos /\ length' = length /\ buffer' = buffer
        /\ formatted_msg' = formatted_msg /\ mixed' = mixed
        /\ caught' = caught /\ ended' = ended
    BY <1>1, AskingStep DEF copyVars, processVars
  <2>3. /\ pass' \in [Frame -> 1 .. 3]
        /\ lock' \in [Locks -> Frame \cup {Nul}]
        /\ dir' \in {"absent", "dir", "file"} /\ output' \subseteq Logged
    BY <1>1, AskingStep, ReleasedTyped
  <2> QED BY <2>1, <2>2, <2>3 DEF LoggerTypeOK
<1>2. ASSUME NEW f \in Frame, Starts(f)
      PROVE  LoggerTypeOK'
  <2>1. /\ pos' = pos /\ length' = length /\ buffer' = buffer
        /\ formatted_msg' = formatted_msg /\ lock' = lock /\ dir' = dir
        /\ output' = output /\ ended' = ended /\ mixed' = mixed
    BY <1>2 DEF Starts, copyVars
  <2>2. at' \in [Frame -> Places]
    BY <1>2 DEF Starts, LoggerTypeOK, Places
  <2> QED BY <1>2, <2>1, <2>2 DEF Starts, LoggerTypeOK
<1>3. ASSUME NEW f \in Frame,
             localtime(f) \/ format_log(f) \/ strlen(f) \/ log_message(f)
      PROVE  LoggerTypeOK'
  <2>1. Copies(f)
    BY <1>3, CopyingStep
  <2>2. /\ at' \in [Frame -> Places] /\ lock' \in [Locks -> Frame \cup {Nul}]
        /\ mixed' \in BOOLEAN
    <3>1. /\ lock' = Released(f)
          /\ \E l \in {"format", "strlen", "strcpy", "write"} : at' = [at EXCEPT ![f] = l]
      BY <1>3 DEF localtime, format_log, strlen, log_message, Step
    <3>2. mixed' \in BOOLEAN
      BY <1>3 DEF localtime, format_log, strlen, log_message, LoggerTypeOK
    <3>3. at' \in [Frame -> Places]
      BY <3>1 DEF LoggerTypeOK, Places
    <3> QED BY <3>1, <3>2, <3>3, ReleasedTyped
  <2>3. pos' \in [Frame -> Nat] /\ length' \in [Frame -> Nat]
    <3>1. pos \in [Frame -> Nat] /\ length \in [Frame -> Nat]
      BY DEF LoggerTypeOK
    <3>2. /\ \E n \in {0, pos[f] + 1} : pos' = [pos EXCEPT ![f] = n]
          /\ length' = length \/ length' = [length EXCEPT ![f] = pos[f]]
      BY <1>3 DEF localtime, format_log, strlen, log_message
    <3> QED BY <3>1, <3>2
  <2>4. formatted_msg' \in [0 .. BufferSize - 1 -> Frame \cup {Nul}]
    <3>1. CASE format_log(f)
      <4>1. (IF pos[f] < Kept(f) THEN f ELSE Nul) \in Frame \cup {Nul}
        OBVIOUS
      <4> QED BY <3>1, <4>1 DEF format_log, LoggerTypeOK
    <3> QED BY <1>3, <3>1 DEF localtime, strlen, log_message, LoggerTypeOK
  <2>5. buffer' \in [Frame -> Seq(Frame \cup {Nul})]
    <3>1. CASE log_message(f)
      <4>1. formatted_msg[pos[f]] \in Frame \cup {Nul}
        <5>1. pos[f] <= length[f] /\ length[f] < BufferSize
          BY <3>1 DEF log_message, Step, WithinBuffers, Inside
        <5>2. pos[f] \in Nat /\ length[f] \in Nat
          BY DEF LoggerTypeOK
        <5>3. pos[f] \in 0 .. BufferSize - 1
          BY <5>1, <5>2
        <5> QED BY <5>3 DEF LoggerTypeOK
      <4>2. buffer \in [Frame -> Seq(Frame \cup {Nul})]
        BY DEF LoggerTypeOK
      <4>3. Append(buffer[f], formatted_msg[pos[f]]) \in Seq(Frame \cup {Nul})
        BY <4>1, <4>2
      <4>4. buffer' = [buffer EXCEPT ![f] = Append(buffer[f], formatted_msg[pos[f]])]
        BY <3>1 DEF log_message
      <4> QED BY <4>2, <4>3, <4>4
    <3> QED BY <1>3, <3>1 DEF localtime, format_log, strlen, LoggerTypeOK
  <2> QED BY <2>1, <2>2, <2>3, <2>4, <2>5 DEF Copies, LoggerTypeOK
<1>4. ASSUME NEW f \in Frame, log_print_message(f)
      PROVE  LoggerTypeOK'
  <2>1. /\ last' = last /\ size' = size /\ calls' = calls
        /\ formatted_msg' = formatted_msg /\ dir' = dir
        /\ lock' \in [Locks -> Frame \cup {Nul}]
        /\ mixed' = mixed /\ caught' = caught /\ ended' = ended
    BY <1>4, ReleasedTyped DEF log_print_message, Step, processVars
  <2>2. at' \in [Frame -> Places]
    BY <1>4 DEF log_print_message, Step, AfterPass, Done, LoggerTypeOK, Places
  <2>3. pass' \in [Frame -> 1 .. 3]
    BY <1>4, NextPassTyped DEF log_print_message
  <2>4. \A d \in {"file", "console"} :
          Line(f, d) \in Logged
    BY DEF Line, LoggerTypeOK, Logged
  <2>5. pass[f] = 1 \/ pass[f] = 2 \/ pass[f] = 3
    BY DEF LoggerTypeOK
  <2>6. output' \subseteq output \cup {Line(f, "file"), Line(f, "console")}
    BY <1>4, <2>5 DEF log_print_message
  <2>7. output' \subseteq Logged
    BY <2>4, <2>6 DEF LoggerTypeOK
  <2>8. /\ pos' \in [Frame -> Nat] /\ length' \in [Frame -> Nat]
        /\ buffer' \in [Frame -> Seq(Frame \cup {Nul})]
    BY <1>4 DEF log_print_message, LoggerTypeOK
  <2> QED BY <2>1, <2>2, <2>3, <2>7, <2>8 DEF LoggerTypeOK
<1>5. CASE Aside
  <2>1. at' \in [Frame -> Places]
    BY <1>5 DEF Aside, LoggerTypeOK, Places
  <2>2. dir' \in {"absent", "dir", "file"}
    BY <1>5 DEF Aside, LoggerTypeOK
  <2> QED BY <1>5, <2>1, <2>2 DEF Aside, LoggerTypeOK, callVars, copyVars
<1>6. CASE UNCHANGED loggerVars
  BY <1>6 DEF loggerVars, LoggerTypeOK
<1> QED
  BY <1>1, <1>2, <1>3, <1>4, <1>5, <1>6, StartingStep, AsideStep
  DEF LoggerNext, FrameStep, Asks

-----------------------------------------------------------------------------
(* Both buffers.                                                           *)

LEMMA WithinInit == ASSUME LoggerInit PROVE WithinBuffers
BY LoggerAssumption DEF LoggerInit, WithinBuffers, Inside, Frame

LEMMA InsideStays ==
  ASSUME NEW g \in Frame, Inside(g), at'[g] = at[g], size'[g] = size[g],
         pos'[g] = pos[g], length'[g] = length[g], buffer'[g] = buffer[g]
  PROVE  Inside(g)'
BY KeptStays DEF Inside

LEMMA WithinStep ==
  ASSUME LoggerTypeOK, WithinBuffers, [LoggerNext]_loggerVars
  PROVE  WithinBuffers'
<1> USE LoggerAssumption
<1>1. ASSUME NEW f \in Frame, Asks(f)
      PROVE  WithinBuffers'
  <2>1. /\ size' = size /\ pos' = pos /\ length' = length /\ buffer' = buffer
        /\ formatted_msg' = formatted_msg /\ caught' = caught
    BY <1>1, AskingStep DEF copyVars, processVars
  <2>2. at[f] \in {"malloc", "stat", "mkdir", "free", "fopen"}
    BY <1>1, AskingStep
  <2>3. PICK l \in {"stat", "mkdir", "free", "fopen", "time", "kill", "idle"} :
          at' = [at EXCEPT ![f] = l]
    BY <1>1, AskingStep
  <2>4. at' \in [Frame -> Places] /\ at'[f] = l /\ \A g \in Frame \ {f} : at'[g] = at[g]
    BY <2>3 DEF LoggerTypeOK, Places
  <2>5. Inside(f)'
    BY <2>1, <2>2, <2>4 DEF Inside, WithinBuffers
  <2>6. \A g \in Frame \ {f} : Inside(g)'
    BY <2>1, <2>4, InsideStays DEF WithinBuffers
  <2>7. (~caught => at[Handler] = "idle")'
    BY <2>1, <2>2, <2>4 DEF WithinBuffers, Frame
  <2> QED BY <2>1, <2>5, <2>6, <2>7 DEF WithinBuffers
<1>2. ASSUME NEW f \in Frame, Starts(f)
      PROVE  WithinBuffers'
  <2>1. /\ pos' = pos /\ length' = length /\ buffer' = buffer
        /\ formatted_msg' = formatted_msg
    BY <1>2 DEF Starts, copyVars
  <2>2. at[f] = "idle"
    BY <1>2 DEF Starts, WithinBuffers
  <2>3. at'[f] = "malloc" /\ \A g \in Frame \ {f} : at'[g] = at[g]
    BY <1>2 DEF Starts, LoggerTypeOK
  <2>4. Inside(f)'
    BY <2>1, <2>2, <2>3 DEF Inside, WithinBuffers
  <2>5. \A g \in Frame \ {f} : Inside(g)'
    BY <1>2, <2>1, <2>3, InsideStays DEF WithinBuffers, Starts
  <2>6. (~caught => at[Handler] = "idle")'
    BY <1>2, <2>3 DEF WithinBuffers, Starts, Frame
  <2> QED BY <2>1, <2>4, <2>5, <2>6 DEF WithinBuffers
<1>3. ASSUME NEW f \in Frame,
             \/ localtime(f) \/ format_log(f) \/ strlen(f) \/ log_message(f)
             \/ log_print_message(f)
      PROVE  WithinBuffers'
  <2>1. /\ at[f] \in {"time", "format", "strlen", "strcpy", "write"}
        /\ size' = size /\ caught' = caught
    BY <1>3 DEF localtime, format_log, strlen, log_message,
       log_print_message, Step, callVars, processVars
  <2>2. \A g \in Frame \ {f} :
          /\ at'[g] = at[g] /\ pos'[g] = pos[g]
          /\ length'[g] = length[g] /\ buffer'[g] = buffer[g]
    BY <1>3 DEF localtime, format_log, strlen, log_message,
       log_print_message, Step, LoggerTypeOK
  <2>3. \A g \in Frame \ {f} : Inside(g)'
    BY <2>1, <2>2, InsideStays DEF WithinBuffers
  <2>4. (~caught => at[Handler] = "idle")'
    BY <2>1, <2>2 DEF WithinBuffers, Frame
  <2>5. Kept(f)' = Kept(f) /\ Kept(f) \in Nat /\ Kept(f) < BufferSize
    BY <2>1, KeptFits, KeptStays
  <2>6. /\ pos[f] \in Nat /\ length[f] \in Nat /\ Inside(f)
        /\ at \in [Frame -> Places] /\ pos \in [Frame -> Nat] /\ length \in [Frame -> Nat]
        /\ buffer \in [Frame -> Seq(Frame \cup {Nul})]
        /\ formatted_msg \in [0 .. BufferSize - 1 -> Frame \cup {Nul}]
        /\ formatted_msg[BufferSize - 1] = Nul
    BY DEF LoggerTypeOK, WithinBuffers
  <2>7. Inside(f)' /\ (formatted_msg[BufferSize - 1] = Nul)'
    <3>1. CASE localtime(f)
      BY <2>5, <2>6, <3>1 DEF localtime, Step, Inside
    <3>2. CASE format_log(f)
      <4>1. buffer'[f] = <<>> /\ length' = length
        BY <2>6, <3>2 DEF format_log, Step, Inside
      <4>2. formatted_msg'[BufferSize - 1] = Nul
        BY <2>5, <2>6, <3>2 DEF format_log
      <4>3. \/ at'[f] = "format" /\ pos'[f] = pos[f] + 1 /\ pos[f] < Kept(f)
            \/ at'[f] = "strlen" /\ pos'[f] = 0
        BY <2>6, <3>2 DEF format_log, Step
      <4> QED BY <2>5, <2>6, <4>1, <4>2, <4>3 DEF Inside
    <3>3. CASE strlen(f)
      <4>1. buffer'[f] = <<>> /\ formatted_msg' = formatted_msg /\ pos[f] < BufferSize
        BY <2>6, <3>3 DEF strlen, Step, Inside
      <4>2. \/ at'[f] = "strlen" /\ pos'[f] = pos[f] + 1 /\ formatted_msg[pos[f]] # Nul
            \/ at'[f] = "strcpy" /\ pos'[f] = 0 /\ length'[f] = pos[f]
        BY <2>6, <3>3 DEF strlen, Step
      <4>3. formatted_msg[pos[f]] # Nul => pos[f] + 1 < BufferSize
        BY <2>6, <4>1
      <4>4. formatted_msg'[BufferSize - 1] = Nul
        BY <2>6, <4>1
      <4>5. CASE at'[f] = "strlen" /\ pos'[f] = pos[f] + 1 /\ formatted_msg[pos[f]] # Nul
        BY <4>1, <4>3, <4>4, <4>5 DEF Inside
      <4>6. CASE at'[f] = "strcpy" /\ pos'[f] = 0 /\ length'[f] = pos[f]
        BY <2>6, <4>1, <4>4, <4>6 DEF Inside
      <4> QED BY <4>2, <4>5, <4>6
    <3>4. CASE log_message(f)
      <4>1. /\ formatted_msg' = formatted_msg /\ length' = length
            /\ pos'[f] = pos[f] + 1
            /\ at'[f] = IF pos[f] < length[f] THEN "strcpy" ELSE "write"
            /\ buffer'[f] = Append(buffer[f], formatted_msg[pos[f]])
        BY <2>6, <3>4 DEF log_message, Step, LastByte
      <4>2. pos[f] <= length[f] /\ length[f] < BufferSize /\ Len(buffer[f]) = pos[f]
        BY <2>6, <3>4 DEF log_message, Step, Inside
      <4>3. buffer[f] \in Seq(Frame \cup {Nul}) /\ formatted_msg[pos[f]] \in Frame \cup {Nul}
        BY <2>6, <4>2
      <4>4. Len(buffer'[f]) = pos[f] + 1
        BY <4>1, <4>2, <4>3
      <4> QED BY <2>6, <4>1, <4>2, <4>4 DEF Inside
    <3>5. CASE log_print_message(f)
      <4>1. /\ buffer'[f] = <<>> /\ formatted_msg' = formatted_msg
            /\ at'[f] \in {"time", "kill", "idle"}
        BY <2>6, <3>5 DEF log_print_message, Step, AfterPass, Done
      <4> QED BY <2>6, <4>1 DEF Inside
    <3> QED BY <1>3, <3>1, <3>2, <3>3, <3>4, <3>5
  <2> QED BY <2>3, <2>4, <2>7 DEF WithinBuffers
<1>4. CASE Aside
  <2>1. at \in [Frame -> Places]
    BY DEF LoggerTypeOK
  <2>2. /\ size' = size /\ pos' = pos /\ length' = length /\ buffer' = buffer
        /\ formatted_msg' = formatted_msg /\ caught' = caught
    BY <1>4 DEF Aside, callVars, copyVars
  <2>3. CASE at' = at
    BY <2>2, <2>3, InsideStays DEF WithinBuffers
  <2>4. ASSUME NEW f \in Frame, NEW l \in {"idle", "elsewhere"},
               at[f] \in {"idle", "elsewhere", "kill"}, at' = [at EXCEPT ![f] = l],
               f = Handler => l = "idle"
        PROVE  WithinBuffers'
    <3>1. at'[f] = l /\ \A g \in Frame \ {f} : at'[g] = at[g]
      BY <2>1, <2>4
    <3>2. Inside(f)'
      BY <2>2, <2>4, <3>1 DEF WithinBuffers, Inside
    <3>3. \A g \in Frame \ {f} : Inside(g)'
      BY <2>2, <3>1, InsideStays DEF WithinBuffers
    <3>4. (~caught => at[Handler] = "idle")'
      BY <2>2, <2>4, <3>1 DEF WithinBuffers, Frame
    <3> QED BY <2>2, <3>2, <3>3, <3>4 DEF WithinBuffers
  <2> QED BY <1>4, <2>3, <2>4 DEF Aside
<1>5. CASE UNCHANGED loggerVars
  BY <1>5, InsideStays DEF loggerVars, WithinBuffers
<1> QED
  BY <1>1, <1>2, <1>3, <1>4, <1>5, StartingStep, AsideStep
  DEF LoggerNext, FrameStep, Asks

-----------------------------------------------------------------------------
(* Lines that nobody disturbs.                                             *)

LEMMA CleanStays ==
  ASSUME NEW g \in Frame, Clean(g), at'[g] = at[g], size'[g] = size[g],
         pos'[g] = pos[g], length'[g] = length[g], buffer'[g] = buffer[g],
         formatted_msg' = formatted_msg \/ ~Touching(g)
  PROVE  Clean(g)'
<1>1. Kept(g)' = Kept(g)
  BY KeptStays
<1>2. Meant(g)' = Meant(g)
  BY <1>1 DEF Meant
<1>3. CASE formatted_msg' = formatted_msg
  BY <1>1, <1>2, <1>3 DEF Clean, Holds
<1>4. CASE ~Touching(g)
  BY <1>2, <1>4 DEF Clean, Touching
<1> QED BY <1>3, <1>4

\* A step after which f is clean, and which touches nothing of the others.
LEMMA UndisturbedBy ==
  ASSUME NEW f \in Frame, Undisturbed, Clean(f)', \A l \in output' : l.whole,
         \A g \in Frame \ {f} :
           /\ at'[g] = at[g] /\ size'[g] = size[g] /\ pos'[g] = pos[g]
           /\ length'[g] = length[g] /\ buffer'[g] = buffer[g],
         formatted_msg' = formatted_msg \/ Touching(f),
         Touching(f)' => (Touching(f) \/ \A g \in Frame \ {f} : ~Touching(g))
  PROVE  Undisturbed'
<1>1. \A g \in Frame \ {f} : formatted_msg' = formatted_msg \/ ~Touching(g)
  BY DEF Undisturbed
<1>2. \A g \in Frame \ {f} : Clean(g)'
  BY <1>1, CleanStays DEF Undisturbed
<1>3. \A g \in Frame \ {f} : Touching(g)' <=> Touching(g)
  BY DEF Touching
<1>4. \A g, h \in Frame : Touching(g)' /\ Touching(h)' => g = h
  BY <1>3 DEF Undisturbed
<1>5. \A g \in Frame : Clean(g)'
  BY <1>2
<1> QED BY <1>4, <1>5 DEF Undisturbed

LEMMA UndisturbedStep ==
  ASSUME LoggerTypeOK, WithinBuffers, Undisturbed, ~mixed', [LoggerNext]_loggerVars
  PROVE  Undisturbed'
<1> USE LoggerAssumption
<1>0. /\ at \in [Frame -> Places] /\ pos \in [Frame -> Nat] /\ length \in [Frame -> Nat]
      /\ buffer \in [Frame -> Seq(Frame \cup {Nul})]
      /\ formatted_msg \in [0 .. BufferSize - 1 -> Frame \cup {Nul}]
      /\ \A f \in Frame : Inside(f) /\ Clean(f)
      /\ \A l \in output : l.whole
  BY DEF LoggerTypeOK, WithinBuffers, Undisturbed
<1>1. ASSUME NEW f \in Frame, Asks(f)
      PROVE  Undisturbed'
  <2>1. /\ size' = size /\ pos' = pos /\ length' = length /\ buffer' = buffer
        /\ formatted_msg' = formatted_msg /\ \A l \in output' : l.whole
    BY <1>0, <1>1, AskingStep DEF copyVars
  <2>2. PICK l \in {"stat", "mkdir", "free", "fopen", "time", "kill", "idle"} :
          at' = [at EXCEPT ![f] = l]
    BY <1>1, AskingStep
  <2>3. at'[f] = l /\ \A g \in Frame \ {f} : at'[g] = at[g]
    BY <1>0, <2>2
  <2>4. Clean(f)' /\ ~Touching(f)'
    BY <2>3 DEF Clean, Touching
  <2> QED BY <1>0, <2>1, <2>3, <2>4, UndisturbedBy
<1>2. ASSUME NEW f \in Frame, Starts(f)
      PROVE  Undisturbed'
  <2>1. /\ pos' = pos /\ length' = length /\ buffer' = buffer
        /\ formatted_msg' = formatted_msg /\ output' = output
    BY <1>2 DEF Starts, copyVars
  <2>2. at'[f] = "malloc" /\ \A g \in Frame \ {f} : at'[g] = at[g] /\ size'[g] = size[g]
    BY <1>0, <1>2 DEF Starts
  <2>3. Clean(f)' /\ ~Touching(f)'
    BY <2>2 DEF Clean, Touching
  <2> QED BY <1>0, <2>1, <2>2, <2>3, UndisturbedBy
<1>3. ASSUME NEW f \in Frame,
             \/ localtime(f) \/ format_log(f) \/ strlen(f) \/ log_message(f)
             \/ log_print_message(f)
      PROVE  Undisturbed'
  <2>1. /\ at[f] \in {"time", "format", "strlen", "strcpy", "write"}
        /\ size' = size
    BY <1>3 DEF localtime, format_log, strlen, log_message,
       log_print_message, Step, callVars
  <2>2. \A g \in Frame \ {f} :
          /\ at'[g] = at[g] /\ pos'[g] = pos[g]
          /\ length'[g] = length[g] /\ buffer'[g] = buffer[g]
    BY <1>0, <1>3 DEF localtime, format_log, strlen, log_message,
       log_print_message, Step
  <2>3. Kept(f)' = Kept(f) /\ Kept(f) \in Nat /\ Kept(f) < BufferSize
    BY <2>1, KeptFits, KeptStays
  <2>4. CASE localtime(f)
    <3>1. /\ at'[f] = "format" /\ pos'[f] = 0
          /\ formatted_msg' = formatted_msg /\ output' = output
          /\ \A g \in Frame \ {f} : ~Touching(g)
      BY <1>0, <2>4 DEF localtime, Step
    <3>2. Clean(f)'
      BY <3>1 DEF Clean, Holds
    <3> QED BY <1>0, <2>1, <2>2, <3>1, <3>2, UndisturbedBy
  <2>5. CASE format_log(f)
    <3>1. Touching(f) /\ at[f] = "format" /\ output' = output
      BY <2>5 DEF format_log, Touching
    <3>2. Holds(f, pos[f]) /\ pos[f] <= Kept(f) /\ pos[f] \in Nat
      BY <1>0, <3>1 DEF Clean, Inside
    <3>3. \/ /\ pos[f] < Kept(f) /\ at'[f] = "format" /\ pos'[f] = pos[f] + 1
             /\ formatted_msg' = [formatted_msg EXCEPT ![pos[f]] = f]
          \/ /\ pos[f] = Kept(f) /\ at'[f] = "strlen" /\ pos'[f] = 0
             /\ formatted_msg' = [formatted_msg EXCEPT ![pos[f]] = Nul]
      <4>1. formatted_msg' = [formatted_msg EXCEPT ![pos[f]] =
                                IF pos[f] < Kept(f) THEN f ELSE Nul]
        BY <2>5 DEF format_log
      <4>2. \/ pos[f] < Kept(f) /\ at'[f] = "format" /\ pos'[f] = pos[f] + 1
            \/ pos[f] = Kept(f) /\ at'[f] = "strlen" /\ pos'[f] = 0
        BY <1>0, <2>5 DEF format_log, Step
      <4>3. CASE pos[f] < Kept(f)
        <5>1. formatted_msg' = [formatted_msg EXCEPT ![pos[f]] = f]
          BY <4>1, <4>3
        <5> QED BY <2>3, <4>2, <4>3, <5>1
      <4>4. CASE pos[f] = Kept(f)
        <5>1. (IF pos[f] < Kept(f) THEN f ELSE Nul) = Nul
          BY <2>3, <4>4
        <5>2. formatted_msg' = [formatted_msg EXCEPT ![pos[f]] = Nul]
          BY <4>1, <5>1
        <5> QED BY <2>3, <4>2, <4>4, <5>2
      <4> QED BY <3>2, <2>3, <4>3, <4>4
    <3>4. Clean(f)'
      <4>1. CASE /\ pos[f] < Kept(f) /\ at'[f] = "format" /\ pos'[f] = pos[f] + 1
                 /\ formatted_msg' = [formatted_msg EXCEPT ![pos[f]] = f]
        BY <1>0, <2>3, <3>2, <4>1 DEF Clean, Holds
      <4>2. CASE /\ pos[f] = Kept(f) /\ at'[f] = "strlen" /\ pos'[f] = 0
                 /\ formatted_msg' = [formatted_msg EXCEPT ![pos[f]] = Nul]
        <5>1. Holds(f, Kept(f))' /\ formatted_msg'[Kept(f)] = Nul
          BY <1>0, <2>3, <3>2, <4>2 DEF Holds
        <5> QED BY <2>3, <4>2, <5>1 DEF Clean
      <4> QED BY <3>3, <4>1, <4>2
    <3> QED BY <1>0, <2>1, <2>2, <3>1, <3>4, UndisturbedBy
  <2>6. CASE strlen(f)
    <3>1. /\ Touching(f) /\ at[f] = "strlen" /\ output' = output
          /\ formatted_msg' = formatted_msg
      BY <2>6 DEF strlen, Touching
    <3>2. /\ Holds(f, Kept(f)) /\ formatted_msg[Kept(f)] = Nul
          /\ pos[f] <= Kept(f) /\ pos[f] \in Nat /\ buffer[f] = <<>>
      BY <1>0, <3>1 DEF Clean, Inside
    <3>3. pos[f] < Kept(f) => formatted_msg[pos[f]] # Nul
      BY <2>3, <3>2 DEF Holds, Frame
    <3>4. Holds(f, Kept(f))' /\ formatted_msg'[Kept(f)] = Nul
      BY <2>3, <3>1, <3>2 DEF Holds
    <3>5. \/ /\ pos[f] < Kept(f) /\ at'[f] = "strlen" /\ pos'[f] = pos[f] + 1
          \/ /\ at'[f] = "strcpy" /\ pos'[f] = 0 /\ length'[f] = Kept(f)
             /\ buffer'[f] = <<>>
      BY <1>0, <2>3, <2>6, <3>2, <3>3 DEF strlen, Step
    <3>6. <<>> = [i \in 1 .. 0 |-> f]
      OBVIOUS
    <3>7. Clean(f)'
      <4>1. CASE pos[f] < Kept(f) /\ at'[f] = "strlen" /\ pos'[f] = pos[f] + 1
        BY <2>3, <3>2, <3>4, <4>1 DEF Clean
      <4>2. CASE /\ at'[f] = "strcpy" /\ pos'[f] = 0 /\ length'[f] = Kept(f)
                 /\ buffer'[f] = <<>>
        BY <2>3, <3>4, <3>6, <4>2 DEF Clean
      <4> QED BY <3>5, <4>1, <4>2
    <3> QED BY <1>0, <2>1, <2>2, <3>1, <3>7, UndisturbedBy
  <2>7. CASE log_message(f)
    <3>1. /\ Touching(f) /\ at[f] = "strcpy" /\ output' = output
          /\ formatted_msg' = formatted_msg /\ length' = length
          /\ pos'[f] = pos[f] + 1
          /\ at'[f] = IF pos[f] < length[f] THEN "strcpy" ELSE "write"
          /\ buffer'[f] = Append(buffer[f], formatted_msg[pos[f]])
      BY <1>0, <2>7 DEF log_message, Step, LastByte, Touching
    <3>2. /\ Holds(f, Kept(f)) /\ formatted_msg[Kept(f)] = Nul
          /\ pos[f] <= Kept(f) /\ pos[f] \in Nat /\ length[f] = Kept(f)
          /\ buffer[f] = [i \in 1 .. pos[f] |-> f]
      BY <1>0, <3>1 DEF Clean
    <3>3. Holds(f, Kept(f))' /\ formatted_msg'[Kept(f)] = Nul
      BY <2>3, <3>1, <3>2 DEF Holds
    <3>4. CASE pos[f] < Kept(f)
      <4>1. formatted_msg[pos[f]] = f
        BY <2>3, <3>2, <3>4 DEF Holds
      <4>2. buffer'[f] = [i \in 1 .. pos[f] + 1 |-> f]
        BY <3>1, <3>2, <4>1
      <4>3. Clean(f)'
        BY <2>3, <3>1, <3>2, <3>3, <3>4, <4>2 DEF Clean
      <4> QED BY <1>0, <2>1, <2>2, <3>1, <4>3, UndisturbedBy
    <3>5. CASE pos[f] = Kept(f)
      <4>1. buffer'[f] = [i \in 1 .. Kept(f) + 1 |-> IF i <= Kept(f) THEN f ELSE Nul]
        BY <2>3, <3>1, <3>2, <3>5
      <4>2. buffer'[f] = Meant(f)'
        BY <2>3, <4>1 DEF Meant
      <4>3. Clean(f)'
        BY <3>1, <3>2, <3>5, <4>2 DEF Clean
      <4> QED BY <1>0, <2>1, <2>2, <3>1, <4>3, UndisturbedBy
    <3> QED BY <2>3, <3>2, <3>4, <3>5
  <2>8. CASE log_print_message(f)
    <3>1. /\ at[f] = "write" /\ formatted_msg' = formatted_msg
          /\ at'[f] \in {"time", "kill", "idle"}
      BY <1>0, <2>8 DEF log_print_message, Step, AfterPass, Done
    <3>2. buffer[f] = Meant(f)
      BY <1>0, <3>1 DEF Clean
    <3>3. \A d \in {"file", "console"} : Line(f, d).whole
      BY <3>2 DEF Line
    <3>4. pass[f] = 1 \/ pass[f] = 2 \/ pass[f] = 3
      BY DEF LoggerTypeOK
    <3>5. output' \subseteq output \cup {Line(f, "file"), Line(f, "console")}
      BY <2>8, <3>4 DEF log_print_message
    <3>6. \A l \in output' : l.whole
      BY <1>0, <3>3, <3>5
    <3>7. Clean(f)' /\ ~Touching(f)'
      BY <3>1 DEF Clean, Touching
    <3> QED BY <2>1, <2>2, <3>1, <3>6, <3>7, UndisturbedBy
  <2> QED BY <1>3, <2>4, <2>5, <2>6, <2>7, <2>8
<1>4. CASE Aside
  <2>1. /\ size' = size /\ pos' = pos /\ length' = length /\ buffer' = buffer
        /\ formatted_msg' = formatted_msg /\ output' = output
    BY <1>4 DEF Aside, callVars, copyVars
  <2>2. CASE at' = at
    <3>1. \A g \in Frame : Clean(g)' /\ (Touching(g)' <=> Touching(g))
      BY <1>0, <2>1, <2>2, CleanStays DEF Touching
    <3> QED BY <2>1, <3>1 DEF Undisturbed
  <2>3. ASSUME NEW f \in Frame, NEW l \in {"idle", "elsewhere"},
               at' = [at EXCEPT ![f] = l]
        PROVE  Undisturbed'
    <3>1. at'[f] = l /\ \A g \in Frame \ {f} : at'[g] = at[g]
      BY <1>0, <2>3
    <3>2. Clean(f)' /\ ~Touching(f)'
      BY <3>1 DEF Clean, Touching
    <3> QED BY <1>0, <2>1, <3>1, <3>2, UndisturbedBy
  <2> QED BY <1>4, <2>2, <2>3 DEF Aside
<1>5. CASE UNCHANGED loggerVars
  <2>1. \A g \in Frame : Clean(g)' /\ (Touching(g)' <=> Touching(g))
    BY <1>0, <1>5, CleanStays DEF loggerVars, Touching
  <2> QED BY <1>0, <1>5, <2>1 DEF loggerVars, Undisturbed
<1> QED
  BY <1>1, <1>2, <1>3, <1>4, <1>5, StartingStep, AsideStep
  DEF LoggerNext, FrameStep, Asks

LEMMA MixedStays ==
  ASSUME mixed, [LoggerNext]_loggerVars PROVE mixed'
BY DEF LoggerNext, FrameStep, log_server_message, elsewhere, elsewhere_returns,
   interrupted, interrupted_again, handle_sig, other_program, takes_lock, malloc,
   ensure_log_directory, mkdir, free, fopen, localtime, format_log, strlen,
   log_message, log_print_message, loggerVars

-----------------------------------------------------------------------------
(* Lines that are lost to the race for the directory.                      *)

\* Losses, for one frame.
LostFew(f) ==
  /\ \A i, j \in Lost(f) : i = j
  /\ Lost(f) # {} => dir = "dir" /\ at[f] \notin {"mkdir", "free"}
  /\ at[f] = "free" => dir = "dir"

\* The part of a call before a formatting for the file.
Before == {"malloc", "stat", "mkdir", "free", "fopen"}

\* A step of f alone, which writes lines and may make the directory.
LEMMA LossesBy ==
  ASSUME LoggerTypeOK, Losses, NEW f \in Frame,
         IsFiniteSet(output'), output \subseteq output',
         dir' = dir \/ (dir = "absent" /\ dir' = "dir"),
         \A g \in Frame \ {f} :
           at'[g] = at[g] /\ pass'[g] = pass[g] /\ calls'[g] = calls[g],
         at'[f] \in Before => pass'[f] = 1,
         dir' # "file" => LostFew(f)'
  PROVE  Losses'
<1>1. ASSUME NEW g \in Frame \ {f}
      PROVE  /\ Lost(g)' \subseteq Lost(g)
             /\ at'[g] \in Before => pass'[g] = 1
  <2>1. Filed(g)' = Filed(g)
    BY DEF Filed, InFile
  <2>2. Lost(g)' \subseteq Lost(g)
    BY <2>1 DEF Lost
  <2> QED BY <2>2 DEF Losses, Before
<1>2. ASSUME NEW g \in Frame, dir' # "file"
      PROVE  LostFew(g)'
  <2>1. CASE g = f
    BY <1>2, <2>1
  <2>2. CASE g # f
    <3>1. LostFew(g)
      BY <1>2 DEF Losses, LostFew
    <3>2. Lost(g)' \subseteq Lost(g) /\ at'[g] = at[g]
      BY <1>1, <2>2
    <3> QED BY <3>1, <3>2 DEF LostFew
  <2> QED BY <2>1, <2>2
<1>3. \A g \in Frame : at'[g] \in Before => pass'[g] = 1
  BY <1>1
<1> QED BY <1>2, <1>3 DEF Losses, LostFew, Before

\* A frame loses no more while no call of it ends its part for the file, or
\* one ends it with a line, and it keeps away from mkdir.
LEMMA FewStays ==
  ASSUME LoggerTypeOK, NEW f \in Frame, LostFew(f), output \subseteq output',
         dir' = dir,
         \/ Filed(f)' = Filed(f)
         \/ /\ Filed(f)' = Filed(f) + 1
            /\ \E l \in output' :
                 l.by = f /\ l.no = Filed(f)' /\ l.to \in {"file", "nowhere"},
         at'[f] = "mkdir" => dir # "dir",
         at'[f] # "free"
  PROVE  LostFew(f)'
<1>1. Filed(f) \in Int
  BY DEF Filed, LoggerTypeOK
<1>2. ASSUME NEW n \in Lost(f)' PROVE n \in Lost(f)
  <2>1. /\ n \in 1 .. Filed(f)'
        /\ ~ \E l \in output' : l.by = f /\ l.no = n /\ l.to \in {"file", "nowhere"}
    BY DEF Lost
  <2>2. n \in 1 .. Filed(f)
    BY <1>1, <2>1
  <2> QED BY <2>1, <2>2 DEF Lost
<1> QED BY <1>2 DEF LostFew

\* The end of a formatting leaves the part for the file, if it was in it.
LEMMA PassEnds ==
  ASSUME LoggerTypeOK, NEW f \in Frame, NextPass(f), calls' = calls,
         at' = [at EXCEPT ![f] = AfterPass(f)],
         at[f] \notin {"idle", "elsewhere", "kill"}
  PROVE  /\ Filed(f)' = IF pass[f] = 1 THEN Filed(f) + 1 ELSE Filed(f)
         /\ pass[f] = 1 => Filed(f)' = calls[f]
         /\ at'[f] \notin Before
         /\ \A g \in Frame \ {f} :
              at'[g] = at[g] /\ pass'[g] = pass[g] /\ calls'[g] = calls[g]
<1>1. /\ pass \in [Frame -> 1 .. 3] /\ at \in [Frame -> Places]
      /\ last[f] \in {1, 3} /\ calls[f] \in Nat
  BY DEF LoggerTypeOK
<1>2. /\ pass'[f] = IF pass[f] < last[f] THEN pass[f] + 1 ELSE pass[f]
      /\ \A g \in Frame \ {f} : pass'[g] = pass[g]
  BY <1>1 DEF NextPass
<1>3. /\ at'[f] = IF pass[f] < last[f] THEN "time" ELSE Done(f)
      /\ \A g \in Frame \ {f} : at'[g] = at[g]
  BY <1>1 DEF AfterPass
<1>4. Done(f) \in {"idle", "kill"}
  BY DEF Done
<1>5. ~InFile(f)'
  <2>1. CASE pass[f] < last[f]
    <3>1. pass'[f] # 1
      BY <1>1, <1>2, <2>1
    <3> QED BY <3>1 DEF InFile
  <2>2. CASE ~(pass[f] < last[f])
    BY <1>3, <1>4, <2>2 DEF InFile
  <2> QED BY <2>1, <2>2
<1>6. InFile(f) <=> pass[f] = 1
  BY DEF InFile
<1>7. Filed(f)' = calls[f]
  BY <1>5 DEF Filed
<1>8. Filed(f) = IF pass[f] = 1 THEN calls[f] - 1 ELSE calls[f]
  BY <1>6 DEF Filed
<1> QED BY <1>1, <1>2, <1>3, <1>4, <1>7, <1>8 DEF Before

LEMMA LossesStep ==
  ASSUME LoggerTypeOK, WithinBuffers, Losses, [LoggerNext]_loggerVars
  PROVE  Losses'
<1> USE LoggerAssumption
<1>0. /\ at \in [Frame -> Places] /\ calls \in [Frame -> Nat]
      /\ \A f \in Frame : pass[f] \in 1 .. 3
      /\ IsFiniteSet(output) /\ dir \in {"absent", "dir", "file"}
      /\ \A f \in Frame : at[f] \in Before => pass[f] = 1
      /\ dir # "file" => \A f \in Frame : LostFew(f)
  BY DEF LoggerTypeOK, Losses, LostFew, Before
\* A step that changes only where f is, in the same part of its call.
<1>1. ASSUME NEW f \in Frame, NEW l \in Places \ {"idle", "elsewhere", "kill"},
             at[f] \notin {"idle", "elsewhere", "kill"},
             at' = [at EXCEPT ![f] = l], UNCHANGED <<pass, calls, output, dir>>,
             l \in Before => pass[f] = 1,
             l = "mkdir" => dir # "dir",
             l = "free" => dir = "file" \/ (Lost(f) = {} /\ dir = "dir")
      PROVE  Losses'
  <2>1. at'[f] = l /\ \A g \in Frame \ {f} : at'[g] = at[g]
    BY <1>0, <1>1
  <2>2. Filed(f)' = Filed(f)
    BY <1>1, <2>1 DEF Filed, InFile
  <2>3. dir' # "file" => LostFew(f)'
    <3>1. CASE l = "free"
      <4>1. Lost(f)' = Lost(f)
        BY <1>1, <2>2 DEF Lost
      <4> QED BY <1>1, <2>1, <3>1, <4>1 DEF LostFew
    <3>2. CASE l # "free"
      BY <1>0, <1>1, <2>1, <2>2, <3>2, FewStays
    <3> QED BY <3>1, <3>2
  <2> QED BY <1>0, <1>1, <2>1, <2>3, LossesBy
\* A step that ends a formatting, with or without a line.
<1>2. ASSUME NEW f \in Frame, NextPass(f), calls' = calls, dir' = dir,
             at' = [at EXCEPT ![f] = AfterPass(f)],
             at[f] \notin {"idle", "elsewhere", "kill"}, IsFiniteSet(output'),
             output \subseteq output',
             pass[f] = 1 => \E l \in output' :
               l.by = f /\ l.no = calls[f] /\ l.to \in {"file", "nowhere"}
      PROVE  Losses'
  <2>1. /\ Filed(f)' = IF pass[f] = 1 THEN Filed(f) + 1 ELSE Filed(f)
        /\ pass[f] = 1 => Filed(f)' = calls[f]
        /\ at'[f] \notin Before
        /\ \A g \in Frame \ {f} :
             at'[g] = at[g] /\ pass'[g] = pass[g] /\ calls'[g] = calls[g]
    BY <1>2, PassEnds
  <2>2. \/ Filed(f)' = Filed(f)
        \/ /\ Filed(f)' = Filed(f) + 1
           /\ \E l \in output' :
                l.by = f /\ l.no = Filed(f)' /\ l.to \in {"file", "nowhere"}
    BY <1>2, <2>1
  <2>3. dir' # "file" => LostFew(f)'
    BY <1>0, <1>2, <2>1, <2>2, FewStays DEF Before
  <2> QED BY <1>2, <2>1, <2>3, LossesBy
<1>3. ASSUME NEW f \in Frame, malloc(f) \/ ensure_log_directory(f)
      PROVE  Losses'
  <2>1. /\ UNCHANGED <<pass, calls, output, dir>> /\ at[f] \in Before /\ pass[f] = 1
        /\ \E l \in {"stat", "mkdir", "fopen", "free"} :
             /\ at' = [at EXCEPT ![f] = l]
             /\ l = "mkdir" => dir # "dir"
             /\ l = "free" => dir = "file"
    BY <1>0, <1>3 DEF malloc, ensure_log_directory, Step, callVars, Before
  <2> QED BY <1>1, <2>1 DEF Places, Before
<1>4. ASSUME NEW f \in Frame, mkdir(f)
      PROVE  Losses'
  <2>1. UNCHANGED <<pass, calls, output>> /\ at[f] = "mkdir" /\ pass[f] = 1
    BY <1>0, <1>4 DEF mkdir, Step, callVars, Before
  <2>2. CASE dir = "absent"
    <3>1. dir' = "dir" /\ at'[f] = "fopen" /\ \A g \in Frame \ {f} : at'[g] = at[g]
      BY <1>0, <1>4, <2>2 DEF mkdir, Step
    <3>2. Filed(f)' = Filed(f)
      BY <2>1, <3>1 DEF Filed, InFile
    <3>3. Lost(f) = {}
      BY <1>0, <2>2 DEF LostFew
    <3>4. Lost(f)' = {}
      BY <2>1, <3>2, <3>3 DEF Lost
    <3>5. LostFew(f)'
      BY <3>1, <3>4 DEF LostFew
    <3> QED BY <1>0, <2>1, <2>2, <3>1, <3>5, LossesBy
  <2>3. CASE dir # "absent"
    <3>1. dir' = dir /\ at' = [at EXCEPT ![f] = "free"]
      BY <1>4, <2>3 DEF mkdir, Step
    <3>2. dir = "file" \/ (Lost(f) = {} /\ dir = "dir")
      BY <1>0, <2>1, <2>3 DEF LostFew
    <3> QED BY <1>1, <2>1, <3>1, <3>2 DEF Places, Before
  <2> QED BY <2>2, <2>3
\* The line is lost here.
<1>11. ASSUME NEW f \in Frame, free(f)
       PROVE  Losses'
  <2>1. /\ UNCHANGED <<calls, output, dir>> /\ NextPass(f)
        /\ at' = [at EXCEPT ![f] = AfterPass(f)] /\ at[f] = "free" /\ pass[f] = 1
    BY <1>0, <1>11 DEF free, Step, Before
  <2>2. /\ Filed(f)' = Filed(f) + 1
        /\ at'[f] \notin Before
        /\ \A g \in Frame \ {f} :
             at'[g] = at[g] /\ pass'[g] = pass[g] /\ calls'[g] = calls[g]
    BY <2>1, PassEnds
  <2>3. dir' # "file" => LostFew(f)'
    <3> SUFFICES ASSUME dir # "file" PROVE LostFew(f)'
      BY <2>1
    <3>1. Lost(f) = {} /\ dir = "dir"
      BY <1>0, <2>1 DEF LostFew
    <3>2. Filed(f) \in Int
      BY <1>0 DEF Filed
    <3>3. ASSUME NEW n \in Lost(f)' PROVE n = Filed(f)'
      <4>1. /\ n \in 1 .. Filed(f)'
            /\ ~ \E l \in output : l.by = f /\ l.no = n /\ l.to \in {"file", "nowhere"}
        BY <2>1 DEF Lost
      <4>2. n \notin 1 .. Filed(f)
        BY <3>1, <4>1 DEF Lost
      <4> QED BY <2>2, <3>2, <4>1, <4>2
    <3> QED BY <2>1, <2>2, <3>1, <3>3 DEF LostFew, Before
  <2> QED BY <1>0, <2>1, <2>2, <2>3, LossesBy
<1>5. ASSUME NEW f \in Frame, fopen(f)
      PROVE  Losses'
  <2>1. UNCHANGED <<calls, dir>> /\ at[f] = "fopen" /\ pass[f] = 1
    BY <1>0, <1>5 DEF fopen, Step, Before
  <2>2. CASE Step(f, "fopen", "time") /\ UNCHANGED <<pass, output>>
    BY <1>1, <2>1, <2>2 DEF Step, Places, Before
  <2>3. CASE /\ Step(f, "fopen", AfterPass(f)) /\ NextPass(f)
             /\ output' = output \cup {Nowhere(f)}
    <3>1. IsFiniteSet(output')
      BY <1>0, <2>3, FS_AddElement
    <3>2. Nowhere(f).by = f /\ Nowhere(f).no = calls[f] /\ Nowhere(f).to = "nowhere"
      BY DEF Nowhere
    <3> QED BY <1>2, <2>1, <2>3, <3>1, <3>2 DEF Step
  <2> QED BY <1>5, <2>2, <2>3 DEF fopen
<1>6. ASSUME NEW f \in Frame,
             localtime(f) \/ format_log(f) \/ strlen(f) \/ log_message(f)
      PROVE  Losses'
  <2>1. /\ UNCHANGED <<pass, calls, output, dir>>
        /\ at[f] \in {"time", "format", "strlen", "strcpy"}
        /\ \E l \in {"format", "strlen", "strcpy", "write"} :
             at' = [at EXCEPT ![f] = l]
    BY <1>6
    DEF localtime, format_log, strlen, log_message, Step, callVars
  <2> QED BY <1>1, <2>1 DEF Places, Before
<1>7. ASSUME NEW f \in Frame, log_print_message(f)
      PROVE  Losses'
  <2>1. /\ UNCHANGED <<calls, dir>> /\ NextPass(f) /\ at[f] = "write"
        /\ at' = [at EXCEPT ![f] = AfterPass(f)]
    BY <1>7 DEF log_print_message, Step
  <2>2. pass[f] = 1 \/ pass[f] = 2 \/ pass[f] = 3
    BY <1>0
  <2>3. \/ pass[f] = 1 /\ output' = output \cup {Line(f, "file")}
        \/ pass[f] = 2 /\ output' = output
        \/ pass[f] = 3 /\ output' = output \cup {Line(f, "console")}
    BY <1>7, <2>2 DEF log_print_message
  <2>4. IsFiniteSet(output')
    BY <1>0, <2>3, FS_AddElement
  <2>5. /\ Line(f, "file").by = f /\ Line(f, "file").no = calls[f]
        /\ Line(f, "file").to = "file"
    BY DEF Line
  <2>6. output \subseteq output'
    BY <2>3
  <2>7. pass[f] = 1 => \E l \in output' :
          l.by = f /\ l.no = calls[f] /\ l.to \in {"file", "nowhere"}
    BY <2>3, <2>5
  <2> QED BY <1>2, <2>1, <2>4, <2>6, <2>7
<1>8. ASSUME NEW f \in Frame, NEW n, NEW k, Begins(f, n, k), at[f] = "idle",
             UNCHANGED <<output, dir>>
      PROVE  Losses'
  <2>1. /\ at'[f] = "malloc" /\ pass'[f] = 1 /\ calls'[f] = calls[f] + 1
        /\ \A g \in Frame \ {f} :
             at'[g] = at[g] /\ pass'[g] = pass[g] /\ calls'[g] = calls[g]
    BY <1>0, <1>8 DEF Begins, LoggerTypeOK
  <2>2. Filed(f)' = Filed(f)
    BY <1>0, <1>8, <2>1 DEF Filed, InFile
  <2>3. dir' # "file" => LostFew(f)'
    BY <1>0, <1>8, <2>1, <2>2, FewStays DEF Before
  <2> QED BY <1>0, <1>8, <2>1, <2>3, LossesBy
<1>9. CASE interrupted \/ \E t \in Thread : log_server_message(t)
  <2>1. CASE interrupted
    <3>1. at[Handler] = "idle" /\ Handler \in Frame
      BY <2>1 DEF interrupted, WithinBuffers, Frame
    <3> QED BY <1>8, <2>1, <3>1 DEF interrupted
  <2>2. ASSUME NEW t \in Thread, log_server_message(t) PROVE Losses'
    <3>1. t \in Frame /\ at[t] = "idle"
      BY <2>2 DEF log_server_message, Frame
    <3> QED BY <1>8, <2>2, <3>1 DEF log_server_message
  <2> QED BY <1>9, <2>1, <2>2
<1>10. CASE Aside
  <2>1. /\ UNCHANGED <<pass, calls, output>>
        /\ dir' = dir \/ (dir = "absent" /\ dir' = "dir")
    BY <1>10 DEF Aside, callVars
  <2>2. ASSUME NEW f \in Frame, \A g \in Frame \ {f} : at'[g] = at[g],
               \/ at'[f] = at[f]
               \/ {at[f], at'[f]} \subseteq {"idle", "elsewhere", "kill"}
        PROVE  Losses'
    <3>1. Filed(f)' = Filed(f)
      BY <2>1, <2>2 DEF Filed, InFile
    <3>2. Lost(f)' = Lost(f)
      BY <2>1, <3>1 DEF Lost
    <3>3. dir' # "file" => LostFew(f)'
      BY <1>0, <2>1, <2>2, <3>2 DEF LostFew
    <3> QED BY <1>0, <2>1, <2>2, <3>3, LossesBy DEF Before
  <2>3. CASE at' = at
    BY <2>2, <2>3 DEF Frame
  <2>4. ASSUME NEW f \in Frame, NEW l \in {"idle", "elsewhere"},
               at[f] \in {"idle", "elsewhere", "kill"}, at' = [at EXCEPT ![f] = l]
        PROVE  Losses'
    BY <1>0, <2>2, <2>4
  <2> QED BY <1>10, <2>3, <2>4 DEF Aside
<1>12. CASE UNCHANGED loggerVars
  <2>1. \A f \in Frame : Lost(f)' = Lost(f)
    BY <1>12 DEF loggerVars, Lost, Filed, InFile
  <2> QED BY <1>12, <2>1 DEF loggerVars, Losses
<1> QED
  BY <1>3, <1>4, <1>5, <1>6, <1>7, <1>9, <1>10, <1>11, <1>12, AsideStep
  DEF LoggerNext, FrameStep

-----------------------------------------------------------------------------
(* The locks of the heap and of localtime.                                 *)

\* A step of f that gives up its locks, or in which it had none.
LEMMA HeldBy ==
  ASSUME LoggerTypeOK, LockHeld, NEW f \in Frame,
         \A g \in Frame \ {f} : at'[g] = at[g] /\ pass'[g] = pass[g],
         lock' = Released(f) \/ (lock' = lock /\ at[f] = "idle")
  PROVE  LockHeld'
<1>1. Nul \notin Frame /\ lock \in [Locks -> Frame \cup {Nul}]
  BY LoggerAssumption DEF Frame, LoggerTypeOK
<1>2. at[f] = "idle" => \A l \in Locks : lock[l] # f
  BY DEF LockHeld, LockFor
<1>3. ASSUME NEW l \in Locks, NEW g \in Frame, lock'[l] = g
      PROVE  g # f /\ lock[l] = g
  BY <1>1, <1>2, <1>3 DEF Released
<1>4. \A g \in Frame \ {f} : LockFor(g)' = LockFor(g)
  BY DEF LockFor
<1> QED BY <1>3, <1>4 DEF LockHeld

LEMMA LockStep ==
  ASSUME LoggerTypeOK, WithinBuffers, LockHeld, [LoggerNext]_loggerVars
  PROVE  LockHeld'
<1> USE LoggerAssumption
<1>0. /\ at \in [Frame -> Places] /\ Nul \notin Frame /\ Handler \in Frame
      /\ pass \in [Frame -> 1 .. 3] /\ lock \in [Locks -> Frame \cup {Nul}]
  BY DEF LoggerTypeOK, Frame
<1>1. ASSUME NEW f \in Frame, takes_lock(f)
      PROVE  LockHeld'
  <2>1. PICK k \in LockFor(f) : lock' = [lock EXCEPT ![k] = f]
    BY <1>1 DEF takes_lock
  <2>2. \A g \in Frame : LockFor(g)' = LockFor(g) /\ at'[g] = at[g]
    BY <1>1 DEF takes_lock, callVars, LockFor
  <2>3. ASSUME NEW l \in Locks, NEW g \in Frame, lock'[l] = g
        PROVE  (g = f /\ l \in LockFor(f)) \/ lock[l] = g
    BY <1>0, <2>1, <2>3
  <2> QED BY <2>2, <2>3 DEF LockHeld
<1>2. ASSUME NEW f \in Frame, FrameStep(f), ~takes_lock(f)
      PROVE  LockHeld'
  <2>1. /\ lock' = Released(f)
        /\ \E l \in Places : at' = [at EXCEPT ![f] = l]
    <3>1. AfterPass(f) \in Places
      BY DEF AfterPass, Done, Places
    <3> QED
      BY <1>2, <3>1
      DEF FrameStep, malloc, ensure_log_directory, mkdir, free, fopen, localtime,
          format_log, strlen, log_message, log_print_message, Step, Places
  <2>2. pass' = pass \/ NextPass(f)
    BY <1>2
    DEF FrameStep, malloc, ensure_log_directory, mkdir, free, fopen, localtime,
        format_log, strlen, log_message, log_print_message, callVars
  <2>3. \A g \in Frame \ {f} : at'[g] = at[g] /\ pass'[g] = pass[g]
    BY <1>0, <2>1, <2>2 DEF NextPass
  <2> QED BY <2>1, <2>3, HeldBy
<1>3. ASSUME NEW t \in Thread, elsewhere(t)
      PROVE  LockHeld'
  <2>1. t \in Frame /\ at[t] = "idle" /\ at'[t] = "elsewhere"
    BY <1>0, <1>3 DEF elsewhere, Frame
  <2>2. PICK k \in Locks : lock' = [lock EXCEPT ![k] = t]
    BY <1>3 DEF elsewhere
  <2>3. \A g \in Frame \ {t} : LockFor(g)' = LockFor(g) /\ at'[g] = at[g]
    BY <1>0, <1>3 DEF elsewhere, callVars, LockFor
  <2>4. ASSUME NEW l \in Locks, NEW g \in Frame, lock'[l] = g
        PROVE  g = t \/ lock[l] = g
    BY <1>0, <2>2, <2>4
  <2> QED BY <2>1, <2>3, <2>4 DEF LockHeld
<1>4. ASSUME NEW t \in Thread, elsewhere_returns(t)
      PROVE  LockHeld'
  <2>1. /\ t \in Frame /\ lock' = Released(t)
        /\ \A g \in Frame \ {t} : at'[g] = at[g] /\ pass'[g] = pass[g]
    BY <1>0, <1>4 DEF elsewhere_returns, Step, callVars, Frame
  <2> QED BY <2>1, HeldBy
<1>5. ASSUME NEW f \in Frame, NEW n, NEW k, Begins(f, n, k), at[f] = "idle", lock' = lock
      PROVE  LockHeld'
  <2>1. \A g \in Frame \ {f} : at'[g] = at[g] /\ pass'[g] = pass[g]
    BY <1>0, <1>5 DEF Begins
  <2> QED BY <1>5, <2>1, HeldBy
<1>6. ASSUME NEW t \in Thread, log_server_message(t) PROVE LockHeld'
  <2>1. t \in Frame
    BY DEF Frame
  <2> QED BY <1>5, <1>6, <2>1 DEF log_server_message
<1>7. CASE interrupted
  <2>1. at[Handler] = "idle"
    BY <1>7 DEF interrupted, WithinBuffers
  <2> QED BY <1>0, <1>5, <1>7, <2>1 DEF interrupted
<1>8. CASE handle_sig
  <2>1. /\ lock' = Released(Handler)
        /\ \A g \in Frame \ {Handler} : at'[g] = at[g] /\ pass'[g] = pass[g]
    BY <1>0, <1>8 DEF handle_sig, Step, callVars
  <2> QED BY <1>0, <2>1, HeldBy
<1>9. CASE interrupted_again \/ other_program \/ UNCHANGED loggerVars
  <2>1. lock' = lock /\ at' = at /\ pass' = pass
    BY <1>9 DEF interrupted_again, other_program, callVars, loggerVars
  <2> QED BY <2>1 DEF LockHeld, LockFor
<1> QED
  BY <1>1, <1>2, <1>3, <1>4, <1>6, <1>7, <1>8, <1>9 DEF LoggerNext

-----------------------------------------------------------------------------
\* The inductive invariant holds whatever the threads and signals do.
THEOREM LoggerInvariance == LoggerSpec => []LoggerInv
<1>1. LoggerInit => LoggerInv
  <2>1. LoggerInit => Undisturbed
    BY DEF LoggerInit, Undisturbed, Clean, Touching
  <2>2. LoggerInit => Losses
    <3> SUFFICES ASSUME LoggerInit PROVE Losses
      OBVIOUS
    <3>1. \A f \in Frame : at[f] = "idle" /\ calls[f] = 0
      BY DEF LoggerInit
    <3>2. \A f \in Frame : Lost(f) = {}
      BY <3>1 DEF Lost, Filed, InFile
    <3>3. IsFiniteSet(output)
      BY FS_EmptySet DEF LoggerInit
    <3> QED BY <3>1, <3>2, <3>3 DEF Losses
  <2>3. LoggerInit => LockHeld
    BY LoggerAssumption DEF LoggerInit, LockHeld, Frame
  <2> QED BY <2>1, <2>2, <2>3, TypedInit, WithinInit DEF LoggerInv
<1>2. LoggerInv /\ [LoggerNext]_loggerVars => LoggerInv'
  BY TypedStep, WithinStep, UndisturbedStep, MixedStays, LossesStep, LockStep
  DEF LoggerInv
<1> QED BY <1>1, <1>2, PTL DEF LoggerSpec

\* The unbounded strlen and strcpy of log_message stay inside both buffers
\* (logger.c:17), although threads write the static one without a lock.
THEOREM CopyStaysInsideAlways == LoggerSpec => []CopyStaysInside
<1>1. LoggerInv => CopyStaysInside
  <2> SUFFICES ASSUME LoggerInv PROVE CopyStaysInside
    OBVIOUS
  <2>1. ASSUME NEW f \in Frame
        PROVE  (Touching(f) => pos[f] < BufferSize) /\ Len(buffer[f]) <= BufferSize
    <3>1. /\ Inside(f) /\ pos[f] \in Nat /\ length[f] \in Nat
          /\ Kept(f) \in Nat /\ Kept(f) < BufferSize /\ BufferSize \in Nat
      BY KeptFits, LoggerAssumption DEF LoggerInv, WithinBuffers, LoggerTypeOK
    <3>2. Len(<<>>) = 0
      OBVIOUS
    <3> QED BY <3>1, <3>2 DEF Inside, Touching
  <2> QED BY <2>1 DEF CopyStaysInside, LoggerInv, WithinBuffers
<1> QED BY <1>1, LoggerInvariance, PTL

\* Every line is written whole until two frames have used the buffer at once
\* (logger.c:28).
THEOREM LinesWholeUntilMixed == LoggerSpec => []LinesWhole
<1>1. LoggerInv => LinesWhole
  BY DEF LoggerInv, LinesWhole, Undisturbed
<1> QED BY <1>1, LoggerInvariance, PTL

-----------------------------------------------------------------------------
(* What follows from the invariant of the losses and of the lock.          *)

\* The logger's variables keep to their types.
THEOREM LoggerTypes == LoggerSpec => []LoggerTypeOK
<1>1. LoggerInv => LoggerTypeOK
  BY DEF LoggerInv
<1> QED BY <1>1, LoggerInvariance, PTL

\* A set with a member of every number of T has as many as T at least.
LEMMA CountByNumber ==
  ASSUME NEW L, IsFiniteSet(L), NEW T, \A n \in T : \E l \in L : l.no = n
  PROVE  IsFiniteSet(T) /\ Cardinality(L) \in Nat /\ Cardinality(T) \in Nat
         /\ Cardinality(L) >= Cardinality(T)
<1> DEFINE S == {l.no : l \in L}
           number == [l \in L |-> l.no]
<1>1. number \in Surjection(L, S)
  BY DEF Surjection
<1>2. IsFiniteSet(S) /\ Cardinality(S) <= Cardinality(L)
  BY <1>1, FS_Surjection
<1>3. T \in SUBSET S
  OBVIOUS
<1> HIDE DEF S
<1>4. IsFiniteSet(T) /\ Cardinality(T) <= Cardinality(S)
  BY <1>2, <1>3, FS_Subset
<1>5. Cardinality(L) \in Nat /\ Cardinality(S) \in Nat /\ Cardinality(T) \in Nat
  BY <1>2, <1>4, FS_CardinalityType
<1> QED BY <1>2, <1>4, <1>5

\* Of all it logs, a frame loses at most one line to the race for ./log
\* (ensure_log_directory, logger.c:149).
THEOREM LostOnceAlways == LoggerSpec => []LostOnce
<1>1. LoggerInv => LostOnce
  <2> SUFFICES ASSUME LoggerInv, dir # "file", NEW f \in Frame
               PROVE  Cardinality({l \in output : l.by = f /\ l.to \in {"file", "nowhere"}})
                        >= calls[f] - (IF InFile(f) THEN 2 ELSE 1)
    BY DEF LostOnce
  <2> DEFINE L == {l \in output : l.by = f /\ l.to \in {"file", "nowhere"}}
             T == (1 .. Filed(f)) \ Lost(f)
  <2>1. calls[f] \in Nat /\ Filed(f) \in Int
    BY DEF LoggerInv, LoggerTypeOK, Filed
  <2>2. IsFiniteSet(L)
    BY FS_Subset DEF LoggerInv, Losses
  <2>3. \A n \in T : \E l \in L : l.no = n
    BY DEF Lost
  <2>4. /\ Cardinality(L) \in Nat /\ Cardinality(T) \in Nat
        /\ Cardinality(L) >= Cardinality(T)
    <3> HIDE DEF L, T
    <3> QED BY <2>2, <2>3, CountByNumber
  <2>5. Cardinality(T) >= Filed(f) - 1
    <3>1. IsFiniteSet(1 .. Filed(f))
          /\ Cardinality(1 .. Filed(f)) = IF 1 > Filed(f) THEN 0 ELSE Filed(f) - 1 + 1
      BY <2>1, FS_Interval
    <3>2. CASE Lost(f) = {}
      <4>1. Cardinality(T) = Cardinality(1 .. Filed(f))
        <5>1. T = 1 .. Filed(f)
          BY <3>2
        <5> QED BY <5>1
      <4> HIDE DEF T
      <4> QED BY <2>1, <3>1, <4>1
    <3>3. CASE Lost(f) # {}
      <4>1. PICK n \in Lost(f) : TRUE
        BY <3>3
      <4>2. Lost(f) = {n}
        BY <4>1 DEF LoggerInv, Losses
      <4>3. n \in 1 .. Filed(f)
        BY <4>1 DEF Lost
      <4>4. T = (1 .. Filed(f)) \ {n}
        BY <4>2
      <4>5. Cardinality(T) = Cardinality(1 .. Filed(f)) - 1
        BY <3>1, <4>3, <4>4, FS_RemoveElement
      <4> QED BY <2>1, <3>1, <4>3, <4>5
    <3> QED BY <3>2, <3>3
  <2>6. Filed(f) = calls[f] - (IF InFile(f) THEN 1 ELSE 0)
    BY <2>1 DEF Filed
  <2> HIDE DEF L, T
  <2>7. Cardinality(L) >= calls[f] - (IF InFile(f) THEN 2 ELSE 1)
    <3>1. CASE InFile(f)
      BY <2>1, <2>4, <2>5, <2>6, <3>1
    <3>2. CASE ~InFile(f)
      BY <2>1, <2>4, <2>5, <2>6, <3>2
    <3> QED BY <3>1, <3>2
  <2> QED BY <2>7 DEF L
<1> QED BY <1>1, LoggerInvariance, PTL

\* Logging hangs in one way only: the handler of SIGINT interrupted main
\* while it had the lock of the heap or of localtime, and waits for that lock
\* (server.c:451, client.c:591).
THEOREM OnlyStuckHangs == LoggerSpec => []SomeoneMoves
<1>1. LoggerInv => SomeoneMoves
  <2> SUFFICES ASSUME LoggerInv, ~ended, ~Stuck, NEW f \in Frame, at[f] # "idle"
               PROVE  \E g \in Frame : at[g] # "idle" /\ Runs(g) /\ ~Waits(g)
    BY DEF SomeoneMoves, InCall
  <2>1. Handler \in Frame /\ Main # Handler
    BY LoggerAssumption DEF Frame
  <2>2. ASSUME NEW g \in Frame, Waits(g)
        PROVE  \E h \in Frame : /\ \E l \in LockFor(g) : lock[l] = h
                                /\ at[h] # "idle" /\ ~Waits(h)
    <3>1. PICK l \in LockFor(g) : lock[l] \notin {g, Nul}
      BY <2>2 DEF Waits
    <3>2. l \in Locks
      BY DEF LockFor, Locks
    <3>3. PICK h \in Frame : lock[l] = h
      BY <3>1, <3>2 DEF LoggerInv, LoggerTypeOK
    <3>4. l \in LockFor(h) \/ at[h] = "elsewhere"
      BY <3>2, <3>3 DEF LoggerInv, LockHeld
    <3>5. at[h] # "idle" /\ \A k \in LockFor(h) : k = l
      BY <3>4 DEF LockFor
    <3> QED BY <3>3, <3>5 DEF Waits
  <2>3. CASE at[Handler] = "idle"
    <3>1. \A g \in Frame : Runs(g)
      BY <2>3 DEF Runs
    <3> QED BY <2>2, <3>1
  <2>4. CASE at[Handler] # "idle"
    <3>1. \A g \in Frame \ {Main} : Runs(g)
      BY DEF Runs
    <3>2. CASE Waits(Handler)
      <4>1. PICK h \in Frame : /\ \E l \in LockFor(Handler) : lock[l] = h
                               /\ at[h] # "idle" /\ ~Waits(h)
        BY <2>1, <2>2, <3>2
      <4>2. h # Main
        BY <4>1 DEF Stuck
      <4> QED BY <3>1, <4>1, <4>2
    <3>3. CASE ~Waits(Handler)
      BY <2>1, <2>4, <3>1, <3>3
    <3> QED BY <3>2, <3>3
  <2> QED BY <2>3, <2>4
<1> QED BY <1>1, LoggerInvariance, PTL
=============================================================================
