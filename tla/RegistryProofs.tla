--------------------------- MODULE RegistryProofs ---------------------------
(***************************************************************************)
(* The server keeps the registry of usernames that NameRegistry specifies, *)
(* for any number of connections and names.                                *)
(***************************************************************************)
EXTENDS ServerProofs

\* The registry's variables as the state of the server shows them.
RStage == [c \in Conn |-> Stage(pc[c])]
RWanted ==
  [c \in Conn |-> IF Stage(pc[c]) = "idle" THEN NoName ELSE request[c].name]

\* What one connection wants.
Want(c) == IF Stage(pc[c]) = "idle" THEN NoName ELSE request[c].name

\* A step of one thread moves that thread's entry, and no other.
LEMMA OneMoves ==
  ASSUME TypeOK, NEW c \in Conn,
         \A x \in Conn \ {c} : pc'[x] = pc[x] /\ request'[x] = request[x]
  PROVE  /\ RStage' = [RStage EXCEPT ![c] = Stage(pc'[c])]
         /\ RWanted' = [RWanted EXCEPT ![c] = Want(c)']
<1>1. \A x \in Conn \ {c} : Stage(pc'[x]) = Stage(pc[x]) /\ Want(x)' = Want(x)
  BY DEF Stage, Want
<1>2. RStage' = [x \in Conn |-> Stage(pc'[x])] /\ RStage = [x \in Conn |-> Stage(pc[x])]
  BY DEF RStage, Stage
<1>3. RWanted' = [x \in Conn |-> Want(x)'] /\ RWanted = [x \in Conn |-> Want(x)]
  BY DEF RWanted, Want, Stage
<1> QED BY <1>1, <1>2, <1>3

\* When that entry stays as well, the registry sees nothing.
LEMMA NothingMoves ==
  ASSUME TypeOK, NEW c \in Conn,
         \A x \in Conn \ {c} : pc'[x] = pc[x] /\ request'[x] = request[x],
         Stage(pc'[c]) = Stage(pc[c]),
         Stage(pc[c]) = "idle" \/ request'[c] = request[c]
  PROVE  UNCHANGED <<RStage, RWanted>>
<1>1. RStage[c] = Stage(pc[c]) /\ RWanted[c] = Want(c)
  BY DEF RStage, RWanted, Want
<1>2. Want(c)' = Want(c)
  BY DEF Want, Stage
<1> QED BY <1>1, <1>2, OneMoves DEF RStage, RWanted

\* The steps of the registry, over its view of the server.
LEMMA ViewStays ==
  ASSUME UNCHANGED <<table, raced, RStage, RWanted>>
  PROVE  UNCHANGED Registry!registryVars
BY DEF Registry!registryVars, RStage, RWanted

LEMMA ViewClaims ==
  ASSUME NEW c \in Conn, NEW n \in Names, RStage[c] = "idle",
         RStage' = [RStage EXCEPT ![c] =
                      IF table[n] # NoConn THEN "refused" ELSE "claiming"],
         RWanted' = [RWanted EXCEPT ![c] = n],
         UNCHANGED <<table, raced>>
  PROVE  Registry!SeesFree(c, n) \/ Registry!SeesHeld(c, n)
<1>1. CASE table[n] # NoConn
  BY <1>1 DEF Registry!SeesHeld, Registry!Moves, RStage, RWanted
<1>2. CASE table[n] = NoConn
  BY <1>2 DEF Registry!SeesFree, Registry!Moves, RStage, RWanted
<1> QED BY <1>1, <1>2

LEMMA ViewTakes ==
  ASSUME NEW c \in Conn, RStage[c] = "claiming",
         table' = [table EXCEPT ![RWanted[c]] = c],
         RStage' = [RStage EXCEPT ![c] = "granted"],
         RWanted' = [RWanted EXCEPT ![c] = RWanted[c]],
         UNCHANGED raced
  PROVE  Registry!Takes(c)
BY DEF Registry!Takes, Registry!Moves, RStage, RWanted

LEMMA ViewAnswered ==
  ASSUME NEW c \in Conn, RStage[c] \in {"granted", "refused"},
         RStage' = [RStage EXCEPT ![c] = "idle"],
         RWanted' = [RWanted EXCEPT ![c] = NoName],
         UNCHANGED <<table, raced>>
  PROVE  Registry!Answered(c)
BY DEF Registry!Answered, Registry!Moves, RStage, RWanted

LEMMA ViewReleases ==
  ASSUME NEW n \in Names, table' = [table EXCEPT ![n] = NoConn],
         UNCHANGED <<RStage, RWanted, raced>>
  PROVE  Registry!Release(n)
BY DEF Registry!Release, RStage, RWanted

LEMMA ViewBreaks ==
  ASSUME raced', table' \in [Names -> Conn \cup {NoConn}],
         RStage' \in [Conn -> Registry!Stages],
         RWanted' \in [Conn -> Names \cup {NoName}]
  PROVE  Registry!Breaks
BY DEF Registry!Breaks, RStage, RWanted

-----------------------------------------------------------------------------
(* Every step of the world is one of the registry, or none.                *)

RegistryStep == Registry!RegistryNext \/ UNCHANGED Registry!registryVars

\* A step that moves no thread into or out of handle_identify, and leaves the
\* table alone, is none of the registry.
LEMMA UnseenStep ==
  ASSUME UNCHANGED <<table, raced, RStage, RWanted>>
  PROVE  RegistryStep
BY ViewStays DEF RegistryStep

\* Once two table calls have overlapped the registry promises nothing.
LEMMA BrokenStep ==
  ASSUME TypeOK', raced'
  PROVE  RegistryStep
<1>1. /\ table' \in [Names -> Conn \cup {NoConn}]
      /\ RStage' \in [Conn -> Registry!Stages]
      /\ RWanted' \in [Conn -> Names \cup {NoName}]
  <2>1. \A l : Stage(l) \in Registry!Stages
    BY DEF Stage, Registry!Stages
  <2>2. \A c \in Conn : request'[c].name \in Names \cup {NoName}
    BY DEF TypeOK, ServerTypeOK, Request
  <2> QED BY <2>1, <2>2 DEF RStage, RWanted, TypeOK, ServerTypeOK, Stage
<1> QED BY <1>1, ViewBreaks DEF RegistryStep, Registry!RegistryNext

LEMMA ThreadRegistry ==
  ASSUME TypeOK, TypeOK', Handling, NEW c \in Conn, ListenerStep(c), ~raced'
  PROVE  RegistryStep
<1> USE DEF TypeOK, ServerTypeOK
<1>1. \A x \in Conn \ {c} : pc'[x] = pc[x] /\ request'[x] = request[x]
  BY ThreadFrame
<1>2. /\ RStage' = [RStage EXCEPT ![c] = Stage(pc'[c])]
      /\ RWanted' = [RWanted EXCEPT ![c] = Want(c)']
  BY <1>1, OneMoves
<1>3. RStage[c] = Stage(pc[c]) /\ RWanted[c] = Want(c)
  BY DEF RStage, RWanted, Want
<1>4. raced' = raced
  <2>1. UNCHANGED raced \/ NoteRace(c)
    <3> USE DEF serverVars
    <3>1. CASE server_listener(c) \/ server_listener_drop(c) \/ server_listener_end(c)
      BY <3>1 DEF server_listener, server_listener_drop, server_listener_end
    <3>2. CASE \/ handle_identify(c) \/ handle_identify_absent(c)
               \/ identify_response_failed(c) \/ server_add_user(c)
               \/ identify_response_success(c)
      BY <3>2 DEF handle_identify, handle_identify_absent, identify_response_failed,
         server_add_user, identify_response_success
    <3>3. CASE \/ send_json_except_user_init(c) \/ send_json_except_user(c)
               \/ send_json_except_user_end(c)
      BY <3>3 DEF send_json_except_user_init, send_json_except_user,
         send_json_except_user_end
    <3>4. CASE server_remove_user(c) \/ handle_disconnect_print(c) \/ print_user_table(c)
      BY <3>4 DEF server_remove_user, handle_disconnect_print, print_user_table
    <3> QED BY <3>1, <3>2, <3>3, <3>4 DEF ListenerStep
  <2> QED BY <2>1 DEF NoteRace
\* Threads outside handle_identify, and inside it between two shared calls.
<1>5. ASSUME UNCHANGED table, Stage(pc'[c]) = Stage(pc[c]),
             Stage(pc[c]) = "idle" \/ request'[c] = request[c]
      PROVE  RegistryStep
  BY <1>1, <1>4, <1>5, NothingMoves, UnseenStep
<1>6. CASE server_listener(c)
  <2>1. pc[c] = "reading" /\ pc'[c] \in {"reading", "lookup", "announce", "remove"}
    BY <1>6 DEF server_listener, process_message, Goto
  <2>2. Stage(pc[c]) = "idle" /\ Stage(pc'[c]) = "idle"
    BY <2>1 DEF Stage
  <2> QED BY <1>5, <1>6, <2>2 DEF server_listener
<1>7. CASE server_listener_drop(c)
  BY <1>5, <1>7 DEF server_listener_drop, serverVars
<1>8. CASE server_listener_end(c) \/ send_json_except_user_init(c) \/ handle_disconnect_print(c)
  <2>1. pc[c] \in {"reading", "announce", "removed"} /\ pc'[c] \in {"done", "bcast", "print"}
    BY <1>8
    DEF server_listener_end, send_json_except_user_init, handle_disconnect_print, Goto
  <2>2. Stage(pc[c]) = "idle" /\ Stage(pc'[c]) = "idle"
    BY <2>1 DEF Stage
  <2> QED
    BY <1>5, <1>8, <2>2
    DEF server_listener_end, send_json_except_user_init, handle_disconnect_print
<1>9. CASE send_json_except_user_end(c) \/ print_user_table(c)
  <2>1. pc[c] \in {"bcast", "print"} /\ pc'[c] = "reading"
    BY <1>9 DEF send_json_except_user_end, print_user_table, Return, Goto
  <2>2. Stage(pc[c]) = "idle" /\ Stage(pc'[c]) = "idle"
    BY <2>1 DEF Stage
  <2> QED BY <1>5, <1>9, <2>2 DEF send_json_except_user_end, print_user_table
<1>10. CASE send_json_except_user(c)
  BY <1>5, <1>10 DEF send_json_except_user
<1>11. CASE handle_identify_absent(c)
  <2>1. pc[c] = "absent" /\ pc'[c] = "insert" /\ UNCHANGED <<table, request>>
    BY <1>11 DEF handle_identify_absent, Goto
  <2>2. Stage(pc'[c]) = Stage(pc[c])
    BY <2>1 DEF Stage
  <2> QED BY <1>5, <2>1, <2>2
\* The lookup sees the name free or held.
<1>12. CASE handle_identify(c)
  <2> DEFINE n == request[c].name
  <2>1. /\ pc[c] = "lookup" /\ UNCHANGED <<table, request>>
        /\ pc'[c] = IF table[n] # NoConn THEN "taken" ELSE "absent"
    BY <1>12 DEF handle_identify, Goto
  <2>2. n \in Names
    BY <2>1 DEF Handling
  <2>3. /\ Stage(pc[c]) = "idle"
        /\ Stage(pc'[c]) = IF table[n] # NoConn THEN "refused" ELSE "claiming"
    BY <2>1 DEF Stage
  <2>4. Want(c)' = n
    BY <2>1, <2>3 DEF Want, Stage
  <2>5. Registry!SeesFree(c, n) \/ Registry!SeesHeld(c, n)
    BY <1>2, <1>3, <1>4, <2>1, <2>2, <2>3, <2>4, ViewClaims
  <2> QED BY <2>2, <2>5 DEF RegistryStep, Registry!RegistryNext
\* The insertion takes the name, whoever holds it by now.
<1>13. CASE server_add_user(c)
  <2> DEFINE n == request[c].name
  <2>1. /\ pc[c] = "insert" /\ pc'[c] = "welcome" /\ UNCHANGED request
        /\ table' = [table EXCEPT ![n] = c]
    BY <1>13 DEF server_add_user, Goto
  <2>2. Stage(pc[c]) = "claiming" /\ Stage(pc'[c]) = "granted"
    BY <2>1 DEF Stage
  <2>3. Want(c) = n /\ Want(c)' = n
    BY <2>1, <2>2 DEF Want, Stage
  <2>4. Registry!Takes(c)
    BY <1>2, <1>3, <1>4, <2>1, <2>2, <2>3, ViewTakes
  <2> QED BY <2>4 DEF RegistryStep, Registry!RegistryNext
\* The answer ends the claim.
<1>14. CASE identify_response_failed(c) \/ identify_response_success(c)
  <2>1. /\ pc[c] \in {"taken", "welcome"} /\ pc'[c] \in {"reading", "announce"}
        /\ UNCHANGED table
    BY <1>14 DEF identify_response_failed, identify_response_success, Return, Goto
  <2>2. Stage(pc[c]) \in {"granted", "refused"} /\ Stage(pc'[c]) = "idle"
    BY <2>1 DEF Stage
  <2>3. Want(c)' = NoName
    BY <2>2 DEF Want, Stage
  <2>4. Registry!Answered(c)
    BY <1>2, <1>3, <1>4, <2>1, <2>2, <2>3, ViewAnswered
  <2> QED BY <2>4 DEF RegistryStep, Registry!RegistryNext
\* A removal releases the name it found.
<1>15. CASE server_remove_user(c)
  <2>1. pc[c] = "remove" /\ pc'[c] = "removed" /\ UNCHANGED request
    BY <1>15 DEF server_remove_user, Goto
  <2>2. Stage(pc[c]) = "idle" /\ Stage(pc'[c]) = "idle"
    BY <2>1 DEF Stage
  <2>3. UNCHANGED <<RStage, RWanted>>
    BY <1>1, <2>2, NothingMoves
  <2>4. CASE UNCHANGED table
    BY <1>4, <2>3, <2>4, UnseenStep
  <2>5. ASSUME NEW n \in Present, table' = [table EXCEPT ![n] = NoConn]
        PROVE  RegistryStep
    <3>1. n \in Names
      BY DEF Present
    <3>2. Registry!Release(n)
      BY <1>4, <2>3, <2>5, <3>1, ViewReleases
    <3> QED BY <3>1, <3>2 DEF RegistryStep, Registry!RegistryNext
  <2> QED BY <1>15, <2>4, <2>5 DEF server_remove_user
<1> QED
  BY <1>6, <1>7, <1>8, <1>9, <1>10, <1>11, <1>12, <1>13, <1>14, <1>15 DEF ListenerStep

LEMMA WorldRegistry ==
  ASSUME IInv, IInv', [WorldNext]_worldVars
  PROVE  RegistryStep
<1>1. TypeOK /\ TypeOK' /\ Handling /\ Accepting
  BY DEF IInv
<1>2. CASE raced'
  BY <1>1, <1>2, BrokenStep
<1>3. ASSUME UNCHANGED <<table, pc, request, raced>> PROVE RegistryStep
  BY <1>3, UnseenStep DEF RStage, RWanted, Stage
<1>4. CASE ~raced' /\ ServerStep
  <2>1. CASE accept_connection
    <3> DEFINE h == Head(backlog)
    <3>1. h \in Conn /\ pc[h] = "none"
      <4>1. backlog # <<>> /\ backlog \in Seq(Conn)
        BY <1>1, <2>1 DEF accept_connection, TypeOK, TcpTypeOK
      <4>2. 1 \in DOMAIN backlog /\ h = backlog[1] /\ h \in Conn
        BY <4>1
      <4>3. fd[h] = 0
        BY <1>1, <4>2 DEF Accepting
      <4> QED BY <1>1, <4>2, <4>3 DEF Accepting
    <3>2. \A x \in Conn \ {h} : pc'[x] = pc[x] /\ request'[x] = request[x]
      BY <1>1, <2>1 DEF accept_connection, Goto, TypeOK, ServerTypeOK
    <3>3. pc'[h] = "reading" /\ UNCHANGED <<table, raced>>
      BY <1>1, <2>1, <3>1 DEF accept_connection, Goto, TypeOK, ServerTypeOK
    <3>4. Stage(pc[h]) = "idle" /\ Stage(pc'[h]) = "idle"
      BY <3>1, <3>3 DEF Stage
    <3> HIDE DEF h
    <3>5. UNCHANGED <<RStage, RWanted>>
      BY <1>1, <3>1, <3>2, <3>4, NothingMoves
    <3> QED BY <3>3, <3>5, UnseenStep
  <2>2. CASE accept_fails \/ Signals \/ \E c \in Conn : wild_username(c)
    BY <1>3, <2>2 DEF accept_fails, Signals, interrupted, handle_sig,
     interrupted_again, wild_username
  <2>3. ASSUME NEW c \in Conn, ListenerStep(c) PROVE RegistryStep
    <3>1. ~raced'
      BY <1>4
    <3> QED BY <1>1, <2>3, <3>1, ThreadRegistry
  <2>4. ~ \E c \in Conn : corrupted_call(c)
    BY <1>4 DEF corrupted_call
  <2>5. ~ \E n \in Names : corrupted_table(n)
    BY <1>4 DEF corrupted_table
  <2> QED BY <1>4, <2>1, <2>2, <2>3, <2>4, <2>5 DEF ServerStep, ServerNext
<1>5. ASSUME NEW c \in Conn, PeerStep(c) PROVE RegistryStep
  BY <1>3, <1>5 DEF PeerStep, PeerConnects, PeerSends, PeerReads, PeerCloses, serverVars
<1>6. CASE UNCHANGED worldVars
  BY <1>3, <1>6 DEF worldVars, serverVars
<1> QED BY <1>2, <1>4, <1>5, <1>6 DEF WorldNext

LEMMA RegistryStarts == WorldInit => Registry!RegistryInit
<1> SUFFICES ASSUME WorldInit PROVE Registry!RegistryInit
  OBVIOUS
<1>1. table = [n \in Names |-> NoConn] /\ raced = FALSE /\ pc = [c \in Conn |-> "none"]
  BY DEF WorldInit, ServerInit
<1>2. Stage("none") = "idle"
  BY DEF Stage
<1> QED BY <1>1, <1>2 DEF Registry!RegistryInit

\* The hash table of users, with its unlocked lookup and insertion and its
\* removals by whatever a freed name reads as, implements the optimistic
\* registry (server.c:178-186, 440): a name is taken only by a connection that
\* saw it free, and only a removal frees it, until two calls overlap.
THEOREM RegistryImplemented == WorldSpec => ImplementsRegistry
<1>1. WorldInit => Registry!RegistryInit
  BY RegistryStarts
<1>2. IInv /\ IInv' /\ [WorldNext]_worldVars => [Registry!RegistryNext]_Registry!registryVars
  BY WorldRegistry DEF RegistryStep
<1> QED
  BY <1>1, <1>2, Invariance, PTL DEF WorldSpec, ImplementsRegistry, Registry!RegistrySpec
=============================================================================
