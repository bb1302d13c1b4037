---------------------------- MODULE CirceProofs ----------------------------
(***************************************************************************)
(* The whole system behaves as ServerWorld describes it, so that what is   *)
(* proved of the server among arbitrary peers holds among its own clients. *)
(***************************************************************************)
EXTENDS Circe, OrderProofs, RegistryProofs

\* The requests a client has ready are ones its program can send.
LEMMA DraftsStep ==
  ASSUME ClientTypeOK, [CirceNext]_circeVars
  PROVE  ClientTypeOK'
<1> USE DEF ClientTypeOK
<1>1. NoDraft \in Drafts
  BY DEF NoDraft, Nameless, Drafts
<1>2. ASSUME NEW c \in Conn, NEW l \in UiStates, Becomes(c, l)
      PROVE  ui' \in [Conn -> UiStates]
  BY <1>2 DEF Becomes
<1>3. \A c \in Conn : LoopTop(c) \in UiStates
  BY DEF LoopTop, UiStates
<1>4. {"prompt", "eof", "send", "logout", "leaving", "exited"} \subseteq UiStates
  BY DEF UiStates
<1>5. ASSUME NEW c \in Conn, AfterSend(c)
      PROVE  ClientTypeOK'
  BY <1>1, <1>2, <1>3, <1>4, <1>5 DEF AfterSend
<1>6. ASSUME NEW c \in Conn, Exits(c)
      PROVE  ClientTypeOK'
  BY <1>2, <1>4, <1>6 DEF Exits
<1>7. ASSUME NEW c \in Conn, NEW q \in Drafts, Drafted(c, q)
      PROVE  ClientTypeOK'
  BY <1>2, <1>4, <1>7 DEF Drafted
<1>8. ASSUME NEW c \in Conn, MainStep(c)
      PROVE  ClientTypeOK'
  <2>1. CASE client_sends_in_vain(c) \/ UserSends(c)
    BY <1>5, <2>1 DEF client_sends_in_vain, UserSends, client_sends
  <2>2. CASE sigpipe(c) \/ main_returns(c)
    BY <1>6, <2>2 DEF sigpipe, main_returns
  <2>3. CASE de_identified(c)
    BY <1>2, <1>3, <2>3 DEF de_identified
  <2>4. CASE get_input_fails(c)
    BY <1>2, <1>4, <2>4 DEF get_input_fails
  <2> QED BY <1>8, <2>1, <2>2, <2>3, <2>4 DEF MainStep
<1>9. ASSUME NEW c \in Conn, UserStep(c)
      PROVE  ClientTypeOK'
  <2>1. CASE client_create_listener(c)
    BY <1>2, <1>4, <2>1 DEF client_create_listener
  <2>2. CASE \/ handle_login(c) \/ handle_logout(c) \/ handle_status_client(c)
             \/ send_public_text(c)
    BY <1>7, <2>2
    DEF handle_login, handle_logout, handle_status_client, send_public_text,
        Nameless, Drafts
  <2>3. CASE leave_command(c) \/ end_of_input(c)
    BY <1>2, <1>4, <2>3 DEF leave_command, end_of_input
  <2> QED BY <1>9, <2>1, <2>2, <2>3 DEF UserStep
<1>9a. ASSUME NEW c \in Conn, SigintStep(c)
       PROVE  ClientTypeOK'
  <2>1. CASE sigint(c)
    BY <2>1 DEF sigint, StopStates
  <2>2. CASE handle_sigint(c)
    <3>1. ui' \in [Conn -> UiStates]
      BY <1>2, <1>4, <2>2 DEF handle_sigint
    <3>2. draft' \in [Conn -> Drafts]
      BY <1>1, <2>2 DEF handle_sigint
    <3>3. stop' \in [Conn -> StopStates] /\ UNCHANGED <<logged_in, listening>>
      BY <2>2 DEF handle_sigint, StopStates
    <3> QED BY <3>1, <3>2, <3>3
  <2>3. CASE sigint_again(c)
    BY <1>6, <2>3 DEF sigint_again
  <2> QED BY <1>9a, <2>1, <2>2, <2>3 DEF SigintStep
<1>10. ASSUME NEW c \in Conn, ClientListenerStep(c)
       PROVE  ClientTypeOK'
  BY <1>10
  DEF ClientListenerStep, client_listener, client_listener_drop,
      client_listener_end, clientVars
<1>11. CASE UNCHANGED clientVars
  BY <1>11 DEF clientVars
<1> QED
  BY <1>8, <1>9, <1>9a, <1>10, <1>11 DEF CirceNext, ClientStep, circeVars

\* A client's step is a step of the peer at the other end, or one that the
\* server's side cannot see.
LEMMA ClientIsPeer ==
  ASSUME TypeOK, ClientTypeOK, NEW c \in Conn, ClientStep(c)
  PROVE  PeerStep(c) \/ UNCHANGED worldVars
<1>1. UNCHANGED <<serverVars, heard>>
  BY DEF ClientStep
<1>2. ASSUME UNCHANGED sent, UNCHANGED tcpVars
      PROVE  UNCHANGED worldVars
  BY <1>1, <1>2 DEF worldVars
<1>3. ASSUME UNCHANGED sent, ClientCloses(c)
      PROVE  PeerStep(c)
  BY <1>1, <1>3 DEF PeerStep, PeerCloses
<1>4. ASSUME UNCHANGED sent, NEW k \in 1 .. Len(toClient[c]), ClientReads(c, k)
      PROVE  PeerStep(c)
  BY <1>1, <1>4 DEF PeerStep, PeerReads
<1>5. CASE UserSends(c)
  <2>1. draft[c] \in Requests
    BY CirceAssumption DEF ClientTypeOK
  <2>2. PeerSends(c, draft[c])
    BY <1>1, <1>5 DEF UserSends, client_sends, PeerSends
  <2>3. Running
    BY <1>5 DEF UserSends, ServerGone
  <2> QED BY <2>1, <2>2, <2>3 DEF PeerStep
<1>6. CASE MainStep(c) /\ ~UserSends(c)
  BY <1>2, <1>3, <1>6
  DEF MainStep, client_sends_in_vain, sigpipe, de_identified, get_input_fails,
      main_returns, Exits
<1>7. CASE UserStep(c)
  <2>1. CASE client_create_listener(c) /\ ~ServerGone
    BY <1>1, <1>7, <2>1
    DEF UserStep, client_create_listener, PeerStep, PeerConnects, ServerGone
  <2>2. CASE ~(~ServerGone /\ client_create_listener(c))
    BY <1>2, <1>3, <1>7, <2>2
    DEF UserStep, handle_login, handle_logout, handle_status_client,
        send_public_text, Drafted, leave_command, end_of_input
  <2> QED BY <1>7, <2>1, <2>2 DEF UserStep
<1>7a. CASE SigintStep(c)
  BY <1>2, <1>3, <1>7a DEF SigintStep, sigint, handle_sigint, sigint_again, Exits
<1>8. CASE ClientListenerStep(c)
  <2>1. CASE client_listener(c)
    <3>1. 1 \in 1 .. Len(toClient[c])
      BY <2>1 DEF client_listener, TypeOK, TcpTypeOK
    <3> QED BY <1>4, <1>8, <2>1, <3>1 DEF ClientListenerStep, client_listener
  <2>2. CASE client_listener_drop(c)
    BY <1>4, <1>8, <2>2 DEF ClientListenerStep, client_listener_drop
  <2>3. CASE client_listener_end(c)
    BY <1>2, <1>8, <2>3 DEF ClientListenerStep, client_listener_end
  <2> QED BY <1>8, <2>1, <2>2, <2>3 DEF ClientListenerStep
<1> QED BY <1>5, <1>6, <1>7, <1>7a, <1>8 DEF ClientStep

\* What the system keeps, besides what the world keeps.
THEOREM ClientTypesCorrect == CirceSpec => []TypesOfClients
<1>1. CirceInit => ClientTypeOK
  BY DEF CirceInit, ClientInit, ClientTypeOK, UiStates, StopStates, NoDraft, Nameless, Drafts
<1>2. ClientTypeOK /\ [CirceNext]_circeVars => ClientTypeOK'
  BY DraftsStep
<1> QED BY <1>1, <1>2, PTL DEF CirceSpec, TypesOfClients

\* The server with its own clients is the server among peers: every step of a
\* client program (client.c) is one ServerWorld allows a peer, and the server's
\* steps are the same.
THEOREM CirceImplementsWorld == CirceSpec => ImplementsWorld
<1>1. CirceInit => WorldInit /\ IInv
  BY InitInvariant DEF CirceInit
<1>2. ASSUME IInv, ClientTypeOK, [CirceNext]_circeVars
      PROVE  [WorldNext]_worldVars
  <2>1. ASSUME NEW c \in Conn, ClientStep(c)
        PROVE  [WorldNext]_worldVars
    BY <1>2, <2>1, ClientIsPeer DEF IInv, WorldNext
  <2>2. CASE ServerStep
    BY <2>2 DEF WorldNext
  <2>3. CASE UNCHANGED circeVars
    BY <2>3 DEF circeVars
  <2> QED BY <1>2, <2>1, <2>2, <2>3 DEF CirceNext
<1>3. IInv /\ [WorldNext]_worldVars => IInv'
  BY InvariantStep
<1> QED
  BY <1>1, <1>2, <1>3, ClientTypesCorrect, PTL
  DEF CirceSpec, WorldSpec, ImplementsWorld, TypesOfClients

\* So the invariants of the server hold in the whole system.
THEOREM CirceInvariance == CirceSpec => []IInv
BY CirceImplementsWorld, Invariance, PTL DEF ImplementsWorld

-----------------------------------------------------------------------------
(* Names before deeds.                                                     *)

\* A username, once set, is never unset.
LEMMA NamedForGood ==
  ASSUME TypeOK, [WorldNext]_worldVars, NEW x \in Conn, Named(x)
  PROVE  Named(x)'
<1> USE DEF TypeOK, ServerTypeOK, Named
<1>1. ASSUME NEW c \in Conn, server_add_user(c)
      PROVE  username'[x].st # "uninit"
  BY <1>1 DEF server_add_user, Live, Freed
<1>2. ASSUME NEW c \in Conn, server_remove_user(c)
      PROVE  username'[x].st # "uninit"
  <2>1. username'[x] \in {username[x], Freed}
    BY <1>2 DEF server_remove_user
  <2> QED BY <2>1 DEF Freed
<1>3. CASE UNCHANGED username
  BY <1>3
<1>4. CASE ServerNext
  <2>1. ASSUME NEW c \in Conn, ListenerStep(c)
        PROVE  username'[x].st # "uninit"
    BY <1>1, <1>2, <1>3, <2>1, UsersFrame
  <2>2. CASE accept_connection
    BY <1>3, <2>2 DEF accept_connection
  <2>3. CASE \/ accept_fails \/ Signals
             \/ \E c \in Conn : wild_username(c) \/ corrupted_call(c)
             \/ \E n \in Names : corrupted_table(n)
    BY <1>3, <2>3, OtherFrame
  <2> QED BY <1>4, <2>1, <2>2, <2>3 DEF ServerNext
<1>5. ASSUME NEW c \in Conn, PeerStep(c)
      PROVE  UNCHANGED username
  BY <1>5
  DEF PeerStep, PeerConnects, PeerSends, PeerReads, PeerCloses, serverVars
<1> QED
  BY <1>3, <1>4, <1>5 DEF WorldNext, ServerStep, worldVars, serverVars

\* What a thread of the server does to the streams: it reads its own, and
\* only the answer to a request that has set the name says SUCCESS.
LEMMA ThreadStreams ==
  ASSUME IInv, OwnSockets, ClosesNothing, NEW c \in Conn, ListenerStep(c)
  PROVE  /\ UNCHANGED <<fd, file>>
         /\ \A x \in Conn :
              \/ toServer'[x] = toServer[x]
              \/ x = c /\ \E k \in Nat :
                   toServer'[x] = SubSeq(toServer[x], k + 1, Len(toServer[x]))
         /\ \A x \in Conn :
              \/ toClient'[x] = toClient[x]
              \/ \E m \in Message :
                   /\ toClient'[x] = Append(toClient[x], m)
                   /\ m.type = "SUCCESS" => x = c /\ pc[c] = "welcome"
<1> USE DEF IInv, TypeOK, TcpTypeOK, ServerTypeOK
<1>1. fd[c] \in Fds /\ file[fd[c]] = c
  BY ThreadFrame DEF OwnSockets, Accepting, Fds
<1>2. UNCHANGED fd
  BY ThreadFrame
<1>3. CASE server_listener(c)
  <2>0. toServer[c] \in Seq(Request)
    OBVIOUS
  <2>1. toServer[c] # <<>> /\ toServer' = [toServer EXCEPT ![c] = Tail(@)]
    BY <1>1, <1>3 DEF server_listener
  <2>2. UNCHANGED file
    <3>1. 1 \in DOMAIN toServer[c] /\ Head(toServer[c]) = toServer[c][1]
      BY <2>1, <2>0, TailIndex
    <3>2. process_message(c, toServer[c][1])
      BY <1>1, <1>3, <3>1 DEF server_listener
    <3>3. toServer[c][1].type = "IDENTIFY" => toServer[c][1].body # "bad"
      BY <3>1 DEF ClosesNothing
    <3> QED BY <3>2, <3>3 DEF process_message
  <2>3. Tail(toServer[c]) = SubSeq(toServer[c], 1 + 1, Len(toServer[c]))
    BY <2>1, <2>0, TailIndex
  <2>4. UNCHANGED toClient
    BY <1>3 DEF server_listener
  <2> QED BY <1>2, <2>1, <2>2, <2>3, <2>4
<1>4. CASE server_listener_drop(c)
  <2>1. PICK k \in 1 .. Len(toServer[c]) :
          toServer' = [toServer EXCEPT ![c] = SubSeq(@, k + 1, Len(@))]
    BY <1>1, <1>4 DEF server_listener_drop
  <2>2. UNCHANGED <<file, toClient>> /\ k \in Nat
    BY <1>4 DEF server_listener_drop, serverVars
  <2> QED BY <1>2, <2>1, <2>2
<1>5. ASSUME NEW u \in Conn, NEW m \in Message, send_json_response(u, m),
             m.type = "SUCCESS" => u = c /\ pc[c] = "welcome",
             UNCHANGED <<file, toServer>>, fd[u] # 0
      PROVE  \A x \in Conn :
               \/ toClient'[x] = toClient[x]
               \/ /\ toClient'[x] = Append(toClient[x], m)
                  /\ m.type = "SUCCESS" => x = c /\ pc[c] = "welcome"
  <2>1. file[fd[u]] = u
    BY <1>5 DEF OwnSockets
  <2> HIDE DEF TypeOK, IInv
  <2>2. TypeOK
    BY DEF IInv
  <2> QED BY <1>5, <2>1, <2>2, SendAppends
<1>6. ASSUME NEW t \in {"SUCCESS", "USER_ALREADY_EXISTS"}, NEW s,
             identify_response(c, t, s), t = "SUCCESS" => pc[c] = "welcome",
             UNCHANGED <<file, toServer>>
      PROVE  \A x \in Conn :
               \/ toClient'[x] = toClient[x]
               \/ \E m \in Message :
                    /\ toClient'[x] = Append(toClient[x], m)
                    /\ m.type = "SUCCESS" => x = c /\ pc[c] = "welcome"
  <2> DEFINE m == [type |-> t, name |-> s, from |-> c, seq |-> request[c].seq]
  <2>1. CASE ~Buildable(s)
    BY <1>6, <2>1 DEF identify_response
  <2>2. CASE Buildable(s)
    <3>1. m \in Message /\ m.type = t
      BY <2>2 DEF Buildable, Message, Request
    <3>2. send_json_response(c, m)
      BY <1>6, <2>2 DEF identify_response
    <3>3. fd[c] # 0
      BY <1>1 DEF Fds
    <3> HIDE DEF m
    <3> QED BY <1>5, <1>6, <3>1, <3>2, <3>3
  <2> QED BY <2>1, <2>2
<1>7. CASE identify_response_failed(c)
  BY <1>2, <1>6, <1>7 DEF identify_response_failed
<1>8. CASE identify_response_success(c)
  BY <1>2, <1>6, <1>8 DEF identify_response_success
<1>9. CASE send_json_except_user(c)
  <2>1. PICK n \in Names : send_json_except_user_visit(c, n)
    BY <1>9 DEF send_json_except_user
  <2> DEFINE u == table[n]
             type == announced[request[c].type]
             m(s) == [type |-> type,
                      name |-> IF type \in carriesName THEN s ELSE NoName,
                      from |-> c, seq |-> request[c].seq]
  <2>2. UNCHANGED <<file, toServer>> /\ pc[c] = "bcast"
    BY <1>9 DEF send_json_except_user
  <2>3. type \in {"NEW_USER", "STATUS", "PUBLIC_TEXT_FROM"}
    BY <2>2 DEF Handling, announced
  <2>4. CASE UNCHANGED toClient
    BY <1>2, <2>2, <2>4
  <2>5. ASSUME u \notin {NoConn, c}, NEW s \in Reads(c), CanAnnounce(c, s),
               send_json_response(u, m(s))
        PROVE  \A x \in Conn :
                 \/ toClient'[x] = toClient[x]
                 \/ \E q \in Message :
                      /\ toClient'[x] = Append(toClient[x], q)
                      /\ q.type = "SUCCESS" => x = c /\ pc[c] = "welcome"
    <3>1. m(s) \in Message /\ m(s).type # "SUCCESS"
      BY <2>3, <2>5 DEF CanAnnounce, Buildable, Message, Request
    <3>2. u \in Conn /\ fd[u] # 0
      BY <2>5 DEF Accepting
    <3> HIDE DEF m
    <3> QED BY <1>5, <2>2, <2>5, <3>1, <3>2
  <2> QED BY <1>2, <2>1, <2>2, <2>4, <2>5 DEF send_json_except_user_visit
<1>10. CASE UNCHANGED <<file, toServer, toClient>>
  BY <1>2, <1>10
<1> QED
  BY <1>3, <1>4, <1>7, <1>8, <1>9, <1>10
  DEF ListenerStep, tcpVars, server_listener_end, handle_identify,
      handle_identify_absent, server_add_user, send_json_except_user_init,
      send_json_except_user_end, server_remove_user, handle_disconnect_print,
      print_user_table

\* What a thread of the server does for a user without a name.
LEMMA ThreadUnnamed ==
  ASSUME IInv, CirceInv, NEW c \in Conn, ListenerStep(c), ~Named(c), ~Named(c)'
  PROVE  /\ pc'[c] \notin {"welcome", "remove"}
         /\ pc'[c] \in {"announce", "bcast"} => request'[c].type = "STATUS"
<1> USE DEF IInv, TypeOK, TcpTypeOK, ServerTypeOK, Goto
<1>1. /\ pc[c] \notin {"welcome", "remove"}
      /\ pc[c] \in {"announce", "bcast"} => request[c].type = "STATUS"
      /\ \A i \in DOMAIN toServer[c] : ~NeedsName(toServer[c][i])
  BY DEF CirceInv, NothingUnnamed
<1>2. CASE server_listener(c)
  <2>1. file[fd[c]] = c
    BY ThreadFrame DEF CirceInv, OwnSockets, Accepting, Fds
  <2>2. toServer[c] # <<>> /\ pc[c] = "reading"
    BY <1>2, <2>1 DEF server_listener
  <2>3. ~NeedsName(Head(toServer[c]))
    BY <1>1, <2>2
  <2>4. \/ pc'[c] \in {"reading", "lookup"}
        \/ /\ pc'[c] = "announce" /\ request'[c] = Head(toServer[c])
           /\ request'[c].type \in {"STATUS", "PUBLIC_TEXT"}
        \/ pc'[c] = "remove" /\ Head(toServer[c]).type = "DISCONNECT"
    BY <1>2, <2>1, <2>2 DEF server_listener, process_message
  <2> QED BY <2>3, <2>4 DEF NeedsName
<1>3. CASE server_add_user(c)
  BY <1>3 DEF server_add_user, Live, Freed, Named
<1>4. CASE identify_response_success(c)
  BY <1>1, <1>4 DEF identify_response_success
<1>5. CASE \/ server_listener_drop(c) \/ send_json_except_user(c)
           \/ send_json_except_user_init(c)
  BY <1>1, <1>5
  DEF server_listener_drop, send_json_except_user, send_json_except_user_init,
      serverVars
<1>6. CASE pc'[c] \notin {"welcome", "announce", "bcast", "remove"}
  BY <1>6
<1> QED
  BY <1>2, <1>3, <1>4, <1>5, <1>6
  DEF ListenerStep, server_listener_end, handle_identify, handle_identify_absent,
      identify_response_failed, send_json_except_user_end, server_remove_user,
      handle_disconnect_print, print_user_table, Return

\* What a client's step does: it touches its own end only, and what it does
\* for its user rests on the answer it has.
LEMMA ClientFrame ==
  ASSUME TypeOK, ClientTypeOK, NEW c \in Conn, ClientStep(c)
  PROVE  /\ UNCHANGED serverVars
         /\ \A x \in Conn \ {c} :
              /\ toServer'[x] = toServer[x] /\ toClient'[x] = toClient[x]
              /\ logged_in'[x] = logged_in[x]
              /\ ui'[x] = ui[x] /\ draft'[x] = draft[x]
         /\ \/ toServer'[c] = toServer[c]
            \/ /\ ui[c] = "send"
               /\ \E k \in Nat : toServer'[c] = Append(toServer[c],
                    [type |-> draft[c].type, name |-> draft[c].name,
                     body |-> draft[c].body, seq |-> k])
         /\ \/ toClient'[c] \in {toClient[c], <<>>}
            \/ \E k \in Nat :
                 toClient'[c] = SubSeq(toClient[c], k + 1, Len(toClient[c]))
         /\ logged_in'[c] =>
              \/ logged_in[c]
              \/ \E i \in DOMAIN toClient[c] : toClient[c][i].type = "SUCCESS"
         /\ ui'[c] = "send" /\ NeedsName(draft'[c]) =>
              \/ ui[c] = "send" /\ NeedsName(draft[c])
              \/ logged_in[c]
<1> USE DEF TypeOK, TcpTypeOK, ClientTypeOK, Becomes
<1>1. UNCHANGED serverVars
  BY DEF ClientStep
<1>2. CASE UserSends(c)
  <2>1. sent'[c] \in Nat
    BY <1>2 DEF UserSends
  <2> QED
    BY <1>1, <1>2, <2>1 DEF UserSends, client_sends, AfterSend, ClientSends, LoopTop
<1>3. CASE client_sends_in_vain(c) \/ de_identified(c)
  BY <1>1, <1>3
  DEF client_sends_in_vain, AfterSend, de_identified, LoopTop, tcpVars
<1>4. CASE Exits(c)
  BY <1>1, <1>4 DEF Exits, ClientCloses
<1>5. CASE client_create_listener(c)
  BY <1>1, <1>5 DEF client_create_listener, connect_to_server
<1>6. CASE \/ handle_login(c) \/ handle_logout(c)
           \/ handle_status_client(c) \/ send_public_text(c)
  BY <1>1, <1>6
  DEF handle_login, handle_logout, handle_status_client, send_public_text,
      Drafted, Nameless, NeedsName, tcpVars
<1>7. CASE leave_command(c) \/ end_of_input(c) \/ get_input_fails(c)
  BY <1>1, <1>7 DEF leave_command, end_of_input, get_input_fails, tcpVars
<1>8. CASE sigint(c) \/ handle_sigint(c)
  BY <1>1, <1>8 DEF sigint, handle_sigint, tcpVars
<1>9. CASE client_listener(c)
  <2>1. 1 \in DOMAIN toClient[c] /\ Head(toClient[c]) = toClient[c][1]
    BY <1>9 DEF client_listener
  <2> QED BY <1>1, <1>9, <2>1 DEF client_listener, ClientReads
<1>10. CASE client_listener_drop(c)
  BY <1>1, <1>10 DEF client_listener_drop, ClientReads, clientVars
<1>11. CASE client_listener_end(c)
  BY <1>1, <1>11 DEF client_listener_end, tcpVars
<1> QED
  BY <1>2, <1>3, <1>4, <1>5, <1>6, <1>7, <1>8, <1>9, <1>10, <1>11
  DEF ClientStep, MainStep, UserStep, SigintStep, ClientListenerStep,
      main_returns, sigpipe, sigint_again

\* The server's threads go on reading what a client may still send: a thread
\* ends only at the end of its own stream, and that has an end only when the
\* client has left.
LEMMA ServerReads ==
  ASSUME IInv, OwnSockets, BothEndsRead, ServerNext, UNCHANGED clientVars
  PROVE  BothEndsRead'
<1>0. /\ TypeOK /\ Accepting
      /\ backlog \in Seq(Conn)
      /\ fd \in [Conn -> {0} \cup Fds]
      /\ pc \in [Conn -> PcStates]
      /\ Running
  BY DEF IInv, TypeOK, TcpTypeOK, ServerTypeOK, ServerNext
<1> SUFFICES ASSUME NEW x \in Conn, peer'[x] = "up"
             PROVE  /\ listening[x] = "reading"
                    /\ \/ pc'[x] \notin {"none", "done"}
                       \/ \E i \in DOMAIN backlog' : backlog'[i] = x
  BY DEF BothEndsRead, clientVars
<1> DEFINE Read == /\ listening[x] = "reading"
                   /\ \/ pc[x] \notin {"none", "done"}
                      \/ \E i \in DOMAIN backlog : backlog[i] = x
<1>1. peer[x] = "up" => Read
  BY <1>0 DEF BothEndsRead
<1>2. ASSUME NEW c \in Conn, ListenerStep(c)
      PROVE  /\ listening[x] = "reading"
             /\ \/ pc'[x] \notin {"none", "done"}
                \/ \E i \in DOMAIN backlog' : backlog'[i] = x
  <2>1. peer[x] = "up"
    <3>1. CASE send_json_except_user(c)
      BY <1>0, <3>1, SendPeers DEF send_json_except_user, send_json_except_user_visit
    <3>2. CASE identify_response_failed(c) \/ identify_response_success(c)
      BY <1>0, <3>2, SendPeers
      DEF identify_response_failed, identify_response_success, identify_response
    <3>3. CASE UNCHANGED peer
      BY <3>3
    <3> QED
      BY <1>2, <3>1, <3>2, <3>3
      DEF ListenerStep, server_listener, server_listener_drop, server_listener_end,
          handle_identify, handle_identify_absent, server_add_user,
          send_json_except_user_init, send_json_except_user_end, server_remove_user,
          handle_disconnect_print, print_user_table, tcpVars
  <2>2. UNCHANGED backlog /\ \A y \in Conn \ {c} : pc'[y] = pc[y]
    BY <1>0, <1>2, ThreadFrame
  <2>3. CASE x # c
    BY <1>1, <2>1, <2>2, <2>3
  <2>4. CASE x = c /\ server_listener_end(c)
    <3>1. file[fd[c]] = c
      BY <1>0, <1>2, ThreadFrame DEF OwnSockets, Accepting
    <3> QED BY <2>1, <2>4, <3>1 DEF server_listener_end, AtEndOfFile
  <2>5. CASE x = c /\ ~server_listener_end(c)
    <3>1. pc[c] \notin {"none", "done"}
      BY <1>0, <1>2, ThreadFrame
    <3>2. pc'[c] \notin {"none", "done"}
      BY <1>0, <1>2, <2>5, <3>1
      DEF ListenerStep, server_listener, process_message, server_listener_drop,
          handle_identify, handle_identify_absent, identify_response_failed,
          server_add_user, identify_response_success, send_json_except_user_init,
          send_json_except_user, send_json_except_user_end, server_remove_user,
          handle_disconnect_print, print_user_table, serverVars, Goto, Return
    <3> QED BY <1>1, <2>1, <2>5, <3>2
  <2> QED BY <2>3, <2>4, <2>5
<1>3. CASE accept_connection
  <2> DEFINE h == Head(backlog)
  <2>1. /\ h \in Conn /\ backlog' = Tail(backlog) /\ backlog # <<>>
        /\ pc' = [pc EXCEPT ![h] = "reading"] /\ peer[x] = "up"
    BY <1>0, <1>3, TailIndex DEF accept_connection, Goto
  <2>2. ASSUME NEW i \in DOMAIN backlog, backlog[i] = x, x # h
        PROVE  i - 1 \in DOMAIN backlog' /\ backlog'[i - 1] = x
    <3>1. i # 1 /\ i \in 2 .. Len(backlog)
      BY <1>0, <2>1, <2>2
    <3>2. DOMAIN Tail(backlog) = 1 .. (Len(backlog) - 1)
      BY <1>0, <2>1, TailIndex
    <3>3. i - 1 \in DOMAIN Tail(backlog) /\ (i - 1) + 1 = i
      BY <1>0, <3>1, <3>2
    <3>4. Tail(backlog)[i - 1] = backlog[(i - 1) + 1]
      BY <1>0, <2>1, <3>3, TailIndex
    <3> QED BY <2>1, <2>2, <3>3, <3>4
  <2> HIDE DEF h
  <2>3. CASE x = h
    BY <1>0, <1>1, <2>1, <2>3
  <2>4. CASE x # h
    BY <1>0, <1>1, <2>1, <2>2, <2>4
  <2> QED BY <2>3, <2>4
<1>4. CASE \/ accept_fails \/ Signals
           \/ \E c \in Conn : wild_username(c) \/ corrupted_call(c)
           \/ \E n \in Names : corrupted_table(n)
  <2>1. /\ UNCHANGED <<peer, backlog>>
        /\ pc'[x] = pc[x] \/ (pc[x] = "lookup" /\ pc'[x] = "absent")
    BY <1>0, <1>4, OtherFrame DEF tcpVars
  <2> QED BY <1>1, <2>1
<1> QED BY <1>2, <1>3, <1>4 DEF ServerNext

\* So do the clients: the listener of a client ends only with the server or
\* with its client's process.
LEMMA ClientReadsOn ==
  ASSUME TypeOK, ClientTypeOK, BothEndsRead, NEW c \in Conn, ClientStep(c)
  PROVE  BothEndsRead'
<1> USE DEF TypeOK, TcpTypeOK, ClientTypeOK
<1>0. UNCHANGED <<server, pc>>
  BY DEF ClientStep, serverVars
<1> SUFFICES ASSUME Running, NEW x \in Conn, peer'[x] = "up"
             PROVE  /\ listening'[x] = "reading"
                    /\ \/ pc[x] \notin {"none", "done"}
                       \/ \E i \in DOMAIN backlog' : backlog'[i] = x
  BY <1>0 DEF BothEndsRead, Running
<1>1. CASE client_create_listener(c)
  <2>1. /\ backlog' = Append(backlog, c) /\ peer' = [peer EXCEPT ![c] = "up"]
        /\ listening' = [listening EXCEPT ![c] = "reading"]
    BY <1>1 DEF client_create_listener, connect_to_server
  <2>2. CASE x = c
    <3>1. Len(backlog) + 1 \in DOMAIN backlog' /\ backlog'[Len(backlog) + 1] = c
      BY <2>1
    <3> QED BY <2>1, <2>2, <3>1
  <2>3. CASE x # c
    <3>1. \A i \in DOMAIN backlog : i \in DOMAIN backlog' /\ backlog'[i] = backlog[i]
      <4>1. backlog \in Seq(Conn)
        OBVIOUS
      <4> QED BY ONLY <2>1, <4>1, AppendIndex
    <3>2. peer[x] = "up" /\ listening'[x] = listening[x]
      BY <2>1, <2>3
    <3> QED BY <3>1, <3>2 DEF BothEndsRead
  <2> QED BY <2>2, <2>3
<1>2. CASE Exits(c)
  <2>1. x # c /\ peer[x] = "up" /\ UNCHANGED backlog
    BY <1>2 DEF Exits, ClientCloses
  <2>2. listening'[x] = listening[x]
    BY <1>2, <2>1 DEF Exits
  <2> QED BY <2>1, <2>2 DEF BothEndsRead
<1>3. CASE UNCHANGED <<peer, backlog, listening>>
  BY <1>3 DEF BothEndsRead
<1>4. CASE MainStep(c)
  BY <1>2, <1>3, <1>4
  DEF MainStep, UserSends, client_sends_in_vain, sigpipe, de_identified,
      get_input_fails, main_returns, client_sends, ClientSends, AfterSend, tcpVars
<1>5. CASE UserStep(c)
  BY <1>1, <1>3, <1>5
  DEF UserStep, handle_login, handle_logout, handle_status_client,
      send_public_text, Drafted, leave_command, end_of_input, tcpVars
<1>5a. CASE SigintStep(c)
  BY <1>2, <1>3, <1>5a DEF SigintStep, sigint, handle_sigint, sigint_again, tcpVars
<1>6. CASE ClientListenerStep(c)
  BY <1>3, <1>6
  DEF ClientListenerStep, client_listener, client_listener_drop, ClientReads,
      ServerGone, clientVars
<1> QED BY <1>4, <1>5, <1>5a, <1>6 DEF ClientStep

\* A step of the server keeps what its clients rely on.
LEMMA ServerKeeps ==
  ASSUME IInv, CirceInv, ServerNext, UNCHANGED clientVars,
         \A x \in Conn : Named(x) => Named(x)'
  PROVE  CirceInv'
<1> USE DEF CirceInv
<1>0. /\ TypeOK
      /\ backlog \in Seq(Conn)
      /\ toServer \in [Conn -> Seq(Request)] /\ toClient \in [Conn -> Seq(Message)]
      /\ file \in [Fds -> Conn \cup {NoConn}] /\ fd \in [Conn -> {0} \cup Fds]
      /\ pc \in [Conn -> PcStates] /\ request \in [Conn -> Request]
  BY DEF IInv, TypeOK, TcpTypeOK, ServerTypeOK
<1>reads. BothEndsRead'
  BY ServerReads
<1>1. ASSUME NEW c \in Conn, ListenerStep(c)
      PROVE  CirceInv'
  <2>1. OwnSockets'
    BY <1>1, ThreadStreams DEF OwnSockets
  <2>2. ASSUME NEW x \in Conn, NEW i \in DOMAIN toServer'[x]
        PROVE  \E j \in DOMAIN toServer[x] : toServer'[x][i] = toServer[x][j]
    <3>1. CASE toServer'[x] = toServer[x]
      BY <2>2, <3>1
    <3>2. ASSUME NEW k \in Nat,
                 toServer'[x] = SubSeq(toServer[x], k + 1, Len(toServer[x]))
          PROVE  \E j \in DOMAIN toServer[x] : toServer'[x][i] = toServer[x][j]
      <4>1. toServer[x] \in Seq(Request)
        BY <1>0
      <4>2. i \in DOMAIN SubSeq(toServer[x], k + 1, Len(toServer[x]))
        BY <2>2, <3>2
      <4>3. k + i \in DOMAIN toServer[x] /\ toServer'[x][i] = toServer[x][k + i]
        BY <3>2, <4>1, <4>2, DropIndex
      <4> QED BY <4>3
    <3> QED BY <1>1, <3>1, <3>2, ThreadStreams
  <2>3. ClosesNothing'
    BY <2>2 DEF ClosesNothing
  <2>4. ASSUME NEW x \in Conn, NEW i \in DOMAIN toClient'[x], ~Named(x)
        PROVE  toClient'[x][i].type # "SUCCESS"
    <3>1. CASE toClient'[x] = toClient[x]
      BY <2>4, <3>1 DEF NothingUnnamed
    <3>2. ASSUME NEW m \in Message, toClient'[x] = Append(toClient[x], m),
                 m.type = "SUCCESS" => x = c /\ pc[c] = "welcome"
          PROVE  toClient'[x][i].type # "SUCCESS"
      <4>1. toClient[x] \in Seq(Message) /\ m.type # "SUCCESS"
        BY <1>0, <2>4, <3>2 DEF NothingUnnamed
      <4>2. \/ toClient'[x][i] = m
            \/ i \in DOMAIN toClient[x] /\ toClient'[x][i] = toClient[x][i]
        BY <2>4, <3>2, <4>1, AppendIndex
      <4> QED BY <2>4, <4>1, <4>2 DEF NothingUnnamed
    <3> QED BY <1>1, <3>1, <3>2, ThreadStreams
  <2>5. ASSUME NEW x \in Conn, ~Named(x), ~Named(x)'
        PROVE  /\ pc'[x] \notin {"welcome", "remove"}
               /\ pc'[x] \in {"announce", "bcast"} => request'[x].type = "STATUS"
    <3>1. CASE x = c
      BY <1>1, <2>5, <3>1, ThreadUnnamed
    <3>2. CASE x # c
      <4>1. pc'[x] = pc[x] /\ request'[x] = request[x]
        BY <1>0, <1>1, <3>2, ThreadFrame
      <4> QED BY <2>5, <3>2, <4>1 DEF NothingUnnamed
    <3> QED BY <3>1, <3>2
  <2>6. NothingUnnamed'
    BY <2>2, <2>4, <2>5 DEF NothingUnnamed, clientVars, NeedsName, Named
  <2> QED BY <1>reads, <2>1, <2>3, <2>6
<1>2. CASE accept_connection
  <2> DEFINE h == Head(backlog)
  <2>1. PICK f \in Fds : /\ file[f] = NoConn
                        /\ file' = [file EXCEPT ![f] = h]
                        /\ fd' = [fd EXCEPT ![h] = f]
    BY <1>2 DEF accept_connection
  <2>2. h \in Conn /\ UNCHANGED <<toServer, toClient, request, username>>
    BY <1>0, <1>2, TailIndex DEF accept_connection
  <2>3. OwnSockets'
    <3> HIDE DEF h
    <3>1. file \in [Fds -> Conn \cup {NoConn}] /\ fd \in [Conn -> {0} \cup Fds]
      BY <1>0
    <3> SUFFICES ASSUME NEW x \in Conn, fd'[x] # 0 PROVE file'[fd'[x]] = x
      BY DEF OwnSockets
    <3>2. CASE x = h
      BY <2>1, <2>2, <3>1, <3>2
    <3>3. CASE x # h
      <4>1. fd'[x] = fd[x] /\ fd[x] \in Fds /\ file[fd[x]] = x
        BY <2>1, <3>1, <3>3 DEF OwnSockets
      <4>2. fd[x] # f
        BY <2>1, <4>1, ServerAssumption
      <4> QED BY <2>1, <3>1, <4>1, <4>2
    <3> QED BY <3>2, <3>3
  <2>4. pc' = [pc EXCEPT ![h] = "reading"]
    BY <1>2 DEF accept_connection, Goto
  <2> HIDE DEF h
  <2>5. ClosesNothing' /\ NothingUnnamed'
    BY <1>0, <2>2, <2>4 DEF ClosesNothing, NothingUnnamed, clientVars, Named, NeedsName
  <2> QED BY <1>reads, <2>3, <2>5
<1>3. CASE \/ accept_fails \/ Signals
           \/ \E c \in Conn : wild_username(c) \/ corrupted_call(c)
           \/ \E n \in Names : corrupted_table(n)
  <2>1. /\ UNCHANGED <<toServer, toClient, fd, file, request, username>>
        /\ \A x \in Conn :
             pc'[x] = pc[x] \/ (pc[x] = "lookup" /\ pc'[x] = "absent")
    BY <1>0, <1>3, OtherFrame DEF tcpVars
  <2>2. OwnSockets' /\ ClosesNothing'
    BY <2>1 DEF OwnSockets, ClosesNothing
  <2>3. NothingUnnamed'
    BY <2>1 DEF NothingUnnamed, clientVars, Named, NeedsName
  <2> QED BY <1>reads, <2>2, <2>3
<1> QED BY <1>1, <1>2, <1>3 DEF ServerNext

\* A step of a client keeps it too.
LEMMA ClientKeeps ==
  ASSUME IInv, ClientTypeOK, CirceInv, NEW c \in Conn, ClientStep(c)
  PROVE  CirceInv'
<1> USE DEF CirceInv
<1>0. /\ TypeOK
      /\ toServer \in [Conn -> Seq(Request)] /\ toClient \in [Conn -> Seq(Message)]
  BY DEF IInv, TypeOK, TcpTypeOK
<1>1. UNCHANGED <<fd, file, pc, request, username>>
  BY <1>0, ClientFrame DEF serverVars
<1>2. OwnSockets'
  BY <1>1 DEF OwnSockets
<1>3. ASSUME NEW x \in Conn, NEW i \in DOMAIN toServer'[x]
      PROVE  \/ \E j \in DOMAIN toServer[x] : toServer'[x][i] = toServer[x][j]
             \/ /\ x = c /\ ui[c] = "send"
                /\ toServer'[x][i].type = draft[c].type
                /\ toServer'[x][i].body = draft[c].body
  <2>1. CASE toServer'[x] = toServer[x]
    BY <1>3, <2>1
  <2>2. CASE toServer'[x] # toServer[x]
    <3>0. /\ \A y \in Conn \ {c} : toServer'[y] = toServer[y]
          /\ \/ toServer'[c] = toServer[c]
             \/ /\ ui[c] = "send"
                /\ \E k \in Nat : toServer'[c] = Append(toServer[c],
                     [type |-> draft[c].type, name |-> draft[c].name,
                      body |-> draft[c].body, seq |-> k])
      BY <1>0, ClientFrame
    <3>2. x = c /\ ui[c] = "send"
      BY <2>2, <3>0
    <3>1. PICK k \in Nat : toServer'[x] = Append(toServer[x],
            [type |-> draft[c].type, name |-> draft[c].name,
             body |-> draft[c].body, seq |-> k])
      BY <2>2, <3>0, <3>2
    <3>3. toServer[x] \in Seq(Request)
      BY <1>0
    <3> QED BY <1>3, <3>1, <3>2, <3>3, AppendIndex
  <2> QED BY <2>1, <2>2
<1>4. ClosesNothing'
  <2>1. draft[c].type = "IDENTIFY" => draft[c].body # "bad"
    BY DEF ClientTypeOK, Drafts
  <2> SUFFICES ASSUME NEW x \in Conn, NEW i \in DOMAIN toServer'[x]
               PROVE  toServer'[x][i].type = "IDENTIFY" => toServer'[x][i].body # "bad"
    BY DEF ClosesNothing
  <2>2. ASSUME NEW j \in DOMAIN toServer[x], toServer'[x][i] = toServer[x][j]
        PROVE  toServer'[x][i].type = "IDENTIFY" => toServer'[x][i].body # "bad"
    BY <2>2 DEF ClosesNothing
  <2> QED BY <1>3, <2>1, <2>2
<1>5. ASSUME NEW x \in Conn, NEW i \in DOMAIN toClient'[x]
      PROVE  \E j \in DOMAIN toClient[x] : toClient'[x][i] = toClient[x][j]
  <2>1. CASE toClient'[x] \in {toClient[x], <<>>}
    BY <1>5, <2>1
  <2>2. ASSUME NEW k \in Nat,
               toClient'[x] = SubSeq(toClient[x], k + 1, Len(toClient[x]))
        PROVE  \E j \in DOMAIN toClient[x] : toClient'[x][i] = toClient[x][j]
    <3>1. toClient[x] \in Seq(Message)
      BY <1>0
    <3>2. i \in DOMAIN SubSeq(toClient[x], k + 1, Len(toClient[x]))
      BY <1>5, <2>2
    <3>3. k + i \in DOMAIN toClient[x] /\ toClient'[x][i] = toClient[x][k + i]
      BY <2>2, <3>1, <3>2, DropIndex
    <3> QED BY <3>3
  <2>3. \/ toClient'[c] \in {toClient[c], <<>>}
        \/ \E k \in Nat :
             toClient'[c] = SubSeq(toClient[c], k + 1, Len(toClient[c]))
    BY <1>0, ClientFrame
  <2>4. x # c => toClient'[x] = toClient[x]
    BY <1>0, ClientFrame
  <2>5. CASE x = c
    BY <2>1, <2>2, <2>3, <2>5
  <2>6. CASE x # c
    BY <2>1, <2>4, <2>6
  <2> QED BY <2>5, <2>6
<1>6. ASSUME NEW x \in Conn, ~Named(x)
      PROVE  ~logged_in'[x] /\ (ui'[x] = "send" => ~NeedsName(draft'[x]))
  <2>1. CASE x = c
    <3>1. /\ logged_in'[c] => \/ logged_in[c]
                              \/ \E i \in DOMAIN toClient[c] : toClient[c][i].type = "SUCCESS"
          /\ ui'[c] = "send" /\ NeedsName(draft'[c]) =>
               \/ ui[c] = "send" /\ NeedsName(draft[c])
               \/ logged_in[c]
      BY <1>0, ClientFrame
    <3>2. /\ ~logged_in[c] /\ (ui[c] = "send" => ~NeedsName(draft[c]))
          /\ \A i \in DOMAIN toClient[c] : toClient[c][i].type # "SUCCESS"
      BY <1>6, <2>1 DEF NothingUnnamed
    <3> QED BY <2>1, <3>1, <3>2
  <2>2. CASE x # c
    <3>1. logged_in'[x] = logged_in[x] /\ ui'[x] = ui[x] /\ draft'[x] = draft[x]
      BY <1>0, <2>2, ClientFrame
    <3> QED BY <1>6, <3>1 DEF NothingUnnamed
  <2> QED BY <2>1, <2>2
<1>7. NothingUnnamed'
  <2> SUFFICES ASSUME NEW x \in Conn, ~Named(x)
               PROVE  /\ pc[x] \notin {"welcome", "remove"}
                      /\ \A i \in DOMAIN toClient'[x] : toClient'[x][i].type # "SUCCESS"
                      /\ ~logged_in'[x]
                      /\ ui'[x] = "send" => ~NeedsName(draft'[x])
                      /\ \A i \in DOMAIN toServer'[x] : ~NeedsName(toServer'[x][i])
                      /\ pc[x] \in {"announce", "bcast"} => request[x].type = "STATUS"
    BY <1>1 DEF NothingUnnamed, Named, NeedsName
  <2>1. \A i \in DOMAIN toClient'[x] : toClient'[x][i].type # "SUCCESS"
    BY <1>5 DEF NothingUnnamed
  <2>2. ASSUME NEW i \in DOMAIN toServer'[x]
        PROVE  ~NeedsName(toServer'[x][i])
    <3>1. ASSUME NEW j \in DOMAIN toServer[x], toServer'[x][i] = toServer[x][j]
          PROVE  ~NeedsName(toServer'[x][i])
      BY <3>1 DEF NothingUnnamed
    <3>2. CASE x = c /\ ui[c] = "send" /\ toServer'[x][i].type = draft[c].type
      BY <3>2 DEF NothingUnnamed, NeedsName
    <3> QED BY <1>3, <3>1, <3>2
  <2> QED BY <1>6, <2>1, <2>2 DEF NothingUnnamed
<1>8. BothEndsRead'
  BY <1>0, ClientReadsOn
<1> QED BY <1>2, <1>4, <1>7, <1>8

\* What CirceInv says holds in every reachable state.
THEOREM CirceInvariant == CirceSpec => []CirceInv
<1>1. CirceInit => CirceInv
  BY DEF CirceInit, WorldInit, TcpInit, ServerInit, ClientInit, CirceInv,
         OwnSockets, ClosesNothing, NothingUnnamed, BothEndsRead
<1>2. ASSUME IInv, ClientTypeOK, CirceInv, [CirceNext]_circeVars
      PROVE  CirceInv'
  <2>1. CASE ServerStep /\ UNCHANGED clientVars
    BY <1>2, <2>1, NamedForGood, ServerKeeps DEF IInv, ServerStep, WorldNext
  <2>2. ASSUME NEW c \in Conn, ClientStep(c)
        PROVE  CirceInv'
    BY <1>2, <2>2, ClientKeeps
  <2>3. CASE UNCHANGED circeVars
    BY <1>2, <2>3
    DEF circeVars, worldVars, tcpVars, serverVars, clientVars, CirceInv, OwnSockets,
        ClosesNothing, NothingUnnamed, BothEndsRead, Named, NeedsName, Running
  <2> QED BY <1>2, <2>1, <2>2, <2>3 DEF CirceNext
<1> QED
  BY <1>1, <1>2, CirceInvariance, ClientTypesCorrect, PTL
  DEF CirceSpec, TypesOfClients

\* No descriptor is used for two sockets: no client of this repository sends
\* the request after which server.c:175 closes one in use.
THEOREM NoReuseInCirce == CirceSpec => []NoReuse
<1>1. CirceInv => NoReuse
  BY DEF CirceInv, OwnSockets, NoReuse
<1> QED BY <1>1, CirceInvariant, PTL

\* The server never reads an unset username on behalf of a text or a
\* DISCONNECT, and no client is logged in without one.
THEOREM IdentifiedFirstInCirce == CirceSpec => []IdentifiedFirst
<1>1. CirceInv => IdentifiedFirst
  BY DEF CirceInv, NothingUnnamed, IdentifiedFirst
<1> QED BY <1>1, CirceInvariant, PTL

\* Both directions of an open connection have a reader while the server is up
\* (server.c:73, client.c:99), so a blocked send waits for a thread that waits
\* for nobody, or for one whose own sends end in the same way.
THEOREM BothEndsReadInCirce == CirceSpec => []BothEndsRead
<1>1. CirceInv => BothEndsRead
  BY DEF CirceInv
<1> QED BY <1>1, CirceInvariant, PTL

-----------------------------------------------------------------------------
(* What ends the server.                                                   *)

\* A thread never faults by itself: only a send ends the process.
LEMMA ThreadStaysUp ==
  ASSUME NEW c \in Conn, ListenerStep(c)
  PROVE  server' \in {server, "sigpipe"}
<1>1. ASSUME NEW u, NEW m, send_json_response(u, m)
      PROVE  server' \in {server, "sigpipe"}
  BY <1>1 DEF send_json_response
<1>2. CASE identify_response_failed(c) \/ identify_response_success(c)
  BY <1>1, <1>2
  DEF identify_response_failed, identify_response_success, identify_response
<1>3. CASE send_json_except_user(c)
  BY <1>1, <1>3 DEF send_json_except_user, send_json_except_user_visit
<1>4. CASE UNCHANGED server
  BY <1>4
<1> QED
  BY <1>2, <1>3, <1>4
  DEF ListenerStep, server_listener, server_listener_drop, server_listener_end,
      handle_identify, handle_identify_absent, server_add_user,
      send_json_except_user_init, send_json_except_user_end, server_remove_user,
      handle_disconnect_print, print_user_table, serverVars

\* A step that faults without overlapping calls reads an unset username.
LEMMA FaultIsWild ==
  ASSUME ServerNext, server' = "sigsegv", ~raced
  PROVE  \E c \in Conn : wild_username(c)
<1>1. ASSUME NEW c \in Conn, ListenerStep(c) PROVE FALSE
  BY <1>1, ThreadStaysUp DEF ServerNext, Running
<1>2. CASE accept_connection \/ accept_fails \/ Signals
  BY <1>2 DEF ServerNext, accept_connection, accept_fails, Signals, interrupted, handle_sig,
     interrupted_again
<1>3. ASSUME NEW c \in Conn, corrupted_call(c) PROVE FALSE
  BY <1>3 DEF corrupted_call
<1>4. ASSUME NEW n \in Names, corrupted_table(n) PROVE FALSE
  BY <1>4 DEF corrupted_table
<1> QED BY <1>1, <1>2, <1>3, <1>4 DEF ServerNext

\* Among its own clients the server faults only for a status sent before a
\* login (client.c:191, server.c:365), or after table calls have overlapped.
THEOREM OnlyStatusFaultsInCirce == CirceSpec => OnlyStatusFaults
<1>1. CirceInv /\ [CirceNext]_circeVars
        => [(Running /\ server' = "sigsegv" /\ ~raced) =>
              \E c \in Conn : /\ ~logged_in[c]
                              /\ pc[c] = "bcast" /\ request[c].type = "STATUS"]_circeVars
  <2> SUFFICES ASSUME CirceInv, [CirceNext]_circeVars,
                      Running, server' = "sigsegv", ~raced
               PROVE  \E c \in Conn : /\ ~logged_in[c]
                                      /\ pc[c] = "bcast" /\ request[c].type = "STATUS"
    OBVIOUS
  <2>1. server' # server
    BY DEF Running
  <2>2. ServerNext
    BY <2>1
    DEF CirceNext, ServerStep, ClientStep, circeVars, worldVars, serverVars
  <2>3. PICK c \in Conn : wild_username(c)
    BY <2>2, FaultIsWild
  <2>4. ~Named(c) /\ pc[c] \in {"remove", "bcast"}
    BY <2>3 DEF wild_username, Named
  <2> QED BY <2>4 DEF CirceInv, NothingUnnamed
<1> QED BY <1>1, CirceInvariant, PTL DEF CirceSpec, OnlyStatusFaults

-----------------------------------------------------------------------------
(* What is proved of the server among any peers, in the whole system.      *)

\* The names the clients hold are kept as the optimistic registry keeps them
\* (handle_identify, server.c:178-186).
THEOREM CirceKeepsRegistry == CirceSpec => ImplementsRegistry
BY CirceImplementsWorld, RegistryImplemented DEF ImplementsWorld

\* What one client says reaches all that are registered
\* (send_json_except_user, server.c:355).
THEOREM CirceReachesAll == CirceSpec => BroadcastReachesAll
BY CirceImplementsWorld, BroadcastReaches DEF ImplementsWorld

\* No client sends a handler of the server back (server_listener, server.c:73).
THEOREM CirceHandlersAdvance == CirceSpec => HandlersAdvance
BY CirceImplementsWorld, HandlersAdvanceAlways DEF ImplementsWorld

\* No client is sent its own text, arrival or status (server.c:365): in the
\* whole system descriptors are not reused, so this is without condition.
THEOREM NeverEchoedInCirce == CirceSpec => []NeverEchoed
<1>1. IInv /\ NoReuse => NeverEchoed
  BY DEF IInv, NoEcho, NeverEchoed
<1> QED BY <1>1, CirceInvariance, NoReuseInCirce, PTL

\* Each client hears another's broadcasts in the order they were asked for
\* (server_listener, server.c:73; send_json_except_user, server.c:355), again
\* without condition.
THEOREM HeardInOrderInCirce == CirceSpec => HeardInOrder
<1>1. CirceSpec => InOrder
  BY CirceImplementsWorld, InOrderAlways DEF ImplementsWorld
<1>2. NoReuse' /\ [NoReuse' => \A c, d \in Conn : heard'[d][c] >= heard[d][c]]_worldVars
        => [\A c, d \in Conn : heard'[d][c] >= heard[d][c]]_worldVars
  OBVIOUS
<1> QED BY <1>1, <1>2, NoReuseInCirce, PTL DEF InOrder, HeardInOrder
=============================================================================
