---------------------------- MODULE ServerProofs ----------------------------
(***************************************************************************)
(* Proofs about ServerWorld, for any number of connections, names,         *)
(* requests and descriptors.                                               *)
(***************************************************************************)
EXTENDS ServerWorld, SequenceTheorems, TLAPS

\* Everything the inductive invariant says holds at the start.
LEMMA InitInvariant == WorldInit => IInv
<1> SUFFICES ASSUME WorldInit PROVE IInv OBVIOUS
<1>1. TcpTypeOK(Request, Message)
  BY DEF WorldInit, TcpInit, TcpTypeOK
<1>2. request \in [Conn -> Request]
  BY DEF WorldInit, ServerInit, Request, NoRequest, RequestTypes, Bodies
<1>3. ServerTypeOK
  BY <1>2 DEF WorldInit, ServerInit, ServerTypeOK, ServerStates, PcStates, Uninit
<1>4. sent \in [Conn -> Nat] /\ heard \in [Conn -> [Conn -> Nat]]
  BY DEF WorldInit
<1>5. Accepting /\ QueuedNames /\ Handling
  BY DEF WorldInit, TcpInit, ServerInit, Accepting, QueuedNames, Handling
<1>6. DescriptorsNameOwners /\ RegisteredWasIdentified
  BY DEF WorldInit, TcpInit, ServerInit, DescriptorsNameOwners,
         RegisteredWasIdentified
<1>7. KeyOwnership
  BY ServerAssumption DEF WorldInit, ServerInit, KeyOwnership, Uninit, Live
<1>8. NoEcho
  BY DEF WorldInit, TcpInit, NoEcho
<1> QED BY <1>1, <1>3, <1>4, <1>5, <1>6, <1>7, <1>8 DEF IInv, TypeOK

-----------------------------------------------------------------------------
(* Types.                                                                  *)

\* A sequence with a prefix removed is still over the same set.
LEMMA DropType ==
  ASSUME NEW S, NEW s \in Seq(S), NEW k \in Nat
  PROVE  SubSeq(s, k + 1, Len(s)) \in Seq(S)
OBVIOUS

\* The element at place i of what is left was k places further on.
LEMMA DropIndex ==
  ASSUME NEW S, NEW s \in Seq(S), NEW k \in Nat,
         NEW i \in DOMAIN SubSeq(s, k + 1, Len(s))
  PROVE  k + i \in DOMAIN s /\ SubSeq(s, k + 1, Len(s))[i] = s[k + i]
OBVIOUS

\* A sequence without its first element, place by place.
LEMMA TailIndex ==
  ASSUME NEW S, NEW s \in Seq(S), s # <<>>
  PROVE  /\ DOMAIN Tail(s) = 1 .. (Len(s) - 1)
         /\ \A i \in DOMAIN Tail(s) : Tail(s)[i] = s[i + 1] /\ i + 1 \in DOMAIN s
         /\ 1 \in DOMAIN s /\ Head(s) = s[1] /\ Head(s) \in S
         /\ Tail(s) = SubSeq(s, 1 + 1, Len(s))
OBVIOUS

\* A sequence with one more element, place by place.
LEMMA AppendIndex ==
  ASSUME NEW S, NEW s \in Seq(S), NEW m
  PROVE  /\ DOMAIN Append(s, m) = 1 .. (Len(s) + 1)
         /\ \A i \in DOMAIN s : Append(s, m)[i] = s[i] /\ s[i] \in S
         /\ Append(s, m)[Len(s) + 1] = m
         /\ \A i \in DOMAIN Append(s, m) : i \in DOMAIN s \/ i = Len(s) + 1
         /\ Len(s) + 1 \notin DOMAIN s
OBVIOUS

\* What the server sends is a message, when the request it answers is typed.
LEMMA SendType ==
  ASSUME TypeOK, NEW u, NEW m \in Message, send_json_response(u, m)
  PROVE  /\ peer' \in [Conn -> {"none", "up", "gone", "reset"}]
         /\ toClient' \in [Conn -> Seq(Message)]
         /\ server' \in ServerStates
<1> DEFINE d == file[fd[u]]
<1> USE DEF TypeOK, TcpTypeOK, ServerTypeOK, ServerStates
<1>1. CASE SendToPeer(d, m) /\ UNCHANGED server
  <2>1. toClient' = [toClient EXCEPT ![d] = Append(@, m)] /\ UNCHANGED peer
    BY <1>1 DEF SendToPeer
  <2>2. \A q \in Seq(Message) : Append(q, m) \in Seq(Message)
    OBVIOUS
  <2>3. toClient' \in [Conn -> Seq(Message)]
    BY <2>1, <2>2
  <2> QED BY <1>1, <2>1, <2>3
<1>2. CASE SendToDeparted(d) /\ UNCHANGED server
  BY <1>2 DEF SendToDeparted
<1>3. CASE UNCHANGED <<peer, toClient>> /\ server' \in {server, "sigpipe"}
  BY <1>3
<1> QED BY <1>1, <1>2, <1>3 DEF send_json_response

\* A thread that runs reads a socket that some connection stands for.
LEMMA ReadsSocket ==
  ASSUME TypeOK, Accepting, NEW c \in Conn, pc[c] # "none"
  PROVE  fd[c] \in Fds /\ file[fd[c]] \in Conn \cup {NoConn}
BY DEF TypeOK, ServerTypeOK, Accepting

\* A thread may move to any point, and a handler returns with types kept.
LEMMA GotoType ==
  ASSUME TypeOK, NEW c, NEW l \in PcStates, Goto(c, l)
  PROVE  pc' \in [Conn -> PcStates]
BY DEF TypeOK, ServerTypeOK, Goto

LEMMA ReturnType ==
  ASSUME TypeOK, NEW c, Return(c)
  PROVE  pc' \in [Conn -> PcStates] /\ request' \in [Conn -> Request]
<1>1. NoRequest \in Request
  BY DEF NoRequest, Request, RequestTypes, Bodies
<1>2. "reading" \in PcStates
  BY DEF PcStates
<1> QED BY <1>1, <1>2, GotoType DEF Return, TypeOK, ServerTypeOK

LEMMA RaceType == ASSUME TypeOK, NEW c, NoteRace(c) PROVE raced' \in BOOLEAN
BY DEF NoteRace

\* Every step of the server keeps the types of the variables.
LEMMA ServerTypes ==
  ASSUME TypeOK, Accepting, Handling, ServerNext
  PROVE  TcpTypeOK(Request, Message)' /\ ServerTypeOK'
<1> USE DEF TypeOK, TcpTypeOK, ServerTypeOK, ServerStates
<1>1. CASE accept_connection
  <2>1. PICK f \in Fds : file' = [file EXCEPT ![f] = Head(backlog)]
                     /\ fd' = [fd EXCEPT ![Head(backlog)] = f]
    BY <1>1 DEF accept_connection
  <2>2. Head(backlog) \in Conn /\ Tail(backlog) \in Seq(Conn)
    BY <1>1 DEF accept_connection
  <2> QED BY <1>1, <2>1, <2>2 DEF accept_connection, Goto, PcStates
<1>2. CASE accept_fails
  BY <1>2 DEF accept_fails, tcpVars
<1>3. CASE Signals
  BY <1>3 DEF Signals, interrupted, handle_sig, interrupted_again, tcpVars
<1>4. ASSUME NEW c \in Conn, server_listener(c)
      PROVE  TcpTypeOK(Request, Message)' /\ ServerTypeOK'
  <2> DEFINE d == file[fd[c]]
  <2>1. d \in Conn /\ toServer[d] # <<>>
    BY <1>4, ReadsSocket DEF server_listener
  <2>2. Head(toServer[d]) \in Request /\ Tail(toServer[d]) \in Seq(Request)
    BY <2>1
  <2>3. toServer' \in [Conn -> Seq(Request)]
    BY <1>4, <2>2 DEF server_listener
  <2>4. /\ pc' \in [Conn -> PcStates]
        /\ request' \in [Conn -> Request]
        /\ file' \in [Fds -> Conn \cup {NoConn}]
    <3> DEFINE r == Head(toServer[d])
    <3>1. process_message(c, r)
      BY <1>4 DEF server_listener
    <3>2. request' \in [Conn -> Request]
      BY <2>2, <3>1 DEF process_message
    <3>3. file' \in [Fds -> Conn \cup {NoConn}]
      BY <3>1 DEF process_message
    <3>4. \/ UNCHANGED pc
          \/ \E l \in {"lookup", "announce", "remove"} : Goto(c, l)
      BY <3>1 DEF process_message
    <3>5. pc' \in [Conn -> PcStates]
      BY <3>4, GotoType DEF PcStates
    <3> QED BY <3>2, <3>3, <3>5
  <2> QED BY <1>4, <2>3, <2>4 DEF server_listener
<1>5. ASSUME NEW c \in Conn, server_listener_drop(c)
      PROVE  TcpTypeOK(Request, Message)' /\ ServerTypeOK'
  <2> DEFINE d == file[fd[c]]
  <2>1. d \in Conn
    BY <1>5, ReadsSocket DEF server_listener_drop
  <2>2. PICK k \in 1 .. Len(toServer[d]) :
          toServer' = [toServer EXCEPT ![d] = SubSeq(@, k + 1, Len(@))]
    BY <1>5 DEF server_listener_drop
  <2>3. toServer[d] \in Seq(Request) /\ k \in Nat
    BY <2>1
  <2> HIDE DEF d, TypeOK, TcpTypeOK, ServerTypeOK
  <2>4. SubSeq(toServer[d], k + 1, Len(toServer[d])) \in Seq(Request)
    BY <2>3, DropType
  <2> QED
    BY <1>5, <2>1, <2>2, <2>4
    DEF server_listener_drop, serverVars, TypeOK, TcpTypeOK, ServerTypeOK
<1>6. ASSUME NEW c \in Conn,
             server_listener_end(c) \/ handle_identify(c) \/ handle_identify_absent(c)
               \/ send_json_except_user_init(c) \/ handle_disconnect_print(c)
      PROVE  TcpTypeOK(Request, Message)' /\ ServerTypeOK'
  <2>1. \E l \in {"done", "taken", "absent", "insert", "bcast", "print"} : Goto(c, l)
    BY <1>6 DEF server_listener_end, handle_identify, handle_identify_absent,
         send_json_except_user_init, handle_disconnect_print
  <2>2. pc' \in [Conn -> PcStates]
    BY <2>1, GotoType DEF PcStates
  <2>3. UNCHANGED raced \/ NoteRace(c)
    BY <1>6 DEF server_listener_end, handle_identify, handle_identify_absent,
         send_json_except_user_init, handle_disconnect_print
  <2>4. raced' \in BOOLEAN
    BY <2>3, RaceType
  <2>5. UNCHANGED todo \/ todo' = [todo EXCEPT ![c] = Present]
    BY <1>6 DEF server_listener_end, handle_identify, handle_identify_absent,
         send_json_except_user_init, handle_disconnect_print
  <2>6. todo' \in [Conn -> SUBSET Names]
    <3>1. Present \in SUBSET Names
      BY DEF Present
    <3> QED BY <2>5, <3>1
  <2>7. UNCHANGED <<tcpVars, server, fd, file, request, username, table, keyOf>>
    BY <1>6 DEF server_listener_end, handle_identify, handle_identify_absent,
         send_json_except_user_init, handle_disconnect_print, tcpVars
  <2> QED BY <2>2, <2>4, <2>6, <2>7 DEF tcpVars
<1>7. ASSUME NEW c \in Conn, send_json_except_user_end(c) \/ print_user_table(c)
      PROVE  TcpTypeOK(Request, Message)' /\ ServerTypeOK'
  BY <1>7, ReturnType, RaceType
  DEF send_json_except_user_end, print_user_table, tcpVars
<1>8. ASSUME NEW c \in Conn,
             identify_response_failed(c) \/ identify_response_success(c)
      PROVE  TcpTypeOK(Request, Message)' /\ ServerTypeOK'
  <2>1. ASSUME NEW t \in {"SUCCESS", "USER_ALREADY_EXISTS"}, NEW s,
               identify_response(c, t, s)
        PROVE  /\ peer' \in [Conn -> {"none", "up", "gone", "reset"}]
               /\ toClient' \in [Conn -> Seq(Message)]
               /\ server' \in ServerStates
    <3> DEFINE m == [type |-> t, name |-> s, from |-> c, seq |-> request[c].seq]
    <3>1. CASE Buildable(s)
      <4>1. m \in Message
        BY <3>1 DEF Buildable, Message, Request
      <4> QED BY <2>1, <3>1, <4>1, SendType DEF identify_response
    <3> QED BY <2>1, <3>1 DEF identify_response
  <2>2. /\ peer' \in [Conn -> {"none", "up", "gone", "reset"}]
        /\ toClient' \in [Conn -> Seq(Message)]
        /\ server' \in ServerStates
    BY <1>8, <2>1 DEF identify_response_failed, identify_response_success
  <2>3. pc' \in [Conn -> PcStates] /\ request' \in [Conn -> Request]
    BY <1>8, ReturnType, GotoType
    DEF identify_response_failed, identify_response_success, PcStates
  <2> QED
    BY <1>8, <2>2, <2>3 DEF identify_response_failed, identify_response_success
<1>9. ASSUME NEW c \in Conn, server_add_user(c)
      PROVE  TcpTypeOK(Request, Message)' /\ ServerTypeOK'
  <2>1. request[c].name \in Names \cup {NoName}
    BY DEF Request
  <2> QED
    BY <1>9, <2>1 DEF server_add_user, Goto, PcStates, tcpVars, NoteRace, Overlaps,
         Live, Freed
<1>10. ASSUME NEW c \in Conn, send_json_except_user(c)
       PROVE  TcpTypeOK(Request, Message)' /\ ServerTypeOK'
  <2>1. PICK n \in todo[c] : /\ send_json_except_user_visit(c, n)
                           /\ todo' = [todo EXCEPT ![c] = @ \ {n}]
    BY <1>10 DEF send_json_except_user
  <2>2. announced[request[c].type]
          \in {"NEW_USER", "STATUS", "PUBLIC_TEXT_FROM"}
    BY <1>10 DEF send_json_except_user, Handling, announced
  <2>3. Reads(c) \subseteq Names \cup {NoName, Garbage}
    BY DEF Reads
  <2>4. /\ peer' \in [Conn -> {"none", "up", "gone", "reset"}]
        /\ toClient' \in [Conn -> Seq(Message)]
        /\ server' \in ServerStates
    <3> DEFINE u == table[n]
               type == announced[request[c].type]
               named == type \in carriesName
               m(s) == [type |-> type, name |-> IF named THEN s ELSE NoName,
                        from |-> c, seq |-> request[c].seq]
    <3>1. CASE UNCHANGED <<peer, toClient, server>>
      BY <3>1
    <3>2. ASSUME NEW s \in Reads(c), CanAnnounce(c, s),
                 send_json_response(u, m(s))
          PROVE  /\ peer' \in [Conn -> {"none", "up", "gone", "reset"}]
                 /\ toClient' \in [Conn -> Seq(Message)]
                 /\ server' \in ServerStates
      <4>1. m(s) \in Message
        BY <2>2, <2>3, <3>2 DEF CanAnnounce, Buildable, Message, Request
      <4> QED BY <3>2, <4>1, SendType
    <3> QED BY <2>1, <3>1, <3>2 DEF send_json_except_user_visit
  <2> QED
    BY <1>10, <2>1, <2>4 DEF send_json_except_user, NoteRace, Overlaps
<1>11. ASSUME NEW c \in Conn, server_remove_user(c)
       PROVE  TcpTypeOK(Request, Message)' /\ ServerTypeOK'
  <2>1. PICK s \in Reads(c) :
          \/ /\ table' = [table EXCEPT ![s] = NoConn]
             /\ keyOf' = [keyOf EXCEPT ![s] = NoConn]
             /\ username' = [d \in Conn |->
                  IF d = keyOf[s] THEN Freed ELSE username[d]]
          \/ UNCHANGED <<table, keyOf, username>>
    BY <1>11 DEF server_remove_user
  <2>2. Freed \in [st : {"uninit", "live", "freed"}, name : Names \cup {NoName}]
    BY DEF Freed
  <2>3. username' \in [Conn -> [st : {"uninit", "live", "freed"},
                               name : Names \cup {NoName}]]
    BY <2>1, <2>2
  <2>4. pc' \in [Conn -> PcStates] /\ raced' \in BOOLEAN
    BY <1>11, GotoType, RaceType DEF server_remove_user, PcStates
  <2> QED BY <1>11, <2>1, <2>3, <2>4 DEF server_remove_user, tcpVars
<1>12. ASSUME NEW c \in Conn, wild_username(c) \/ corrupted_call(c)
       PROVE  TcpTypeOK(Request, Message)' /\ ServerTypeOK'
  <2>1. CASE wild_username(c)
    BY <2>1 DEF wild_username, tcpVars
  <2>2. CASE corrupted_call(c)
    <3>1. UNCHANGED pc \/ Goto(c, "absent")
      BY <2>2 DEF corrupted_call
    <3>2. pc' \in [Conn -> PcStates]
      BY <3>1, GotoType DEF PcStates
    <3>3. UNCHANGED todo \/ \E s \in SUBSET Names : todo' = [todo EXCEPT ![c] = s]
      BY <2>2 DEF corrupted_call
    <3>4. server' \in {server, "sigsegv"}
      BY <2>2 DEF corrupted_call
    <3>5. todo' \in [Conn -> SUBSET Names]
      BY <3>3
    <3>6. server' \in ServerStates
      BY <3>4
    <3>7. UNCHANGED <<tcpVars, fd, file, request, username, table, keyOf, raced>>
      BY <2>2 DEF corrupted_call
    <3> QED BY <3>2, <3>5, <3>6, <3>7 DEF tcpVars
  <2> QED BY <1>12, <2>1, <2>2
<1>13. ASSUME NEW n \in Names, corrupted_table(n)
       PROVE  TcpTypeOK(Request, Message)' /\ ServerTypeOK'
  BY <1>13 DEF corrupted_table, tcpVars
<1> QED
  BY <1>1, <1>2, <1>3, <1>4, <1>5, <1>6, <1>7, <1>8, <1>9, <1>10, <1>11, <1>12,
     <1>13 DEF ServerNext, ListenerStep

\* What a peer does keeps the types too, and heard counts what was sent.
LEMMA WorldTypes ==
  ASSUME TypeOK, Accepting, Handling, [WorldNext]_worldVars
  PROVE  TypeOK'
<1>1. CASE ServerStep
  <2>1. TcpTypeOK(Request, Message)' /\ ServerTypeOK'
    BY <1>1, ServerTypes DEF ServerStep
  <2>2. \A d \in Conn : Delivered(d) \subseteq Message
    <3> SUFFICES ASSUME NEW d \in Conn, Len(toClient'[d]) > Len(toClient[d])
                 PROVE  toClient'[d][Len(toClient'[d])] \in Message
      BY DEF Delivered
    <3>1. toClient[d] \in Seq(Message) /\ toClient'[d] \in Seq(Message)
      BY <2>1 DEF TypeOK, TcpTypeOK
    <3> QED BY <3>1
  <2>3. heard' \in [Conn -> [Conn -> Nat]]
    <3> SUFFICES ASSUME NEW d \in Conn, NEW c \in Conn,
                        NEW x \in Delivered(d)
                 PROVE  (CHOOSE m \in Delivered(d) : TRUE).seq \in Nat
      BY <1>1 DEF ServerStep, Observe, TypeOK
    <3>1. (CHOOSE m \in Delivered(d) : TRUE) \in Message
      BY <2>2
    <3> QED BY <3>1 DEF Message
  <2> QED BY <1>1, <2>1, <2>3 DEF ServerStep, TypeOK
<1>2. ASSUME NEW c \in Conn, PeerConnects(c)
      PROVE  TypeOK'
  <2>1. peer' \in [Conn -> {"none", "up", "gone", "reset"}] /\ backlog' \in Seq(Conn)
    BY <1>2 DEF PeerConnects, connect_to_server, TypeOK, TcpTypeOK
  <2> QED
    BY <1>2, <2>1
    DEF PeerConnects, connect_to_server, serverVars, TypeOK, TcpTypeOK, ServerTypeOK
<1>3. ASSUME NEW c \in Conn, NEW r \in Requests, PeerSends(c, r)
      PROVE  TypeOK'
  <2>1. ClientSends(c, [type |-> r.type, name |-> r.name, body |-> r.body,
                        seq |-> sent'[c]])
    BY <1>3 DEF PeerSends
  <2> DEFINE q == [type |-> r.type, name |-> r.name, body |-> r.body,
                   seq |-> sent'[c]]
  <2>2. sent' \in [Conn -> Nat]
    BY <1>3 DEF PeerSends, TypeOK
  <2>3. q \in Request
    BY <2>2, WorldAssumption DEF Request
  <2>4. Append(toServer[c], q) \in Seq(Request)
    BY <2>3 DEF TypeOK, TcpTypeOK
  <2>5. toServer' \in [Conn -> Seq(Request)]
    BY <2>1, <2>4 DEF ClientSends, TypeOK, TcpTypeOK
  <2> HIDE DEF q
  <2> QED
    BY <1>3, <2>1, <2>2, <2>5
    DEF PeerSends, ClientSends, serverVars, TypeOK, TcpTypeOK, ServerTypeOK
<1>4. ASSUME NEW c \in Conn, PeerReads(c)
      PROVE  TypeOK'
  <2>1. PICK k \in 1 .. Len(toClient[c]) : ClientReads(c, k)
    BY <1>4 DEF PeerReads
  <2>2. toClient[c] \in Seq(Message) /\ k \in Nat
    BY DEF TypeOK, TcpTypeOK
  <2>3. SubSeq(toClient[c], k + 1, Len(toClient[c])) \in Seq(Message)
    BY <2>2, DropType
  <2> QED
    BY <1>4, <2>1, <2>3
    DEF PeerReads, ClientReads, serverVars, TypeOK, TcpTypeOK, ServerTypeOK
<1>5. ASSUME NEW c \in Conn, PeerCloses(c)
      PROVE  TypeOK'
  <2>1. \E p \in {"gone", "reset"} : peer' = [peer EXCEPT ![c] = p]
    BY <1>5 DEF PeerCloses, ClientCloses
  <2>2. peer' \in [Conn -> {"none", "up", "gone", "reset"}]
    BY <2>1 DEF TypeOK, TcpTypeOK
  <2>3. toClient' = [toClient EXCEPT ![c] = <<>>] /\ <<>> \in Seq(Message)
    BY <1>5 DEF PeerCloses, ClientCloses
  <2>4. toClient' \in [Conn -> Seq(Message)]
    BY <2>3 DEF TypeOK, TcpTypeOK
  <2>5. UNCHANGED <<backlog, toServer, serverVars, sent, heard>>
    BY <1>5 DEF PeerCloses, ClientCloses
  <2> QED
    BY <2>2, <2>4, <2>5 DEF serverVars, TypeOK, TcpTypeOK, ServerTypeOK
<1>6. CASE UNCHANGED worldVars
  BY <1>6 DEF worldVars, tcpVars, serverVars, TypeOK, TcpTypeOK, ServerTypeOK
<1> QED BY <1>1, <1>2, <1>3, <1>4, <1>5, <1>6 DEF WorldNext, PeerStep

-----------------------------------------------------------------------------
(* What a thread's step may touch.                                         *)

\* A send leaves no peer unconnected.
LEMMA SendFrame ==
  ASSUME TypeOK, NEW u, NEW m, send_json_response(u, m)
  PROVE  \A x \in Conn : peer[x] # "none" => peer'[x] # "none"
BY DEF send_json_response, SendToPeer, SendToDeparted, TypeOK, TcpTypeOK

LEMMA ThreadFrame ==
  ASSUME TypeOK, NEW c \in Conn, ListenerStep(c)
  PROVE  /\ UNCHANGED <<backlog, fd>>
         /\ pc[c] \notin {"none", "done"}
         /\ \A x \in Conn \ {c} : pc'[x] = pc[x] /\ request'[x] = request[x]
         /\ \A x \in Conn : peer[x] # "none" => peer'[x] # "none"
         /\ \A n \in Names : table'[n] \in {table[n], NoConn, c}
<1> USE DEF TypeOK, ServerTypeOK
<1>1. CASE server_listener(c)
  BY <1>1 DEF server_listener, process_message, Goto
<1>2. CASE server_listener_drop(c)
  BY <1>2 DEF server_listener_drop, serverVars
<1>3. CASE server_listener_end(c)
  BY <1>3 DEF server_listener_end, Goto, tcpVars
<1>4. CASE handle_identify(c)
  BY <1>4 DEF handle_identify, Goto, tcpVars
<1>5. CASE handle_identify_absent(c)
  BY <1>5 DEF handle_identify_absent, Goto, tcpVars
<1>6. CASE identify_response_failed(c)
  <2>1. \A x \in Conn : peer[x] # "none" => peer'[x] # "none"
    BY <1>6, SendFrame DEF identify_response_failed, identify_response
  <2> QED BY <1>6, <2>1 DEF identify_response_failed, Return, Goto
<1>7. CASE server_add_user(c)
  BY <1>7 DEF server_add_user, Goto, tcpVars
<1>8. CASE identify_response_success(c)
  <2>1. \A x \in Conn : peer[x] # "none" => peer'[x] # "none"
    BY <1>8, SendFrame DEF identify_response_success, identify_response
  <2> QED BY <1>8, <2>1 DEF identify_response_success, Goto
<1>9. CASE send_json_except_user_init(c)
  BY <1>9 DEF send_json_except_user_init, Goto, tcpVars
<1>10. CASE send_json_except_user(c)
  <2>1. \A x \in Conn : peer[x] # "none" => peer'[x] # "none"
    BY <1>10, SendFrame DEF send_json_except_user, send_json_except_user_visit
  <2> QED BY <1>10, <2>1 DEF send_json_except_user
<1>11. CASE send_json_except_user_end(c)
  BY <1>11 DEF send_json_except_user_end, Return, Goto, tcpVars
<1>12. CASE server_remove_user(c)
  BY <1>12 DEF server_remove_user, Goto, tcpVars
<1>13. CASE handle_disconnect_print(c)
  BY <1>13 DEF handle_disconnect_print, Goto, tcpVars
<1>14. CASE print_user_table(c)
  BY <1>14 DEF print_user_table, Return, Goto, tcpVars
<1> QED
  BY <1>1, <1>2, <1>3, <1>4, <1>5, <1>6, <1>7, <1>8, <1>9, <1>10, <1>11, <1>12,
     <1>13, <1>14 DEF ListenerStep

\* The steps of undefined behaviour and of the end of the process.
LEMMA OtherFrame ==
  ASSUME TypeOK,
         \/ accept_fails \/ Signals
         \/ \E c \in Conn : wild_username(c) \/ corrupted_call(c)
         \/ \E n \in Names : corrupted_table(n)
  PROVE  /\ UNCHANGED <<tcpVars, fd, file, request, username, raced>>
         /\ \A x \in Conn :
              pc'[x] = pc[x] \/ (pc[x] = "lookup" /\ pc'[x] = "absent")
         /\ \/ UNCHANGED <<table, keyOf>>
            \/ /\ raced
               /\ \E n \in Names : /\ table' = [table EXCEPT ![n] = NoConn]
                                  /\ keyOf' = [keyOf EXCEPT ![n] = NoConn]
<1>1. CASE accept_fails \/ Signals
  BY <1>1 DEF accept_fails, Signals, interrupted, handle_sig,
     interrupted_again
<1>2. ASSUME NEW c \in Conn, wild_username(c) \/ corrupted_call(c)
      PROVE  /\ UNCHANGED <<tcpVars, fd, file, request, username, raced, table, keyOf>>
             /\ \A x \in Conn :
                  pc'[x] = pc[x] \/ (pc[x] = "lookup" /\ pc'[x] = "absent")
  BY <1>2 DEF wild_username, corrupted_call, Goto, TypeOK, ServerTypeOK
<1>3. CASE \E n \in Names : corrupted_table(n)
  BY <1>3 DEF corrupted_table
<1> QED BY <1>1, <1>2, <1>3

-----------------------------------------------------------------------------
(* The invariants, one by one.                                             *)

LEMMA AcceptingStep ==
  ASSUME TypeOK, TypeOK', Accepting, [WorldNext]_worldVars
  PROVE  Accepting'
<1> USE DEF TypeOK, TcpTypeOK, ServerTypeOK
<1>1. ASSUME UNCHANGED <<backlog, fd>>,
             \A x \in Conn : peer[x] # "none" => peer'[x] # "none",
             \A x \in Conn : pc'[x] # "none" => pc[x] # "none",
             \A n \in Names : table'[n] # NoConn =>
               table'[n] = table[n] \/ fd[table'[n]] # 0
      PROVE  Accepting'
  <2>1. \A i \in DOMAIN backlog : backlog[i] \in Conn
    OBVIOUS
  <2> QED BY <1>1, <2>1 DEF Accepting
<1>2. CASE ServerStep /\ accept_connection
  <2>1. PICK f \in Fds : fd' = [fd EXCEPT ![Head(backlog)] = f]
    BY <1>2 DEF accept_connection
  <2> DEFINE h == Head(backlog)
  <2>2. /\ h = backlog[1] /\ h \in Conn
        /\ DOMAIN backlog' = 1 .. (Len(backlog) - 1)
        /\ \A i \in DOMAIN backlog' : backlog'[i] = backlog[i + 1]
                                   /\ i + 1 \in DOMAIN backlog
        /\ 1 \in DOMAIN backlog
    <3>1. backlog # <<>> /\ backlog' = Tail(backlog) /\ backlog \in Seq(Conn)
      BY <1>2 DEF accept_connection
    <3> HIDE DEF TypeOK, TcpTypeOK, ServerTypeOK
    <3> QED BY <3>1, TailIndex
  <2>3. \A i \in DOMAIN backlog' : backlog'[i] # h /\ backlog'[i] \in Conn
    BY <2>2 DEF Accepting
  <2>4. f # 0
    BY DEF Fds
  <2>5. UNCHANGED <<peer, table>> /\ pc' = [pc EXCEPT ![h] = "reading"]
    BY <1>2 DEF accept_connection, Goto
  <2>6. \A i \in DOMAIN backlog' : fd'[backlog'[i]] = 0 /\ peer'[backlog'[i]] # "none"
    <3>1. ASSUME NEW i \in DOMAIN backlog'
          PROVE  fd[backlog'[i]] = 0 /\ peer[backlog'[i]] # "none"
      BY <2>2 DEF Accepting
    <3> QED BY <2>1, <2>3, <2>5, <3>1
  <2>7. \A i, j \in DOMAIN backlog' : backlog'[i] = backlog'[j] => i = j
    <3> SUFFICES ASSUME NEW i \in DOMAIN backlog', NEW j \in DOMAIN backlog',
                        backlog'[i] = backlog'[j]
                 PROVE  i = j
      OBVIOUS
    <3>1. i + 1 = j + 1
      BY <2>2 DEF Accepting
    <3> QED BY <2>2, <3>1
  <2>8. \A c \in Conn : pc'[c] # "none" => fd'[c] # 0
    BY <2>1, <2>2, <2>4, <2>5 DEF Accepting
  <2>9. \A c \in Conn : fd'[c] # 0 => peer'[c] # "none"
    BY <2>1, <2>2, <2>4, <2>5 DEF Accepting
  <2>10. \A n \in Names : table'[n] # NoConn => fd'[table'[n]] # 0
    BY <2>1, <2>4, <2>5 DEF Accepting
  <2> HIDE DEF h, TypeOK, TcpTypeOK, ServerTypeOK
  <2> QED BY <2>6, <2>7, <2>8, <2>9, <2>10, Zenon DEF Accepting
<1>3. ASSUME NEW c \in Conn, ListenerStep(c)
      PROVE  Accepting'
  <2>1. fd[c] # 0
    BY <1>3, ThreadFrame DEF Accepting
  <2> QED BY <1>1, <1>3, <2>1, ThreadFrame
<1>4. CASE \/ accept_fails \/ Signals
           \/ \E c \in Conn : wild_username(c) \/ corrupted_call(c)
           \/ \E n \in Names : corrupted_table(n)
  BY <1>1, <1>4, OtherFrame DEF tcpVars
<1>5. ASSUME NEW c \in Conn, PeerConnects(c)
      PROVE  Accepting'
  <2>1. /\ peer[c] = "none" /\ peer' = [peer EXCEPT ![c] = "up"]
        /\ backlog' = Append(backlog, c)
        /\ UNCHANGED <<fd, pc, table>>
    BY <1>5 DEF PeerConnects, connect_to_server, serverVars
  <2>2. fd[c] = 0 /\ \A i \in DOMAIN backlog : backlog[i] # c
    BY <2>1 DEF Accepting
  <2>3. /\ DOMAIN backlog' = 1 .. (Len(backlog) + 1)
        /\ \A i \in DOMAIN backlog :
             backlog'[i] = backlog[i] /\ backlog[i] \in Conn
        /\ backlog'[Len(backlog) + 1] = c
        /\ \A i \in DOMAIN backlog' :
             i \in DOMAIN backlog \/ i = Len(backlog) + 1
    <3>1. backlog' = Append(backlog, c) /\ backlog \in Seq(Conn)
      BY <2>1
    <3> HIDE DEF TypeOK, TcpTypeOK, ServerTypeOK
    <3> QED BY <3>1, AppendIndex
  <2>4. \A i \in DOMAIN backlog' : fd'[backlog'[i]] = 0 /\ peer'[backlog'[i]] # "none"
    <3> SUFFICES ASSUME NEW i \in DOMAIN backlog'
                 PROVE  fd'[backlog'[i]] = 0 /\ peer'[backlog'[i]] # "none"
      OBVIOUS
    <3>1. CASE i \in DOMAIN backlog
      <4>1. fd[backlog[i]] = 0 /\ peer[backlog[i]] # "none"
        BY <3>1 DEF Accepting
      <4> QED BY <2>1, <2>3, <3>1, <4>1
    <3>2. CASE i = Len(backlog) + 1
      BY <2>1, <2>2, <2>3, <3>2
    <3> QED BY <2>3, <3>1, <3>2
  <2>5. \A i, j \in DOMAIN backlog' : backlog'[i] = backlog'[j] => i = j
    <3> HIDE DEF TypeOK, TcpTypeOK, ServerTypeOK
    <3>1. \A i, j \in DOMAIN backlog : backlog[i] = backlog[j] => i = j
      BY DEF Accepting
    <3> QED BY <2>2, <2>3, <3>1
  <2> QED BY <2>1, <2>4, <2>5 DEF Accepting
<1>6. ASSUME NEW c \in Conn,
                 (\E r \in Requests : PeerSends(c, r)) \/ PeerReads(c) \/ PeerCloses(c)
      PROVE  Accepting'
  BY <1>1, <1>6
  DEF PeerSends, PeerReads, PeerCloses, ClientSends, ClientReads, ClientCloses,
      serverVars
<1>7. CASE UNCHANGED worldVars
  BY <1>1, <1>7 DEF worldVars, tcpVars, serverVars
<1> QED
  BY <1>2, <1>3, <1>4, <1>5, <1>6, <1>7
  DEF WorldNext, PeerStep, ServerStep, ServerNext

\* Queues lose a prefix or gain what a peer may ask.
LEMMA QueuedNamesStep ==
  ASSUME TypeOK, Accepting, QueuedNames, [WorldNext]_worldVars
  PROVE  QueuedNames'
<1> DEFINE Fine(r) == (r.type = "IDENTIFY" /\ r.body # "bad") => r.name \in Names
           Fewer(d, k) ==
             toServer' = [toServer EXCEPT ![d] = SubSeq(@, k + 1, Len(@))]
<1>1. ASSUME UNCHANGED toServer PROVE QueuedNames'
  BY <1>1 DEF QueuedNames
<1>2. ASSUME NEW d \in Conn, NEW k \in Nat, Fewer(d, k)
      PROVE  QueuedNames'
  <2> SUFFICES ASSUME NEW x \in Conn, NEW i \in DOMAIN toServer'[x]
               PROVE  Fine(toServer'[x][i])
    BY DEF QueuedNames
  <2>1. CASE x # d
    BY <1>2, <2>1 DEF QueuedNames, TypeOK, TcpTypeOK
  <2>2. CASE x = d
    <3>1. toServer[d] \in Seq(Request)
      BY DEF TypeOK, TcpTypeOK
    <3>2. toServer'[d] = SubSeq(toServer[d], k + 1, Len(toServer[d]))
      BY <1>2, <3>1 DEF TypeOK, TcpTypeOK
    <3>3. i + k \in DOMAIN toServer[d] /\ toServer'[d][i] = toServer[d][i + k]
      BY <2>2, <3>1, <3>2
    <3> QED BY <2>2, <3>3 DEF QueuedNames
  <2> QED BY <2>1, <2>2
<1>3. ASSUME NEW c \in Conn, ListenerStep(c)
      PROVE  QueuedNames'
  <2>1. CASE server_listener(c)
    <3> DEFINE d == file[fd[c]]
    <3>1. d \in Conn /\ toServer[d] # <<>>
          /\ toServer' = [toServer EXCEPT ![d] = Tail(@)]
      BY <2>1, ReadsSocket DEF server_listener
    <3>2. toServer[d] \in Seq(Request)
      BY <3>1 DEF TypeOK, TcpTypeOK
    <3>3. Tail(toServer[d]) = SubSeq(toServer[d], 1 + 1, Len(toServer[d]))
      BY <3>1, <3>2
    <3>4. Fewer(d, 1)
      BY <3>1, <3>3
    <3> QED BY <1>2, <3>1, <3>4
  <2>2. CASE server_listener_drop(c)
    <3> DEFINE d == file[fd[c]]
    <3>1. d \in Conn /\ \E k \in 1 .. Len(toServer[d]) : Fewer(d, k)
      BY <2>2, ReadsSocket DEF server_listener_drop
    <3>2. PICK k \in 1 .. Len(toServer[d]) : Fewer(d, k)
      BY <3>1
    <3>3. k \in Nat
      OBVIOUS
    <3> HIDE DEF d, Fewer
    <3> QED BY <1>2, <3>1, <3>2, <3>3
  <2>3. CASE UNCHANGED toServer
    BY <1>1, <2>3
  <2> QED
    BY <1>3, <2>1, <2>2, <2>3
    DEF ListenerStep, server_listener_end, handle_identify, handle_identify_absent,
        identify_response_failed, server_add_user, identify_response_success,
        send_json_except_user_init, send_json_except_user, send_json_except_user_end,
        server_remove_user, handle_disconnect_print, print_user_table, tcpVars
<1>4. ASSUME NEW c \in Conn, NEW r \in Requests, PeerSends(c, r)
      PROVE  QueuedNames'
  <2>1. ClientSends(c, [type |-> r.type, name |-> r.name, body |-> r.body,
                        seq |-> sent'[c]])
    BY <1>4 DEF PeerSends
  <2> DEFINE q == [type |-> r.type, name |-> r.name, body |-> r.body,
                   seq |-> sent'[c]]
  <2>2. Fine(q)
    BY WorldAssumption
  <2> HIDE DEF q
  <2>3. toServer[c] \in Seq(Request)
        /\ toServer' = [toServer EXCEPT ![c] = Append(@, q)]
    BY <2>1 DEF ClientSends, TypeOK, TcpTypeOK, q
  <2> SUFFICES ASSUME NEW x \in Conn, NEW i \in DOMAIN toServer'[x]
               PROVE  Fine(toServer'[x][i])
    BY DEF QueuedNames
  <2>4. CASE x # c
    BY <2>3, <2>4 DEF QueuedNames, TypeOK, TcpTypeOK
  <2>5. CASE x = c
    <3>1. toServer'[c] = Append(toServer[c], q)
      BY <2>3 DEF TypeOK, TcpTypeOK
    <3>2. \/ i \in DOMAIN toServer[c] /\ toServer'[c][i] = toServer[c][i]
          \/ toServer'[c][i] = q
      BY <2>3, <2>5, <3>1
    <3> QED BY <2>2, <2>5, <3>2 DEF QueuedNames
  <2> QED BY <2>4, <2>5
<1>5. CASE accept_connection
  BY <1>1, <1>5 DEF accept_connection
<1>6. CASE \/ accept_fails \/ Signals
           \/ \E c \in Conn : wild_username(c) \/ corrupted_call(c)
           \/ \E n \in Names : corrupted_table(n)
  BY <1>1, <1>6, OtherFrame DEF tcpVars
<1>7. ASSUME NEW c \in Conn, PeerConnects(c) \/ PeerReads(c) \/ PeerCloses(c)
      PROVE  QueuedNames'
  BY <1>1, <1>7
  DEF PeerConnects, PeerReads, PeerCloses, connect_to_server, ClientReads,
      ClientCloses
<1>8. CASE UNCHANGED worldVars
  BY <1>1, <1>8 DEF worldVars, tcpVars
<1> QED
  BY <1>3, <1>4, <1>5, <1>6, <1>7, <1>8
  DEF WorldNext, PeerStep, ServerStep, ServerNext

\* A thread changes handler only through server_listener, which takes a
\* request of the handler's type.
LEMMA HandlingStep ==
  ASSUME TypeOK, Accepting, QueuedNames, Handling, [WorldNext]_worldVars
  PROVE  Handling'
<1> DEFINE HandlesAt(c, p, r) ==
             /\ p \in {"lookup", "absent", "insert", "taken", "welcome"}
                  => r.type = "IDENTIFY" /\ r.name \in Names
             /\ p \in {"announce", "bcast"}
                  => r.type \in {"IDENTIFY", "STATUS", "PUBLIC_TEXT"}
<1>1. ASSUME NEW c \in Conn, ListenerStep(c)
      PROVE  Handling'
  <2>1. HandlesAt(c, pc[c], request[c])
    BY DEF Handling
  <2>2. HandlesAt(c, pc'[c], request'[c])
    <3>1. CASE server_listener(c)
      <4> DEFINE d == file[fd[c]]
                 r == Head(toServer[d])
      <4>1. d \in Conn /\ toServer[d] # <<>> /\ toServer[d] \in Seq(Request)
        BY <3>1, ReadsSocket DEF server_listener, TypeOK, TcpTypeOK
      <4>2. (r.type = "IDENTIFY" /\ r.body # "bad") => r.name \in Names
        BY <4>1 DEF QueuedNames
      <4>3. process_message(c, r) /\ pc[c] = "reading"
        BY <3>1 DEF server_listener
      <4> HIDE DEF r
      <4> QED
        BY <4>2, <4>3 DEF process_message, Goto, TypeOK, ServerTypeOK
    <3>2. CASE UNCHANGED <<pc, request>>
      BY <2>1, <3>2
    <3>3. CASE Return(c)
      BY <3>3 DEF Return, Goto, TypeOK, ServerTypeOK
    <3>4. CASE /\ UNCHANGED request
               /\ \/ \E l \in {"done", "removed", "print"} : Goto(c, l)
                  \/ pc[c] = "lookup" /\ \E l \in {"taken", "absent"} : Goto(c, l)
                  \/ pc[c] = "absent" /\ Goto(c, "insert")
                  \/ pc[c] = "insert" /\ Goto(c, "welcome")
                  \/ pc[c] = "welcome" /\ Goto(c, "announce")
                  \/ pc[c] = "announce" /\ Goto(c, "bcast")
      BY <2>1, <3>4 DEF Goto, TypeOK, ServerTypeOK
    <3> QED
      BY <1>1, <3>1, <3>2, <3>3, <3>4
      DEF ListenerStep, server_listener_drop, server_listener_end, handle_identify,
          handle_identify_absent, identify_response_failed, server_add_user,
          identify_response_success, send_json_except_user_init,
          send_json_except_user, send_json_except_user_end, server_remove_user,
          handle_disconnect_print, print_user_table, serverVars
  <2> SUFFICES ASSUME NEW x \in Conn PROVE HandlesAt(x, pc'[x], request'[x])
    BY DEF Handling
  <2>3. CASE x # c
    BY <1>1, <2>3, ThreadFrame DEF Handling
  <2> QED BY <2>2, <2>3
<1>2. CASE accept_connection
  <2>1. pc' = [pc EXCEPT ![Head(backlog)] = "reading"] /\ UNCHANGED request
    BY <1>2 DEF accept_connection, Goto
  <2> QED BY <2>1 DEF Handling, TypeOK, ServerTypeOK
<1>3. CASE \/ accept_fails \/ Signals
           \/ \E c \in Conn : wild_username(c) \/ corrupted_call(c)
           \/ \E n \in Names : corrupted_table(n)
  BY <1>3, OtherFrame DEF Handling
<1>4. ASSUME UNCHANGED <<pc, request>> PROVE Handling'
  BY <1>4 DEF Handling
<1>5. ASSUME NEW c \in Conn, PeerStep(c)
      PROVE  Handling'
  BY <1>4, <1>5
  DEF PeerStep, PeerConnects, PeerSends, PeerReads, PeerCloses, serverVars
<1>6. CASE UNCHANGED worldVars
  BY <1>4, <1>6 DEF worldVars, serverVars
<1> QED BY <1>1, <1>2, <1>3, <1>5, <1>6 DEF WorldNext, ServerStep, ServerNext

\* Only accept_connection gives a descriptor to a socket, and it takes a free
\* one for a connection that has none.
LEMMA DescriptorsStep ==
  ASSUME TypeOK, Accepting, DescriptorsNameOwners, [WorldNext]_worldVars
  PROVE  DescriptorsNameOwners'
<1> USE DEF TypeOK, TcpTypeOK, ServerTypeOK
<1>1. CASE accept_connection
  <2>1. PICK f \in Fds : file' = [file EXCEPT ![f] = Head(backlog)]
                     /\ fd' = [fd EXCEPT ![Head(backlog)] = f]
    BY <1>1 DEF accept_connection
  <2>2. Head(backlog) \in Conn /\ fd[Head(backlog)] = 0
    BY <1>1 DEF accept_connection, Accepting
  <2> QED BY <2>1, <2>2 DEF DescriptorsNameOwners, Fds
<1>2. ASSUME UNCHANGED fd,
             \A f \in Fds : file'[f] \in {file[f], NoConn}
      PROVE  DescriptorsNameOwners'
  BY <1>2 DEF DescriptorsNameOwners
<1>3. ASSUME NEW c \in Conn, ListenerStep(c)
      PROVE  DescriptorsNameOwners'
  <2>1. \A f \in Fds : file'[f] \in {file[f], NoConn}
    <3>1. CASE server_listener(c)
      BY <3>1 DEF server_listener, process_message
    <3>2. CASE UNCHANGED file
      BY <3>2
    <3> QED
      BY <1>3, <3>1, <3>2
      DEF ListenerStep, server_listener_drop, server_listener_end, handle_identify,
          handle_identify_absent, identify_response_failed, server_add_user,
          identify_response_success, send_json_except_user_init,
          send_json_except_user, send_json_except_user_end, server_remove_user,
          handle_disconnect_print, print_user_table, serverVars
  <2> QED BY <1>2, <1>3, <2>1, ThreadFrame
<1>4. CASE \/ accept_fails \/ Signals
           \/ \E c \in Conn : wild_username(c) \/ corrupted_call(c)
           \/ \E n \in Names : corrupted_table(n)
  BY <1>2, <1>4, OtherFrame
<1>5. ASSUME NEW c \in Conn, PeerStep(c)
      PROVE  DescriptorsNameOwners'
  BY <1>2, <1>5
  DEF PeerStep, PeerConnects, PeerSends, PeerReads, PeerCloses, serverVars
<1>6. CASE UNCHANGED worldVars
  BY <1>2, <1>6 DEF worldVars, serverVars
<1> QED BY <1>1, <1>3, <1>4, <1>5, <1>6 DEF WorldNext, ServerStep, ServerNext

-----------------------------------------------------------------------------
(* The table and the memory of its keys.                                   *)

\* The steps of a thread that do not concern the users.
LEMMA UsersFrame ==
  ASSUME NEW c \in Conn, ListenerStep(c)
  PROVE  \/ server_add_user(c)
         \/ server_remove_user(c)
         \/ UNCHANGED <<username, table, keyOf>> /\ (raced => raced')
BY DEF ListenerStep, server_listener, server_listener_drop, server_listener_end,
       handle_identify, handle_identify_absent, identify_response_failed,
       identify_response_success, send_json_except_user_init, send_json_except_user,
       send_json_except_user_end, handle_disconnect_print, print_user_table,
       serverVars, NoteRace

LEMMA RegisteredStep ==
  ASSUME TypeOK, Accepting, RegisteredWasIdentified, [WorldNext]_worldVars
  PROVE  RegisteredWasIdentified'
<1> USE DEF TypeOK, ServerTypeOK
<1>1. ASSUME NEW c \in Conn, server_add_user(c)
      PROVE  RegisteredWasIdentified'
  BY <1>1 DEF server_add_user, RegisteredWasIdentified, Live, Freed
<1>2. ASSUME NEW c \in Conn, server_remove_user(c)
      PROVE  RegisteredWasIdentified'
  <2>1. /\ \A d \in Conn : username'[d] \in {username[d], Freed}
        /\ \A n \in Names : table'[n] \in {table[n], NoConn}
    BY <1>2 DEF server_remove_user
  <2>2. Freed.st # "uninit"
    BY DEF Freed
  <2> SUFFICES ASSUME NEW n \in Names, table'[n] # NoConn
               PROVE  username'[table'[n]].st # "uninit"
    BY DEF RegisteredWasIdentified
  <2>3. table'[n] = table[n] /\ table[n] \in Conn
    BY <2>1
  <2>4. username[table[n]].st # "uninit"
    BY <2>3, ServerAssumption DEF RegisteredWasIdentified
  <2> QED BY <2>1, <2>2, <2>3, <2>4
<1>3. ASSUME UNCHANGED username, \A n \in Names : table'[n] \in {table[n], NoConn}
      PROVE  RegisteredWasIdentified'
  BY <1>3 DEF RegisteredWasIdentified
<1>4. CASE accept_connection
  BY <1>3, <1>4 DEF accept_connection
<1>5. CASE \/ accept_fails \/ Signals
           \/ \E c \in Conn : wild_username(c) \/ corrupted_call(c)
           \/ \E n \in Names : corrupted_table(n)
  BY <1>3, <1>5, OtherFrame
<1>6. ASSUME NEW c \in Conn, PeerStep(c)
      PROVE  RegisteredWasIdentified'
  BY <1>3, <1>6
  DEF PeerStep, PeerConnects, PeerSends, PeerReads, PeerCloses, serverVars
<1>7. CASE UNCHANGED worldVars
  BY <1>3, <1>7 DEF worldVars, serverVars
<1> QED
  BY <1>1, <1>2, <1>3, <1>4, <1>5, <1>6, <1>7, UsersFrame
  DEF WorldNext, ServerStep, ServerNext

\* g_hash_table_insert of a name: a new key is the caller's own string, and
\* a key that was there already stays whose it was.
LEMMA KeyOwnershipAdd ==
  ASSUME TypeOK, KeyOwnership, NEW c \in Conn, server_add_user(c)
  PROVE  KeyOwnership'
<1> USE DEF TypeOK, ServerTypeOK
<1> DEFINE n == request[c].name
           isNew == table[n] = NoConn
           disowned == [k \in Names |-> IF keyOf[k] = c THEN NoConn ELSE keyOf[k]]
<1>1. /\ table' = [table EXCEPT ![n] = c]
      /\ keyOf' = IF isNew THEN [disowned EXCEPT ![n] = c] ELSE disowned
      /\ username' = [username EXCEPT ![c] = IF isNew THEN Live(n) ELSE Freed]
      /\ ~raced' => ~raced
  BY DEF server_add_user, NoteRace
<1>2. \A m \in Names : keyOf'[m] # NoConn =>
        username'[keyOf'[m]] = Live(m) /\ table'[m] # NoConn
  <2> SUFFICES ASSUME NEW m \in Names, keyOf'[m] # NoConn
               PROVE  username'[keyOf'[m]] = Live(m) /\ table'[m] # NoConn
    OBVIOUS
  <2>1. CASE isNew /\ m = n
    BY <1>1, <2>1, ServerAssumption
  <2>2. CASE ~(isNew /\ m = n)
    <3>1. keyOf'[m] = keyOf[m] /\ keyOf[m] # c
      BY <1>1, <2>2
    <3>2. username'[keyOf[m]] = username[keyOf[m]]
      BY <1>1, <3>1
    <3>3. table'[m] # NoConn
      BY <1>1, <3>1, ServerAssumption DEF KeyOwnership
    <3> QED BY <3>1, <3>2, <3>3 DEF KeyOwnership
  <2> QED BY <2>1, <2>2
<1>3. ~raced' => \A m \in Names, e \in Conn : username'[e] = Live(m) => keyOf'[m] = e
  <2> SUFFICES ASSUME ~raced', NEW m \in Names, NEW e \in Conn, username'[e] = Live(m)
               PROVE  keyOf'[m] = e
    OBVIOUS
  <2>1. CASE e = c
    BY <1>1, <2>1 DEF Live, Freed
  <2>2. CASE e # c
    <3>1. keyOf[m] = e
      BY <1>1, <2>2 DEF KeyOwnership
    <3>2. ~(isNew /\ m = n)
      BY <3>1, ServerAssumption DEF KeyOwnership
    <3> QED BY <1>1, <2>2, <3>1, <3>2
  <2> QED BY <2>1, <2>2
<1> QED BY <1>2, <1>3 DEF KeyOwnership

\* g_hash_table_remove frees one string, and one UserInfo pointed to it.
LEMMA KeyOwnershipRemove ==
  ASSUME TypeOK, KeyOwnership, NEW c \in Conn, server_remove_user(c)
  PROVE  KeyOwnership'
<1> USE DEF TypeOK, ServerTypeOK
<1>1. CASE UNCHANGED <<table, keyOf, username>>
  BY <1>1 DEF KeyOwnership, server_remove_user, NoteRace
<1>2. ASSUME NEW s \in Present,
             table' = [table EXCEPT ![s] = NoConn],
             keyOf' = [keyOf EXCEPT ![s] = NoConn],
             username' = [d \in Conn |-> IF d = keyOf[s] THEN Freed ELSE username[d]]
      PROVE  KeyOwnership'
  <2>1. s \in Names /\ (~raced' => ~raced)
    BY DEF Present, server_remove_user, NoteRace
  <2>2. ASSUME NEW m \in Names, keyOf'[m] # NoConn
        PROVE  username'[keyOf'[m]] = Live(m) /\ table'[m] # NoConn
    <3>1. m # s /\ keyOf'[m] = keyOf[m] /\ keyOf[m] \in Conn
      BY <1>2, <2>1, <2>2
    <3>2. username[keyOf[m]] = Live(m) /\ table[m] # NoConn
      BY <3>1, ServerAssumption DEF KeyOwnership
    <3>3. keyOf[m] # keyOf[s]
      <4> SUFFICES ASSUME keyOf[m] = keyOf[s] PROVE FALSE
        OBVIOUS
      <4>1. username[keyOf[s]] = Live(s)
        BY <2>1, <3>1, ServerAssumption DEF KeyOwnership
      <4>2. Live(s) = Live(m)
        BY <3>2, <4>1
      <4>3. s = m
        BY <4>2 DEF Live
      <4> QED BY <3>1, <4>3
    <3> QED BY <1>2, <3>1, <3>2, <3>3
  <2>3. ASSUME ~raced', NEW m \in Names, NEW e \in Conn, username'[e] = Live(m)
        PROVE  keyOf'[m] = e
    <3>1. e # keyOf[s] /\ username[e] = Live(m)
      BY <1>2, <2>3 DEF Live, Freed
    <3>2. keyOf[m] = e
      BY <2>1, <2>3, <3>1 DEF KeyOwnership
    <3> QED BY <1>2, <2>1, <3>1, <3>2
  <2> QED BY <2>2, <2>3 DEF KeyOwnership
<1> QED BY <1>1, <1>2 DEF server_remove_user

LEMMA KeyOwnershipStep ==
  ASSUME TypeOK, Accepting, KeyOwnership, [WorldNext]_worldVars
  PROVE  KeyOwnership'
<1> USE DEF TypeOK, ServerTypeOK
<1>1. ASSUME UNCHANGED <<username, table, keyOf>>, raced => raced'
      PROVE  KeyOwnership'
  BY <1>1 DEF KeyOwnership
<1>2. CASE accept_connection
  BY <1>1, <1>2 DEF accept_connection
<1>3. CASE \/ accept_fails \/ Signals
           \/ \E c \in Conn : wild_username(c) \/ corrupted_call(c)
           \/ \E n \in Names : corrupted_table(n)
  <2>1. CASE UNCHANGED <<table, keyOf>>
    BY <1>1, <1>3, <2>1, OtherFrame
  <2>2. ASSUME NEW n \in Names, raced,
               table' = [table EXCEPT ![n] = NoConn],
               keyOf' = [keyOf EXCEPT ![n] = NoConn],
               UNCHANGED <<username, raced>>
        PROVE  KeyOwnership'
    BY <2>2 DEF KeyOwnership
  <2> QED BY <1>3, <2>1, <2>2, OtherFrame
<1>4. ASSUME NEW c \in Conn, PeerStep(c)
      PROVE  KeyOwnership'
  BY <1>1, <1>4
  DEF PeerStep, PeerConnects, PeerSends, PeerReads, PeerCloses, serverVars
<1>5. CASE UNCHANGED worldVars
  BY <1>1, <1>5 DEF worldVars, serverVars
<1> QED
  BY <1>1, <1>2, <1>3, <1>4, <1>5, UsersFrame, KeyOwnershipAdd, KeyOwnershipRemove
  DEF WorldNext, ServerStep, ServerNext

-----------------------------------------------------------------------------
(* Broadcasts.                                                             *)

\* A send puts one message on the stream of the socket its descriptor names.
LEMMA SendAppends ==
  ASSUME TypeOK, NEW u, NEW m \in Message, send_json_response(u, m)
  PROVE  \A x \in Conn :
           \/ toClient'[x] = toClient[x]
           \/ x = file[fd[u]] /\ toClient'[x] = Append(toClient[x], m)
BY DEF TypeOK, TcpTypeOK, send_json_response, SendToPeer, SendToDeparted

\* Messages on a stream stay free of echoes when what is added is none.
LEMMA AppendNoEcho ==
  ASSUME TypeOK, NoEcho, NEW m,
         NoReuse' => NoReuse,
         \A x \in Conn :
           \/ toClient'[x] = toClient[x]
           \/ /\ toClient'[x] = Append(toClient[x], m)
              /\ NoReuse' /\ IsBroadcast(m) => m.from # x
  PROVE  NoEcho'
<1> SUFFICES ASSUME NoReuse', NEW x \in Conn, NEW i \in DOMAIN toClient'[x],
                    IsBroadcast(toClient'[x][i])
             PROVE  toClient'[x][i].from # x
  BY DEF NoEcho, IsBroadcast
<1>1. CASE toClient'[x] = toClient[x]
  BY <1>1 DEF NoEcho
<1>2. CASE toClient'[x] # toClient[x]
  <2>1. toClient'[x] = Append(toClient[x], m) /\ (IsBroadcast(m) => m.from # x)
    BY <1>2
  <2>2. toClient[x] \in Seq(Message)
    BY DEF TypeOK, TcpTypeOK
  <2>3. \/ i \in DOMAIN toClient[x] /\ toClient'[x][i] = toClient[x][i]
        \/ toClient'[x][i] = m
    BY <2>1, <2>2
  <2> QED BY <2>1, <2>3 DEF NoEcho
<1> QED BY <1>1, <1>2

\* A visit of a broadcast leads to the socket of another connection.
LEMMA VisitNoEcho ==
  ASSUME TypeOK, Accepting, Handling, DescriptorsNameOwners, NoEcho,
         NEW c \in Conn, send_json_except_user(c)
  PROVE  NoEcho'
<1> USE DEF TypeOK, ServerTypeOK
<1>1. PICK n \in Names : send_json_except_user_visit(c, n)
  BY DEF send_json_except_user
<1> DEFINE u == table[n]
           type == announced[request[c].type]
           named == type \in carriesName
           m(s) == [type |-> type, name |-> IF named THEN s ELSE NoName,
                    from |-> c, seq |-> request[c].seq]
<1>2. UNCHANGED fd /\ pc[c] = "bcast" /\ (NoReuse' => NoReuse)
  BY DEF send_json_except_user, NoReuse
<1>3. CASE UNCHANGED toClient
  BY <1>2, <1>3 DEF NoEcho, IsBroadcast
<1>4. ASSUME u \notin {NoConn, c}, NEW s \in Reads(c), CanAnnounce(c, s),
             send_json_response(u, m(s))
      PROVE  NoEcho'
  <2>1. fd[u] \in Fds /\ fd[c] \in Fds /\ u \in Conn
    BY <1>2, <1>4 DEF Accepting
  <2>2. ASSUME NoReuse', file[fd[u]] \in Conn
        PROVE  file[fd[u]] # c
    <3>1. fd[file[fd[u]]] = fd[u]
      BY <2>1, <2>2, ServerAssumption DEF DescriptorsNameOwners
    <3>2. fd[u] # fd[c]
      BY <1>2, <1>4, <2>1, <2>2 DEF NoReuse, Fds
    <3> QED BY <3>1, <3>2
  <2>3. m(s) \in Message
    <3>1. type \in {"NEW_USER", "STATUS", "PUBLIC_TEXT_FROM"}
      BY <1>2 DEF Handling, announced
    <3>2. s \in Names \cup {NoName, Garbage}
      BY <1>4 DEF Reads
    <3> QED BY <1>4, <3>1, <3>2 DEF CanAnnounce, Buildable, Message, Request
  <2>4. m(s).from = c
    OBVIOUS
  <2> HIDE DEF m
  <2>5. \A x \in Conn :
          \/ toClient'[x] = toClient[x]
          \/ x = file[fd[u]] /\ toClient'[x] = Append(toClient[x], m(s))
    BY <1>4, <2>3, SendAppends
  <2> QED BY <1>2, <2>2, <2>4, <2>5, AppendNoEcho
<1> QED BY <1>1, <1>3, <1>4 DEF send_json_except_user_visit, send_json_response

\* An answer to IDENTIFY is no broadcast.
LEMMA ResponseNoEcho ==
  ASSUME TypeOK, NoEcho, NEW c \in Conn, UNCHANGED fd,
         NEW t \in {"SUCCESS", "USER_ALREADY_EXISTS"}, NEW s,
         identify_response(c, t, s)
  PROVE  NoEcho'
<1> DEFINE m == [type |-> t, name |-> s, from |-> c, seq |-> request[c].seq]
<1>1. CASE Buildable(s)
  <2>1. m \in Message
    BY <1>1 DEF Buildable, Message, Request, TypeOK, ServerTypeOK
  <2>2. ~IsBroadcast(m)
    BY DEF IsBroadcast
  <2>3. send_json_response(c, m)
    BY <1>1 DEF identify_response
  <2> HIDE DEF m
  <2>4. \A x \in Conn : \/ toClient'[x] = toClient[x]
                       \/ toClient'[x] = Append(toClient[x], m)
    BY <2>1, <2>3, SendAppends
  <2>5. NoReuse' => NoReuse
    BY DEF NoReuse
  <2> QED BY <2>2, <2>4, <2>5, AppendNoEcho
<1>2. CASE ~Buildable(s)
  BY <1>2 DEF identify_response, NoEcho, IsBroadcast, NoReuse
<1> QED BY <1>1, <1>2

LEMMA NoEchoStep ==
  ASSUME TypeOK, Accepting, Handling, DescriptorsNameOwners, NoEcho,
         [WorldNext]_worldVars
  PROVE  NoEcho'
<1> USE DEF TypeOK, TcpTypeOK, ServerTypeOK
<1>1. ASSUME UNCHANGED toClient, NoReuse' => NoReuse
      PROVE  NoEcho'
  BY <1>1 DEF NoEcho, IsBroadcast
<1>2. ASSUME UNCHANGED fd PROVE NoReuse' => NoReuse
  BY <1>2 DEF NoReuse
<1>3. CASE accept_connection
  <2>1. PICK f \in Fds : fd' = [fd EXCEPT ![Head(backlog)] = f]
    BY <1>3 DEF accept_connection
  <2>2. Head(backlog) \in Conn /\ fd[Head(backlog)] = 0
    BY <1>3 DEF accept_connection, Accepting
  <2>3. NoReuse' => NoReuse
    BY <2>1, <2>2 DEF NoReuse
  <2> QED BY <1>1, <1>3, <2>3 DEF accept_connection
<1>4. ASSUME NEW c \in Conn, ListenerStep(c)
      PROVE  NoEcho'
  <2>1. UNCHANGED fd
    BY <1>4, ThreadFrame
  <2>2. CASE send_json_except_user(c)
    BY <2>2, VisitNoEcho
  <2>3. CASE identify_response_failed(c)
    BY <2>1, <2>3, ResponseNoEcho DEF identify_response_failed
  <2>4. CASE identify_response_success(c)
    BY <2>1, <2>4, ResponseNoEcho DEF identify_response_success
  <2>5. CASE UNCHANGED toClient
    BY <1>1, <1>2, <2>1, <2>5
  <2> QED
    BY <1>4, <2>2, <2>3, <2>4, <2>5
    DEF ListenerStep, server_listener, server_listener_drop, server_listener_end,
        handle_identify, handle_identify_absent, server_add_user,
        send_json_except_user_init, send_json_except_user_end, server_remove_user,
        handle_disconnect_print, print_user_table, tcpVars
<1>5. CASE \/ accept_fails \/ Signals
           \/ \E c \in Conn : wild_username(c) \/ corrupted_call(c)
           \/ \E n \in Names : corrupted_table(n)
  BY <1>1, <1>2, <1>5, OtherFrame DEF tcpVars
<1>6. ASSUME NEW c \in Conn,
                 PeerConnects(c) \/ \E r \in Requests : PeerSends(c, r)
      PROVE  NoEcho'
  BY <1>1, <1>2, <1>6
  DEF PeerConnects, PeerSends, connect_to_server, ClientSends, serverVars
<1>7. ASSUME NEW c \in Conn, PeerReads(c) \/ PeerCloses(c)
      PROVE  NoEcho'
  <2>1. UNCHANGED fd
    BY <1>7 DEF PeerReads, PeerCloses, serverVars
  <2>2. \A x \in Conn :
          \/ toClient'[x] = toClient[x] \/ toClient'[x] = <<>>
          \/ \E k \in 1 .. Len(toClient[x]) :
               toClient'[x] = SubSeq(toClient[x], k + 1, Len(toClient[x]))
    <3>1. CASE PeerCloses(c)
      BY <3>1 DEF PeerCloses, ClientCloses, TypeOK, TcpTypeOK
    <3>2. CASE PeerReads(c)
      <4>1. PICK k \in 1 .. Len(toClient[c]) : ClientReads(c, k)
        BY <3>2 DEF PeerReads
      <4>2. toClient' = [toClient EXCEPT ![c] = SubSeq(@, k + 1, Len(@))]
        BY <4>1 DEF ClientReads
      <4> QED BY <4>2 DEF TypeOK, TcpTypeOK
    <3> QED BY <1>7, <3>1, <3>2
  <2> SUFFICES ASSUME NoReuse', NEW x \in Conn, NEW i \in DOMAIN toClient'[x],
                      IsBroadcast(toClient'[x][i])
               PROVE  toClient'[x][i].from # x
    BY DEF NoEcho, IsBroadcast
  <2>3. NoReuse
    BY <1>2, <2>1
  <2>4. \E j \in DOMAIN toClient[x] : toClient'[x][i] = toClient[x][j]
    <3>1. CASE toClient'[x] = toClient[x]
      BY <3>1
    <3>2. ASSUME NEW k \in 1 .. Len(toClient[x]),
                 toClient'[x] = SubSeq(toClient[x], k + 1, Len(toClient[x]))
          PROVE  \E j \in DOMAIN toClient[x] : toClient'[x][i] = toClient[x][j]
      <4>1. toClient[x] \in Seq(Message) /\ k \in Nat /\ k <= Len(toClient[x])
        BY DEF TypeOK, TcpTypeOK
      <4>2. i \in 1 .. (Len(toClient[x]) - k)
        BY <3>2, <4>1
      <4>3. toClient'[x][i] = toClient[x][k + i]
        BY <3>2, <4>1, <4>2
      <4>4. k + i \in DOMAIN toClient[x]
        BY <4>1, <4>2
      <4> WITNESS k + i \in DOMAIN toClient[x]
      <4> QED BY <4>3
    <3>3. CASE toClient'[x] = <<>>
      BY <3>3
    <3> QED BY <2>2, <3>1, <3>2, <3>3
  <2> QED BY <2>3, <2>4 DEF NoEcho, IsBroadcast
<1>8. CASE UNCHANGED worldVars
  BY <1>1, <1>2, <1>8 DEF worldVars, tcpVars, serverVars
<1> QED
  BY <1>3, <1>4, <1>5, <1>6, <1>7, <1>8
  DEF WorldNext, PeerStep, ServerStep, ServerNext

-----------------------------------------------------------------------------
(* The theorems.                                                           *)

\* One step keeps the inductive invariant.
LEMMA InvariantStep ==
  ASSUME IInv, [WorldNext]_worldVars
  PROVE  IInv'
<1>1. TypeOK'
  BY WorldTypes DEF IInv
<1>2. Accepting' /\ QueuedNames' /\ Handling'
  BY <1>1, AcceptingStep, QueuedNamesStep, HandlingStep DEF IInv
<1>3. DescriptorsNameOwners' /\ RegisteredWasIdentified' /\ KeyOwnership'
  BY DescriptorsStep, RegisteredStep, KeyOwnershipStep DEF IInv
<1>4. NoEcho'
  BY NoEchoStep DEF IInv
<1> QED BY <1>1, <1>2, <1>3, <1>4 DEF IInv

\* The conjuncts of IInv, which the invariants need of each other, hold in
\* every reachable state.
THEOREM Invariance == WorldSpec => []IInv
<1>1. WorldInit => IInv
  BY InitInvariant
<1>2. IInv /\ [WorldNext]_worldVars => IInv'
  BY InvariantStep
<1> QED BY <1>1, <1>2, PTL DEF WorldSpec

\* The variables keep their types: no step of a handler, of a peer or of
\* undefined behaviour leads out of the states the model speaks of.
THEOREM TypesCorrect == WorldSpec => []TypeOK
<1>1. IInv => TypeOK
  BY DEF IInv
<1> QED BY <1>1, Invariance, PTL

\* No two descriptors ever name one socket, though handle_identify closes
\* descriptors that are still in use (server.c:175).
THEOREM DescriptorsSafe == WorldSpec => []DescriptorsNameOwners
<1>1. IInv => DescriptorsNameOwners
  BY DEF IInv
<1> QED BY <1>1, Invariance, PTL

\* Broadcasts never read a username that was not set through the table.
THEOREM RegisteredSafe == WorldSpec => []RegisteredWasIdentified
<1>1. IInv => RegisteredWasIdentified
  BY DEF IInv
<1> QED BY <1>1, Invariance, PTL

\* Every key string of the table has one owner, so freeing a key frees no
\* other user's name (server.c:437, 442).
THEOREM KeysSafe == WorldSpec => []KeyOwnership
<1>1. IInv => KeyOwnership
  BY DEF IInv
<1> QED BY <1>1, Invariance, PTL

\* No broadcast is sent back to the peer that caused it (server.c:364), as
\* long as no descriptor number is reused.
THEOREM EchoFree == WorldSpec => []NoEcho
<1>1. IInv => NoEcho
  BY DEF IInv
<1> QED BY <1>1, Invariance, PTL
=============================================================================
