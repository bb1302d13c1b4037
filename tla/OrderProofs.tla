---------------------------- MODULE OrderProofs ----------------------------
(***************************************************************************)
(* Broadcasts of one peer reach every other in the order it asked for      *)
(* them, and miss no one, and every handler goes on to its end, for any    *)
(* number of connections, names, requests and sizes of the buffers.        *)
(***************************************************************************)
EXTENDS ServerProofs

\* OrderInv, for one connection.
OrderedFor(c) ==
  /\ \A i \in DOMAIN toServer[c] : toServer[c][i].seq <= sent[c]
  /\ \A i, j \in DOMAIN toServer[c] :
       i < j => toServer[c][i].seq < toServer[c][j].seq
  /\ \A d \in Conn : Behind(c, heard[d][c])
  /\ Busy(c) => /\ Behind(c, request[c].seq)
                /\ \A d \in Conn : heard[d][c] <= request[c].seq

LEMMA OrderInvFor == OrderInv <=> (NoReuse => \A c \in Conn : OrderedFor(c))
BY DEF OrderInv, OrderedFor

\* Numbers are numbers.
LEMMA Numbers ==
  ASSUME TypeOK, NEW c \in Conn
  PROVE  /\ sent[c] \in Nat /\ request[c].seq \in Nat
         /\ \A d \in Conn : heard[d][c] \in Nat
         /\ toServer[c] \in Seq(Request)
         /\ \A i \in DOMAIN toServer[c] : toServer[c][i].seq \in Nat
<1>1. toServer[c] \in Seq(Request) /\ request[c] \in Request
  BY DEF TypeOK, TcpTypeOK, ServerTypeOK
<1>2. \A i \in DOMAIN toServer[c] : toServer[c][i] \in Request
  BY <1>1
<1> QED BY <1>1, <1>2 DEF TypeOK, Request

\* No descriptor is given out twice: fd is assigned once.
LEMMA ReuseStays ==
  ASSUME TypeOK, Accepting, [WorldNext]_worldVars, NoReuse'
  PROVE  NoReuse
<1>1. CASE UNCHANGED fd
  BY <1>1 DEF NoReuse
<1>2. CASE accept_connection
  <2>1. PICK f \in Fds : fd' = [fd EXCEPT ![Head(backlog)] = f]
    BY <1>2 DEF accept_connection
  <2>2. fd \in [Conn -> {0} \cup Fds]
    BY DEF TypeOK, ServerTypeOK
  <2>3. Head(backlog) \in Conn /\ fd[Head(backlog)] = 0
    <3>1. backlog # <<>> /\ backlog \in Seq(Conn)
      BY <1>2 DEF accept_connection, TypeOK, TcpTypeOK
    <3>2. 1 \in DOMAIN backlog /\ Head(backlog) = backlog[1] /\ Head(backlog) \in Conn
      BY <3>1
    <3> QED BY <3>2 DEF Accepting
  <2> QED BY <2>1, <2>2, <2>3 DEF NoReuse
<1>3. ASSUME NEW c \in Conn, ListenerStep(c) PROVE UNCHANGED fd
  BY <1>3, ThreadFrame
<1>4. CASE \/ accept_fails \/ Signals
           \/ \E c \in Conn : wild_username(c) \/ corrupted_call(c)
           \/ \E n \in Names : corrupted_table(n)
  BY <1>1, <1>4, OtherFrame
<1>5. ASSUME NEW c \in Conn, PeerStep(c) PROVE UNCHANGED fd
  BY <1>5 DEF PeerStep, PeerConnects, PeerSends, PeerReads, PeerCloses, serverVars
<1>6. CASE UNCHANGED worldVars
  BY <1>1, <1>6 DEF worldVars, serverVars
<1> QED
  BY <1>1, <1>2, <1>3, <1>4, <1>5, <1>6 DEF WorldNext, ServerStep, ServerNext

-----------------------------------------------------------------------------
(* What is heard.                                                          *)

\* A stream that stays delivers nothing, and one that grows delivers what was
\* added.
LEMMA DeliveredSame ==
  ASSUME NEW d, toClient'[d] = toClient[d]
  PROVE  Delivered(d) = {}
BY DEF Delivered

LEMMA DeliveredOne ==
  ASSUME TypeOK, NEW d \in Conn, NEW m, toClient'[d] = Append(toClient[d], m)
  PROVE  Delivered(d) = {m}
<1>1. toClient[d] \in Seq(Message)
  BY DEF TypeOK, TcpTypeOK
<1>2. Len(toClient'[d]) = Len(toClient[d]) + 1 /\ Len(toClient[d]) \in Nat
      /\ toClient'[d][Len(toClient'[d])] = m
  BY <1>1
<1> HIDE DEF Message
<1> QED BY <1>2 DEF Delivered

\* When nothing is delivered but messages of one kind, only that is heard.
LEMMA HeardOnly ==
  ASSUME TypeOK, Observe, NEW c \in Conn, NEW m,
         \A x \in Conn : Delivered(x) \in {{}, {m}},
         IsBroadcast(m) => m.from = c /\ m.seq = request[c].seq
  PROVE  /\ \A d, x \in Conn : x # c => heard'[d][x] = heard[d][x]
         /\ \A d \in Conn : heard'[d][c] \in {heard[d][c], request[c].seq}
<1>1. ASSUME NEW d \in Conn, NEW x \in Conn
      PROVE  heard'[d][x] =
               IF \E n \in Delivered(d) : IsBroadcast(n) /\ n.from = x
               THEN (CHOOSE n \in Delivered(d) : TRUE).seq
               ELSE heard[d][x]
  BY DEF Observe
<1>2. (CHOOSE n \in {m} : TRUE) = m
  OBVIOUS
<1> QED BY <1>1, <1>2

LEMMA HeardNothing ==
  ASSUME TypeOK, Observe, UNCHANGED toClient
  PROVE  heard' = heard
<1>1. \A d \in Conn : Delivered(d) = {}
  BY DeliveredSame
<1>2. heard' = [d \in Conn |-> [c \in Conn |-> heard[d][c]]]
  BY <1>1 DEF Observe
<1> QED BY <1>2 DEF TypeOK

\* A visit of a broadcast is heard, if at all, as its own request.
LEMMA VisitHeard ==
  ASSUME TypeOK, Handling, NEW c \in Conn, send_json_except_user(c), Observe
  PROVE  /\ \A d, x \in Conn : x # c => heard'[d][x] = heard[d][x]
         /\ \A d \in Conn : heard'[d][c] \in {heard[d][c], request[c].seq}
<1>1. PICK n \in Names : send_json_except_user_visit(c, n)
  BY DEF send_json_except_user, TypeOK, ServerTypeOK
<1> DEFINE u == table[n]
           type == announced[request[c].type]
           named == type \in carriesName
           m(s) == [type |-> type, name |-> IF named THEN s ELSE NoName,
                    from |-> c, seq |-> request[c].seq]
<1>2. CASE UNCHANGED toClient
  BY <1>2, HeardNothing
<1>3. ASSUME NEW s \in Reads(c), CanAnnounce(c, s), send_json_response(u, m(s))
      PROVE  /\ \A d, x \in Conn : x # c => heard'[d][x] = heard[d][x]
             /\ \A d \in Conn : heard'[d][c] \in {heard[d][c], request[c].seq}
  <2>1. m(s) \in Message
    <3>1. type \in {"NEW_USER", "STATUS", "PUBLIC_TEXT_FROM"}
      BY DEF send_json_except_user, Handling, announced
    <3>2. s \in Names \cup {NoName, Garbage}
      BY <1>3 DEF Reads, TypeOK, ServerTypeOK
    <3> QED
      BY <1>3, <3>1, <3>2
      DEF CanAnnounce, Buildable, Message, Request, TypeOK, ServerTypeOK
  <2>2. m(s).from = c /\ m(s).seq = request[c].seq
    OBVIOUS
  <2> HIDE DEF m
  <2>3. \A x \in Conn : toClient'[x] = toClient[x] \/ toClient'[x] = Append(toClient[x], m(s))
    BY <1>3, <2>1, SendAppends
  <2>4. \A x \in Conn : Delivered(x) \in {{}, {m(s)}}
    BY <2>3, DeliveredSame, DeliveredOne
  <2> QED BY <2>2, <2>4, HeardOnly
<1> QED BY <1>1, <1>2, <1>3 DEF send_json_except_user_visit

\* An answer to IDENTIFY is heard by no one.
LEMMA ResponseHeard ==
  ASSUME TypeOK, NEW c \in Conn, NEW t \in {"SUCCESS", "USER_ALREADY_EXISTS"}, NEW s,
         identify_response(c, t, s), Observe
  PROVE  /\ \A d, x \in Conn : heard'[d][x] = heard[d][x]
<1> DEFINE m == [type |-> t, name |-> s, from |-> c, seq |-> request[c].seq]
<1>1. CASE Buildable(s)
  <2>1. m \in Message
    BY <1>1 DEF Buildable, Message, Request, TypeOK, ServerTypeOK
  <2>2. ~IsBroadcast(m)
    BY DEF IsBroadcast
  <2>3. send_json_response(c, m)
    BY <1>1 DEF identify_response
  <2> HIDE DEF m
  <2>4. \A x \in Conn : toClient'[x] = toClient[x] \/ toClient'[x] = Append(toClient[x], m)
    BY <2>1, <2>3, SendAppends
  <2>5. \A x \in Conn : Delivered(x) \in {{}, {m}}
    BY <2>4, DeliveredSame, DeliveredOne
  <2> QED BY <2>2, <2>5 DEF Observe
<1>2. CASE ~Buildable(s)
  BY <1>2, HeardNothing DEF identify_response
<1> QED BY <1>1, <1>2

\* What a thread's step lets others hear: its own request, while it is
\* broadcasting that one.
LEMMA ThreadHeard ==
  ASSUME TypeOK, Handling, NEW c \in Conn, ListenerStep(c), Observe
  PROVE  /\ \A d, x \in Conn : x # c => heard'[d][x] = heard[d][x]
         /\ \A d \in Conn :
              \/ heard'[d][c] = heard[d][c]
              \/ /\ pc[c] = "bcast" /\ UNCHANGED <<pc, request, toServer>>
                 /\ heard'[d][c] = request[c].seq
<1>1. CASE send_json_except_user(c)
  BY <1>1, VisitHeard DEF send_json_except_user
<1>2. CASE identify_response_failed(c)
  BY <1>2, ResponseHeard DEF identify_response_failed
<1>3. CASE identify_response_success(c)
  BY <1>3, ResponseHeard DEF identify_response_success
<1>4. CASE UNCHANGED toClient
  BY <1>4, HeardNothing
<1>5. \/ send_json_except_user(c) \/ identify_response_failed(c)
      \/ identify_response_success(c) \/ UNCHANGED toClient
  BY DEF ListenerStep, server_listener, server_listener_drop, server_listener_end,
     handle_identify, handle_identify_absent, server_add_user,
     send_json_except_user_init, send_json_except_user_end, server_remove_user,
     handle_disconnect_print, print_user_table, tcpVars
<1> QED BY <1>1, <1>2, <1>3, <1>4, <1>5

-----------------------------------------------------------------------------
(* What is asked.                                                          *)

\* Reading a prefix of a stream keeps the rest in order, and behind what was.
LEMMA FewerOrdered ==
  ASSUME TypeOK, NEW c \in Conn, NEW k \in 1 .. Len(toServer[c]),
         toServer'[c] = SubSeq(toServer[c], k + 1, Len(toServer[c])),
         sent'[c] = sent[c],
         \A i \in DOMAIN toServer[c] : toServer[c][i].seq <= sent[c],
         \A i, j \in DOMAIN toServer[c] :
           i < j => toServer[c][i].seq < toServer[c][j].seq
  PROVE  /\ \A i \in DOMAIN toServer'[c] : toServer'[c][i].seq <= sent'[c]
         /\ \A i, j \in DOMAIN toServer'[c] :
              i < j => toServer'[c][i].seq < toServer'[c][j].seq
         /\ \A s : Behind(c, s) => s <= sent'[c]
                     /\ \A i \in DOMAIN toServer'[c] : s < toServer'[c][i].seq
         /\ \A l \in 1 .. k : /\ toServer[c][l].seq <= sent'[c]
              /\ \A i \in DOMAIN toServer'[c] : toServer[c][l].seq < toServer'[c][i].seq
<1> DEFINE q == toServer[c]
<1>1. q \in Seq(Request) /\ k \in Nat /\ Len(q) \in Nat /\ DOMAIN q = 1 .. Len(q)
      /\ DOMAIN toServer'[c] = 1 .. (Len(q) - k)
  BY Numbers
<1>2. \A i \in DOMAIN toServer'[c] : /\ k + i \in DOMAIN q /\ i \in Nat /\ i > 0
                                     /\ toServer'[c][i] = q[k + i]
  BY <1>1, DropIndex
<1> HIDE DEF q
<1>3. \A i \in DOMAIN toServer'[c] : toServer'[c][i].seq <= sent'[c]
  BY <1>2 DEF q
<1>4. ASSUME NEW i \in DOMAIN toServer'[c], NEW j \in DOMAIN toServer'[c], i < j
      PROVE  toServer'[c][i].seq < toServer'[c][j].seq
  <2>1. k + i < k + j
    BY <1>1, <1>2, <1>4
  <2> QED BY <1>2, <2>1 DEF q
<1>5. ASSUME NEW s, Behind(c, s)
      PROVE  s <= sent'[c] /\ \A i \in DOMAIN toServer'[c] : s < toServer'[c][i].seq
  BY <1>2, <1>5 DEF Behind, q
<1>6. ASSUME NEW l \in 1 .. k
      PROVE  /\ q[l].seq <= sent'[c]
             /\ \A i \in DOMAIN toServer'[c] : q[l].seq < toServer'[c][i].seq
  <2>1. l \in DOMAIN q
    BY <1>1, <1>6 DEF q
  <2>2. \A i \in DOMAIN toServer'[c] : l < k + i
    BY <1>1, <1>2
  <2> QED BY <1>2, <2>1, <2>2 DEF q
<1> QED BY <1>3, <1>4, <1>5, <1>6 DEF q

\* While no descriptor is reused, a thread reads the stream of its own peer.
LEMMA OwnStream ==
  ASSUME TypeOK, Accepting, DescriptorsNameOwners, NoReuse,
         NEW c \in Conn, pc[c] # "none", file[fd[c]] # NoConn
  PROVE  file[fd[c]] = c
<1>1. fd[c] \in Fds /\ file[fd[c]] \in Conn
  BY ReadsSocket
<1>2. fd[file[fd[c]]] = fd[c]
  BY <1>1 DEF DescriptorsNameOwners
<1>3. fd[c] # 0
  BY <1>1 DEF Fds
<1> QED BY <1>1, <1>2, <1>3 DEF NoReuse

-----------------------------------------------------------------------------
(* The invariant, step by step.                                            *)

\* A connection of which nothing new is asked, taken or heard stays ordered.
LEMMA QuietKeeps ==
  ASSUME NEW x \in Conn, OrderedFor(x),
         toServer'[x] = toServer[x], sent'[x] = sent[x],
         \A d \in Conn : heard'[d][x] = heard[d][x],
         request'[x] = request[x], Busy(x)' => Busy(x)
  PROVE  OrderedFor(x)'
BY DEF OrderedFor, Behind

\* Reading k of them, with or without handling the first.
LEMMA ReadKeeps ==
  ASSUME TypeOK, NEW c \in Conn, OrderedFor(c), ~Busy(c), NEW k \in 1 .. Len(toServer[c]),
         toServer'[c] = SubSeq(toServer[c], k + 1, Len(toServer[c])),
         sent'[c] = sent[c],
         \A d \in Conn : heard'[d][c] = heard[d][c],
         Busy(c)' => request'[c] = toServer[c][1]
  PROVE  OrderedFor(c)'
<1>1. /\ \A i \in DOMAIN toServer'[c] : toServer'[c][i].seq <= sent'[c]
      /\ \A i, j \in DOMAIN toServer'[c] :
           i < j => toServer'[c][i].seq < toServer'[c][j].seq
      /\ \A s : Behind(c, s) => s <= sent'[c]
                  /\ \A i \in DOMAIN toServer'[c] : s < toServer'[c][i].seq
      /\ \A l \in 1 .. k : /\ toServer[c][l].seq <= sent'[c]
           /\ \A i \in DOMAIN toServer'[c] : toServer[c][l].seq < toServer'[c][i].seq
  BY FewerOrdered DEF OrderedFor
<1>2. \A d \in Conn : heard'[d][c] <= sent'[c]
        /\ \A i \in DOMAIN toServer'[c] : heard'[d][c] < toServer'[c][i].seq
  BY <1>1 DEF OrderedFor
<1>3. ASSUME Busy(c)'
      PROVE  /\ request'[c].seq <= sent'[c]
             /\ \A i \in DOMAIN toServer'[c] : request'[c].seq < toServer'[c][i].seq
             /\ \A d \in Conn : heard'[d][c] <= request'[c].seq
  <2>1. 1 \in 1 .. k /\ 1 \in DOMAIN toServer[c]
    BY Numbers
  <2>2. \A d \in Conn : heard[d][c] < toServer[c][1].seq
    BY <2>1 DEF OrderedFor, Behind
  <2>3. \A d \in Conn : heard[d][c] <= toServer[c][1].seq
    BY <2>1, <2>2, Numbers
  <2> QED BY <1>1, <1>3, <2>1, <2>3
<1> QED BY <1>1, <1>2, <1>3 DEF OrderedFor, Behind

\* A thread's step.
LEMMA ThreadOrder ==
  ASSUME IInv, NoReuse, \A x \in Conn : OrderedFor(x),
         NEW c \in Conn, ListenerStep(c), Observe, UNCHANGED sent
  PROVE  /\ \A x \in Conn : OrderedFor(x)'
         /\ \A d, x \in Conn : heard'[d][x] >= heard[d][x]
<1>1. TypeOK /\ Accepting /\ Handling /\ DescriptorsNameOwners
  BY DEF IInv
<1>2. /\ \A d, x \in Conn : x # c => heard'[d][x] = heard[d][x]
      /\ \A d \in Conn :
           \/ heard'[d][c] = heard[d][c]
           \/ /\ pc[c] = "bcast" /\ UNCHANGED <<pc, request, toServer>>
              /\ heard'[d][c] = request[c].seq
  BY <1>1, ThreadHeard
<1>3. \A x \in Conn \ {c} : pc'[x] = pc[x] /\ request'[x] = request[x]
  BY <1>1, ThreadFrame
<1>4. \A d, x \in Conn : heard'[d][x] >= heard[d][x]
  <2>1. pc[c] = "bcast" => \A d \in Conn : heard[d][c] <= request[c].seq
    BY DEF OrderedFor, Busy
  <2>2. \A d, x \in Conn : heard[d][x] \in Nat /\ request[x].seq \in Nat
    BY <1>1, Numbers
  <2> QED BY <1>2, <2>1, <2>2
\* Only the stream of c is read, and only by a step of the listener's loop.
<1>5. \/ UNCHANGED toServer
      \/ /\ pc[c] = "reading"
         /\ \E k \in 1 .. Len(toServer[c]) :
              /\ toServer' = [toServer EXCEPT ![c] = SubSeq(@, k + 1, Len(@))]
              /\ Busy(c)' => request'[c] = toServer[c][1]
  <2>1. CASE server_listener(c)
    <3>1. file[fd[c]] = c /\ pc[c] = "reading" /\ toServer[c] # <<>>
      BY <1>1, <2>1, OwnStream DEF server_listener
    <3>2. /\ toServer[c] \in Seq(Request) /\ Head(toServer[c]) = toServer[c][1]
          /\ Tail(toServer[c]) = SubSeq(toServer[c], 1 + 1, Len(toServer[c]))
          /\ 1 \in 1 .. Len(toServer[c])
      BY <1>1, <3>1, Numbers
    <3>3. process_message(c, toServer[c][1])
      BY <2>1, <3>1, <3>2 DEF server_listener
    <3>4. pc'[c] = "reading" \/ request'[c] = toServer[c][1]
      BY <1>1, <3>1, <3>3 DEF process_message, TypeOK, ServerTypeOK
    <3>5. Busy(c)' => request'[c] = toServer[c][1]
      BY <3>4 DEF Busy
    <3>6. toServer' = [toServer EXCEPT ![c] = SubSeq(@, 1 + 1, Len(@))]
      BY <2>1, <3>1, <3>2 DEF server_listener
    <3> QED BY <3>1, <3>2, <3>5, <3>6
  <2>2. CASE server_listener_drop(c)
    <3>1. file[fd[c]] = c /\ pc[c] = "reading" /\ pc'[c] = "reading"
      BY <1>1, <2>2, OwnStream DEF server_listener_drop, serverVars
    <3>2. ~Busy(c)'
      BY <3>1 DEF Busy
    <3> QED BY <2>2, <3>1, <3>2 DEF server_listener_drop
  <2> QED
    BY <2>1, <2>2
    DEF ListenerStep, server_listener_end, handle_identify, handle_identify_absent,
        identify_response_failed, server_add_user, identify_response_success,
        send_json_except_user_init, send_json_except_user, send_json_except_user_end,
        server_remove_user, handle_disconnect_print, print_user_table, tcpVars
<1>6. \A x \in Conn \ {c} : toServer'[x] = toServer[x]
  BY <1>1, <1>5 DEF TypeOK, TcpTypeOK
<1>7. \A x \in Conn \ {c} : OrderedFor(x)'
  <2> SUFFICES ASSUME NEW x \in Conn \ {c} PROVE OrderedFor(x)'
    OBVIOUS
  <2>1. Busy(x)' => Busy(x)
    BY <1>3 DEF Busy
  <2> QED BY <1>2, <1>3, <1>6, <2>1, QuietKeeps
<1>8. OrderedFor(c)'
  <2>1. CASE pc[c] = "reading" /\ ~UNCHANGED toServer
    <3>1. PICK k \in 1 .. Len(toServer[c]) :
            /\ toServer' = [toServer EXCEPT ![c] = SubSeq(@, k + 1, Len(@))]
            /\ Busy(c)' => request'[c] = toServer[c][1]
      BY <1>5, <2>1
    <3>2. toServer'[c] = SubSeq(toServer[c], k + 1, Len(toServer[c]))
      BY <1>1, <3>1 DEF TypeOK, TcpTypeOK
    <3>3. ~Busy(c) /\ \A d \in Conn : heard'[d][c] = heard[d][c]
      BY <1>2, <2>1 DEF Busy
    <3> QED BY <1>1, <3>1, <3>2, <3>3, ReadKeeps
  <2>2. CASE UNCHANGED toServer
    <3>1. /\ \A i \in DOMAIN toServer'[c] : toServer'[c][i].seq <= sent'[c]
          /\ \A i, j \in DOMAIN toServer'[c] :
               i < j => toServer'[c][i].seq < toServer'[c][j].seq
      BY <2>2 DEF OrderedFor
    <3>2. Busy(c)' => Busy(c) /\ request'[c] = request[c]
      <4> USE <1>1 DEF Busy, Goto, Return, TypeOK, ServerTypeOK, serverVars
      <4>1. CASE server_listener(c)
        <5>1. file[fd[c]] = c /\ toServer[c] # <<>> /\ toServer[c] \in Seq(Request)
          BY <4>1, OwnStream, Numbers DEF server_listener
        <5>2. toServer'[c] = Tail(toServer[c])
          BY <4>1, <5>1 DEF server_listener, TcpTypeOK
        <5>3. Tail(toServer[c]) # toServer[c]
          <6> SUFFICES ASSUME Tail(toServer[c]) = toServer[c] PROVE FALSE
            OBVIOUS
          <6>1. PICK n \in Nat : n = Len(toServer[c])
            BY <5>1
          <6>2. Len(Tail(toServer[c])) = n - 1
            BY <5>1, <6>1
          <6>3. n = n - 1
            BY <6>1, <6>2
          <6> QED BY <6>3
        <5> QED BY <2>2, <5>2, <5>3
      <4>2. CASE server_listener_drop(c) \/ server_listener_end(c)
        BY <4>2 DEF server_listener_drop, server_listener_end
      <4>3. CASE handle_identify(c) \/ handle_identify_absent(c) \/ server_add_user(c)
        BY <4>3 DEF handle_identify, handle_identify_absent, server_add_user
      <4>4. CASE identify_response_failed(c) \/ identify_response_success(c)
        BY <4>4 DEF identify_response_failed, identify_response_success
      <4>5. CASE \/ send_json_except_user_init(c) \/ send_json_except_user(c)
                 \/ send_json_except_user_end(c)
        BY <4>5
        DEF send_json_except_user_init, send_json_except_user, send_json_except_user_end
      <4>6. CASE server_remove_user(c) \/ handle_disconnect_print(c) \/ print_user_table(c)
        BY <4>6 DEF server_remove_user, handle_disconnect_print, print_user_table
      <4> QED BY <4>1, <4>2, <4>3, <4>4, <4>5, <4>6 DEF ListenerStep
    <3>3. \A d \in Conn : heard'[d][c] = heard[d][c]
            \/ (Busy(c) /\ heard'[d][c] = request[c].seq)
      BY <1>2 DEF Busy
    <3>4. \A d \in Conn : Behind(c, heard[d][c])'
      BY <2>2, <3>3 DEF OrderedFor, Behind
    <3>5. Busy(c)' => /\ Behind(c, request[c].seq)'
                     /\ \A d \in Conn : heard'[d][c] <= request'[c].seq
      <4>1. request[c].seq \in Nat
        BY <1>1, Numbers
      <4> SUFFICES ASSUME Busy(c)'
                   PROVE  /\ Behind(c, request[c].seq)'
                          /\ \A d \in Conn : heard'[d][c] <= request'[c].seq
        OBVIOUS
      <4>2. Busy(c) /\ request'[c].seq = request[c].seq
        BY <3>2
      <4>3. Behind(c, request[c].seq) /\ \A d \in Conn : heard[d][c] <= request[c].seq
        BY <4>2 DEF OrderedFor
      <4>4. \A d \in Conn : heard'[d][c] <= request[c].seq
        BY <3>3, <4>1, <4>3
      <4> QED BY <2>2, <4>2, <4>3, <4>4 DEF Behind
    <3> QED BY <3>1, <3>4, <3>5 DEF OrderedFor
  <2> QED BY <1>5, <2>1, <2>2
<1> QED BY <1>4, <1>7, <1>8

\* A request is numbered behind all before it.
LEMMA SendOrder ==
  ASSUME TypeOK, \A x \in Conn : OrderedFor(x),
         NEW c \in Conn, NEW r \in Requests, PeerSends(c, r)
  PROVE  \A x \in Conn : OrderedFor(x)'
<1> DEFINE m == [type |-> r.type, name |-> r.name, body |-> r.body, seq |-> sent'[c]]
           q == toServer[c]
<1>1. /\ sent' = [sent EXCEPT ![c] = @ + 1]
      /\ toServer' = [toServer EXCEPT ![c] = Append(@, m)]
      /\ UNCHANGED <<pc, request, heard>>
  BY DEF PeerSends, ClientSends, serverVars
<1>2. sent'[c] = sent[c] + 1 /\ toServer'[c] = Append(q, m) /\ m.seq = sent'[c]
  BY <1>1 DEF TypeOK, TcpTypeOK
<1>3. \A x \in Conn \ {c} : toServer'[x] = toServer[x] /\ sent'[x] = sent[x]
  BY <1>1 DEF TypeOK, TcpTypeOK
<1> HIDE DEF m
<1>4. ASSUME NEW x \in Conn \ {c} PROVE OrderedFor(x)'
  BY <1>1, <1>3, QuietKeeps DEF Busy
<1>5. OrderedFor(c)'
  <2>1. /\ sent[c] \in Nat /\ request[c].seq \in Nat /\ \A d \in Conn : heard[d][c] \in Nat
        /\ q \in Seq(Request) /\ \A i \in DOMAIN q : q[i].seq \in Nat
    BY Numbers
  <2> HIDE DEF q
  <2>2. \A i \in DOMAIN toServer'[c] :
          \/ i \in DOMAIN q /\ toServer'[c][i] = q[i] /\ i <= Len(q)
          \/ i = Len(q) + 1 /\ toServer'[c][i] = m
    BY <1>2, <2>1, AppendIndex
  <2>3. \A i \in DOMAIN q : q[i].seq <= sent[c] /\ i \in Nat
    BY <2>1 DEF OrderedFor, q
  <2>4. \A i \in DOMAIN toServer'[c] : toServer'[c][i].seq <= sent'[c]
    BY <1>2, <2>1, <2>2, <2>3
  <2>5. ASSUME NEW i \in DOMAIN toServer'[c], NEW j \in DOMAIN toServer'[c], i < j
        PROVE  toServer'[c][i].seq < toServer'[c][j].seq
    <3>1. Len(q) \in Nat
      BY <2>1
    <3>2. i \in DOMAIN q /\ toServer'[c][i] = q[i]
      BY <2>2, <2>3, <2>5, <3>1
    <3>3. CASE j \in DOMAIN q /\ toServer'[c][j] = q[j]
      BY <2>5, <3>2, <3>3 DEF OrderedFor, q
    <3>4. CASE toServer'[c][j] = m
      BY <1>2, <2>1, <2>3, <3>2, <3>4
    <3> QED BY <2>2, <3>3, <3>4
  <2>6. ASSUME NEW s \in Nat, Behind(c, s)
        PROVE  s <= sent'[c] /\ \A i \in DOMAIN toServer'[c] : s < toServer'[c][i].seq
    BY <1>2, <2>1, <2>2, <2>6 DEF Behind, q
  <2>7. \A d \in Conn : heard'[d][c] <= sent'[c]
          /\ \A i \in DOMAIN toServer'[c] : heard'[d][c] < toServer'[c][i].seq
    BY <1>1, <2>1, <2>6 DEF OrderedFor
  <2>8. ASSUME Busy(c)'
        PROVE  /\ request'[c].seq <= sent'[c]
               /\ \A i \in DOMAIN toServer'[c] : request'[c].seq < toServer'[c][i].seq
               /\ \A d \in Conn : heard'[d][c] <= request'[c].seq
    <3>1. Busy(c)
      BY <1>1, <2>8 DEF Busy
    <3> QED BY <1>1, <2>1, <2>6, <3>1 DEF OrderedFor
  <2> QED BY <2>4, <2>5, <2>7, <2>8 DEF OrderedFor, Behind
<1> QED BY <1>4, <1>5

LEMMA WorldOrder ==
  ASSUME IInv, OrderInv, [WorldNext]_worldVars
  PROVE  OrderInv' /\ (NoReuse' => \A c, d \in Conn : heard'[d][c] >= heard[d][c])
<1> SUFFICES ASSUME NoReuse'
             PROVE  /\ \A x \in Conn : OrderedFor(x)'
                    /\ \A c, d \in Conn : heard'[d][c] >= heard[d][c]
  BY DEF OrderInv, OrderedFor
<1>1. TypeOK /\ Accepting
  BY DEF IInv
<1>2. NoReuse
  BY <1>1, ReuseStays
<1>3. \A x \in Conn : OrderedFor(x)
  BY <1>2, OrderInvFor
<1>4. ASSUME UNCHANGED <<toServer, sent, heard, request>>,
             \A x \in Conn : Busy(x)' => Busy(x)
      PROVE  /\ \A x \in Conn : OrderedFor(x)'
             /\ \A c, d \in Conn : heard'[d][c] >= heard[d][c]
  <2>1. \A c, d \in Conn : heard[d][c] \in Nat
    BY <1>1, Numbers
  <2> QED BY <1>3, <1>4, <2>1, QuietKeeps
<1>5. CASE ServerStep
  <2>1. CASE accept_connection
    <3>1. \A x \in Conn : Busy(x)' => Busy(x)
      BY <1>1, <2>1 DEF accept_connection, Goto, Busy, TypeOK, ServerTypeOK
    <3>2. heard' = heard
      BY <1>1, <1>5, <2>1, HeardNothing DEF ServerStep, accept_connection
    <3> QED BY <1>4, <1>5, <2>1, <3>1, <3>2 DEF ServerStep, accept_connection
  <2>2. ASSUME NEW c \in Conn, ListenerStep(c)
        PROVE  /\ \A x \in Conn : OrderedFor(x)'
               /\ \A y, d \in Conn : heard'[d][y] >= heard[d][y]
    BY <1>2, <1>3, <1>5, <2>2, ThreadOrder DEF ServerStep
  <2>3. CASE \/ accept_fails \/ Signals
             \/ \E c \in Conn : wild_username(c) \/ corrupted_call(c)
             \/ \E n \in Names : corrupted_table(n)
    <3>1. /\ UNCHANGED <<tcpVars, request>>
          /\ \A x \in Conn : pc'[x] = pc[x] \/ (pc[x] = "lookup" /\ pc'[x] = "absent")
      BY <1>1, <2>3, OtherFrame
    <3>2. heard' = heard
      BY <1>1, <1>5, <3>1, HeardNothing DEF ServerStep, tcpVars
    <3>3. \A x \in Conn : Busy(x)' => Busy(x)
      BY <3>1 DEF Busy
    <3> QED BY <1>4, <1>5, <3>1, <3>2, <3>3 DEF ServerStep, tcpVars
  <2> QED BY <1>5, <2>1, <2>2, <2>3 DEF ServerStep, ServerNext
<1>6. ASSUME NEW c \in Conn, NEW r \in Requests, PeerSends(c, r)
      PROVE  /\ \A x \in Conn : OrderedFor(x)'
             /\ \A y, d \in Conn : heard'[d][y] >= heard[d][y]
  <2>1. \A y, d \in Conn : heard[d][y] \in Nat /\ heard'[d][y] = heard[d][y]
    BY <1>1, <1>6, Numbers DEF PeerSends
  <2> QED BY <1>1, <1>3, <1>6, <2>1, SendOrder
<1>7. ASSUME NEW c \in Conn, PeerConnects(c) \/ PeerReads(c) \/ PeerCloses(c)
      PROVE  /\ \A x \in Conn : OrderedFor(x)'
             /\ \A y, d \in Conn : heard'[d][y] >= heard[d][y]
  BY <1>4, <1>7
  DEF PeerConnects, PeerReads, PeerCloses, connect_to_server, ClientReads, ClientCloses,
      serverVars, Busy
<1>8. CASE UNCHANGED worldVars
  BY <1>4, <1>8 DEF worldVars, tcpVars, serverVars, Busy
<1> QED BY <1>5, <1>6, <1>7, <1>8 DEF WorldNext, PeerStep

LEMMA OrderStarts == WorldInit => OrderInv
<1> SUFFICES ASSUME WorldInit, NEW c \in Conn PROVE OrderedFor(c)
  BY OrderInvFor
<1>1. toServer[c] = <<>> /\ sent[c] = 0 /\ pc[c] = "none"
      /\ \A d \in Conn : heard[d][c] = 0
  BY DEF WorldInit, TcpInit, ServerInit
<1>2. DOMAIN toServer[c] = {}
  BY <1>1
<1>3. ~Busy(c) /\ \A d \in Conn : Behind(c, heard[d][c])
  BY <1>1, <1>2 DEF Busy, Behind
<1> QED BY <1>2, <1>3 DEF OrderedFor

\* Requests wait in the order they were sent, and nothing asked later than the
\* request at hand has been broadcast (server_listener, server.c:73).
THEOREM OrderInvariance == WorldSpec => []OrderInv
<1>1. IInv /\ OrderInv /\ [WorldNext]_worldVars => OrderInv'
  BY WorldOrder
<1> QED BY OrderStarts, <1>1, Invariance, PTL DEF WorldSpec

\* What one peer says reaches every other in the order it said it
\* (send_json_except_user, server.c:364), although each thread sends to every
\* stream with no lock, as long as no descriptor is reused.
THEOREM InOrderAlways == WorldSpec => InOrder
<1>1. IInv /\ OrderInv /\ [WorldNext]_worldVars
        => [NoReuse' => \A c, d \in Conn : heard'[d][c] >= heard[d][c]]_worldVars
  BY WorldOrder
<1> QED BY <1>1, Invariance, OrderInvariance, PTL DEF WorldSpec, InOrder

-----------------------------------------------------------------------------
(* Whom a broadcast reaches.                                               *)

\* d has heard what c is broadcasting, or is still to be visited.
Covered(c, d) ==
  heard[d][c] = request[c].seq \/ \E n \in todo[c] : table[n] = d

\* A send brings no one back, and reaches a peer that is there.
LEMMA SendPeers ==
  ASSUME TypeOK, NEW u, NEW m, send_json_response(u, m)
  PROVE  \A x \in Conn : peer'[x] = "up" => peer[x] = "up"
BY DEF send_json_response, SendToPeer, SendToDeparted, TypeOK, TcpTypeOK

LEMMA SendReaches ==
  ASSUME TypeOK, NEW u, NEW m, send_json_response(u, m),
         file[fd[u]] \in Conn, peer[file[fd[u]]] = "up"
  PROVE  toClient'[file[fd[u]]] = Append(toClient[file[fd[u]]], m)
<1>1. file[fd[u]] # NoConn
  BY ServerAssumption
<1>2. SendToPeer(file[fd[u]], m)
  BY <1>1 DEF send_json_response, SendToDeparted
<1> QED BY <1>2 DEF SendToPeer, TypeOK, TcpTypeOK

\* Only closing takes a descriptor from its socket, and only the peer's end
\* of it changes from there to gone.
LEMMA SocketBefore ==
  ASSUME TypeOK, Accepting, [WorldNext]_worldVars, NEW d \in Conn, fd[d] # 0
  PROVE  /\ fd'[d] = fd[d]
         /\ file'[fd[d]] = d => file[fd[d]] = d
         /\ peer'[d] = "up" => peer[d] = "up"
<1>0. peer[d] # "none" /\ d # NoConn
  BY ServerAssumption DEF Accepting
<1>1. CASE accept_connection
  <2>1. backlog # <<>> /\ backlog \in Seq(Conn)
    BY <1>1 DEF accept_connection, TypeOK, TcpTypeOK
  <2>2. 1 \in DOMAIN backlog /\ Head(backlog) = backlog[1]
    BY <2>1
  <2>3. Head(backlog) # d
    BY <2>2 DEF Accepting
  <2> QED BY <1>1, <2>3 DEF accept_connection, TypeOK, ServerTypeOK
<1>2. ASSUME NEW c \in Conn, ListenerStep(c)
      PROVE  /\ fd'[d] = fd[d]
             /\ file'[fd[d]] = d => file[fd[d]] = d
             /\ peer'[d] = "up" => peer[d] = "up"
  <2>1. UNCHANGED fd
    BY <1>2, ThreadFrame
  <2>2. file' = file \/ file' = [file EXCEPT ![fd[c]] = NoConn]
    BY <1>2
    DEF ListenerStep, server_listener, process_message, server_listener_drop,
        server_listener_end, handle_identify, handle_identify_absent,
        identify_response_failed, server_add_user, identify_response_success,
        send_json_except_user_init, send_json_except_user, send_json_except_user_end,
        server_remove_user, handle_disconnect_print, print_user_table, serverVars
  <2>3. file'[fd[d]] = d => file[fd[d]] = d
    BY <1>0, <2>2 DEF TypeOK, ServerTypeOK
  <2>4. CASE send_json_except_user(c)
    BY <2>1, <2>3, <2>4, SendPeers DEF send_json_except_user, send_json_except_user_visit
  <2>5. CASE identify_response_failed(c) \/ identify_response_success(c)
    BY <2>1, <2>3, <2>5, SendPeers
    DEF identify_response_failed, identify_response_success, identify_response
  <2>6. CASE UNCHANGED peer
    BY <2>1, <2>3, <2>6
  <2> QED
    BY <1>2, <2>4, <2>5, <2>6
    DEF ListenerStep, server_listener, server_listener_drop, server_listener_end,
        handle_identify, handle_identify_absent, server_add_user,
        send_json_except_user_init, send_json_except_user_end, server_remove_user,
        handle_disconnect_print, print_user_table, tcpVars
<1>3. CASE \/ accept_fails \/ Signals
           \/ \E c \in Conn : wild_username(c) \/ corrupted_call(c)
           \/ \E n \in Names : corrupted_table(n)
  BY <1>3, OtherFrame DEF tcpVars
<1>4. ASSUME NEW c \in Conn, PeerStep(c)
      PROVE  UNCHANGED <<fd, file>> /\ (peer'[d] = "up" => peer[d] = "up")
  BY <1>0, <1>4
  DEF PeerStep, PeerConnects, PeerSends, PeerReads, PeerCloses, connect_to_server,
      ClientSends, ClientReads, ClientCloses, serverVars, TypeOK, TcpTypeOK
<1>5. CASE UNCHANGED worldVars
  BY <1>5 DEF worldVars, serverVars, tcpVars
<1> QED
  BY <1>1, <1>2, <1>3, <1>4, <1>5 DEF WorldNext, ServerStep, ServerNext

\* A live username is a name.
LEMMA LiveNamesStep ==
  ASSUME TypeOK, Handling, [WorldNext]_worldVars,
         \A c \in Conn : username[c].st = "live" => username[c].name \in Names
  PROVE  \A c \in Conn : username'[c].st = "live" => username'[c].name \in Names
<1>1. CASE UNCHANGED username
  BY <1>1
<1>2. ASSUME NEW e \in Conn, server_add_user(e)
      PROVE  \A c \in Conn : username'[c].st = "live" => username'[c].name \in Names
  <2>1. request[e].name \in Names
    BY <1>2 DEF server_add_user, Handling
  <2>2. username'[e] \in {Live(request[e].name), Freed}
        /\ \A c \in Conn \ {e} : username'[c] = username[c]
    BY <1>2 DEF server_add_user, TypeOK, ServerTypeOK
  <2> QED BY <2>1, <2>2 DEF Live, Freed
<1>3. ASSUME NEW e \in Conn, server_remove_user(e)
      PROVE  \A c \in Conn : username'[c].st = "live" => username'[c].name \in Names
  <2>1. \A c \in Conn : username'[c] \in {username[c], Freed}
    BY <1>3 DEF server_remove_user
  <2> QED BY <2>1 DEF Freed
<1>4. CASE \/ accept_fails \/ Signals
           \/ \E c \in Conn : wild_username(c) \/ corrupted_call(c)
           \/ \E n \in Names : corrupted_table(n)
  BY <1>1, <1>4, OtherFrame
<1>5. CASE accept_connection \/ UNCHANGED worldVars
  BY <1>1, <1>5 DEF accept_connection, worldVars, serverVars
<1>6. CASE \E c \in Conn : PeerStep(c)
  BY <1>1, <1>6 DEF PeerStep, PeerConnects, PeerSends, PeerReads, PeerCloses, serverVars
<1> QED
  BY <1>1, <1>2, <1>3, <1>4, <1>5, <1>6, UsersFrame DEF WorldNext, ServerStep, ServerNext

\* The visit of a user whom the broadcast must reach reaches it: its name is
\* not the sender's, so it is not skipped.
LEMMA VisitReaches ==
  ASSUME IInv, ReachInv, ~raced, NEW c \in Conn, NEW d \in Conn, NEW n \in Names,
         Telling(c), MustHear(c, d), table[n] = d,
         send_json_except_user_visit(c, n), Observe
  PROVE  heard'[d][c] = request[c].seq
<1> DEFINE type == announced[request[c].type]
           mine == username[c].name
           m == [type |-> type,
                 name |-> IF type \in carriesName THEN mine ELSE NoName,
                 from |-> c, seq |-> request[c].seq]
<1>1. TypeOK /\ Handling /\ KeyOwnership
  BY DEF IInv
<1>2. Reads(c) = {mine} /\ Reads(d) = {username[d].name}
  BY DEF Reads, Telling, MustHear
<1>3. mine # username[d].name
  <2>1. username \in [Conn -> [st : {"uninit", "live", "freed"},
                               name : Names \cup {NoName}]]
    BY <1>1 DEF TypeOK, ServerTypeOK
  <2>2. \A x \in Conn : username[x].st = "live"
          => username[x] = Live(username[x].name) /\ username[x].name \in Names
    BY <2>1 DEF Live, ReachInv
  <2>3. keyOf[mine] = c /\ keyOf[username[d].name] = d
    BY <1>1, <2>2 DEF KeyOwnership, Telling, MustHear
  <2> QED BY <2>3 DEF MustHear
<1>4. d \notin {NoConn, c} /\ CanAnnounce(c, mine)
  BY ServerAssumption DEF MustHear, Telling
<1>5. send_json_response(d, m)
  BY <1>2, <1>3, <1>4 DEF send_json_except_user_visit
<1>6. IsBroadcast(m) /\ m.from = c /\ m.seq = request[c].seq
  BY <1>1 DEF Telling, Handling, announced, IsBroadcast
<1> HIDE DEF m
<1>7. toClient'[d] = Append(toClient[d], m)
  BY <1>1, <1>5, SendReaches DEF MustHear
<1>8. Delivered(d) = {m}
  BY <1>1, <1>7, DeliveredOne
<1>9. (CHOOSE x \in {m} : TRUE) = m
  OBVIOUS
<1> QED BY <1>6, <1>8, <1>9 DEF Observe

\* While c broadcasts, a step that writes the table overlaps it.
LEMMA OthersLeave ==
  ASSUME TypeOK, NEW c \in Conn, NEW e \in Conn \ {c}, ListenerStep(e),
         pc[c] = "bcast", ~raced'
  PROVE  UNCHANGED <<table, username>> /\ todo'[c] = todo[c] /\ ~raced
<1>1. CASE server_add_user(e) \/ server_remove_user(e)
  <2>1. Overlaps(e)
    BY <1>1 DEF server_add_user, server_remove_user, Overlaps, TableCalls, TableWriters
  <2>2. raced'
    BY <1>1, <2>1 DEF server_add_user, server_remove_user, NoteRace
  <2> QED BY <2>2
<1>2. CASE UNCHANGED <<username, table, keyOf>> /\ (raced => raced')
  <2>1. todo'[c] = todo[c]
    BY DEF ListenerStep, server_listener, server_listener_drop, server_listener_end,
       handle_identify, handle_identify_absent, identify_response_failed,
       server_add_user, identify_response_success, send_json_except_user_init,
       send_json_except_user, send_json_except_user_end, server_remove_user,
       handle_disconnect_print, print_user_table, serverVars, TypeOK, ServerTypeOK
  <2> QED BY <1>2, <2>1
<1> QED BY <1>1, <1>2, UsersFrame

\* Whom c must reach stays covered while nothing of the two changes.
LEMMA CoveredStays ==
  ASSUME ReachInv, ~raced, NEW c \in Conn, NEW d \in Conn, MustHear(c, d), pc[c] = "bcast",
         Telling(c)', username'[c] = username[c], request'[c] = request[c],
         todo'[c] = todo[c], table' = table, heard'[d][c] = heard[d][c]
  PROVE  Covered(c, d)'
<1>1. Telling(c)
  BY DEF Telling, CanAnnounce
<1> QED BY <1>1 DEF ReachInv, Covered

LEMMA MustHearBefore ==
  ASSUME TypeOK, Accepting, [WorldNext]_worldVars, NEW c \in Conn, NEW d \in Conn,
         MustHear(c, d)', table' = table, username'[d] = username[d]
  PROVE  MustHear(c, d)
<1>1. fd[d] # 0
  <2>1. PICK n \in Names : table[n] = d
    BY DEF MustHear
  <2> QED BY <2>1, ServerAssumption DEF Accepting
<1> QED BY <1>1, SocketBefore DEF MustHear

\* What a broadcast covers, step by step.
LEMMA CoveredStep ==
  ASSUME IInv, ReachInv, [WorldNext]_worldVars, ~raced',
         NEW c \in Conn, NEW d \in Conn, Telling(c)', MustHear(c, d)'
  PROVE  Covered(c, d)'
<1>0. TypeOK /\ Accepting /\ Handling /\ pc'[c] = "bcast"
  BY DEF IInv, Telling
<1>1. ASSUME UNCHANGED <<table, username, request, todo, raced, heard>>, pc[c] = "bcast"
      PROVE  Covered(c, d)'
  BY <1>0, <1>1, MustHearBefore, CoveredStays
<1>2. CASE ServerStep
  <2>1. CASE accept_connection
    <3>1. pc[c] = "bcast"
      BY <1>0, <2>1 DEF accept_connection, Goto, TypeOK, ServerTypeOK
    <3>2. heard' = heard
      BY <1>0, <1>2, <2>1, HeardNothing DEF ServerStep, accept_connection
    <3> QED BY <1>1, <2>1, <3>1, <3>2 DEF accept_connection
  <2>2. ASSUME NEW e \in Conn \ {c}, ListenerStep(e)
        PROVE  Covered(c, d)'
    <3>1. pc[c] = "bcast" /\ request'[c] = request[c]
      BY <1>0, <2>2, ThreadFrame
    <3>2. UNCHANGED <<table, username>> /\ todo'[c] = todo[c] /\ ~raced
      BY <1>0, <2>2, <3>1, OthersLeave
    <3>3. heard'[d][c] = heard[d][c]
      BY <1>0, <1>2, <2>2, ThreadHeard DEF ServerStep
    <3> QED BY <1>0, <3>1, <3>2, <3>3, MustHearBefore, CoveredStays
  <2>3. CASE send_json_except_user(c)
    <3>1. /\ pc[c] = "bcast" /\ UNCHANGED <<table, username, request>>
          /\ raced => raced'
      BY <2>3 DEF send_json_except_user, NoteRace
    <3>2. Telling(c) /\ MustHear(c, d)
      BY <1>0, <3>1, MustHearBefore DEF Telling, CanAnnounce
    <3>3. PICK k \in todo[c] : /\ send_json_except_user_visit(c, k)
                               /\ todo'[c] = todo[c] \ {k}
      BY <1>0, <2>3 DEF send_json_except_user, TypeOK, ServerTypeOK
    <3>4. heard'[d][c] \in {heard[d][c], request[c].seq}
      BY <1>0, <1>2, <2>3, VisitHeard DEF ServerStep
    <3>5. CASE heard[d][c] = request[c].seq
      BY <3>1, <3>4, <3>5 DEF Covered
    <3>6. CASE heard[d][c] # request[c].seq
      <4>1. PICK n \in todo[c] : table[n] = d
        BY <3>1, <3>2, <3>6 DEF ReachInv
      <4>2. CASE n = k
        <5>1. n \in Names
          BY <1>0 DEF TypeOK, ServerTypeOK
        <5>2. heard'[d][c] = request[c].seq
          BY <1>2, <3>1, <3>2, <3>3, <4>1, <4>2, <5>1, VisitReaches DEF ServerStep
        <5> QED BY <3>1, <5>2 DEF Covered
      <4>3. CASE n # k
        BY <3>1, <3>3, <4>1, <4>3 DEF Covered
      <4> QED BY <4>2, <4>3
    <3> QED BY <3>5, <3>6
  <2>4. CASE send_json_except_user_init(c)
    <3>1. todo'[c] = Present /\ table' = table
      BY <1>0, <2>4 DEF send_json_except_user_init, TypeOK, ServerTypeOK
    <3>2. PICK n \in Names : table[n] = d
      BY <3>1 DEF MustHear
    <3>3. n \in Present
      BY <3>2, ServerAssumption DEF Present
    <3> QED BY <3>1, <3>2, <3>3 DEF Covered
  <2>5. CASE ListenerStep(c) /\ ~send_json_except_user(c) /\ ~send_json_except_user_init(c)
    <3>1. pc'[c] # "bcast"
      BY <1>0, <2>5
      DEF ListenerStep, server_listener, process_message, server_listener_drop,
          server_listener_end, handle_identify, handle_identify_absent,
          identify_response_failed, server_add_user, identify_response_success,
          send_json_except_user_end, server_remove_user, handle_disconnect_print,
          print_user_table, Goto, Return, serverVars, TypeOK, ServerTypeOK
    <3> QED BY <1>0, <3>1
  <2>6. CASE \/ accept_fails \/ Signals
             \/ \E e \in Conn : wild_username(e) \/ corrupted_call(e)
             \/ \E n \in Names : corrupted_table(n)
    <3>1. /\ UNCHANGED <<tcpVars, request, username, raced>>
          /\ pc[c] = "bcast" /\ UNCHANGED table
      BY <1>0, <2>6, OtherFrame
    <3>2. UNCHANGED todo
      BY <2>6, <3>1
      DEF accept_fails, Signals, interrupted, handle_sig,
     interrupted_again, wild_username, corrupted_call, corrupted_table
    <3>3. heard' = heard
      BY <1>0, <1>2, <3>1, HeardNothing DEF ServerStep, tcpVars
    <3> QED BY <1>1, <3>1, <3>2, <3>3
  <2> QED
    BY <1>2, <2>1, <2>2, <2>3, <2>4, <2>5, <2>6 DEF ServerStep, ServerNext
<1>3. CASE \E e \in Conn : PeerStep(e)
  BY <1>0, <1>1, <1>3
  DEF PeerStep, PeerConnects, PeerSends, PeerReads, PeerCloses, serverVars
<1>4. CASE UNCHANGED worldVars
  BY <1>0, <1>1, <1>4 DEF worldVars, serverVars
<1> QED BY <1>2, <1>3, <1>4 DEF WorldNext

LEMMA ReachStep ==
  ASSUME IInv, ReachInv, [WorldNext]_worldVars
  PROVE  ReachInv'
<1>1. \A c \in Conn : username'[c].st = "live" => username'[c].name \in Names
  BY LiveNamesStep DEF IInv, ReachInv
<1>2. ~raced' => \A c, d \in Conn :
        Telling(c)' /\ MustHear(c, d)'
          => heard'[d][c] = request'[c].seq \/ \E n \in todo'[c] : table'[n] = d
  BY CoveredStep DEF Covered
<1> QED BY <1>1, <1>2 DEF ReachInv

\* A broadcast ends when no name is left to visit.
LEMMA BroadcastEnds ==
  ASSUME TypeOK, Accepting, [WorldNext]_worldVars, NEW c \in Conn,
         pc[c] = "bcast", pc'[c] = "reading"
  PROVE  todo[c] = {}
<1>1. CASE accept_connection
  <2>1. backlog # <<>> /\ backlog \in Seq(Conn)
    BY <1>1 DEF accept_connection, TypeOK, TcpTypeOK
  <2>2. 1 \in DOMAIN backlog /\ Head(backlog) = backlog[1]
    BY <2>1
  <2>3. fd[c] # 0
    BY DEF Accepting
  <2>4. Head(backlog) # c
    BY <2>2, <2>3 DEF Accepting
  <2> QED BY <1>1, <2>4 DEF accept_connection, Goto, TypeOK, ServerTypeOK
<1>2. ASSUME NEW e \in Conn \ {c}, ListenerStep(e) PROVE FALSE
  BY <1>2, ThreadFrame
<1>3. CASE ListenerStep(c)
  BY <1>3
  DEF ListenerStep, server_listener, server_listener_drop, server_listener_end,
      handle_identify, handle_identify_absent, identify_response_failed,
      server_add_user, identify_response_success, send_json_except_user_init,
      send_json_except_user, send_json_except_user_end, server_remove_user,
      handle_disconnect_print, print_user_table
<1>4. CASE \/ accept_fails \/ Signals
           \/ \E e \in Conn : wild_username(e) \/ corrupted_call(e)
           \/ \E n \in Names : corrupted_table(n)
  BY <1>4, OtherFrame
<1>5. CASE UNCHANGED pc
  BY <1>5
<1>6. ASSUME NEW e \in Conn, PeerStep(e) PROVE UNCHANGED pc
  BY <1>6 DEF PeerStep, PeerConnects, PeerSends, PeerReads, PeerCloses, serverVars
<1> QED
  BY <1>1, <1>2, <1>3, <1>4, <1>5, <1>6
  DEF WorldNext, ServerStep, ServerNext, worldVars, serverVars

\* Both invariants of broadcasts: their order, and whom they have still to
\* reach (send_json_except_user, server.c:364).
THEOREM BroadcastInvariance == WorldSpec => []BroadcastInv
<1>1. WorldInit => ReachInv
  BY DEF WorldInit, ServerInit, ReachInv, Uninit, Telling
<1>2. IInv /\ ReachInv /\ [WorldNext]_worldVars => ReachInv'
  BY ReachStep
<1>3. WorldSpec => []ReachInv
  BY <1>1, <1>2, Invariance, PTL DEF WorldSpec
<1>4. OrderInv /\ ReachInv => BroadcastInv
  BY DEF BroadcastInv
<1> QED BY <1>3, <1>4, OrderInvariance, PTL

\* A broadcast returns to its handler when everyone it must reach has been
\* sent it (server.c:368), however many threads connect, leave, ask for names
\* and send meanwhile, as long as no visit overlapped a table write.
THEOREM BroadcastReaches == WorldSpec => BroadcastReachesAll
<1>1. IInv /\ ReachInv /\ [WorldNext]_worldVars
        => [\A c \in Conn : Telling(c) /\ pc'[c] = "reading" /\ ~raced
              => \A d \in Conn : MustHear(c, d) => heard[d][c] = request[c].seq]_worldVars
  <2> SUFFICES ASSUME IInv, ReachInv, [WorldNext]_worldVars, NEW c \in Conn,
                      Telling(c), pc'[c] = "reading", ~raced,
                      NEW d \in Conn, MustHear(c, d), worldVars' # worldVars
               PROVE  heard[d][c] = request[c].seq
    OBVIOUS
  <2>1. todo[c] = {}
    BY BroadcastEnds DEF IInv, Telling
  <2> QED BY <2>1 DEF ReachInv
<1>2. BroadcastInv => ReachInv
  BY DEF BroadcastInv
<1> QED BY <1>1, <1>2, Invariance, BroadcastInvariance, PTL DEF WorldSpec, BroadcastReachesAll

-----------------------------------------------------------------------------
(* Handlers come to their end.                                             *)

\* A step of a handler leads to a later place of it, or visits one entry.
LEMMA HandlerStep ==
  ASSUME TypeOK, NEW c \in Conn, InHandler(c), ListenerStep(c)
  PROVE  Closer(c)
<1> USE DEF TypeOK, ServerTypeOK, InHandler, Goto, Return, Closer, PlacesLeft
<1>1. CASE server_listener(c) \/ server_listener_drop(c) \/ server_listener_end(c)
  BY <1>1 DEF server_listener, server_listener_drop, server_listener_end
<1>2. CASE handle_identify(c) \/ handle_identify_absent(c) \/ identify_response_failed(c)
  BY <1>2 DEF handle_identify, handle_identify_absent, identify_response_failed
<1>3. CASE server_add_user(c) \/ identify_response_success(c)
  BY <1>3 DEF server_add_user, identify_response_success
<1>4. CASE send_json_except_user_init(c) \/ send_json_except_user_end(c)
  BY <1>4 DEF send_json_except_user_init, send_json_except_user_end
<1>5. CASE send_json_except_user(c)
  <2>1. PICK n \in todo[c] : todo' = [todo EXCEPT ![c] = @ \ {n}]
    BY <1>5 DEF send_json_except_user
  <2>2. pc' = pc
    BY <1>5 DEF send_json_except_user
  <2>3. todo'[c] = todo[c] \ {n}
    BY <2>1
  <2>4. todo'[c] \subseteq todo[c] /\ todo'[c] # todo[c]
    BY <2>1, <2>3
  <2> QED BY <2>2, <2>4
<1>6. CASE server_remove_user(c) \/ handle_disconnect_print(c) \/ print_user_table(c)
  BY <1>6 DEF server_remove_user, handle_disconnect_print, print_user_table
<1> QED BY <1>1, <1>2, <1>3, <1>4, <1>5, <1>6 DEF ListenerStep

\* An iteration belongs to its thread.
LEMMA TodoFrame ==
  ASSUME TypeOK, NEW c \in Conn, NEW e \in Conn \ {c}, ListenerStep(e)
  PROVE  todo'[c] = todo[c]
BY DEF ListenerStep, server_listener, server_listener_drop, server_listener_end,
       handle_identify, handle_identify_absent, identify_response_failed,
       server_add_user, identify_response_success, send_json_except_user_init,
       send_json_except_user, send_json_except_user_end, server_remove_user,
       handle_disconnect_print, print_user_table, serverVars, TypeOK, ServerTypeOK

\* No other thread, and no peer, moves a handler.
LEMMA OthersStayOut ==
  ASSUME TypeOK, Accepting, [WorldNext]_worldVars, ~raced,
         NEW c \in Conn, InHandler(c), ~ListenerStep(c)
  PROVE  UNCHANGED <<pc[c], todo[c]>>
<1>1. CASE accept_connection
  <2>1. 1 \in DOMAIN backlog /\ Head(backlog) = backlog[1]
    BY <1>1 DEF accept_connection, TypeOK, TcpTypeOK
  <2>2. fd[c] # 0
    BY DEF Accepting, InHandler
  <2>3. Head(backlog) # c
    BY <2>1, <2>2 DEF Accepting
  <2> QED BY <1>1, <2>3 DEF accept_connection, Goto, TypeOK, ServerTypeOK
<1>2. ASSUME NEW e \in Conn, ListenerStep(e) PROVE UNCHANGED <<pc[c], todo[c]>>
  BY <1>2, ThreadFrame, TodoFrame
<1>3. CASE accept_fails \/ Signals \/ \E e \in Conn : wild_username(e)
  BY <1>3 DEF accept_fails, Signals, interrupted, handle_sig,
     interrupted_again, wild_username
<1>4. ASSUME NEW e \in Conn, PeerStep(e) PROVE UNCHANGED <<pc[c], todo[c]>>
  BY <1>4 DEF PeerStep, PeerConnects, PeerSends, PeerReads, PeerCloses, serverVars
<1>5. CASE UNCHANGED worldVars
  BY <1>5 DEF worldVars, serverVars
<1>6. ~ \E e \in Conn : corrupted_call(e)
  BY DEF corrupted_call
<1>7. ~ \E n \in Names : corrupted_table(n)
  BY DEF corrupted_table
<1> QED
  BY <1>1, <1>2, <1>3, <1>4, <1>5, <1>6, <1>7 DEF WorldNext, ServerStep, ServerNext

\* Whatever the other threads and the peers do, a handler only goes forward: it
\* passes at most six places and visits each entry of the table once
\* (server_listener, server.c:73; send_json_except_user, server.c:355), until
\* table calls overlap.
THEOREM HandlersAdvanceAlways == WorldSpec => HandlersAdvance
<1>1. IInv /\ [WorldNext]_worldVars
        => [~raced => \A c \in Conn : InHandler(c) =>
              Closer(c) \/ (~ListenerStep(c) /\ UNCHANGED <<pc[c], todo[c]>>)]_worldVars
  <2> SUFFICES ASSUME IInv, [WorldNext]_worldVars, ~raced,
                      NEW c \in Conn, InHandler(c)
               PROVE  Closer(c) \/ (~ListenerStep(c) /\ UNCHANGED <<pc[c], todo[c]>>)
    OBVIOUS
  <2> QED BY HandlerStep, OthersStayOut DEF IInv
<1> QED BY <1>1, Invariance, PTL DEF WorldSpec, HandlersAdvance
=============================================================================
