---------------------------- MODULE ServerWorld ----------------------------
(***************************************************************************)
(* The chat server among peers that may send it any request at any time:   *)
(* what the server promises whatever program is at the other end.  The     *)
(* properties of the server are stated here.                               *)
(***************************************************************************)
EXTENDS ChatServer, Functions

CONSTANTS
  Requests,    \* what a peer may ask: a set of [type, name, body] records
  MaxRequests  \* bound: requests the peers send in all

ASSUME WorldAssumption ==
  /\ MaxRequests \in Nat
  /\ Requests \subseteq
       [type : RequestTypes, name : Names \cup {NoName}, body : Bodies]
  /\ \A r \in Requests : (r.type = "IDENTIFY" /\ r.body # "bad") => r.name \in Names

VARIABLES
  sent,  \* requests each peer has sent
  heard  \* heard[d][c]: the last request of c broadcast on d's stream

worldVars == <<tcpVars, serverVars, sent, heard>>

WorldInit ==
  /\ TcpInit
  /\ ServerInit
  /\ sent = [c \in Conn |-> 0]
  /\ heard = [d \in Conn |-> [c \in Conn |-> 0]]

IsBroadcast(m) == m.type \in {"NEW_USER", "STATUS", "PUBLIC_TEXT_FROM"}

\* The message a step puts on d's stream, as a set.
Delivered(d) ==
  IF Len(toClient'[d]) > Len(toClient[d])
  THEN {toClient'[d][Len(toClient'[d])]}
  ELSE {}

Observe ==
  heard' = [d \in Conn |-> [c \in Conn |->
    IF \E m \in Delivered(d) : IsBroadcast(m) /\ m.from = c
    THEN (CHOOSE m \in Delivered(d) : TRUE).seq
    ELSE heard[d][c]]]

-----------------------------------------------------------------------------
PeerConnects(c) ==
  /\ connect_to_server(c)
  /\ UNCHANGED <<serverVars, sent, heard>>

PeerSends(c, r) ==
  /\ SumFunction(sent) < MaxRequests
  /\ sent' = [sent EXCEPT ![c] = @ + 1]
  /\ ClientSends(c, [type |-> r.type, name |-> r.name, body |-> r.body,
                     seq |-> sent'[c]])
  /\ UNCHANGED <<serverVars, heard>>

\* Of what it was sent, a peer may read any number of messages at a time.
PeerReads(c) ==
  /\ \E k \in 1 .. Len(toClient[c]) : ClientReads(c, k)
  /\ UNCHANGED <<serverVars, sent, heard>>

PeerCloses(c) ==
  /\ ClientCloses(c)
  /\ UNCHANGED <<serverVars, sent, heard>>

\* What has arrived can be read after the server has ended.
PeerStep(c) ==
  \/ Running /\ PeerConnects(c)
  \/ Running /\ \E r \in Requests : PeerSends(c, r)
  \/ PeerReads(c)
  \/ PeerCloses(c)

ServerStep == ServerNext /\ Observe /\ UNCHANGED sent

WorldNext ==
  \/ ServerStep
  \/ \E c \in Conn : PeerStep(c)

WorldSpec == WorldInit /\ [][WorldNext]_worldVars

-----------------------------------------------------------------------------
(* Types.                                                                  *)

\* Every variable holds what its declaration says: threads are at known
\* points, descriptors name sockets, pointers are unset, live or freed.
TypeOK ==
  /\ TcpTypeOK(Request, Message)
  /\ ServerTypeOK
  /\ sent \in [Conn -> Nat]
  /\ heard \in [Conn -> [Conn -> Nat]]

-----------------------------------------------------------------------------
(* Memory and descriptors.                                                 *)

\* No descriptor number was given out again after handle_identify closed it
\* (server.c:175) while its listener thread went on using it.
NoReuse == \A c, d \in Conn : (c # d /\ fd[c] # 0) => fd[c] # fd[d]

\* A descriptor names the socket of a UserInfo that carries its number, so no
\* two descriptors name one socket, whatever was closed and opened again.
DescriptorsNameOwners ==
  \A f \in Fds : file[f] # NoConn => fd[file[f]] = f

\* The users in the table identified: no entry leads to a username that was
\* never set (server.c:69), which every broadcast would read.
RegisteredWasIdentified ==
  \A n \in Names : table[n] # NoConn => username[table[n]].st # "uninit"

\* Keys are owned once: a key string of the table that a UserInfo points to
\* is that UserInfo's live username, of that very name; and while no two
\* table calls have overlapped, a live username is a key of the table.  The
\* free of a key by g_hash_table_remove or g_hash_table_insert is then the
\* only one of that string (server.c:401, 437, 442).
KeyOwnership ==
  \A n \in Names :
    /\ keyOf[n] # NoConn => username[keyOf[n]] = Live(n) /\ table[n] # NoConn
    /\ ~raced => \A c \in Conn : username[c] = Live(n) => keyOf[n] = c

-----------------------------------------------------------------------------
(* Broadcasts.                                                             *)

\* send_json_except_user skips its sender (server.c:364): no peer is sent its
\* own broadcast, not even when table calls overlapped, unless descriptors
\* were reused.
NoEcho ==
  NoReuse => \A c \in Conn : \A i \in DOMAIN toClient[c] :
    IsBroadcast(toClient[c][i]) => toClient[c][i].from # c

\* Broadcasts of one peer reach every other in the order it asked for them,
\* although each is sent in one step per recipient and other threads send to
\* the same stream in between.  A broadcast may come twice in a row, never
\* after a later one.
InOrder ==
  [][NoReuse' => \A c, d \in Conn : heard'[d][c] >= heard[d][c]]_worldVars

\* d is a user whom a broadcast by c must reach: registered, its string in
\* place, its socket its own, and listening.
MustHear(c, d) ==
  /\ d # c
  /\ \E n \in Names : table[n] = d
  /\ username[d].st = "live"
  /\ fd[d] # 0 /\ file[fd[d]] = d
  /\ peer[d] = "up"

\* c is in a broadcast whose message can be built around its name.
Telling(c) ==
  /\ pc[c] = "bcast"
  /\ username[c].st = "live"
  /\ CanAnnounce(c, username[c].name)

\* When a broadcast returns to its handler, every other user it must reach has
\* been sent the message: visiting the table while others connect, identify
\* and disconnect misses no one, as long as no visit overlapped a table write.
BroadcastReachesAll ==
  [][\A c \in Conn : Telling(c) /\ pc'[c] = "reading" /\ ~raced
       => \A d \in Conn : MustHear(c, d) => heard[d][c] = request[c].seq]_worldVars

-----------------------------------------------------------------------------
(* What makes these invariants inductive.                                  *)

\* A connection waits in the backlog once, and only until it is accepted;
\* only an accepted one has a thread.
Accepting ==
  /\ \A i \in DOMAIN backlog : fd[backlog[i]] = 0 /\ peer[backlog[i]] # "none"
  /\ \A i, j \in DOMAIN backlog : backlog[i] = backlog[j] => i = j
  /\ \A c \in Conn : pc[c] # "none" => fd[c] # 0
  /\ \A c \in Conn : fd[c] # 0 => peer[c] # "none"
  /\ \A n \in Names : table[n] # NoConn => fd[table[n]] # 0

\* A thread is inside the handler of the request it took.
Handling ==
  \A c \in Conn :
    /\ pc[c] \in {"lookup", "absent", "insert", "taken", "welcome"}
         => request[c].type = "IDENTIFY" /\ request[c].name \in Names
    /\ pc[c] \in {"announce", "bcast"}
         => request[c].type \in {"IDENTIFY", "STATUS", "PUBLIC_TEXT"}

\* What is queued for the server can be handled.
QueuedNames ==
  \A c \in Conn : \A i \in DOMAIN toServer[c] :
    (toServer[c][i].type = "IDENTIFY" /\ toServer[c][i].body # "bad")
      => toServer[c][i].name \in Names

\* The inductive invariant.
IInv ==
  /\ TypeOK
  /\ Accepting
  /\ QueuedNames
  /\ Handling
  /\ DescriptorsNameOwners
  /\ RegisteredWasIdentified
  /\ KeyOwnership
  /\ NoEcho

\* A thread is inside a handler.
Busy(c) == pc[c] \notin {"none", "reading", "done"}

\* Number s of c's requests was asked before all that wait to be read.
Behind(c, s) ==
  s <= sent[c] /\ \A i \in DOMAIN toServer[c] : s < toServer[c][i].seq

\* What makes InOrder hold: while each thread reads its own stream, requests
\* wait in the order they were sent, the one being handled was asked before
\* them, and what was broadcast was asked no later than that one.
OrderInv ==
  NoReuse => \A c \in Conn :
    /\ \A i \in DOMAIN toServer[c] : toServer[c][i].seq <= sent[c]
    /\ \A i, j \in DOMAIN toServer[c] :
         i < j => toServer[c][i].seq < toServer[c][j].seq
    /\ \A d \in Conn : Behind(c, heard[d][c])
    /\ Busy(c) => /\ Behind(c, request[c].seq)
                  /\ \A d \in Conn : heard[d][c] <= request[c].seq

\* What makes BroadcastReachesAll hold: whom a broadcast must reach has heard
\* it, or is under a name it has still to visit.
ReachInv ==
  /\ \A c \in Conn : username[c].st = "live" => username[c].name \in Names
  /\ ~raced => \A c, d \in Conn :
       Telling(c) /\ MustHear(c, d)
         => heard[d][c] = request[c].seq \/ \E n \in todo[c] : table[n] = d

BroadcastInv == OrderInv /\ ReachInv

-----------------------------------------------------------------------------
(* The registry of names that handle_identify and handle_disconnect keep.  *)

Stage(l) ==
  CASE l \in {"absent", "insert"} -> "claiming"
    [] l = "welcome" -> "granted"
    [] l = "taken" -> "refused"
    [] OTHER -> "idle"

Registry ==
  INSTANCE NameRegistry WITH
    Clients <- Conn, Labels <- Names, Nobody <- NoConn, NoLabel <- NoName,
    holder <- table,
    stage <- [c \in Conn |-> Stage(pc[c])],
    wanted <- [c \in Conn |->
      IF Stage(pc[c]) = "idle" THEN NoName ELSE request[c].name],
    broken <- raced

\* The unlocked lookup and insertion (server.c:178 and 186), with removals
\* and departures in between, implement the optimistic registry until two
\* table calls overlap.
ImplementsRegistry == Registry!RegistrySpec

-----------------------------------------------------------------------------
(* Progress, when the kernel schedules every thread and every peer reads   *)
(* what it is sent.  Nothing is assumed of peers' sends and closes.        *)

\* While handle_sig waits for ever the listeners need not go on: each waits
\* for the same lock as soon as it logs or allocates.
Serving == server \in {"up", "interrupted"}

WorldFairness ==
  /\ \A c \in Conn : WF_worldVars(Serving /\ ListenerStep(c) /\ ServerStep)
  /\ WF_worldVars((accept_connection \/ accept_fails) /\ ServerStep)
  /\ WF_worldVars(handle_sig /\ ServerStep)
  /\ \A c \in Conn : WF_worldVars(PeerReads(c))

LiveSpec == WorldSpec /\ WorldFairness

InHandler(c) == pc[c] \notin {"none", "reading", "done"}

\* Every request handled is finished: the sends, which block while a peer's
\* buffers are full, never wait on each other.  Nothing is promised once
\* table calls have overlapped.
HandlerReturns ==
  \A c \in Conn :
    InHandler(c) ~> (pc[c] = "reading" \/ ~Serving \/ raced)

\* The most places a handler has still to pass.
PlacesLeft ==
  [lookup |-> 6, absent |-> 5, insert |-> 4, welcome |-> 3, announce |-> 2,
   bcast |-> 1, taken |-> 1, remove |-> 3, removed |-> 2, print |-> 1]

Closer(c) ==
  \/ pc'[c] = "reading"
  \/ PlacesLeft[pc'[c]] < PlacesLeft[pc[c]]
  \/ pc'[c] = pc[c] /\ todo'[c] \subseteq todo[c] /\ todo'[c] # todo[c]

\* Why handlers return: each step of a thread in one brings it closer to the
\* end, an iteration having one entry less to visit, and no other step, of the
\* server or a peer, sends it back (server.c:361-372).  A thread that cannot step
\* is in a send.  A table write during the iteration ends the promise.
HandlersAdvance ==
  [][~raced => \A c \in Conn : InHandler(c) =>
       Closer(c) \/ (~ListenerStep(c) /\ UNCHANGED <<pc[c], todo[c]>>)]_worldVars

\* A connection that was made is accepted (server.c:54), unless the process
\* ends, or handle_sig hangs in its log (server.c:451) on top of main.
ConnectionAccepted ==
  \A c \in Conn : peer[c] = "up" ~> (fd[c] # 0 \/ ~Serving)

\* The listener of a peer that has left reads the rest and ends, unless the
\* process ends first, table calls overlap, or its descriptor no longer names
\* its socket.
DepartedListenerEnds ==
  \A c \in Conn :
    peer[c] \in {"gone", "reset"}
      ~> \/ pc[c] = "done" \/ ~Serving \/ raced
         \/ fd[c] # 0 /\ file[fd[c]] # c

-----------------------------------------------------------------------------
(* What messages and comments of the code say of it.                       *)

\* "User already exists, choose another one" (server.c:183): a name in use is
\* not given to another connection.
TakenNameRefused ==
  [][\A n \in Names :
       table[n] # NoConn => table'[n] \in {table[n], NoConn}]_worldVars

\* "Function to remove a user from the server's user table" (server.c:440),
\* called for the user that disconnects.
DisconnectRemovesUser ==
  \A c \in Conn : pc[c] = "removed" => \A n \in Names : table[n] # c
=============================================================================
