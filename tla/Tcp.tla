-------------------------------- MODULE Tcp --------------------------------
(***************************************************************************)
(* The stream connections between the chat server and its clients: the     *)
(* kernel's part of socket, listen, connect, send, read and close, as      *)
(* src/src/c/connection.c, server.c and client.c use them.  It is shared   *)
(* by every module that has one end of a connection.                       *)
(*                                                                         *)
(* A connection carries whole JSON messages here.  Streams do not keep     *)
(* message boundaries, so a read may return several messages at once: a    *)
(* reader takes any number of queued messages, and what it makes of them   *)
(* is in its own module.                                                   *)
(***************************************************************************)
EXTENDS Naturals, Sequences

CONSTANTS
  Conn,       \* the connections ever made, one per connecting client
  BufferCap,  \* messages that the socket buffers of one direction hold
  QueueSize   \* server_config.listen_queue_size: the backlog given to listen

ASSUME TcpAssumption ==
  /\ BufferCap \in Nat \ {0}
  /\ QueueSize \in Nat

VARIABLES
  peer,      \* the client's end: "none", "up", "gone" (it closed), "reset"
  backlog,   \* connections made and not accepted yet, oldest first
  toServer,  \* requests sent and not read by the server, per connection
  toClient   \* messages sent and not read by the client, per connection

tcpVars == <<peer, backlog, toServer, toClient>>

\* Streams carry requests one way and messages the other.
TcpTypeOK(Requested, Answered) ==
  /\ peer \in [Conn -> {"none", "up", "gone", "reset"}]
  /\ backlog \in Seq(Conn)
  /\ toServer \in [Conn -> Seq(Requested)]
  /\ toClient \in [Conn -> Seq(Answered)]

TcpInit ==
  /\ peer = [c \in Conn |-> "none"]
  /\ backlog = <<>>
  /\ toServer = [c \in Conn |-> <<>>]
  /\ toClient = [c \in Conn |-> <<>>]

-----------------------------------------------------------------------------
(* The client's calls.                                                     *)

\* connect succeeds as soon as the backlog has room (the kernel keeps one
\* connection more than listen asks for), before the server accepts.
connect_to_server(c) ==
  /\ peer[c] = "none"
  /\ Len(backlog) <= QueueSize
  /\ peer' = [peer EXCEPT ![c] = "up"]
  /\ backlog' = Append(backlog, c)
  /\ UNCHANGED <<toServer, toClient>>

\* send of one request; it blocks while the buffers are full.
ClientSends(c, m) ==
  /\ peer[c] = "up"
  /\ Len(toServer[c]) < BufferCap
  /\ toServer' = [toServer EXCEPT ![c] = Append(@, m)]
  /\ UNCHANGED <<peer, backlog, toClient>>

\* read: the first k messages, k >= 1.
ClientReads(c, k) ==
  /\ peer[c] = "up"
  /\ toClient' = [toClient EXCEPT ![c] = SubSeq(@, k + 1, Len(@))]
  /\ UNCHANGED <<peer, backlog, toServer>>

\* close, or the exit of the client's process.  With unread data the kernel
\* resets the connection at once; otherwise the server sees an end of file.
ClientCloses(c) ==
  /\ peer[c] = "up"
  /\ peer' = [peer EXCEPT ![c] = IF toClient[c] = <<>> THEN "gone" ELSE "reset"]
  /\ toClient' = [toClient EXCEPT ![c] = <<>>]
  /\ UNCHANGED <<backlog, toServer>>

-----------------------------------------------------------------------------
(* The server's calls.                                                     *)

\* send to a client that is there; it blocks while the buffers are full.
SendToPeer(d, m) ==
  /\ peer[d] = "up"
  /\ Len(toClient[d]) < BufferCap
  /\ toClient' = [toClient EXCEPT ![d] = Append(@, m)]
  /\ UNCHANGED peer

\* send to a client that has closed: the data is lost, and the client's
\* kernel answers it with a reset, which may or may not arrive before the
\* next send.
SendToDeparted(d) ==
  /\ peer[d] = "gone"
  /\ peer' \in {peer, [peer EXCEPT ![d] = "reset"]}
  /\ UNCHANGED toClient

AtEndOfFile(d) == toServer[d] = <<>> /\ peer[d] \in {"gone", "reset"}
=============================================================================
