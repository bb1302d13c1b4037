------------------------------- MODULE Circe -------------------------------
(***************************************************************************)
(* The whole system: the server and the clients built from this repository *)
(* and nothing else, over the network.                                     *)
(***************************************************************************)
EXTENDS ServerWorld, ChatClient

ASSUME CirceAssumption ==
  /\ Usernames \subseteq Names \ Unsendable
  /\ NoUsername = NoName
  /\ Drafts \subseteq Requests

circeVars == <<worldVars, clientVars>>

CirceInit == WorldInit /\ ClientInit

\* The kernel closes the server's sockets when its process ends.
ServerGone == ~Running

\* What the server sent before it ended can still be read, unless requests it
\* never read made its kernel reset the connection.
NothingLeft(c) == toClient[c] = <<>> \/ toServer[c] # <<>>

UserSends(c) ==
  /\ ~ServerGone
  /\ SumFunction(sent) < MaxRequests  \* always so: see InBudget
  /\ sent' = [sent EXCEPT ![c] = @ + 1]
  /\ client_sends(c, sent'[c])

\* The steps of the thread that runs main in client c, without the user's.
MainStep(c) ==
  /\ ~InSigint(c)
  /\ \/ UserSends(c)
     \/ /\ \/ ServerGone /\ client_sends_in_vain(c)
           \/ ServerGone /\ sigpipe(c)
           \/ de_identified(c)
           \/ get_input_fails(c)
           \/ main_returns(c)
        /\ UNCHANGED sent

\* Bound: a command is begun only when its request may still be sent.
InBudget ==
  SumFunction(sent) + Cardinality({d \in Conn : ui[d] = "send"}) < MaxRequests

\* What users do at the keyboard.
UserStep(c) ==
  /\ ~InSigint(c)
  /\ \/ ~ServerGone /\ client_create_listener(c)
     \/ /\ InBudget
        /\ \/ handle_login(c)
           \/ handle_logout(c)
           \/ handle_status_client(c)
           \/ send_public_text(c)
     \/ leave_command(c)
     \/ end_of_input(c)
  /\ UNCHANGED sent

\* SIGINT, its handler, and SIGINT again.
SigintStep(c) ==
  /\ sigint(c) \/ handle_sigint(c) \/ sigint_again(c)
  /\ UNCHANGED sent

\* Mutant: one thread does both, and reads nothing while it sends.
ClientListenerStep_alternating(c) ==
  /\ ui[c] # "send"
  /\ \/ client_listener(c)
     \/ client_listener_drop(c)
     \/ ServerGone /\ NothingLeft(c) /\ client_listener_end(c)
  /\ UNCHANGED sent

ClientListenerStep(c) ==
  /\ \/ client_listener(c)
     \/ client_listener_drop(c)
     \/ ServerGone /\ NothingLeft(c) /\ client_listener_end(c)
  /\ UNCHANGED sent

ClientStep(c) ==
  /\ MainStep(c) \/ UserStep(c) \/ SigintStep(c) \/ ClientListenerStep(c)
  /\ UNCHANGED <<serverVars, heard>>

CirceNext ==
  \/ ServerStep /\ UNCHANGED clientVars
  \/ \E c \in Conn : ClientStep(c)

CirceSpec == CirceInit /\ [][CirceNext]_circeVars

-----------------------------------------------------------------------------
(* What the clients add to the server's promises.                          *)

\* The clients are peers as ServerWorld has them: what is proved there of the
\* server holds in the whole system.
ImplementsWorld == WorldSpec

\* The types of the clients' variables.
TypesOfClients == ClientTypeOK

\* What a client sends only when it is logged in, and what the server handles
\* through the username.
NeedsName(r) == r.type \in {"PUBLIC_TEXT", "DISCONNECT"}

Named(c) == username[c].st # "uninit"

\* The server never reads a username that was never set, but on behalf of a
\* status: the client sends a text or a DISCONNECT only when it is logged in
\* (client.c:69, 181), it is logged in only by an answer that the server sends
\* after it has set the username (client.c:478, server.c:186-187), and the
\* arrival of a user is announced after that (server.c:191).
IdentifiedFirst ==
  \A c \in Conn :
    (\/ logged_in[c]
     \/ pc[c] = "remove"
     \/ pc[c] \in {"announce", "bcast"} /\ request[c].type # "STATUS")
      => Named(c)

\* So among its own clients the server faults (server.c:365, which compares
\* the sender's name) only when a client has sent a \status, which is not gated
\* (client.c:191), before it logged in, or when table calls have overlapped.
OnlyStatusFaults ==
  [][(Running /\ server' = "sigsegv" /\ ~raced) =>
       \E c \in Conn : /\ ~logged_in[c]
                       /\ pc[c] = "bcast" /\ request[c].type = "STATUS"]_circeVars

\* Among its own clients the server keeps two promises without a condition:
\* no client is sent what it said itself, and each hears another's broadcasts
\* in the order they were asked for.
NeverEchoed ==
  \A c \in Conn : \A i \in DOMAIN toClient[c] :
    IsBroadcast(toClient[c][i]) => toClient[c][i].from # c

HeardInOrder == [][\A c, d \in Conn : heard'[d][c] >= heard[d][c]]_worldVars

-----------------------------------------------------------------------------
(* What makes IdentifiedFirst and NoReuse inductive, besides IInv, and what *)
(* SendReturns rests on.                                                   *)

\* Every descriptor names the socket it was made for.
OwnSockets == \A c \in Conn : fd[c] # 0 => file[fd[c]] = c

\* No request that waits makes handle_identify close a descriptor.
ClosesNothing ==
  \A c \in Conn : \A i \in DOMAIN toServer[c] :
    toServer[c][i].type = "IDENTIFY" => toServer[c][i].body # "bad"

\* On its way to a client, in it, on its way back and in the server there is
\* nothing that depends on a name before there is one.
NothingUnnamed ==
  \A c \in Conn : ~Named(c) =>
    /\ pc[c] \notin {"welcome", "remove"}
    /\ \A i \in DOMAIN toClient[c] : toClient[c][i].type # "SUCCESS"
    /\ ~logged_in[c]
    /\ ui[c] = "send" => ~NeedsName(draft[c])
    /\ \A i \in DOMAIN toServer[c] : ~NeedsName(toServer[c][i])
    /\ pc[c] \in {"announce", "bcast"} => request[c].type = "STATUS"

\* While the server is up both directions of an open connection have a reader:
\* the client's listener, and the thread that was or will be started for it.
\* A blocked send waits for the reader at the other end; the client's listener
\* waits for nobody (client.c:96), so waits do not close a circle.
BothEndsRead ==
  Running => \A c \in Conn : peer[c] = "up" =>
    /\ listening[c] = "reading"
    /\ pc[c] \notin {"none", "done"} \/ \E i \in DOMAIN backlog : backlog[i] = c

CirceInv == OwnSockets /\ ClosesNothing /\ NothingUnnamed /\ BothEndsRead

-----------------------------------------------------------------------------
(* Progress.                                                               *)

\* While a handler waits for ever the listener of its process need not go on:
\* it logs every message it reads (client.c:113), and waits for the same lock.
ListenerGoesOn(c) == stop[c] # "hung" /\ ClientListenerStep(c)

CirceFairness ==
  /\ \A c \in Conn :
       /\ WF_circeVars(Serving /\ ListenerStep(c) /\ ServerStep /\ UNCHANGED clientVars)
       /\ WF_circeVars(MainStep(c) /\ UNCHANGED <<serverVars, heard>>)
       /\ WF_circeVars(handle_sigint(c) /\ UNCHANGED <<serverVars, heard, sent>>)
       /\ WF_circeVars(ListenerGoesOn(c) /\ UNCHANGED <<serverVars, heard>>)
  /\ WF_circeVars((accept_connection \/ accept_fails) /\ ServerStep /\ UNCHANGED clientVars)
  /\ WF_circeVars(handle_sig /\ ServerStep /\ UNCHANGED clientVars)

LiveCirceSpec == CirceSpec /\ CirceFairness

\* The handler of a SIGINT, at the server or at a client, waits for ever.
SomeHandlerHangs == server = "hung" \/ \E c \in Conn : stop[c] = "hung"

\* A command returns to its user: a client blocked in a send and the server
\* blocked in sends to that client and others do not wait for each other.
SendReturns ==
  \A c \in Conn : ui[c] = "send" ~> (ui[c] # "send" \/ raced \/ SomeHandlerHangs)

\* When the server has ended the listener of every client ends, unless the
\* log of handle_sigint (client.c:591) holds it up for ever.
ServerEndSeen ==
  \A c \in Conn : ServerGone ~> (listening[c] # "reading" \/ stop[c] = "hung")

\* A client told to stop ends, wherever the signal found it, also when stdin
\* has ended or the server is gone; unless a handler hangs, or the client is
\* waiting for a line, or was just about to (client.c:51-54).
StopHeeded ==
  \A c \in Conn :
    stop[c] # "no" ~> \/ ui[c] = "exited"
                      \/ ui[c] = "prompt" /\ stop[c] = "set"
                      \/ raced \/ SomeHandlerHangs

-----------------------------------------------------------------------------
(* What messages and comments of the code say of it.                       *)

\* "Leaving... Goodbye!" (client.c:590), which the handler prints: the client
\* leaves.
GoodbyeMeant ==
  \A c \in Conn : stop[c] = "set" ~> (ui[c] = "exited" \/ raced)

\* "Failed to send JSON response to user" (server.c:369): a send that fails is
\* reported and the server goes on.
SendFailureSurvived == server # "sigpipe"

\* "STATUS_UPDATE" (client.c:528): the client knows the type of all that the
\* server sends it.
KnownToClient ==
  \A c \in Conn : \A i \in DOMAIN toClient[c] : toClient[c][i].type \in client_get_type
=============================================================================
