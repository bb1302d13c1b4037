----------------------------- MODULE ChatClient -----------------------------
(***************************************************************************)
(* The chat client, src/src/c/client.c: the command loop of main, which    *)
(* sends, and the detached listener, which reads; they share the Client    *)
(* structure with no lock.  One client runs per connection.                *)
(*                                                                         *)
(* A step is one access that the other thread or the network can observe:  *)
(* the test of logged_in with which a command begins, the send, the write  *)
(* of logged_in, one read with the handling of what it returned.  Lines    *)
(* that only print (\help, \echo, unknown commands, a command its test     *)
(* refuses) change nothing and are not steps.                              *)
(***************************************************************************)
EXTENDS Tcp

CONSTANTS
  Usernames,   \* names of 3 to 8 bytes a user may type
  NoUsername,  \* no name
  Interrupts,  \* whether someone may press Ctrl+C at a client
  StdinEnds    \* whether the input of a client may end

ASSUME ClientAssumption ==
  /\ NoUsername \notin Usernames
  /\ Interrupts \in BOOLEAN /\ StdinEnds \in BOOLEAN

VARIABLES
  ui,         \* where main is
  logged_in,  \* Client.logged_in
  draft,      \* the request main is about to send
  stop,       \* the flag handle_sigint sets, and the handler on its way to it
  listening   \* the listener: "off", "reading", or "ended" with its socket closed

clientVars == <<ui, logged_in, draft, stop, listening>>

\* prompt: in fgets.  eof: stdin has ended, get_input fails for ever and the
\* loop spins.  logout: between the send of DISCONNECT and login_client(false).
\* leaving: client is freed.
UiStates == {"off", "prompt", "eof", "send", "logout", "leaving", "exited"}

\* no: there has been no SIGINT.  logging: handle_sigint runs on top of main
\* and logs first.  hung: it waits there for ever.  set: the flag is 1.
StopStates == {"no", "logging", "hung", "set"}

\* What the program can send; a status it does not know is sent as well.
Drafts ==
  [type : {"IDENTIFY"}, name : Usernames, body : {"good"}]
    \cup [type : {"DISCONNECT", "PUBLIC_TEXT"}, name : {NoUsername}, body : {"good"}]
    \cup [type : {"STATUS"}, name : {NoUsername}, body : {"good", "bad"}]

Nameless(t, b) == [type |-> t, name |-> NoUsername, body |-> b]

NoDraft == Nameless("DISCONNECT", "good")

\* The types of the client's variables.
ClientTypeOK ==
  /\ ui \in [Conn -> UiStates]
  /\ logged_in \in [Conn -> BOOLEAN]
  /\ draft \in [Conn -> Drafts]
  /\ stop \in [Conn -> StopStates]
  /\ listening \in [Conn -> {"off", "reading", "ended"}]

ClientInit ==
  /\ ui = [c \in Conn |-> "off"]
  /\ logged_in = [c \in Conn |-> FALSE]
  /\ draft = [c \in Conn |-> NoDraft]
  /\ stop = [c \in Conn |-> "no"]
  /\ listening = [c \in Conn |-> "off"]

Becomes(c, l) == ui' = [ui EXCEPT ![c] = l]

\* The end of a line: the loop of main tests the stop flag.
LoopTop(c) == IF stop[c] = "set" THEN "leaving" ELSE "prompt"

\* handle_sigint runs on top of main, which goes no further meanwhile.
InSigint(c) == stop[c] \in {"logging", "hung"}

-----------------------------------------------------------------------------
(* The command loop.                                                       *)

\* main up to its loop, once connect has succeeded.
client_create_listener(c) ==
  /\ ui[c] = "off"
  /\ connect_to_server(c)
  /\ Becomes(c, "prompt")
  /\ listening' = [listening EXCEPT ![c] = "reading"]
  /\ UNCHANGED <<logged_in, draft, stop>>

\* A command has passed its test and goes on to send q.
Drafted(c, q) ==
  /\ draft' = [draft EXCEPT ![c] = q]
  /\ Becomes(c, "send")
  /\ UNCHANGED <<tcpVars, logged_in, stop, listening>>

\* Mutant: the length of the username is not tested.
handle_login_any(c) ==
  /\ ui[c] = "prompt" /\ ~logged_in[c]
  /\ \/ \E n \in Usernames : Drafted(c, [type |-> "IDENTIFY", name |-> n, body |-> "good"])
     \/ Drafted(c, Nameless("IDENTIFY", "bad"))

handle_login(c) ==
  /\ ui[c] = "prompt" /\ ~logged_in[c]
  /\ \E n \in Usernames : Drafted(c, [type |-> "IDENTIFY", name |-> n, body |-> "good"])

\* Mutant: the flag is not tested.
handle_logout_ungated(c) ==
  /\ ui[c] = "prompt"
  /\ Drafted(c, Nameless("DISCONNECT", "good"))

handle_logout(c) ==
  /\ ui[c] = "prompt" /\ logged_in[c]
  /\ Drafted(c, Nameless("DISCONNECT", "good"))

\* Neither logged_in nor the outcome of get_status is heeded.
handle_status_client(c) ==
  /\ ui[c] = "prompt"
  /\ \E b \in {"good", "bad"} : Drafted(c, Nameless("STATUS", b))

\* A line that is no command.
send_public_text(c) ==
  /\ ui[c] = "prompt" /\ logged_in[c]
  /\ Drafted(c, Nameless("PUBLIC_TEXT", "good"))

AfterSend(c) ==
  /\ Becomes(c, IF draft[c].type = "DISCONNECT" THEN "logout" ELSE LoopTop(c))
  /\ draft' = [draft EXCEPT ![c] = NoDraft]
  /\ UNCHANGED <<logged_in, stop, listening>>

\* send to a server that is there.
client_sends(c, k) ==
  /\ ui[c] = "send" /\ listening[c] = "reading"
  /\ ClientSends(c, [type |-> draft[c].type, name |-> draft[c].name,
                     body |-> draft[c].body, seq |-> k])
  /\ AfterSend(c)

\* send when the server has gone, or when the listener has closed the socket:
\* the request is lost and main does not notice.
client_sends_in_vain(c) ==
  /\ ui[c] = "send"
  /\ AfterSend(c)
  /\ UNCHANGED tcpVars

\* handle_logout after the send, which may have failed.
de_identified(c) ==
  /\ ui[c] = "logout"
  /\ logged_in' = [logged_in EXCEPT ![c] = FALSE]
  /\ Becomes(c, LoopTop(c))
  /\ UNCHANGED <<tcpVars, draft, stop, listening>>

\* \leave: the loop ends without a DISCONNECT, and client is freed while the
\* listener still runs.
leave_command(c) ==
  /\ ui[c] = "prompt"
  /\ Becomes(c, "leaving")
  /\ UNCHANGED <<tcpVars, logged_in, draft, stop, listening>>

\* stdin ends.
end_of_input(c) ==
  /\ StdinEnds
  /\ ui[c] = "prompt"
  /\ Becomes(c, "eof")
  /\ UNCHANGED <<tcpVars, logged_in, draft, stop, listening>>

\* Mutant: a failing get_input is tried again at once.
get_input_fails_again(c) ==
  /\ ui[c] = "eof"
  /\ UNCHANGED <<tcpVars, clientVars>>

\* get_input fails, and the loop tests the stop flag.
get_input_fails(c) ==
  /\ ui[c] = "eof" /\ stop[c] = "set"
  /\ Becomes(c, "leaving")
  /\ UNCHANGED <<tcpVars, logged_in, draft, stop, listening>>

\* The process ends, its listener with it.
Exits(c) ==
  /\ Becomes(c, "exited")
  /\ listening' = [listening EXCEPT ![c] = "off"]
  /\ ClientCloses(c)
  /\ UNCHANGED <<logged_in, draft, stop>>

main_returns(c) == ui[c] = "leaving" /\ Exits(c)

\* send on a connection the dead server has reset, before the listener has
\* closed the socket: SIGPIPE.
sigpipe(c) == ui[c] = "send" /\ listening[c] = "reading" /\ Exits(c)

\* The first SIGINT: handle_sigint logs.  Where main was inside a call whose
\* lock the logger takes too (see Logger), it waits for that lock for ever; the
\* loop around a stdin that has ended makes no such call.
sigint(c) ==
  /\ Interrupts
  /\ ui[c] \notin {"off", "exited"}
  /\ stop[c] = "no"
  /\ \E s \in {"logging", "hung"} :
       /\ s = "hung" => ui[c] # "eof"
       /\ stop' = [stop EXCEPT ![c] = s]
  /\ UNCHANGED <<tcpVars, ui, logged_in, draft, listening>>

\* The handler has logged and sets the flag.  fgets, or a send that blocks, is
\* interrupted, unless the signal found main just before them.
handle_sigint(c) ==
  /\ stop[c] = "logging"
  /\ stop' = [stop EXCEPT ![c] = "set"]
  /\ \/ UNCHANGED <<ui, draft>>
     \/ ui[c] = "prompt" /\ Becomes(c, "leaving") /\ UNCHANGED draft
     \/ /\ ui[c] = "send"
        /\ Becomes(c, IF draft[c].type = "DISCONNECT" THEN "logout" ELSE "leaving")
        /\ draft' = [draft EXCEPT ![c] = NoDraft]
  /\ UNCHANGED <<tcpVars, logged_in, listening>>

\* signal, as compiled (-std=c11), makes the second SIGINT fatal.
sigint_again(c) ==
  /\ Interrupts
  /\ ui[c] # "exited"
  /\ stop[c] # "no"
  /\ Exits(c)

-----------------------------------------------------------------------------
\* The types client_get_type knows, of those a server of this program sends
\* or should; a RESPONSE counts by its result.
client_get_type ==
  {"SUCCESS", "USER_ALREADY_EXISTS", "NEW_USER", "STATUS_UPDATE", "PUBLIC_TEXT_FROM"}

-----------------------------------------------------------------------------
(* client_listener.                                                        *)

\* read returns one whole message.  A SUCCESS logs the client in, whatever it
\* has asked for since; other messages are printed, or have a type that
\* client_get_type does not know.
client_listener(c) ==
  /\ listening[c] = "reading"
  /\ toClient[c] # <<>>
  /\ ClientReads(c, 1)
  /\ logged_in' = [logged_in EXCEPT ![c] = @ \/ Head(toClient[c]).type = "SUCCESS"]
  /\ UNCHANGED <<ui, draft, stop, listening>>

\* read returns several messages, or part of one: all are dropped.
client_listener_drop(c) ==
  /\ listening[c] = "reading"
  /\ \E k \in 1 .. Len(toClient[c]) : ClientReads(c, k)
  /\ UNCHANGED clientVars

\* Mutant: the loop does not stop when read returns 0.
client_listener_endless(c) ==
  /\ listening[c] = "reading"
  /\ UNCHANGED <<tcpVars, clientVars>>

\* read returns 0: the listener closes the socket and ends, and tells no one.
client_listener_end(c) ==
  /\ listening[c] = "reading"
  /\ listening' = [listening EXCEPT ![c] = "ended"]
  /\ UNCHANGED <<tcpVars, ui, logged_in, draft, stop>>

=============================================================================
