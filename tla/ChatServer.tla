----------------------------- MODULE ChatServer -----------------------------
(***************************************************************************)
(* The chat server, src/src/c/server.c: the accept loop of main, one       *)
(* listener thread per connection, and the handlers, which share one hash  *)
(* table of users with no lock.                                            *)
(*                                                                         *)
(* A connection stands for three things the server makes on accept and     *)
(* keeps together for ever: the socket, the UserInfo and the thread.       *)
(*                                                                         *)
(* Granularity.  A step is one call that other threads can observe: one    *)
(* hash table call, one entry of an iteration with its send, one read.     *)
(* What a thread does between two such calls is its own and goes with one  *)
(* of them.  A thread whose pc is in TableCalls is inside a call on the    *)
(* hash table, or inside an iteration, which lasts from its first step to  *)
(* its last.                                                               *)
(***************************************************************************)
EXTENDS Tcp, FiniteSets

CONSTANTS
  Names,    \* usernames, cut to USER_MAX_LENGHT - 1 bytes
  Unsendable, \* those the cut leaves with half a character: no valid UTF-8
  NoName,   \* no username
  NoConn,   \* no connection: a free descriptor, or an absent table entry
  Garbage,  \* a string that is no username and no valid UTF-8
  MaxFd,    \* descriptors the process may have open for connections
  CtrlC     \* whether someone may press Ctrl+C at the server's terminal

ASSUME ServerAssumption ==
  /\ NoConn \notin Conn
  /\ NoName \notin Names
  /\ Unsendable \subseteq Names
  /\ Garbage \notin Names
  /\ MaxFd \in Nat
  /\ CtrlC \in BOOLEAN

VARIABLES
  server,    \* the process: up, in its signal handler, or what ended it
  pc,        \* where each listener thread is
  fd,        \* UserInfo.socket, a descriptor number; 0 before accept
  file,      \* the process's descriptor table: which socket a number names
  request,   \* the message a thread is handling
  username,  \* UserInfo.username: a pointer, and the string it points to
  table,     \* user_table: the UserInfo (as a connection) under each name
  keyOf,     \* whose UserInfo.username points to the key string of an entry
  todo,      \* names an iteration of the table has still to visit
  raced      \* a call that writes the table overlapped another thread's call

serverVars ==
  <<server, pc, fd, file, request, username, table, keyOf, todo, raced>>

Fds == 1 .. MaxFd

\* handle_identify, handle_status, handle_public_text and handle_disconnect
\* do something; every other type reaches an empty handler or a log line.
RequestTypes == {"IDENTIFY", "STATUS", "PUBLIC_TEXT", "DISCONNECT", "OTHER"}

\* body: "bad" when a field the handler insists on is missing or not what it
\* accepts; "unsendable" when the text, cut to MAX_INPUT_MSG bytes, is no
\* valid UTF-8 or does not fit the 1024 bytes of an answer once escaped.
Bodies == {"bad", "good", "unsendable"}

Request ==
  [type : RequestTypes, name : Names \cup {NoName}, body : Bodies, seq : Nat]

NoRequest == [type |-> "OTHER", name |-> NoName, body |-> "bad", seq |-> 0]

\* from and seq say which request of which connection caused the message.
Message ==
  [type : {"SUCCESS", "USER_ALREADY_EXISTS",
           "NEW_USER", "STATUS", "PUBLIC_TEXT_FROM"},
   name : Names \cup {NoName}, from : Conn, seq : Nat]

PcStates == {"none", "reading", "lookup", "absent", "insert", "taken",
             "welcome", "announce", "bcast", "remove", "removed", "print", "done"}

\* interrupted: handle_sig runs on top of main.  hung: it waits for ever.
ServerStates == {"up", "interrupted", "hung", "sigpipe", "sigsegv", "sigint",
                 "sigquit", "exit_failure"}

\* The process is there, with its listener threads.
Running == server \in {"up", "interrupted", "hung"}

-----------------------------------------------------------------------------
(* Memory.                                                                 *)

Uninit == [st |-> "uninit", name |-> NoName]
Freed == [st |-> "freed", name |-> NoName]
Live(n) == [st |-> "live", name |-> n]

\* The strings a read through UserInfo.username may yield.  A freed string
\* may still be there, be overwritten, or hold another string by now; a
\* pointer malloc left unset is null or wild, and where it can be read any
\* string may be there.  A name that nobody has asked for stands for every
\* other valid string, the empty one with them.
Reads(c) ==
  IF username[c].st = "live" THEN {username[c].name} ELSE Names \cup {Garbage}

Present == {n \in Names : table[n] # NoConn}

TableWriters == {"insert", "remove"}
TableCalls == TableWriters \cup {"lookup", "bcast", "print"}

\* A GHashTable has no lock of its own: a call that overlaps a write by
\* another thread has no defined result.
Overlaps(c) ==
  \E d \in Conn \ {c} :
    /\ pc[d] \in TableCalls
    /\ pc[c] \in TableWriters \/ pc[d] \in TableWriters

NoteRace(c) == raced' = (raced \/ Overlaps(c))

-----------------------------------------------------------------------------
\* The types of the server's variables.
ServerTypeOK ==
  /\ server \in ServerStates
  /\ pc \in [Conn -> PcStates]
  /\ fd \in [Conn -> {0} \cup Fds]
  /\ file \in [Fds -> Conn \cup {NoConn}]
  /\ request \in [Conn -> Request]
  /\ username \in [Conn -> [st : {"uninit", "live", "freed"},
                            name : Names \cup {NoName}]]
  /\ table \in [Names -> Conn \cup {NoConn}]
  /\ keyOf \in [Names -> Conn \cup {NoConn}]
  /\ todo \in [Conn -> SUBSET Names]
  /\ raced \in BOOLEAN

ServerInit ==
  /\ server = "up"
  /\ pc = [c \in Conn |-> "none"]
  /\ fd = [c \in Conn |-> 0]
  /\ file = [f \in Fds |-> NoConn]
  /\ request = [c \in Conn |-> NoRequest]
  /\ username = [c \in Conn |-> Uninit]
  /\ table = [n \in Names |-> NoConn]
  /\ keyOf = [n \in Names |-> NoConn]
  /\ todo = [c \in Conn |-> {}]
  /\ raced = FALSE

Goto(c, l) == pc' = [pc EXCEPT ![c] = l]

\* A handler returns to the loop of server_listener.
Return(c) ==
  /\ Goto(c, "reading")
  /\ request' = [request EXCEPT ![c] = NoRequest]

-----------------------------------------------------------------------------
(* The main thread: accept, allocate a UserInfo, start its listener.       *)

\* Mutant: initialize_user forgets user->socket.
accept_connection_no_socket ==
  /\ server = "up"
  /\ backlog # <<>>
  /\ \E f \in Fds :
       /\ file[f] = NoConn
       /\ file' = [file EXCEPT ![f] = Head(backlog)]
  /\ Goto(Head(backlog), "reading")
  /\ backlog' = Tail(backlog)
  /\ UNCHANGED <<peer, toServer, toClient, server, fd, request, username,
                 table, keyOf, todo, raced>>

\* Mutant: accept is called before the loop and not in it.
accept_connection_once ==
  /\ server = "up"
  /\ backlog # <<>>
  /\ \A c \in Conn : fd[c] = 0
  /\ file' = [file EXCEPT ![1] = Head(backlog)]
  /\ fd' = [fd EXCEPT ![Head(backlog)] = 1]
  /\ Goto(Head(backlog), "reading")
  /\ backlog' = Tail(backlog)
  /\ UNCHANGED <<peer, toServer, toClient, server, request, username, table,
                 keyOf, todo, raced>>

\* The new UserInfo has its socket set and its username left as malloc
\* returned it.  accept takes the lowest free descriptor, and threads that
\* write to the log just then may hold any lower ones.
accept_connection ==
  /\ server = "up"
  /\ backlog # <<>>
  /\ \E f \in Fds :
       /\ file[f] = NoConn
       /\ file' = [file EXCEPT ![f] = Head(backlog)]
       /\ fd' = [fd EXCEPT ![Head(backlog)] = f]
  /\ Goto(Head(backlog), "reading")
  /\ backlog' = Tail(backlog)
  /\ UNCHANGED <<peer, toServer, toClient, server, request, username, table,
                 keyOf, todo, raced>>

\* With no descriptor left accept fails, and accept_connection exits.  Each
\* listener thread may hold one for the log file just then.
accept_fails ==
  /\ server = "up"
  /\ backlog # <<>>
  /\ Cardinality({f \in Fds : file[f] = NoConn})
       <= Cardinality({c \in Conn : pc[c] \notin {"none", "done"}})
  /\ server' = "exit_failure"
  /\ UNCHANGED <<tcpVars, pc, fd, file, request, username, table, keyOf, todo,
                 raced>>

\* SIGINT: handle_sig runs on top of main and logs first.  Where main was
\* inside a call whose lock the logger takes too (see Logger), handle_sig waits
\* for that lock for ever.
interrupted ==
  /\ CtrlC
  /\ server = "up"
  /\ server' \in {"interrupted", "hung"}
  /\ UNCHANGED <<tcpVars, pc, fd, file, request, username, table, keyOf, todo,
                 raced>>

\* handle_sig has logged.  It sends SIGQUIT to its own process group, whose
\* default action ends the process before main sees the stop flag.
handle_sig ==
  /\ server = "interrupted"
  /\ server' = "sigquit"
  /\ UNCHANGED <<tcpVars, pc, fd, file, request, username, table, keyOf, todo,
                 raced>>

\* signal, as compiled (-std=c11), makes the second SIGINT fatal.
interrupted_again ==
  /\ CtrlC
  /\ server \in {"interrupted", "hung"}
  /\ server' = "sigint"
  /\ UNCHANGED <<tcpVars, pc, fd, file, request, username, table, keyOf, todo,
                 raced>>

Signals == interrupted \/ handle_sig \/ interrupted_again

-----------------------------------------------------------------------------
(* server_listener.                                                        *)

\* The handler chosen by server_get_type, up to its first shared call.
\* handle_identify closes the descriptor of a request without a username and
\* returns to the loop, which goes on reading the closed number.
process_message(c, r) ==
  \/ /\ r.type = "IDENTIFY" /\ r.body # "bad"
     /\ Goto(c, "lookup")
     /\ request' = [request EXCEPT ![c] = r]
     /\ UNCHANGED file
  \/ /\ r.type = "IDENTIFY" /\ r.body = "bad"
     /\ file' = [file EXCEPT ![fd[c]] = NoConn]
     /\ UNCHANGED <<pc, request>>
  \/ /\ r.type \in {"STATUS", "PUBLIC_TEXT"} /\ r.body # "bad"
     /\ Goto(c, "announce")
     /\ request' = [request EXCEPT ![c] = r]
     /\ UNCHANGED file
  \/ /\ r.type = "DISCONNECT"
     /\ Goto(c, "remove")
     /\ request' = [request EXCEPT ![c] = r]
     /\ UNCHANGED file
  \/ /\ \/ r.type = "OTHER"
        \/ r.type \in {"STATUS", "PUBLIC_TEXT"} /\ r.body = "bad"
     /\ UNCHANGED <<pc, request, file>>

\* Mutant: the newest message is taken first.
server_listener_newest(c) ==
  LET d == file[fd[c]]
      last == Len(toServer[d])
  IN
  /\ pc[c] = "reading"
  /\ d # NoConn
  /\ toServer[d] # <<>>
  /\ process_message(c, toServer[d][last])
  /\ toServer' = [toServer EXCEPT ![d] = SubSeq(@, 1, last - 1)]
  /\ UNCHANGED <<peer, backlog, toClient, server, fd, username, table, keyOf,
                 todo, raced>>

\* read returns one whole message.  The socket is the one the descriptor
\* names now, which need not be the one this thread was started for.
server_listener(c) ==
  LET d == file[fd[c]] IN
  /\ pc[c] = "reading"
  /\ d # NoConn
  /\ toServer[d] # <<>>
  /\ process_message(c, Head(toServer[d]))
  /\ toServer' = [toServer EXCEPT ![d] = Tail(@)]
  /\ UNCHANGED <<peer, backlog, toClient, server, fd, username, table, keyOf,
                 todo, raced>>

\* read returns several messages at once, or part of one: jansson refuses
\* text after the first value, and the listener drops the whole buffer.
server_listener_drop(c) ==
  LET d == file[fd[c]] IN
  /\ pc[c] = "reading"
  /\ d # NoConn
  /\ \E k \in 1 .. Len(toServer[d]) :
       toServer' = [toServer EXCEPT ![d] = SubSeq(@, k + 1, Len(@))]
  /\ UNCHANGED <<peer, backlog, toClient, serverVars>>

\* Mutant: the loop does not stop when read returns 0.
server_listener_endless(c) ==
  LET d == file[fd[c]] IN
  /\ pc[c] = "reading"
  /\ d # NoConn
  /\ AtEndOfFile(d)
  /\ UNCHANGED <<tcpVars, serverVars>>

\* read returns 0: the thread ends.  The socket stays open and the user stays
\* in the table.
server_listener_end(c) ==
  LET d == file[fd[c]] IN
  /\ pc[c] = "reading"
  /\ d # NoConn
  /\ AtEndOfFile(d)
  /\ Goto(c, "done")
  /\ UNCHANGED <<tcpVars, server, fd, file, request, username, table, keyOf,
                 todo, raced>>

-----------------------------------------------------------------------------
(* Sending.                                                                *)

\* send to the socket of a UserInfo, its result ignored.  On a connection
\* that was reset it fails once, or raises SIGPIPE, which ends the process.
send_json_response(u, m) ==
  LET d == file[fd[u]] IN
  \/ /\ d = NoConn
     /\ UNCHANGED <<peer, toClient, server>>
  \/ /\ d # NoConn
     /\ SendToPeer(d, m) \/ SendToDeparted(d)
     /\ UNCHANGED server
  \/ /\ d # NoConn
     /\ peer[d] = "reset"
     /\ server' \in {server, "sigpipe"}
     /\ UNCHANGED <<peer, toClient>>

\* JSON cannot be built around a string that is not valid UTF-8.
Buildable(s) == s \in Names \ Unsendable

\* The answer to IDENTIFY goes to the socket of the asking UserInfo.  When it
\* cannot be built nothing is sent.
identify_response(c, type, s) ==
  IF Buildable(s)
  THEN send_json_response(
         c, [type |-> type, name |-> s, from |-> c, seq |-> request[c].seq])
  ELSE UNCHANGED <<peer, toClient, server>>

-----------------------------------------------------------------------------
(* handle_identify.                                                        *)

\* Mutant: the name is not looked up.
handle_identify_unchecked(c) ==
  /\ pc[c] = "lookup"
  /\ Goto(c, "absent")
  /\ NoteRace(c)
  /\ UNCHANGED <<tcpVars, server, fd, file, request, username, table, keyOf,
                 todo>>

handle_identify(c) ==
  /\ pc[c] = "lookup"
  /\ Goto(c, IF table[request[c].name] # NoConn THEN "taken" ELSE "absent")
  /\ NoteRace(c)
  /\ UNCHANGED <<tcpVars, server, fd, file, request, username, table, keyOf,
                 todo>>

identify_response_failed(c) ==
  /\ pc[c] = "taken"
  /\ identify_response(c, "USER_ALREADY_EXISTS", request[c].name)
  /\ Return(c)
  /\ UNCHANGED <<backlog, toServer, fd, file, username, table, keyOf, todo,
                 raced>>

\* Between the lookup and the insertion no lock is held.
handle_identify_absent(c) ==
  /\ pc[c] = "absent"
  /\ Goto(c, "insert")
  /\ UNCHANGED <<tcpVars, server, fd, file, request, username, table, keyOf,
                 todo, raced>>

\* Mutant: create_user does not set the username.
server_add_user_nameless(c) ==
  LET n == request[c].name IN
  /\ pc[c] = "insert"
  /\ table' = [table EXCEPT ![n] = c]
  /\ NoteRace(c)
  /\ Goto(c, "welcome")
  /\ UNCHANGED <<tcpVars, server, fd, file, request, username, keyOf, todo>>

\* create_user makes the UserInfo point to a new copy of the name; its old
\* string, if it is a key, stays in the table without an owner.  When the
\* name is in the table already, g_hash_table_insert replaces the value,
\* keeps the old key and frees the new one.
server_add_user(c) ==
  LET n == request[c].name
      disowned == [k \in Names |-> IF keyOf[k] = c THEN NoConn ELSE keyOf[k]]
      isNew == table[n] = NoConn
  IN
  /\ pc[c] = "insert"
  /\ table' = [table EXCEPT ![n] = c]
  /\ keyOf' = IF isNew THEN [disowned EXCEPT ![n] = c] ELSE disowned
  /\ username' = [username EXCEPT ![c] = IF isNew THEN Live(n) ELSE Freed]
  /\ NoteRace(c)
  /\ Goto(c, "welcome")
  /\ UNCHANGED <<tcpVars, server, fd, file, request, todo>>

identify_response_success(c) ==
  /\ pc[c] = "welcome"
  /\ \E s \in Reads(c) : identify_response(c, "SUCCESS", s)
  /\ Goto(c, "announce")
  /\ UNCHANGED <<backlog, toServer, fd, file, request, username, table, keyOf,
                 todo, raced>>

-----------------------------------------------------------------------------
(* send_json_except_user: new_user_identified_response, handle_status and  *)
(* handle_public_text end in it.                                           *)

\* Mutant: the type the client knows for a change of status.
announced_mistyped ==
  [IDENTIFY |-> "NEW_USER", STATUS |-> "STATUS_UPDATE",
   PUBLIC_TEXT |-> "PUBLIC_TEXT_FROM"]

announced ==
  [IDENTIFY |-> "NEW_USER", STATUS |-> "STATUS",
   PUBLIC_TEXT |-> "PUBLIC_TEXT_FROM"]

carriesName == {"NEW_USER", "PUBLIC_TEXT_FROM"}

send_json_except_user_init(c) ==
  /\ pc[c] = "announce"
  /\ Goto(c, "bcast")
  /\ todo' = [todo EXCEPT ![c] = Present]
  /\ UNCHANGED <<tcpVars, server, fd, file, request, username, table, keyOf,
                 raced>>

\* Mutant: no one is skipped.
send_json_except_nobody_visit(c, n) ==
  LET u == table[n]
      type == announced[request[c].type]
  IN
  IF u = NoConn
  THEN UNCHANGED <<peer, toClient, server>>
  ELSE send_json_response(
         u, [type |-> type, name |-> NoName, from |-> c, seq |-> request[c].seq])

\* Whether the message around the sender's username s can be built.
CanAnnounce(c, s) ==
  /\ request[c].body # "unsendable"
  /\ announced[request[c].type] \in carriesName => Buildable(s)

\* The user with the sender's username is skipped.  Usernames are compared as
\* strings, through whatever the two pointers yield; the message is built
\* around the sender's pointer again for every recipient, and not sent when
\* that fails.
send_json_except_user_visit(c, n) ==
  LET u == table[n]
      type == announced[request[c].type]
      named == type \in carriesName
  IN
  \/ /\ u \in {NoConn, c}
     /\ UNCHANGED <<peer, toClient, server>>
  \/ /\ u \notin {NoConn, c}
     /\ \E mine \in Reads(c) :
          \/ /\ mine \in Reads(u) \/ ~CanAnnounce(c, mine)
             /\ UNCHANGED <<peer, toClient, server>>
          \/ /\ mine = Garbage \/ Reads(u) # {mine}
             /\ CanAnnounce(c, mine)
             /\ send_json_response(
                  u, [type |-> type, name |-> IF named THEN mine ELSE NoName,
                      from |-> c, seq |-> request[c].seq])

\* Mutant: "break" where the loop has "continue".
send_json_except_user_break(c) ==
  /\ pc[c] = "bcast"
  /\ \E n \in todo[c] :
       /\ send_json_except_user_visit(c, n)
       /\ todo' = [todo EXCEPT ![c] = IF table[n] = c THEN {} ELSE @ \ {n}]
  /\ NoteRace(c)
  /\ UNCHANGED <<backlog, toServer, pc, fd, file, request, username, table,
                 keyOf>>

\* Mutant: the iterator does not advance.
send_json_except_user_stuck(c) ==
  /\ pc[c] = "bcast"
  /\ \E n \in todo[c] : send_json_except_user_visit(c, n)
  /\ NoteRace(c)
  /\ UNCHANGED <<backlog, toServer, pc, fd, file, request, username, table,
                 keyOf, todo>>

send_json_except_user(c) ==
  /\ pc[c] = "bcast"
  /\ \E n \in todo[c] :
       /\ send_json_except_user_visit(c, n)
       /\ todo' = [todo EXCEPT ![c] = @ \ {n}]
  /\ NoteRace(c)
  /\ UNCHANGED <<backlog, toServer, pc, fd, file, request, username, table,
                 keyOf>>

send_json_except_user_end(c) ==
  /\ pc[c] = "bcast"
  /\ todo[c] = {}
  /\ Return(c)
  /\ UNCHANGED <<tcpVars, server, fd, file, username, table, keyOf, todo,
                 raced>>

-----------------------------------------------------------------------------
(* handle_disconnect.                                                      *)

\* Mutant: the table is made with no function that frees its keys.
server_remove_user_leak(c) ==
  /\ pc[c] = "remove"
  /\ \E s \in Reads(c) :
       IF s \in Present
       THEN /\ table' = [table EXCEPT ![s] = NoConn]
            /\ keyOf' = [keyOf EXCEPT ![s] = NoConn]
       ELSE UNCHANGED <<table, keyOf>>
  /\ NoteRace(c)
  /\ Goto(c, "removed")
  /\ UNCHANGED <<tcpVars, server, fd, file, request, username, todo>>

\* The entry is found by the string the UserInfo's pointer yields.  Removing
\* it frees its key, which is the string a UserInfo still points to.
server_remove_user(c) ==
  /\ pc[c] = "remove"
  /\ \E s \in Reads(c) :
       IF s \in Present
       THEN /\ table' = [table EXCEPT ![s] = NoConn]
            /\ keyOf' = [keyOf EXCEPT ![s] = NoConn]
            /\ username' = [d \in Conn |->
                 IF d = keyOf[s] THEN Freed ELSE username[d]]
       ELSE UNCHANGED <<table, keyOf, username>>
  /\ NoteRace(c)
  /\ Goto(c, "removed")
  /\ UNCHANGED <<tcpVars, server, fd, file, request, todo>>

handle_disconnect_print(c) ==
  /\ pc[c] = "removed"
  /\ Goto(c, "print")
  /\ UNCHANGED <<tcpVars, server, fd, file, request, username, table, keyOf,
                 todo, raced>>

print_user_table(c) ==
  /\ pc[c] = "print"
  /\ Return(c)
  /\ NoteRace(c)
  /\ UNCHANGED <<tcpVars, server, fd, file, username, table, keyOf, todo>>

-----------------------------------------------------------------------------
(* Undefined behaviour.                                                    *)

\* A thread hashes or compares through a username that was never set.
wild_username(c) ==
  /\ username[c].st = "uninit"
  /\ \/ pc[c] = "remove"
     \/ pc[c] = "bcast" /\ todo[c] \cap Present # {}
  /\ server' = "sigsegv"
  /\ UNCHANGED <<tcpVars, pc, fd, file, request, username, table, keyOf, todo,
                 raced>>

\* After two calls on the table have overlapped: a thread in a call faults,
\* a lookup misses an entry, an iteration skips or repeats entries.
corrupted_call(c) ==
  /\ raced
  /\ pc[c] \in TableCalls
  /\ \/ /\ server' = "sigsegv"
        /\ UNCHANGED <<pc, todo>>
     \/ /\ pc[c] = "lookup"
        /\ Goto(c, "absent")
        /\ UNCHANGED <<server, todo>>
     \/ /\ pc[c] = "bcast"
        /\ \E s \in SUBSET Names : todo' = [todo EXCEPT ![c] = s]
        /\ UNCHANGED <<server, pc>>
  /\ UNCHANGED <<tcpVars, fd, file, request, username, table, keyOf, raced>>

\* ... or an entry is lost, its key leaked.
corrupted_table(n) ==
  /\ raced
  /\ table[n] # NoConn
  /\ table' = [table EXCEPT ![n] = NoConn]
  /\ keyOf' = [keyOf EXCEPT ![n] = NoConn]
  /\ UNCHANGED <<tcpVars, server, pc, fd, file, request, username, todo, raced>>

-----------------------------------------------------------------------------
\* One step of the listener thread of c.
ListenerStep(c) ==
  \/ server_listener(c)
  \/ server_listener_drop(c)
  \/ server_listener_end(c)
  \/ handle_identify(c)
  \/ handle_identify_absent(c)
  \/ identify_response_failed(c)
  \/ server_add_user(c)
  \/ identify_response_success(c)
  \/ send_json_except_user_init(c)
  \/ send_json_except_user(c)
  \/ send_json_except_user_end(c)
  \/ server_remove_user(c)
  \/ handle_disconnect_print(c)
  \/ print_user_table(c)

ServerNext ==
  /\ Running
  /\ \/ accept_connection
     \/ accept_fails
     \/ Signals
     \/ \E c \in Conn : ListenerStep(c) \/ wild_username(c) \/ corrupted_call(c)
     \/ \E n \in Names : corrupted_table(n)
=============================================================================
