# CIRCE: specification and verification

CIRCE is a chat server and a chat client in C, which talk JSON over TCP
(`src/src/c/`). This directory holds TLA+ models of both programs and of the
network between them, TLC runs on small instances, and TLAPS proofs for
instances of any size. Paths such as `server.c:178` are relative to
`src/src/c/`.

Contents: 1 the system, 2 the modules, 3 from code to model, 4 the runs,
5 bounds, 6 fairness, 7 the proofs, 8 what the code does that its texts deny,
9 what is not modelled, 10 plan.

## 1. The system

| component | state | operations | module |
|---|---|---|---|
| server, main thread (`server.c` main, `connection.c` accept_connection) | descriptors, one `UserInfo` per connection | accept, start a thread, SIGINT | `ChatServer` |
| server, one listener thread per connection (`server_listener` and the handlers) | position in the handler, its buffer | IDENTIFY, STATUS, PUBLIC_TEXT, DISCONNECT; ten more types do nothing | `ChatServer` |
| `user_table`, a GHashTable shared by all listener threads without a lock | name -> `UserInfo`, the key strings | lookup, insert, remove, iterate, foreach | `ChatServer`, abstractly `NameRegistry` |
| TCP | buffers and backlog | connect, send, read, close, reset | `Tcp` |
| client, main thread (`client.c` main) | `logged_in`, the stop flag | `\login`, `\logout`, `\status`, `\leave`, a line of text, SIGINT | `ChatClient` |
| client, listener thread (`client_listener`) | `logged_in` (shared, no lock) | read, handle an answer, end | `ChatClient` |
| start-up (`initialize_config`, `parse_arguments`, the first lines of both mains) | configuration | parse the command line | `Startup` |
| socket set-up (`connection.c` create_socket ... start_listening, connect_to_server) | what the kernel keeps at an address | socket, setsockopt, bind, listen, connect, exit | `SocketSetup` |
| texts and the JSON helpers (`json_utils.c`, and the buffers of both programs) | `command`, `msg`, `username`, JSON buffers of fixed size | split a line, build, extract, copy | `TextPath`; the outcomes as data in `ChatServer` |
| logger (`logger.c`) | a static buffer, the log directory, the locks inside localtime and malloc | format, copy, append, print; also on top of main, in both SIGINT handlers | `Logger` |

A client's main thread sends requests; the listener thread the server runs for
that connection reads them one by one, calls the hash table, and sends: an
answer to the asker (IDENTIFY only) and then one message per other user in the
table. The client's listener thread reads these. Nothing in either program is
protected by a lock.

What is hard here, and what makes it correct:

* Listener threads interleave at every table call. A name is looked up
  (`server.c:178`) and inserted (`server.c:186`) with nothing in between;
  iterations overlap insertions. *Names follow a registry; broadcasts keep
  their order, reach everyone, never return to their sender.*
* Memory: the table's key is the string a `UserInfo` points to, freed by the
  table (`server.c:401, 437, 442`); a new `UserInfo` has no username at all
  (`server.c:62-71`). *A key has one owner; a registered user has a name.*
* Descriptors: `handle_identify` closes a number that its thread goes on using
  (`server.c:175`); no other descriptor is ever closed. *Two descriptors never
  name one socket.*
* `send` blocks when buffers are full, and raises SIGPIPE when the peer has
  gone. *Handlers return; nobody waits for each other.*
* A read may return several messages or part of one, and is then dropped
  whole. *Nothing that was dropped is counted on.*
* The client's two threads share `logged_in`: an answer may arrive after its
  user has done something else. *Nothing is done on behalf of a user before a
  name was set.*

* The logger formats into one static buffer (`logger.c:28`) from every thread,
  and from a signal handler that runs on top of main. *No copy leaves its
  buffer; a line is whole unless two used it at once; logging returns.*
* Both SIGINT handlers log before they do anything else (`server.c:451`,
  `client.c:591`), on top of a main that may hold a lock the log needs. *That, and
  nothing else in the logger, can make somebody wait for ever.*
* Every string has a buffer of fixed size, and none of the sizes agree. *A text
  that another user reads is what was typed, its blanks aside and but for the one
  line the client mistakes for an empty one.*
* A server that ends leaves connections at its address, and another may be
  started there. *At most one serves an address, and one that has its socket does.*

`PROJECT.json` lists the hazards line by line.

## 2. The modules

```
Tcp <- ChatServer <- ServerWorld <- MCServer
 ^                     ^  ^   ^- refines NameRegistry
 |                     |  '----- ServerProofs <- RegistryProofs, OrderProofs
 '-- ChatClient <---- Circe <- MCCirce              |
                        ^----- CirceProofs <--------'
Startup     <- MCStartup,  StartupProofs
SocketSetup <- MCSocketSetup, SocketProofs
TextPath    <- MCTextPath, TextProofs
Logger      <- MCLogger,   LoggerProofs
```

* `Tcp`: the kernel's part, shared by both programs. External: modelled from
  how the code calls it.
* `ChatServer`: the server; one operator per call that other threads can see.
* `ServerWorld`: the server among *arbitrary* peers, which may connect, send
  any request, read and leave at any time. The server's properties are stated
  here.
* `NameRegistry`: what the server promises about names, without threads' steps,
  strings, sockets or iterations. `ServerWorld` is shown to implement it.
* `ChatClient`: the two threads of a client, and its signals.
* `Circe`: the server with clients of this repository and nobody else.
* `Startup`: command line to configuration.
* `SocketSetup`: processes that bring up a server at an address, end, and are
  started again, among clients that connect.
* `TextPath`: one user's lines on their way through both programs, with every
  buffer at its size in the source.
* `Logger`: the threads and the signal handler of one process, logging.
* `*Proofs`: the theorems.
* `MC*`: definitions for TLC.

## 3. From code to model

**Connections.** On accept the server makes a socket, a `UserInfo` and a thread,
and never frees any of them. One element of `Conn` stands for the three, and
for the client process at the other end. `fd[c]` is `UserInfo.socket`, a
number; `file[f]` is the socket this number names now. They part after
`close(sock)` in `handle_identify`, and an accept may then hand the number to
another connection, whose stream two threads read. `accept` returns the lowest
free descriptor; as every log line opens and closes a file, any lower one may
be taken at that moment, so the model takes any free one.

**Steps.** A step is one call that another thread or process can observe: one
table call, one entry of an iteration with its `send`, one `read`. The rest of
the code runs between two such calls and is joined to one of them. `pc[c]`
says where a thread is:

| pc | the thread is about to | lines |
|---|---|---|
| reading | read | server.c:92 |
| lookup | look the name up | 178 |
| taken | answer USER_ALREADY_EXISTS | 180 |
| absent, insert | insert (absent: has not begun) | 184-186, 419-438 |
| welcome | answer SUCCESS | 187 |
| announce | begin an iteration | 361 |
| bcast | visit an entry and send, or end | 362-371 |
| remove | remove its entry | 442 |
| removed, print | print the table (removed: has not begun) | 292, 532 |

**Table.** `table[n]` is the `UserInfo` under a name, `keyOf[n]` whose username
pointer is the key string of the entry: g_hash_table_insert on an existing key
keeps the old key and frees the new one, which `create_user` has just put into
the `UserInfo`. `username[c]` is that pointer: unset, live or freed.

**Undefined behaviour** is a choice over outcomes, those that are listed here. Reading a
freed string, or one whose pointer was never set, gives any name or garbage, where a name
that nobody has asked for stands for every other valid string; following an unset
pointer may also fault (`wild_username`). When a call that writes the table overlaps another thread's
call, `raced` becomes true, and from then on threads in a call may fault, miss
entries, repeat them, or lose an entry (`corrupted_call`, `corrupted_table`).
Properties that can hold only until then say so; the memory and descriptor
invariants hold even after.

**Data.** A request is its type, its name and what its text can do (`body`): be
refused, be handled, or be handled although no JSON can be built around it, as
when cutting at 255 bytes leaves half a character (`json_utils.c:165`).
`seq` and `from` say which request caused a message; they are for the
properties only.

**Streams.** A read takes one whole message, which is handled, or any number of
messages or part of one, which jansson refuses as a whole; then the buffer is
dropped (`server_listener_drop`, `client_listener_drop`). A closed connection
with unread data is reset; a send to a reset connection fails once and
otherwise ends the process.

**Client.** `ui[c]` is where main is; `draft[c]` the request it is about to
send. A command tests `logged_in` in one step and sends in another; the listener
may write `logged_in` in between. `\status` tests nothing, and sends a status
it has just called invalid (`client.c:195-198`). After the end of stdin
(`StdinEnds`, ui "eof") `get_input` fails each time and main loops until it sees
the stop flag (`client.c:51-54`).
When the server has gone, a send raises SIGPIPE until the client's
listener has seen the end of file and closed the socket, and fails unseen
after that.

**SIGINT.** Both handlers begin with a call of the logger (`server.c:451`,
`client.c:591`) and run on top of main, which does nothing meanwhile. The call takes
locks of the C library that main may hold just then; the handler then waits for ever.
So a signal takes the server from "up" to "interrupted" or "hung", and a client's
`stop` from "no" to "logging" or "hung"; only from the first does a further step
finish the handler. The server's sends SIGQUIT to its own process group
(`server.c:453`), which nobody catches: the clean-up after the loop is dead code. The
client's sets the stop flag and interrupts a blocking call, unless the signal came
just before it. The makefile compiles with `-std=c11`, where `signal` resets the
handler, so the second signal is fatal, also to a handler that hangs. When main may
be holding a lock is left open in these modules, but for a client whose stdin has ended,
where the loop calls nothing that has one; what the locks are is in `Logger`.

**Texts.** `TextPath` follows one user's line: `fgets`, `sscanf` into `command`
and `msg`, the JSON in 256 bytes, the server's copies of 9 and 255 bytes, its own
JSON in 1024, and the copies at another client. A text is what the sizes and
JSON can tell of it: its bytes, its bytes when escaped, whether it is UTF-8, how
many words, whether it names a status. The blanks after a line's first word count as
one: `sscanf` drops them, and `strcat` puts one back. `strncpy` to a full buffer leaves
no end: the copy then reads as any text at least as long. `msg` is uninitialised before
the first line (`client.c:26`), and starts as any text. Three overruns of the
code are in it. `strcat` appends a text to `command[16]` (`client.c:71`), and `sscanf`
writes a first word of any length there: the bytes fall into variables that are no longer
needed and then into the line itself, behind the place `sscanf` has read, so the model
gives `command` the whole text, and a `strcat` that checks bounds ends the client instead
(`strcat_aborts`). But where the word's end falls on the first byte of the line, main takes
the line for empty and goes on without clearing `command` and `msg` (`client.c:65-67`):
`invalid_input` refuses it, and `kept` remembers that the next line starts with the rest
of this one. `LineAt` is how far behind `command` the line lies. C does not say; in the build of
the makefile (gcc, `-O2`) it is 64 bytes, `MCTextPath` has that, and the theorems are for any
value. `json_extract_field_value` writes 32 bytes into `extra[9]` (`client.c:476`), and the rest
falls into `value`, which has been tested.

Each stream holds nothing, one message, or `Joint`: several that will be read together, are no
JSON and are dropped (`server.c:104-106`, `client.c:114-117`). Nobody waits for a reader: main
sends its next request and the server its next answer or announcement behind one
that has not been read, and what other users cause may come before or after
(`Writes`). The server's copy of the name may be freed: by the insert, when another user
had the same name entered just before (`server.c:437`), by the user's own DISCONNECT
(`server.c:442`), which may find the entry or not, and by another user whose own freed
name reads as this one (`other_thread_frees`). A name that has been freed reads as itself
or as anything memory may hold (`Reads`).

**Logger.** A frame is a thread or the handler, which runs on top of main: while
it runs main does not. `snprintf`, `strlen` and `strcpy` go byte by byte
(strcpy as `__strcpy_chk`, which counts first and then copies that many). There are two
locks that a frame cannot take while it or the frame below has them: that of `localtime`, and
the heap's, which `malloc`, `fopen`, `free` and `fclose` take; `takes_lock` takes one and the
call's own step gives it back. (The locks of stdio's streams are not among them: they belong
to a thread, which may take them again, and the handler is of main's thread.) A thread that is not logging may hold either for something
else (`elsewhere`). stat and mkdir of the directory are two steps, and a line that is lost has
its path freed first. The server formats each line three times, once for the
file and twice for the console (`logger.c:207-212`). The bytes of a line are the
frame that logs it, which is how a mixed line is recognised.

**Sockets.** The kernel's rules are external. An address is an ip and a port; two overlap
when the port is the same and the ip is, or one of them is 0.0.0.0. A bind fails for an
address the host cannot assign, another host's or a privileged port's (`Assignable`), and
where another is bound that does not share; with SO_REUSEADDR it succeeds unless somebody
listens there, and listen then decides; connections of an ended process linger at its
address. `socket` and `setsockopt` may fail at any time (`connection.c:61-64, 72-75`), and
each call that fails ends the program.

## 4. The runs

| run | question | result |
|---|---|---|
| `server_any` | What do memory, descriptors and the table keep whatever is sent, and whichever of the modelled outcomes undefined behaviour has? | DescriptorsNameOwners, RegisteredWasIdentified, KeyOwnership, NoEcho hold, and IInv, from from which the proofs get them; 3.1M states |
| `server_deep` | Do names follow the registry, are broadcasts in order and complete, over four requests? | ImplementsRegistry, InOrder, BroadcastReachesAll hold, and BroadcastInv, which the proofs use; 1.9M states |
| `server_progress` | Is everyone accepted, do handlers return and listeners of departed peers end? | ConnectionAccepted holds, "unless the process ends", which `accept_fails` does when descriptors run out, and unless handle_sig hangs; HandlerReturns, DepartedListenerEnds hold, and HandlersAdvance: no step sends a handler back; 0.15M states |
| `startup` | Does every command line lead where the code intends? | ConfiguredAsGiven, StartupEnds hold, and StartupInv, which the proofs use and which bounds the port; 0.5M states |
| `socket_setup` | Two servers started, ended and started again, at one address, at two that overlap or not, or at one that is not the host's: who serves? | at most one serves an address (ServesAlone); one that has its socket, at an address the host can assign, comes to serve unless another does, although connections of its predecessor linger (StartedServes); there bind and listen fail only where another listens (FailsOnlyToOthers); SocketInv is for the proofs; 0.6M states |
| `circe` | What do clients add? | clients are peers (ImplementsWorld), no descriptor is reused (NoReuse), nothing but a status is handled before a name was set (IdentifiedFirst), and only that can make the server fault (OnlyStatusFaults); CirceInv is for the proofs, and says that both ends of an open connection are read; 2.0M states |
| `circe_live` | Does a client learn that the server has ended, and does it end when told to, with handlers that may hang? | its listener does, unless its own handler hangs (ServerEndSeen), and it ends unless a handler hangs or it waits for a line (StopHeeded); 0.1M states |
| `circe_sends` | Do client and server block each other, when the server also sends to another client? | no: every send of a client returns (SendReturns); 0.4M states |
| `text_path` | Lines at the edges of every buffer: what arrives? | a text that was typed (ShownAsTyped), arguments of the same line (ArgumentsFresh), but for the rest of a refused line; what a client could build the server can build around (NothingUnbuilt); a login whose request and answer are each read by themselves is answered, unless the name is freed (LoginAnswered); TextInv is for the proofs; 1.0M states |
| `logger` | Threads and a handler log at once: what is written, and does logging return? | copies stay inside their buffers (CopyStaysInside), lines are whole until two frames mixed (LinesWhole), the race for the directory costs a frame one line at most (LostOnce), somebody can move (SomeoneMoves) and calls return (CallsReturn) unless SIGINT came while main had a lock the handler needs; LoggerInv is for the proofs; 0.3M states |
| `taken_name` | Is a taken name refused? | no: see 8 |
| `sigpipe` | Is a failed send reported and survived? | no: see 8 |

Every property has a mutant, an operator next to the one it replaces ("Mutant:"
in its comment), that TLC finds to break the property.

Seven more configurations show, one property each, that a text of the repository is
not true of the program. They are not among the runs; `tlc -config X.cfg M` finds
each one violated, and section 8 says what they show.

| configuration | module | property |
|---|---|---|
| `MCCirceAlias.cfg` | `MCCirce` | DisconnectRemovesUser |
| `MCCirceStatus.cfg` | `MCCirce` | KnownToClient |
| `MCCirceGoodbye.cfg` | `MCCirce` | GoodbyeMeant |
| `MCStartupFlags.cfg` | `MCStartup` | FlagsHonoured |
| `MCTextPathSent.cfg` | `MCTextPath` | TextSent |
| `MCTextPathStatus.cfg` | `MCTextPath` | StatusUnderstood |
| `MCLoggerSignal.cfg` | `MCLogger` | InterruptEnds |

`NoReuse` is violated among arbitrary peers, since one of them may send an
IDENTIFY without a username. It holds in `Circe` because the client tests the length of
a username before it sends. The same difference exists for `IdentifiedFirst`.

## 5. Bounds

* `MaxRequests` bounds the requests sent in all. Three let two users identify
  and one act while the other leaves, and let one user identify twice and
  disconnect. `server_deep` has four: two names and two broadcasts, which
  order and completeness need. `circe_live` has three on one connection, since what
  it asks does not depend on full streams. `circe_sends` has four on two: one user logs
  in and waits to be told of the other, whose requests are handled, queued and
  blocked, with the server blocked in a send to either.
* `BufferCap` is the messages a stream holds. One is enough for sends to block;
  `server_deep` has two, so that two broadcasts may be queued, and one read
  may return both.
* `QueueSize` and `MaxFd` are reached in `server_progress`, with two connections for a
  backlog of one and two descriptors, one of which a log line may hold.
* Two connections show every two-thread interleaving; the properties relate at
  most two connections. The theorems speak of any number.
* `UntilRaced` stops a run where table calls have overlapped. It is used where the
  property says "until then"; `server_any` and `server_progress` go on.
* `Symmetry` permutes connections and names, `ConnSymmetry` connections only
  (`server_any` tells the names apart: one cannot be sent). Runs with liveness use none.
* `CtrlCEarly` (`server_progress`): Ctrl+C comes before a second request has been sent, and the
  run stops where the process ends. Every property there is "while it serves", and the
  signal only meets the accept loop.
* `OneInterrupted` (`circe`): SIGINT comes at one client, and its handler does not hang, since
  one that takes long passes through the same states; the run stops where
  calls have overlapped or descriptors have run out. The theorems have no such bound.
* `OneTalks` (`circe_sends`): no client leaves, and one of the two sends more than one request; so
  the other is whom the server's sends may wait for.
* `InBudget` (Circe) begins a command only when its request may still be sent,
  so that a client never waits for the bound.
* `Startup` uses an int of 32 values and a long of 128 with a largest port of 7; the
  numerals reach beyond both. What matters is their order and that a long is
  cut to an int.
* `StdinEnds` and the server's `CtrlC` are TRUE in `circe_live` (and `MCCirceGoodbye.cfg`), where the properties
  are about them; `CtrlC` also in `server_progress`.
* `TextPath` has the sizes of the source, not small ones. `AllLines` has a line just
  below, at and above each limit a line meets, one of each kind (a text
  that grows when escaped, one that is no UTF-8, a status in both cases), and words that
  end where the line lies; `StrayTexts` is what memory may hold. `Paced`: the user sends nothing
  while an answer and an announcement are both on their way. It stops only the user, who
  need not go on anyway.
* `Logger`: a static buffer of two bytes and a line that is cut to it, so that every
  byte of the buffer is written by everybody. Main logs twice, since the second line
  shows that only one is lost; the listener and the handler once. The server's main has
  logged before it accepts anybody (`server.c:49`). `SignalEarly`: the handler is in its call
  only while any other call is in its part for the file, where the locks and the directory
  are. The client, where main and the listener overlap from the first line, is
  covered by the theorems, which are for any number of threads of either program.
* `SocketSetup`: two servers, two clients, four starts, and four addresses: 0.0.0.0 and a
  specific one on one port, which overlap, one on another port, and one that is not the
  host's. A server can be ended and started again while the other tries too.

CHECK_DEADLOCK is off everywhere: requests are bounded, a server that has ended and
clients that have left stop, and so does a configured program.

## 6. Fairness

`WorldFairness`: weak fairness for each listener thread, for the accept loop,
and for each peer's reading. The first two are the kernel's scheduling of
threads of one process; nothing in the server waits for anything but its calls. The
handler of SIGINT ends once it is "interrupted"; when it is "hung" nothing more is
asked of main, nor of the listeners (`Serving`), which log every message and so wait
for the same lock sooner or later.
The third is an assumption on peers; the repository's client meets it, because
its listener thread does nothing but read. Nothing is assumed of connecting,
sending and leaving. Weak fairness is enough: a listener step stays enabled
until taken, as nobody else can take its thread's step.

`CirceFairness`: the same for the server, for each client's two threads, and for
`handle_sigint` once it logs. A hung handler binds the client's listener to nothing
(`ListenerGoesOn`), as it logs what it reads (`client.c:113`). Users are not fair: they
may never type anything more.

`LiveLoggerSpec`: weak fairness for each frame, for a call outside the logger that has a
lock, and for the end of the handler: the kernel runs every thread, and a handler that
has begun. For `takes_lock` it is strong: a lock that is free again and again is got at
last, however often others take it in between. That is assumed of the C library and the
kernel, which wake a waiting thread each time. Nobody is obliged to log or to press Ctrl+C. `LiveTextSpec`: the
server's thread and the two handlers of what a listener reads; the user may stop
at any line. `SocketSpec`: a process that has been started makes its next call. In each,
the step stays enabled until taken, or, where it waits for a lock or a full buffer,
the property says so.

## 7. The proofs

`ServerProofs` proves, for any set of connections, names, requests and any
limits, that `IInv` is inductive (`Invariance`), and with it

* `TypesCorrect`, `DescriptorsSafe`, `RegisteredSafe`, `KeysSafe`, `EchoFree`:
  the types and the four other invariants of `server_any`.

The assumptions are those on the constants (`TcpAssumption`,
`ServerAssumption`, `WorldAssumption`, and in the other modules
`ClientAssumption`, `CirceAssumption`, `StartupAssumption`, `TextAssumption`,
`LoggerAssumption`, `SocketAssumption`); nothing else is assumed.

Why `IInv` and not just the five. `DescriptorsNameOwners` and
`RegisteredWasIdentified` need `Accepting`: a connection waits in the backlog
once, has no descriptor until accepted, and only accepted ones have threads and
entries; otherwise an accept could overwrite the number of a connection in use.
`KeyOwnership` needs `Handling`: a thread that inserts or removes has the
request that brought it there, with a name if it is an IDENTIFY, which in turn
needs `QueuedNames`: whatever waits in a stream has such a name as well.
`NoEcho` needs `DescriptorsNameOwners`: a visit skips the sender's own
`UserInfo`, whatever its string says by then, so the message leaves through the
descriptor of another; that number leads to the socket of a `UserInfo` which
carries it, and without reuse that is not the sender's. The proof treats the
visit of one entry (`VisitNoEcho`), answers, which are no broadcasts
(`ResponseNoEcho`), and reads and closes, which only remove messages.

`CirceProofs` proves that the clients keep their types (`ClientTypesCorrect`)
and that every step of a client is a step `ServerWorld` allows a peer, or one
the server cannot see (`CirceImplementsWorld`). So everything proved of
the server holds in the whole system (`CirceInvariance`).

It then proves `NoReuseInCirce` and `IdentifiedFirstInCirce`, which do not hold
among arbitrary peers. Neither is inductive, and `CirceInv` is what they need
besides `IInv`. That a client is logged in only after its name was set follows
from the SUCCESS it has read, which was in a stream, which a thread at "welcome"
put there; that a text is handled only after that follows from the stream it
waited in, from the client that had tested `logged_in` before it sent. So
`NothingUnnamed` speaks of all these places at once, and a step carries it from
one to the next. For the answer to be in the right stream, every descriptor must
still name its own socket (`OwnSockets`), and for that, no request that closes
one may be waiting (`ClosesNothing`).

More follows from the two. `OnlyStatusFaultsInCirce`: the one thing a client may
have handled before it has a name is a `\status`, so that is all that can make the
server follow an unset pointer; `FaultIsWild` says that a server faults nowhere
else before `raced`. `NeverEchoedInCirce` and `HeardInOrderInCirce` are `NoEcho`
and `InOrder` without their condition on reused descriptors, which `NoReuse`
discharges. `CirceKeepsRegistry`, `CirceReachesAll` and
`CirceHandlersAdvance` carry over what is proved of the server. `BothEndsReadInCirce` is the safety half of `SendReturns`: while the
server is up each direction of an open connection has its reader, the client's
listener or the thread that has been or will be started, so whoever is blocked in a
send waits for somebody who is not waiting for it; that the reader does come to
read is fairness, and is left to `circe_sends`.

`RegistryProofs` proves that the server implements `NameRegistry`
(`RegistryImplemented`). The view of a connection is read off its thread: how far
its request has come (`RStage`) and which name it is about (`RWanted`). Each step
of a handler maps to one action of the registry (to see a name free or held, to
take it, to be answered, to release one, or to break once calls have overlapped),
and every other step to none. It needs `Handling` of `IInv`: a thread past its
lookup has a name.

`OrderProofs` proves `InOrder` (`InOrderAlways`) and `BroadcastReachesAll`
(`BroadcastReaches`). The invariant `OrderInv` says where
the requests of a connection are: those in its stream are in the order they were
sent, all newer than the one its thread is at, which is no older than anything a peer
has heard of it. A broadcast carries the number of the request at hand, and
`DescriptorsNameOwners` with the absence of reuse says that this request came
from the connection's own stream. For completeness `ReachInv` says that whomever a
broadcast must reach has heard it already, or is the table's entry under a name the
iteration has still to visit (`todo`);
`MustHear` leaves out those who have closed and those whose name is gone or not in
the table. A visit sends and takes one name off
`todo`; the steps of other threads either leave the table alone, or write it, and
then, with an iteration under way, set `raced`. When `todo` is empty the second
alternative is gone. `BroadcastInv` is the two together.

`HandlersAdvanceAlways`, in the same module, is the safety half of `HandlerReturns`:
every step of a thread in a handler leads to a later place of it or takes a name off
`todo` (`HandlerStep`), and nobody else's step moves it (`OthersStayOut`). A handler
has at most six places and as many visits as there are entries, so it can fail to
return only by waiting, and it waits nowhere but in a send.

`StartupProofs` proves `StartupTypeOK` and `ConfiguredAsGiven` for any numerals and any
width of an int. `StartupInv` adds `ParsedSoFar`, which says what the locals hold
of the flags already passed, so that the end of the loop is the configuration the
whole command line asks for.

`TextProofs` proves `ShownAsTyped`, `ArgumentsFresh`, the types and `NothingUnbuilt`
for any lines, wherever they lie in memory (`LineAt`), whatever memory held. `TextInv` adds
`Held`: what is in main's variables between two lines and in the messages on their way; what
a refused line left there is the exception that `kept` marks, and that a message made from it
carries on (`own`). Its core is arithmetic of the sizes in the source: what fits 256 bytes
together with the JSON around it fits 255 without, so no copy is cut; a name of at most 8
bytes fits 9; and both, however much escaping adds to the name, fit 1024 with the
longer JSON of the server (`NothingUnbuiltEver`). That last is said of a name whose memory
is not freed: one that is may read as no UTF-8, and then nothing is built around it. A
join or a drop takes messages away and adds none, so the invariant does not notice it.

`LoggerProofs` proves `CopyStaysInside` and `LinesWhole` for any number of threads, any
buffer and lines of any size. `LoggerInv` says that the last byte of the static buffer
is never anything but 0, as nobody writes anything else there; so every strlen
stops in time, and a strcpy copies no more than strlen counted. `Undisturbed` holds
until two frames have overlapped: what is in the buffer is the line of the one frame
that uses it. `Losses` is about the directory: a frame that lost a line has come past
the mkdir that failed because the directory was there, so it never tries again, and
`LostOnceAlways` follows. `LockHeld` says that each of the two locks, of localtime and of
the heap, belongs to nobody or to a frame inside a call that takes it. So if nobody can move, the holder is a main with the handler on top of it that
wants the same lock (`OnlyStuckHangs`), which is `MCLoggerSignal` of section 8.

`SocketProofs` proves `ServesAlone` for any servers, clients and addresses, from
`SocketInv`: no socket has SO_REUSEPORT, so a listen succeeds only where nobody else
listens at an overlapping address; and with the address reused, as `initialize_config` has
it, every socket has the option before it is bound, so that, where the host can assign the
address, nothing but a listener makes bind or listen fail (`FailsOnlyToOthersAlways`).
The failures of `socket` and `setsockopt`, and of a bind at any other address, are in the
model and outside of that claim.

Only model-checked is liveness (`HandlerReturns`, `ConnectionAccepted`,
`DepartedListenerEnds`, `SendReturns`, `ServerEndSeen`, `StopHeeded`, `StartupEnds`,
`StartedServes`, `LoginAnswered`, `CallsReturn`), which needs ENABLED and fairness and
is beyond the prover. Every other property of a passing run is a theorem. For five
of the ten the safety half is one too: `HandlersAdvance` for `HandlerReturns`,
`SomeoneMoves` for `CallsReturn`, `FailsOnlyToOthers` for `StartedServes`,
`BothEndsRead` for `SendReturns`, `NothingUnbuilt` for `LoginAnswered`.

## 8. Where the code and its texts disagree

Two of these are runs; the other seven are configurations beside them (section 4).

* `taken_name`: "User already exists, choose another one" (`server.c:183`). Two
  connections can both find one name free and both insert it; the second takes over the
  entry of the first, which is never sent another broadcast. The insert frees the second's
  copy of the name (`server.c:437`), so what it is answered depends on freed memory.
* `MCCirceAlias`: "Function to remove a user from the server's user table"
  (`server.c:440`). After two IDENTIFYs on a connection DISCONNECT removes one
  entry; the other stays for ever. The client gets there when its user types
  `\login` twice before the first answer.
* `sigpipe`: "Failed to send JSON response to user" (`server.c:369`). One user
  leaving with `\leave` lets the next broadcasts end the server.
* `MCCirceStatus`: the server sends "STATUS" (`server.c:218`), the client knows
  "STATUS_UPDATE" (`client.c:528`).
* `MCStartupFlags`: "The flags are optional" (`src/README.md:36-45`). One flag alone
  is refused, and a port next to an address is ignored.
* `MCLoggerSignal`: "Flag to indicate if Ctrl+C (SIGINT) was caught"
  (`server.c:18`). `handle_sig` logs before it sets the flag or signals anybody,
  and logging calls localtime, malloc, fopen, free and fclose, whose locks the interrupted
  main may hold: then the handler waits for ever, and the process stays. The other threads
  do not go on serving: each logs what it reads and waits for the same lock. The client's
  handler is no different (`client.c:591`).
* `MCTextPathSent`: "`<no command>` - Sends a message to the main chat room"
  (`src/README.md:58`). A text whose JSON does not fit 256 bytes, or that is no UTF-8,
  is printed as the user's own message and not sent (`client.c:73-75, 314`).
* `MCTextPathStatus`: "`\status <ACTIVE/AWAY/BUSY>`" (`src/README.md:57`, `client.c:379`).
  `get_status` knows small letters only, and the server refuses the others.
* `MCCirceGoodbye`: "Leaving... Goodbye!" (`client.c:590`). A SIGINT between the test of
  the flag and fgets is not seen until another line has been typed.

Seen on the way and not checked: "User removed correctly" (`server.c:111`) is
logged where nothing is removed; the comment "1-65535" (`connection.c:168`) is
true only of the numeral after atoi's narrowing.

## 9. Not modelled

* `format_user_message` (`logger.c:71-90`) has a static buffer of its own, which the
  client's two threads print from: the race of `format_log` again, on a buffer that
  is not copied. Colours, levels and time stamps of log lines.
* `validate_json`, `json_type_field`, `json_string_field_size`, and the getters and setters of
  `connection.c`: never called in the running programs.
* `client` is freed while its detached listener may still use it (`client.c:85`); the
  process returns from main at once, and no other process sees a difference.
* The checking builds of the overruns other than `strcat` (section 3).
* `Client.status` and `Client.username` are written and never read. Empty handlers
  (rooms, private texts, user lists) are the request type OTHER.
* malloc and pthread_create failing. A read of uninitialised or freed memory has the outcomes
  of section 3, and no others.
* `server_cleanup`, `free_user` and other empty or uncalled functions, and the
  unit tests.

## 10. Plan

Done, in this order: `Tcp`, `ChatServer`, `ServerWorld` with its invariants;
`NameRegistry`; `Startup`; `ServerProofs`; `ChatClient`, `Circe`, `CirceProofs`;
`Logger`, `LoggerProofs`; `TextPath`, `TextProofs`; the end of stdin and the stop flag
in `ChatClient`; `SocketSetup`; `StartupProofs`, `RegistryProofs`, `OrderProofs`,
`SocketProofs`; completeness of broadcasts (`OrderProofs`), lost lines and the lock
(`LoggerProofs`), and what the whole system adds to the server's promises
(`CirceProofs`).

Next:

1. Model: the buffer of `format_user_message`, with what a user then sees of another's
   line.
2. Prove: the safety halves of what is left of liveness: a connection that is open is
   accepted or in the backlog, among any peers (`ConnectionAccepted`); a departed
   peer's stream only shrinks (`DepartedListenerEnds`).
