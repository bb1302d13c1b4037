----------------------------- MODULE SocketSetup -----------------------------
(***************************************************************************)
(* How servers and clients get hold of an address: the calls of            *)
(* connection.c between the configuration and the first accept.  Servers   *)
(* are started, ended by a signal and started again, possibly two at once  *)
(* on one address or on two that overlap; a connection that a server       *)
(* leaves behind lingers at its address for a while.  Each call that fails *)
(* ends the program.                                                       *)
(***************************************************************************)
EXTENDS Integers, FiniteSets

CONSTANTS
  Servers, Clients,
  Addresses,     \* what the command lines name, see Startup: [ip, port] records
  Assignable,    \* those a server may bind: the host has the ip, no privileged port
  AnyIp,         \* 0.0.0.0, every ip of the host
  LoopbackIp,    \* where a connection to 0.0.0.0 goes
  reuse_address, \* the field initialize_config sets
  MaxStarts      \* bound: starts of servers

ASSUME SocketAssumption ==
  /\ Addresses # {} /\ AnyIp # LoopbackIp
  /\ \A a \in Addresses \cup Assignable : DOMAIN a = {"ip", "port"}
  /\ reuse_address \in BOOLEAN
  /\ MaxStarts \in Nat

VARIABLES
  stage,    \* how far each server is
  config,   \* the address each server and client was given
  options,  \* the options of each server's socket
  peer,     \* per client: "off", "ready", "connected" or "refused"
  lingering, \* the addresses at which old connections linger
  starts    \* starts of servers so far

socketVars == <<stage, config, options, peer, lingering, starts>>

Stages == {"down", "created", "set", "bound", "listening", "failed"}

SocketInit ==
  /\ stage = [s \in Servers |-> "down"]
  /\ config \in [Servers \cup Clients -> Addresses]
  /\ options = [s \in Servers |-> {}]
  /\ peer = [c \in Clients |-> "off"]
  /\ lingering = {}
  /\ starts = 0

-----------------------------------------------------------------------------
(* What the kernel allows.                                                 *)

Overlap(a, b) == a.port = b.port /\ (a.ip = b.ip \/ AnyIp \in {a.ip, b.ip})

Others(s) == {q \in Servers \ {s} : Overlap(config[q], config[s])}

\* Two sockets share an address that nobody listens at when both may reuse it,
\* and at any time when both may share the port.
Shares(s, q, held) ==
  \/ {"SO_REUSEADDR"} \subseteq options[s] \cap options[q] /\ stage[q] \notin held
  \/ {"SO_REUSEPORT"} \subseteq options[s] \cap options[q]

MayBind(s) ==
  /\ config[s] \in Assignable
  /\ (\E a \in lingering : Overlap(a, config[s])) => "SO_REUSEADDR" \in options[s]
  /\ \A q \in Others(s) : stage[q] \in {"bound", "listening"} => Shares(s, q, {"listening"})

MayListen(s) ==
  \A q \in Others(s) : stage[q] = "listening" => Shares(s, q, {"listening"})

\* Where the connection of a client arrives, and the servers it may reach.
Target(c) ==
  [config[c] EXCEPT !.ip = IF @ = AnyIp THEN LoopbackIp ELSE @]

Reached(c) ==
  {s \in Servers : /\ stage[s] = "listening" /\ Target(c) \in Assignable
                   /\ Overlap(Target(c), config[s])}

-----------------------------------------------------------------------------
(* The server.                                                             *)

Goes(s, to) == stage' = [stage EXCEPT ![s] = to]

\* socket may fail, for want of descriptors or memory.
create_socket(s) ==
  /\ stage[s] \in {"down", "failed"} /\ starts < MaxStarts
  /\ starts' = starts + 1
  /\ Goes(s, "created") \/ Goes(s, "failed")
  /\ options' = [options EXCEPT ![s] = {}]
  /\ UNCHANGED <<config, peer, lingering>>

\* Mutant: the option is never set.
set_socket_options_none(s) ==
  /\ stage[s] = "created"
  /\ Goes(s, "set")
  /\ UNCHANGED <<config, options, peer, lingering, starts>>

\* Mutant: the port is shared.
set_socket_options_port(s) ==
  /\ stage[s] = "created"
  /\ Goes(s, "set")
  /\ options' = [options EXCEPT ![s] = {"SO_REUSEADDR", "SO_REUSEPORT"}]
  /\ UNCHANGED <<config, peer, lingering, starts>>

\* setsockopt, when it is called, may fail as well.
set_socket_options(s) ==
  /\ stage[s] = "created"
  /\ \/ /\ Goes(s, "set")
        /\ options' = [options EXCEPT ![s] =
                         IF reuse_address THEN {"SO_REUSEADDR"} ELSE {}]
     \/ reuse_address /\ Goes(s, "failed") /\ UNCHANGED options
  /\ UNCHANGED <<config, peer, lingering, starts>>

bind_socket(s) ==
  /\ stage[s] = "set"
  /\ Goes(s, IF MayBind(s) THEN "bound" ELSE "failed")
  /\ UNCHANGED <<config, options, peer, lingering, starts>>

\* Called before every accept; after the first time it changes nothing.
start_listening(s) ==
  /\ stage[s] = "bound"
  /\ Goes(s, IF MayListen(s) THEN "listening" ELSE "failed")
  /\ UNCHANGED <<config, options, peer, lingering, starts>>

\* A signal ends the server.  What its clients are connected to lingers.
Killed(s) ==
  /\ stage[s] \notin {"down", "failed"}
  /\ Goes(s, "down")
  /\ LET left == {c \in Clients : peer[c] = "connected" /\ s \in Reached(c)}
     IN /\ peer' = [c \in Clients |-> IF c \in left THEN "off" ELSE peer[c]]
        /\ lingering' = lingering \cup {Target(c) : c \in left}
  /\ UNCHANGED <<config, options, starts>>

\* The kernel forgets old connections.
Forgotten(a) ==
  /\ lingering' = lingering \ {a}
  /\ UNCHANGED <<stage, config, options, peer, starts>>

-----------------------------------------------------------------------------
(* The client.                                                             *)

\* create_socket and set_socket_options, which may fail as the server's, and
\* setup_server_address; the address was checked when the command line was
\* parsed.
setup_server_address(c) ==
  /\ peer[c] = "off"
  /\ \E p \in {"ready", "refused"} : peer' = [peer EXCEPT ![c] = p]
  /\ UNCHANGED <<stage, config, options, lingering, starts>>

\* When nobody listens there the client ends.
connect_to_server(c) ==
  /\ peer[c] = "ready"
  /\ peer' = [peer EXCEPT ![c] = IF Reached(c) # {} THEN "connected" ELSE "refused"]
  /\ UNCHANGED <<stage, config, options, lingering, starts>>

ServerMain(s) == set_socket_options(s) \/ bind_socket(s) \/ start_listening(s)

SocketNext ==
  \/ \E s \in Servers : create_socket(s) \/ ServerMain(s) \/ Killed(s)
  \/ \E a \in lingering : Forgotten(a)
  \/ \E c \in Clients : setup_server_address(c) \/ connect_to_server(c)

\* A started server runs; the kernel need not forget anything in time.
SocketSpec ==
  /\ SocketInit /\ [][SocketNext]_socketVars
  /\ \A s \in Servers : WF_socketVars(ServerMain(s))

-----------------------------------------------------------------------------
(* Properties.                                                             *)

\* However servers are started side by side, at most one gets an address, or
\* two that overlap, to listen at: two that have both bound it are sorted out
\* by listen, and the loser exits (connection.c:68-97).
ServesAlone ==
  \A s, q \in Servers :
    stage[s] = "listening" /\ stage[q] = "listening" /\ Overlap(config[s], config[q])
      => s = q

\* When initialize_config has the address reused, bind and listen fail at an
\* address the host can assign only where another server listens at it, or at
\* one that overlaps it, just then: neither what lingers there nor one that
\* has bound it as well makes them fail (connection.c:80-97).
FailsOnlyToOthers ==
  [][reuse_address =>
       \A s \in Servers :
         /\ stage[s] \in {"set", "bound"} /\ stage'[s] = "failed"
         /\ config[s] \in Assignable
         => \E q \in Others(s) : stage[q] = "listening"]_socketVars

\* Why: no socket shares its port, so nothing may listen where another does
\* (connection.c:68-79), and each has its option before it is bound.
SocketInv ==
  /\ stage \in [Servers -> Stages]
  /\ options \in [Servers -> SUBSET {"SO_REUSEADDR"}]
  /\ ServesAlone
  /\ reuse_address => \A s \in Servers :
       stage[s] \in {"set", "bound", "listening"} => "SO_REUSEADDR" \in options[s]

\* A server that has its socket and option, and an address the host can
\* assign, comes to listen, whatever connections an earlier one has left
\* there, unless another listens at an overlapping one meanwhile or a signal
\* ends it (connection.c:70-97).
StartedServes ==
  \A s \in Servers :
    stage[s] = "set" /\ config[s] \in Assignable ~>
      \/ stage[s] \in {"listening", "down"}
      \/ \E q \in Others(s) : stage[q] = "listening"
=============================================================================
