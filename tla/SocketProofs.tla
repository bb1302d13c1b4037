---------------------------- MODULE SocketProofs ----------------------------
(* At most one server serves an address, and bind and listen refuse one    *)
(* that the host can assign only where another serves, for any servers,    *)
(* clients and addresses.                                                  *)
EXTENDS SocketSetup, TLAPS

\* Nobody else listens where listen succeeds, since no port is shared.
LEMMA ListensAlone ==
  ASSUME SocketInv, NEW s \in Servers, MayListen(s),
         NEW q \in Servers, q # s, Overlap(config[q], config[s])
  PROVE  stage[q] # "listening"
<1>1. q \in Others(s)
  BY DEF Others
<1>2. ~("SO_REUSEPORT" \in options[s])
  BY DEF SocketInv
<1>3. stage[q] = "listening" => ~Shares(s, q, {"listening"})
  BY <1>2 DEF Shares
<1> QED BY <1>1, <1>3 DEF MayListen

\* A server that goes somewhere other than to listen makes nobody listen.
LEMMA OthersStay ==
  ASSUME SocketInv, NEW s \in Servers, NEW l \in Stages, Goes(s, l), config' = config,
         l # "listening" \/ MayListen(s)
  PROVE  /\ stage' \in [Servers -> Stages] /\ ServesAlone'
         /\ stage'[s] = l /\ \A q \in Servers \ {s} : stage'[q] = stage[q]
<1>1. stage \in [Servers -> Stages]
  BY DEF SocketInv
<1>2. stage' \in [Servers -> Stages] /\ stage'[s] = l
      /\ \A q \in Servers \ {s} : stage'[q] = stage[q]
  BY <1>1 DEF Goes
<1>3. ASSUME NEW p \in Servers, NEW q \in Servers, p # q, Overlap(config[p], config[q]),
             stage'[p] = "listening", stage'[q] = "listening"
      PROVE  FALSE
  <2>0. Overlap(config[q], config[p])
    BY <1>3 DEF Overlap
  <2>1. CASE p # s /\ q # s
    BY <1>2, <1>3, <2>1 DEF SocketInv, ServesAlone
  <2>2. CASE p = s
    BY <1>2, <1>3, <2>0, <2>2, ListensAlone
  <2>3. CASE q = s
    BY <1>2, <1>3, <2>3, ListensAlone
  <2> QED BY <2>1, <2>2, <2>3
<1> QED BY <1>2, <1>3 DEF ServesAlone

\* The option that lets an address be used again is there from "set" on.
Reuses(s) ==
  reuse_address /\ stage[s] \in {"set", "bound", "listening"}
    => "SO_REUSEADDR" \in options[s]

LEMMA SocketStep ==
  ASSUME SocketInv, [SocketNext]_socketVars
  PROVE  SocketInv'
<1>0. /\ \A q \in Servers : Reuses(q)
      /\ options \in [Servers -> SUBSET {"SO_REUSEADDR"}]
  BY DEF SocketInv, Reuses
<1>1. ASSUME stage' \in [Servers -> Stages], ServesAlone',
             options' \in [Servers -> SUBSET {"SO_REUSEADDR"}],
             \A q \in Servers : Reuses(q)'
      PROVE  SocketInv'
  BY <1>1 DEF SocketInv, Reuses
<1>2. ASSUME NEW s \in Servers, create_socket(s) \/ set_socket_options(s)
      PROVE  SocketInv'
  <2>1. config' = config
    BY <1>2 DEF create_socket, set_socket_options
  <2>2. PICK l \in {"created", "set", "failed"}, o \in SUBSET {"SO_REUSEADDR"} :
          /\ Goes(s, l) /\ options' = [options EXCEPT ![s] = o]
          /\ l = "set" /\ reuse_address => "SO_REUSEADDR" \in o
    <3>1. CASE create_socket(s)
      BY <3>1 DEF create_socket
    <3>2. CASE set_socket_options(s)
      <4>1. CASE Goes(s, "failed") /\ UNCHANGED options
        BY <1>0, <4>1
      <4>2. CASE /\ Goes(s, "set")
                 /\ options' = [options EXCEPT ![s] =
                                  IF reuse_address THEN {"SO_REUSEADDR"} ELSE {}]
        BY <4>2
      <4> QED BY <3>2, <4>1, <4>2 DEF set_socket_options
    <3> QED BY <1>2, <3>1, <3>2
  <2>3. /\ stage' \in [Servers -> Stages] /\ ServesAlone' /\ stage'[s] = l
        /\ \A q \in Servers \ {s} : stage'[q] = stage[q]
    BY <2>1, <2>2, OthersStay DEF Stages
  <2>4. \A q \in Servers : Reuses(q)'
    BY <1>0, <2>2, <2>3 DEF Reuses
  <2> QED BY <1>0, <1>1, <2>2, <2>3, <2>4
<1>3. ASSUME NEW s \in Servers, bind_socket(s) \/ start_listening(s) \/ Killed(s)
      PROVE  SocketInv'
  <2>1. PICK l \in {"bound", "listening", "failed", "down"} :
          /\ Goes(s, l)
          /\ l = "listening" => MayListen(s)
          /\ l \in {"bound", "listening"} => stage[s] \in {"set", "bound"}
    BY <1>3 DEF bind_socket, start_listening, Killed
  <2>2. config' = config /\ options' = options
    BY <1>3 DEF bind_socket, start_listening, Killed
  <2>3. /\ stage' \in [Servers -> Stages] /\ ServesAlone' /\ stage'[s] = l
        /\ \A q \in Servers \ {s} : stage'[q] = stage[q]
    BY <2>1, <2>2, OthersStay DEF Stages
  <2>4. \A q \in Servers : Reuses(q)'
    BY <1>0, <2>1, <2>2, <2>3 DEF Reuses
  <2> QED BY <1>0, <1>1, <2>2, <2>3, <2>4
<1>4. CASE UNCHANGED <<stage, config, options>>
  BY <1>4 DEF SocketInv, ServesAlone
<1>5. ASSUME \/ \E a \in lingering : Forgotten(a)
             \/ \E c \in Clients : setup_server_address(c) \/ connect_to_server(c)
             \/ UNCHANGED socketVars
      PROVE  UNCHANGED <<stage, config, options>>
  BY <1>5 DEF Forgotten, setup_server_address, connect_to_server, socketVars
<1> QED BY <1>2, <1>3, <1>4, <1>5 DEF SocketNext, ServerMain

\* Where two sockets reuse one address, only a listener keeps the other out.
LEMMA OnlyListenersRefuse ==
  ASSUME SocketInv, reuse_address, NEW s \in Servers, config[s] \in Assignable,
         \/ stage[s] = "set" /\ ~MayBind(s)
         \/ stage[s] = "bound" /\ ~MayListen(s)
  PROVE  \E q \in Others(s) : stage[q] = "listening"
<1>1. \A q \in Servers : stage[q] \in {"set", "bound", "listening"}
        => "SO_REUSEADDR" \in options[q]
  BY DEF SocketInv
<1>2. "SO_REUSEADDR" \in options[s]
  BY <1>1
<1>3. ASSUME NEW q \in Others(s), stage[q] = "bound"
      PROVE  Shares(s, q, {"listening"})
  BY <1>1, <1>2, <1>3 DEF Shares, Others
<1>4. CASE ~MayBind(s)
  <2>1. PICK q \in Others(s) :
          stage[q] \in {"bound", "listening"} /\ ~Shares(s, q, {"listening"})
    BY <1>2, <1>4 DEF MayBind
  <2> QED BY <1>3, <2>1
<1>5. CASE ~MayListen(s)
  BY <1>5 DEF MayListen
<1> QED BY <1>4, <1>5

\* SocketInv is inductive, for any number of servers, clients and addresses.
THEOREM SocketInvariance == SocketSpec => []SocketInv
<1>1. SocketInit => SocketInv
  BY DEF SocketInit, SocketInv, ServesAlone, Stages
<1>2. SocketInv /\ [SocketNext]_socketVars => SocketInv'
  BY SocketStep
<1> QED BY <1>1, <1>2, PTL DEF SocketSpec

\* However many servers are started, ended and started again on whatever
\* addresses, no two listen at one, or at two that overlap (connection.c:68-97).
THEOREM ServesAloneAlways == SocketSpec => []ServesAlone
<1>1. SocketInv => ServesAlone
  BY DEF SocketInv
<1> QED BY <1>1, SocketInvariance, PTL

\* bind and listen refuse a server an address that the host can assign only
\* where another listens at an overlapping one just then: what an earlier one
\* has left there does not keep it out, as the option was set before
\* (connection.c:68-97).
THEOREM FailsOnlyToOthersAlways == SocketSpec => FailsOnlyToOthers
<1>1. SocketInv /\ [SocketNext]_socketVars
        => [reuse_address =>
              \A s \in Servers :
                /\ stage[s] \in {"set", "bound"} /\ stage'[s] = "failed"
                /\ config[s] \in Assignable
                => \E q \in Others(s) : stage[q] = "listening"]_socketVars
  <2> SUFFICES ASSUME SocketInv, SocketNext, reuse_address, NEW s \in Servers,
                      stage[s] \in {"set", "bound"}, stage'[s] = "failed",
                      config[s] \in Assignable
               PROVE  \E q \in Others(s) : stage[q] = "listening"
    BY DEF socketVars
  <2>1. stage \in [Servers -> Stages]
    BY DEF SocketInv
  <2>2. ASSUME NEW q \in Servers,
               create_socket(q) \/ set_socket_options(q) \/ Killed(q)
        PROVE  FALSE
    BY <2>1, <2>2 DEF create_socket, set_socket_options, Killed, Goes
  <2>3. ASSUME NEW q \in Servers, bind_socket(q) \/ start_listening(q)
        PROVE  \/ stage[s] = "set" /\ ~MayBind(s)
               \/ stage[s] = "bound" /\ ~MayListen(s)
    BY <2>1, <2>3 DEF bind_socket, start_listening, Goes
  <2>4. stage' # stage
    OBVIOUS
  <2> QED
    BY <2>2, <2>3, <2>4, OnlyListenersRefuse
    DEF SocketNext, ServerMain, Forgotten, setup_server_address, connect_to_server
<1> QED BY <1>1, SocketInvariance, PTL DEF SocketSpec, FailsOnlyToOthers
=============================================================================
