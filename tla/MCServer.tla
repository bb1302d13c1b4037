------------------------------ MODULE MCServer ------------------------------
(* ServerWorld on small instances.                                         *)
EXTENDS ServerWorld, TLC

Identify(n) == [type |-> "IDENTIFY", name |-> n, body |-> "good"]
Anonymous(t, b) == [type |-> t, name |-> NoName, body |-> b]

\* What the client program sends.
ClientRequests ==
  {Identify(n) : n \in Names}
    \cup {Anonymous("PUBLIC_TEXT", "good"), Anonymous("STATUS", "good"),
          Anonymous("DISCONNECT", "good")}

\* ... and what only another program would.
AllRequests ==
  ClientRequests
    \cup {Anonymous("IDENTIFY", "bad"), Anonymous("PUBLIC_TEXT", "bad"),
          Anonymous("PUBLIC_TEXT", "unsendable"), Anonymous("OTHER", "good")}

\* One request of each way through the handlers that can block or close.
LiveRequests ==
  {Identify(n) : n \in Names}
    \cup {Anonymous("DISCONNECT", "good"), Anonymous("IDENTIFY", "bad")}

\* Requests about names only.
NameRequests == {Identify(n) : n \in Names} \cup {Anonymous("DISCONNECT", "good")}

\* Requests about names, and one that is broadcast.
DeepRequests == NameRequests \cup {Anonymous("PUBLIC_TEXT", "good")}

\* Bound: a run that asks only what holds until table calls overlap stops there.
UntilRaced == ~raced

\* Bound: at the server's terminal Ctrl+C is pressed once one request at most
\* has been sent, and a run of what holds while it serves ends with it.
CtrlCEarly ==
  \/ server = "up"
  \/ server \in {"interrupted", "hung"} /\ SumFunction(sent) <= 1

\* For runs in which the names differ.
ConnSymmetry == Permutations(Conn)

Symmetry == Permutations(Conn) \cup Permutations(Names)
=============================================================================
