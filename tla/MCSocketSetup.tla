--------------------------- MODULE MCSocketSetup ---------------------------
(* SocketSetup on small instances.                                         *)
EXTENDS SocketSetup

CONSTANTS p1, p2, elsewhere

At(i, p) == [ip |-> i, port |-> p]

\* Two that overlap, and one that does not.
AssignableAddresses == {At(AnyIp, p1), At(LoopbackIp, p1), At(LoopbackIp, p2)}

\* elsewhere is an ip of another host.
SomeAddresses == AssignableAddresses \cup {At(elsewhere, p1)}
=============================================================================
