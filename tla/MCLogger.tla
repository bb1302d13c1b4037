------------------------------ MODULE MCLogger ------------------------------
(* Logger on small instances.                                              *)
EXTENDS Logger, TLC

CONSTANTS m, t

\* Bound: main logs twice, so that one that has lost a line logs again.
Calls == m :> 2 @@ t :> 1

\* Bound: the handler logs while any other call is in its part for the file.
SignalEarly == InCall(Handler) => \A u \in Thread : InCall(u) => pass[u] = 1
=============================================================================
