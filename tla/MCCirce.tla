------------------------------ MODULE MCCirce ------------------------------
(* Circe on small instances.                                               *)
EXTENDS Circe, TLC

\* Bound: a run stops where table calls have overlapped.
UntilRaced == ~raced

\* Bounds: it stops there too, descriptors suffice, Ctrl+C is pressed at one
\* client at most, and its handler does not hang: one that logs for long leads
\* to the same states.
OneInterrupted ==
  /\ ~raced /\ server # "exit_failure"
  /\ Cardinality({c \in Conn : stop[c] # "no"}) <= 1
  /\ \A c \in Conn : stop[c] # "hung"

\* Bounds: nobody leaves, the server runs on, and one client at a time asks
\* more than one thing.
OneTalks ==
  /\ ~raced /\ Running
  /\ \A c \in Conn : ui[c] \notin {"leaving", "exited"}
  /\ Cardinality({c \in Conn : sent[c] > 1}) <= 1

Symmetry == Permutations(Conn) \cup Permutations(Names)
=============================================================================
