---------------------------- MODULE NameRegistry ----------------------------
(***************************************************************************)
(* What the server promises about usernames: an optimistic registry.  A    *)
(* connection that asks for a name is refused when the name is held, and   *)
(* otherwise takes it later, whatever has happened in between: the last    *)
(* taker holds the name.  A name is never taken by a connection that did   *)
(* not see it free.  Nothing else is promised: in particular not that two  *)
(* connections are never granted one name.  Once the registry is broken,   *)
(* not even that holds.                                                    *)
(***************************************************************************)
CONSTANTS Clients, Labels, Nobody, NoLabel

VARIABLES
  holder,  \* who holds each name
  stage,   \* "idle", "claiming", "granted" or "refused"
  wanted,  \* the name a connection is asking for
  broken

registryVars == <<holder, stage, wanted, broken>>

Stages == {"idle", "claiming", "granted", "refused"}

RegistryInit ==
  /\ holder = [n \in Labels |-> Nobody]
  /\ stage = [c \in Clients |-> "idle"]
  /\ wanted = [c \in Clients |-> NoLabel]
  /\ broken = FALSE

Moves(c, s, n) ==
  /\ stage' = [stage EXCEPT ![c] = s]
  /\ wanted' = [wanted EXCEPT ![c] = n]

SeesFree(c, n) ==
  /\ stage[c] = "idle"
  /\ holder[n] = Nobody
  /\ Moves(c, "claiming", n)
  /\ UNCHANGED <<holder, broken>>

SeesHeld(c, n) ==
  /\ stage[c] = "idle"
  /\ holder[n] # Nobody
  /\ Moves(c, "refused", n)
  /\ UNCHANGED <<holder, broken>>

Takes(c) ==
  /\ stage[c] = "claiming"
  /\ holder' = [holder EXCEPT ![wanted[c]] = c]
  /\ Moves(c, "granted", wanted[c])
  /\ UNCHANGED broken

Answered(c) ==
  /\ stage[c] \in {"granted", "refused"}
  /\ Moves(c, "idle", NoLabel)
  /\ UNCHANGED <<holder, broken>>

Release(n) ==
  /\ holder' = [holder EXCEPT ![n] = Nobody]
  /\ UNCHANGED <<stage, wanted, broken>>

\* Two calls on the registry's store have overlapped.
Breaks ==
  /\ broken'
  /\ holder' \in [Labels -> Clients \cup {Nobody}]
  /\ stage' \in [Clients -> Stages]
  /\ wanted' \in [Clients -> Labels \cup {NoLabel}]

RegistryNext ==
  \/ \E c \in Clients, n \in Labels : SeesFree(c, n) \/ SeesHeld(c, n)
  \/ \E c \in Clients : Takes(c) \/ Answered(c)
  \/ \E n \in Labels : Release(n)
  \/ Breaks

RegistrySpec == RegistryInit /\ [][RegistryNext]_registryVars
=============================================================================
