------------------------- MODULE SlaveHostsAbstract -------------------------
(***************************************************************************)
(* What the slave host table promises, without the list: each host:port   *)
(* has a number of references (one per connected client that advertises   *)
(* it, plus the master seeded by the slave thread), and a redirect sends   *)
(* the listener to some host that holds a reference, or does nothing when *)
(* none does.  SlaveHosts implements it (SlaveHosts!AbstractSpec).         *)
(***************************************************************************)
EXTENDS Naturals

CONSTANTS Hosts, MasterHost, MasterAdvertised, Clients, ClientHeader,
          Malformed

VARIABLES
  refs,       \* host -> number of references held
  connected,  \* clients holding their reference
  redirect    \* [issued, target] of the last redirect

vars == <<refs, connected, redirect>>

NoTarget == [issued |-> FALSE, target |-> Malformed]

Init ==
  /\ refs = [h \in Hosts |-> 0]
  /\ connected = {}
  /\ redirect = NoTarget

\* The master gets one reference when it has none.
Seed ==
  /\ MasterAdvertised /\ refs[MasterHost] = 0
  /\ refs' = [refs EXCEPT ![MasterHost] = 1]
  /\ UNCHANGED <<connected, redirect>>

\* A client connects; a well-formed header adds a reference.
Add(c) ==
  /\ c \notin connected
  /\ connected' = connected \cup {c}
  /\ refs' = IF ClientHeader[c] = Malformed THEN refs
             ELSE [refs EXCEPT ![ClientHeader[c]] = @ + 1]
  /\ UNCHANGED redirect

\* The client goes and gives its reference back.
Remove(c) ==
  /\ c \in connected
  /\ connected' = connected \ {c}
  /\ refs' = IF ClientHeader[c] = Malformed THEN refs
             ELSE [refs EXCEPT ![ClientHeader[c]] = @ - 1]
  /\ UNCHANGED redirect

\* A redirect picks any referenced host, and is issued iff one exists.
Redirect ==
  /\ \/ /\ \A h \in Hosts : refs[h] = 0
        /\ redirect' = NoTarget
     \/ \E h \in Hosts :
          /\ refs[h] > 0
          /\ redirect' = [issued |-> TRUE, target |-> h]
  /\ UNCHANGED <<refs, connected>>

Next ==
  \/ Seed
  \/ \E c \in Clients : Add(c) \/ Remove(c)
  \/ Redirect

Spec == Init /\ [][Next]_vars
=============================================================================
