----------------------------- MODULE SlaveHosts -----------------------------
(***************************************************************************)
(* The slave host table of slave.c: global.slaves, a linked list of        *)
(* redirect targets with a reference count each, and global.slave_count,   *)
(* guarded by slaves_lock.  Clients that carry an "ice-redirect: host:port" *)
(* header add a reference when they connect (slave_host_add) and drop it   *)
(* when they go (slave_host_remove); the slave thread seeds the master     *)
(* server (update_master_as_slave); a full server redirects a listener to  *)
(* a randomly chosen entry (slave_redirect).                               *)
(*                                                                         *)
(* Every operation runs wholly under slaves_lock, so each is one action.   *)
(* A host:port pair is a model value of Hosts; a header without ':' is     *)
(* Malformed.                                                              *)
(***************************************************************************)
EXTENDS Integers, Sequences, FiniteSets

CONSTANTS
  Hosts,          \* host:port pairs that can be advertised
  MasterHost,     \* config->master_server:master_server_port
  MasterAdvertised, \* master_server set and master_redirect_port # 0
  Clients,        \* clients carrying an ice-redirect header
  ClientHeader,   \* the header each client sends
  Malformed,      \* a header value without ':'
  RandValues,     \* values of rand() tried by slave_redirect
  RAND_MAX

ASSUME /\ MasterHost \in Hosts
       /\ MasterAdvertised \in BOOLEAN
       /\ Malformed \notin Hosts
       /\ ClientHeader \in [Clients -> Hosts \cup {Malformed}]
       /\ RandValues \subseteq 0..RAND_MAX

VARIABLES
  slaves,       \* global.slaves: sequence of [host, count], head first
  slaveCount,   \* global.slave_count
  connected,    \* clients whose slave_host_add has run and remove has not
  redirect      \* outcome of the last slave_redirect

hostVars == <<slaves, slaveCount>>
vars == <<slaves, slaveCount, connected, redirect>>

NoRedirect == [issued |-> FALSE, target |-> Malformed, nullWalk |-> FALSE]

-----------------------------------------------------------------------------
(* Floating point in slave_redirect, line 180:                             *)
(*   which = (int)(((float)slave_count) * rand() / (RAND_MAX + 1.0))        *)
(* rand() is converted to float and the product is a float before the     *)
(* division by the double 2^31.  A float keeps 24 significant bits and    *)
(* rounds to nearest, ties to even.  A value is kept as <<q, e>> = q*2^e  *)
(* since 2^31 is out of TLC's integer range.                              *)
(***************************************************************************)
RECURSIVE BitLen(_)
BitLen(x) == IF x = 0 THEN 0 ELSE 1 + BitLen(x \div 2)

ToFloat(x) ==
  LET e    == IF BitLen(x) > 24 THEN BitLen(x) - 24 ELSE 0
      q    == x \div 2^e
      rest == x % 2^e
      half == IF e = 0 THEN 1 ELSE 2^(e - 1)
      up   == e > 0 /\ (rest > half \/ (rest = half /\ q % 2 = 1))
  IN  <<IF up THEN q + 1 ELSE q, e>>

\* x86-64 (SSE, FLT_EVAL_METHOD 0): every float operation rounds.
WhichFloat(n, r) ==
  LET fr == ToFloat(r)
      fp == ToFloat(n * fr[1])
      ex == fr[2] + fp[2]
  IN  (fp[1] \div 2^16) \div 2^(15 - ex)

\* x87 builds (FLT_EVAL_METHOD 2) keep the exact product: floor(n*r/2^31).
WhichExact(n, r) ==
  ((n * (r \div 2^16)) + ((n * (r % 2^16)) \div 2^16)) \div 2^15

\* The float evaluation the build produces is a choice of the compiler.
Which(n, r, wide) == IF wide THEN WhichExact(n, r) ELSE WhichFloat(n, r)

-----------------------------------------------------------------------------
\* find_slave_host: index of the entry for h, 0 when absent.
FindSlaveHost(tbl, h) ==
  IF \E i \in 1..Len(tbl) : tbl[i].host = h
  THEN CHOOSE i \in 1..Len(tbl) : tbl[i].host = h
  ELSE 0

\* _add_slave_host: prepend a new entry with count 1.
AddSlaveHost(h) ==
  /\ slaves' = <<[host |-> h, count |-> 1]>> \o slaves
  /\ slaveCount' = slaveCount + 1

\* update_master_as_slave: seed the master unless it is already listed.
UpdateMasterAsSlave ==
  IF ~MasterAdvertised \/ FindSlaveHost(slaves, MasterHost) # 0
  THEN UNCHANGED hostVars
  ELSE AddSlaveHost(MasterHost)

SeedMaster ==
  /\ UpdateMasterAsSlave
  /\ UNCHANGED <<connected, redirect>>

\* Variant: slave_host_add without the find_slave_host lookup.
SlaveHostAddNoLookup(c) ==
  /\ c \notin connected
  /\ connected' = connected \cup {c}
  /\ IF ClientHeader[c] = Malformed THEN UNCHANGED hostVars
     ELSE AddSlaveHost(ClientHeader[c])
  /\ UNCHANGED redirect

\* slave_host_add(client, header)
SlaveHostAdd(c) ==
  /\ c \notin connected
  /\ connected' = connected \cup {c}
  /\ LET h == ClientHeader[c]
         i == FindSlaveHost(slaves, h)
     IN  IF h = Malformed THEN UNCHANGED hostVars
         ELSE IF i # 0
         THEN /\ slaves' = [slaves EXCEPT ![i].count = @ + 1]
              /\ UNCHANGED slaveCount
         ELSE AddSlaveHost(h)
  /\ UNCHANGED redirect

\* Variant: slave_host_remove that decrements but never unlinks.
SlaveHostRemoveNoUnlink(c) ==
  /\ c \in connected
  /\ connected' = connected \ {c}
  /\ LET i == FindSlaveHost(slaves, ClientHeader[c])
     IN  IF ClientHeader[c] = Malformed \/ i = 0 THEN UNCHANGED hostVars
         ELSE /\ slaves' = [slaves EXCEPT ![i].count = @ - 1]
              /\ UNCHANGED slaveCount
  /\ UNCHANGED redirect

\* slave_host_remove(client): decrement, unlink the entry at zero.
SlaveHostRemove(c) ==
  /\ c \in connected
  /\ connected' = connected \ {c}
  /\ LET h == ClientHeader[c]
         i == FindSlaveHost(slaves, h)
     IN  IF h = Malformed \/ i = 0 THEN UNCHANGED hostVars
         ELSE IF slaves[i].count = 1
         THEN /\ slaves' = SubSeq(slaves, 1, i - 1)
                            \o SubSeq(slaves, i + 1, Len(slaves))
              /\ slaveCount' = slaveCount - 1
         ELSE /\ slaves' = [slaves EXCEPT ![i].count = @ - 1]
              /\ UNCHANGED slaveCount
  /\ UNCHANGED redirect

\* slave_redirect(mountpoint, client): draw which, walk which links.
\* A walk that runs off the list leaves slave NULL (nullWalk), which
\* line 187 dereferences.
SlaveRedirect ==
  /\ \E r \in RandValues, wide \in BOOLEAN :
       LET which == Which(slaveCount, r, wide)
       IN  redirect' =
             IF slaveCount = 0 THEN NoRedirect
             ELSE IF which < Len(slaves)
             THEN [issued |-> TRUE, target |-> slaves[which + 1].host,
                   nullWalk |-> FALSE]
             ELSE [NoRedirect EXCEPT !.nullWalk = TRUE]
  /\ UNCHANGED <<slaves, slaveCount, connected>>

-----------------------------------------------------------------------------
Init ==
  /\ slaves = <<>>
  /\ slaveCount = 0
  /\ connected = {}
  /\ redirect = NoRedirect

Next ==
  \/ SeedMaster
  \/ \E c \in Clients : SlaveHostAdd(c)
  \/ \E c \in Clients : SlaveHostRemove(c)
  \/ SlaveRedirect

Spec == Init /\ [][Next]_vars

-----------------------------------------------------------------------------
TypeOK ==
  /\ slaves \in Seq([host : Hosts, count : Nat \ {0}])
  /\ slaveCount \in Nat
  /\ connected \subseteq Clients
  /\ redirect \in [issued : BOOLEAN, target : Hosts \cup {Malformed},
                   nullWalk : BOOLEAN]

\* Number of connected clients advertising h.
Advertisers(h) == Cardinality({c \in connected : ClientHeader[c] = h})

\* Reference count of h in the table, 0 when h is not linked.
RefCount(h) ==
  LET i == FindSlaveHost(slaves, h) IN IF i = 0 THEN 0 ELSE slaves[i].count

(* The table is a faithful reference count, across every order of client  *)
(* connects, disconnects and the slave thread's master seeding: each host *)
(* is linked at most once, slave_count is the number of linked entries,   *)
(* and each entry's count is the number of connected clients advertising  *)
(* it, plus at most one reference for the seeded master.                  *)
RefCountsExact ==
  /\ slaveCount = Len(slaves)
  /\ \A i, j \in 1..Len(slaves) : slaves[i].host = slaves[j].host => i = j
  /\ \A h \in Hosts :
       RefCount(h) - Advertisers(h) \in
         (IF h = MasterHost /\ MasterAdvertised THEN {0, 1} ELSE {0})

(* slave_redirect issues a 302 whenever a slave host is known (the        *)
(* contract of slave_redirect: "emit 302 if any slave host known"), i.e.  *)
(* the random index never walks off the end of global.slaves.             *)
RedirectWhenSlavesKnown ==
  ~redirect.nullWalk

-----------------------------------------------------------------------------
(* Refinement: the list with its counts and slave_count is read as the     *)
(* reference count of each host, and a redirect as its issued target.     *)
Abs == INSTANCE SlaveHostsAbstract
         WITH refs <- [h \in Hosts |-> RefCount(h)],
              redirect <- [issued |-> redirect.issued,
                           target |-> redirect.target]

(* The table implements the abstract one: every slave_host_add, remove,  *)
(* master seed and slave_redirect is a step of SlaveHostsAbstract, so a   *)
(* redirect goes to a host some client or the master still holds, and is  *)
(* issued whenever one is held.                                           *)
AbstractSpec == Abs!Spec
=============================================================================
