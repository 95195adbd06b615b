------------------------------- MODULE MCSlave -------------------------------
(* Two mounts, two origins, three configs (one relay; the same relay made *)
(* on demand; the relay moved to another origin plus a second relay), and *)
(* the master lists the runs choose from: nothing, m2, or m1 and m2 (m1 is *)
(* also the static relay of MCStaticOne).  The thread slots, streamlist    *)
(* threads and rereads are set by each cfg.                              *)
EXTENDS Slave

CONSTANTS m1, m2, o1, o2, hm, f1, f2

D(m, o, od) == [mount |-> m, origin |-> o, onDemand |-> od, enable |-> TRUE]

MCStaticConfigs ==
  { << D(m1, o1, FALSE) >>,
    << D(m1, o1, TRUE) >>,
    << D(m1, o2, FALSE), D(m2, o1, FALSE) >> }

\* The config of the master runs: one static relay.
MCStaticOne == { << D(m1, o1, FALSE) >> }

MCMasterLists == { << >>, << m2 >> }

\* A two-line list whose first mount is also a static relay.
MCMasterTwo == { << >>, << m1, m2 >> }
=============================================================================
