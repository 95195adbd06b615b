---------------------------- MODULE MCSlaveHosts ----------------------------
(* Instantiation of SlaveHosts for TLC: two hosts, one of them the         *)
(* master, four clients (two advertising the same host, one advertising    *)
(* the master, one with a header lacking ':'), and rand() values at both   *)
(* ends of its range and around the float rounding boundary below 2^31.   *)
EXTENDS SlaveHosts

CONSTANTS h1, hm, c1, c2, c3, c4

MCHeader == [c \in {c1, c2, c3, c4} |->
               CASE c = c1 -> h1 [] c = c2 -> h1 [] c = c3 -> hm
                 [] c = c4 -> Malformed]

MCRandValues == {0, 1073741824, 2147483583, 2147483584, 2147483647}

\* rand() values below the float rounding boundary of slave_redirect.
MCRandSafe == {0, 1073741824, 2147483583}
=============================================================================
