----------------------------- MODULE MCChannels -----------------------------
(* Bounded instances of Channels: two local clients and one client of a      *)
(* remote server, or one of each.                                            *)
EXTENDS Channels, TLC
CONSTANTS u1, u2, r1

MCUsers == {u1, u2, r1}
MCLocal == {u1, u2}
MCOne == {u1}
MCRemote == {r1}
MCPair == {u1, r1}

\* The two local clients are interchangeable.
LocalSymmetry == Permutations({u1, u2})
=============================================================================
