---------------------------- MODULE MCLinkSetup -----------------------------
(* A bounded instance of LinkSetup: one connection dialled by each server.   *)
EXTENDS LinkSetup, TLC
CONSTANTS alpha, beta, c1, c2

MCServers == {alpha, beta}
MCBoth == {c1, c2}
MCCrossDialer == [c \in MCBoth |-> IF c = c1 THEN alpha ELSE beta]
=============================================================================
