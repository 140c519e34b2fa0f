------------------------------- MODULE MCTunnel -------------------------------
(* Two callers: one generates its certificates and uses a proxy with          *)
(* credentials, the other brings its own and has a user name but no password. *)
EXTENDS Tunnel
CONSTANTS c1, c2, own
MCCallers == {c1, c2}
MCGiven   == [c \in MCCallers |-> IF c = c1 THEN NoCerts ELSE own]
MCProxies == [c \in MCCallers |-> [host |-> TRUE, user |-> TRUE, pass |-> c = c1]]
===============================================================================
