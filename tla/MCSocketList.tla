---------------------------- MODULE MCSocketList ----------------------------
(* Model-checking instances of SocketList                                    *)
EXTENDS SocketList

CONSTANTS a, b, c, home, away

(* a and b come from one address *)
HostOf == [s \in Sockets |-> IF s = c THEN away ELSE home]
=============================================================================
