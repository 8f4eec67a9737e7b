---------------------------- MODULE MCLocalClient ----------------------------
(* Model-checking instance of LocalClient: two environments of one        *)
(* process and two clients, so that one environment can hold a client   *)
(* while the other is created and released.                               *)
EXTENDS LocalClient

CONSTANTS e1, e2, c1, c2

MCEnvs == {e1, e2}
MCClients == {c1, c2}
=============================================================================
