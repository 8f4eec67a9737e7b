------------------------------- MODULE ProcPool -------------------------------
(***************************************************************************)
(* What the HTTP adapter promises about its request processors, with no   *)
(* semaphores, signals or process states: each accepted connection gets   *)
(* one processor for its life, never more than Capacity processors are    *)
(* alive at once, and once the adapter has exited no processor is started *)
(* again.  Processors end on their own; the adapter may stop at any time  *)
(* (the processors it leaves running finish later).                        *)
(* HttpProcPool implements this specification.                             *)
(***************************************************************************)
EXTENDS Naturals, FiniteSets

CONSTANTS
    Capacity,   \* hMax: the most processors alive at once
    Conns       \* the connections the adapter may accept

VARIABLES
    busy,       \* the connections whose processor is alive
    served,     \* the connections that have been given a processor
    accepting   \* the adapter process is still running

poolVars == <<busy, served, accepting>>

Init ==
    /\ busy = {}
    /\ served = {}
    /\ accepting = TRUE

\* A processor is started for a new connection while a place is free.
Admit(c) ==
    /\ accepting
    /\ c \notin served
    /\ Cardinality(busy) < Capacity
    /\ busy' = busy \union {c}
    /\ served' = served \union {c}
    /\ UNCHANGED accepting

\* A processor ends: its connection is done, its place is free again.
Finish(c) ==
    /\ c \in busy
    /\ busy' = busy \ {c}
    /\ UNCHANGED <<served, accepting>>

\* The adapter exits.
Stop ==
    /\ accepting
    /\ accepting' = FALSE
    /\ UNCHANGED <<busy, served>>

Next == Stop \/ \E c \in Conns : Admit(c) \/ Finish(c)

Spec == Init /\ [][Next]_poolVars

=============================================================================
