------------------------------- MODULE FileRequest ------------------------------
(***************************************************************************)
(* What the setup of a connection promises, without sockets, tries or      *)
(* datagrams.  However many children are forked for a client, it chooses   *)
(* one of its own, for good, and only for a file that exists; no child     *)
(* sends a file before it was chosen; and what a client takes for the      *)
(* first packet is one that its child has sent.  A client may leave at any *)
(* time, and its child may start after that.                               *)
(***************************************************************************)
EXTENDS Naturals, Sequences

CONSTANTS
    Client,      \* those who ask for a file
    Found        \* those whose file exists

VARIABLES
    forkedFor,   \* the client each child was forked for
    chosen,      \* the child each client has chosen, or 0
    serving,     \* the children that send
    first,       \* the first packet each client has taken, or "none"
    present      \* whether it is still there

vars == <<forkedFor, chosen, serving, first, present>>

Init ==
    /\ forkedFor = << >> /\ serving = {}
    /\ chosen = [c \in Client |-> 0]
    /\ first = [c \in Client |-> "none"]
    /\ present = [c \in Client |-> TRUE]

(* Any number of times, and even when the client has left.                 *)
Fork(c) ==
    /\ forkedFor' = Append(forkedFor, c)
    /\ UNCHANGED <<chosen, serving, first, present>>

Choose(c) ==
    /\ present[c] /\ c \in Found /\ chosen[c] = 0
    /\ \E k \in DOMAIN forkedFor :
           forkedFor[k] = c /\ chosen' = [chosen EXCEPT ![c] = k]
    /\ UNCHANGED <<forkedFor, serving, first, present>>

Serve(k) ==
    /\ k \notin serving /\ chosen[forkedFor[k]] = k
    /\ serving' = serving \cup {k}
    /\ UNCHANGED <<forkedFor, chosen, first, present>>

Receive(c) ==
    /\ present[c] /\ first[c] = "none" /\ chosen[c] \in serving
    /\ first' = [first EXCEPT ![c] = "DATA"]
    /\ UNCHANGED <<forkedFor, chosen, serving, present>>

Leave(c) ==
    /\ present[c]
    /\ present' = [present EXCEPT ![c] = FALSE]
    /\ UNCHANGED <<forkedFor, chosen, serving, first>>

Next ==
    \/ \E c \in Client : Fork(c) \/ Choose(c) \/ Receive(c) \/ Leave(c)
    \/ \E k \in DOMAIN forkedFor : Serve(k)

Spec == Init /\ [][Next]_vars
================================================================================
