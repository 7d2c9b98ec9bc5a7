-------------------------------- MODULE LossyLink ------------------------------
(***************************************************************************)
(* What senders may rely on when they send through sendtoErr(): the        *)
(* abstract specification that ErrorInjection implements, and that Pdu     *)
(* takes for granted.  The datagrams of a sender leave in the order they   *)
(* were handed over, each at most once; one may be missing only if drops   *)
(* are on, and one may differ from what was handed over only if flips are  *)
(* on, and then in one byte, which is what the checksum can tell.          *)
(***************************************************************************)
EXTENDS Naturals, Sequences

CONSTANTS
    Sender,      \* the processes that send
    Byte         \* the positions of the bytes of a datagram

VARIABLES
    handed,      \* how many datagrams each has handed over
    wire,        \* those that left: [number, flipped], the bytes that differ
    mayDrop,     \* whether the settings allow a datagram to be dropped
    mayFlip      \* whether they allow one to be changed

vars == <<handed, wire, mayDrop, mayFlip>>

Init ==
    /\ handed = [s \in Sender |-> 0]
    /\ wire = [s \in Sender |-> << >>]
    /\ mayDrop \in BOOLEAN /\ mayFlip \in BOOLEAN

Leaves(s, flipped) ==
    wire' = [wire EXCEPT ![s] = Append(@, [number |-> handed[s] + 1, flipped |-> flipped])]

HandOver(s) ==
    /\ handed' = [handed EXCEPT ![s] = @ + 1]
    /\ \/ Leaves(s, {})
       \/ mayFlip /\ \E byte \in Byte : Leaves(s, {byte})
       \/ mayDrop /\ UNCHANGED wire
    /\ UNCHANGED <<mayDrop, mayFlip>>

Next == \E s \in Sender : HandOver(s)

Spec == Init /\ [][Next]_vars
================================================================================
