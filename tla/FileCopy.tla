--------------------------------- MODULE FileCopy ------------------------------
(***************************************************************************)
(* What a transfer promises, without windows, packets or timers: the copy  *)
(* grows along the from-file, the receiver is complete only with all of    *)
(* it, and the sender counts the transfer as done only after the receiver. *)
(* Either side may give up before that.                                    *)
(***************************************************************************)
EXTENDS SharedConstants

VARIABLES
    copy,       \* what the receiver has written
    receiver,   \* "receiving", "complete" or "gaveUp"
    sender      \* "sending", "confirmed" or "gaveUp"

copyVars == <<copy, receiver, sender>>

Prefix(n) == [k \in 1 .. n |-> File[k]]

CopyInit == copy = << >> /\ receiver = "receiving" /\ sender = "sending"

(* One packet, or a gap's packet and all that was waiting behind it.       *)
Extend ==
    /\ receiver = "receiving"
    /\ \E n \in Len(copy) + 1 .. LastSeqNum : copy' = Prefix(n)
    /\ UNCHANGED <<receiver, sender>>

Complete ==
    /\ receiver = "receiving" /\ copy = File
    /\ receiver' = "complete"
    /\ UNCHANGED <<copy, sender>>

Abandon ==
    /\ receiver = "receiving"
    /\ receiver' = "gaveUp"
    /\ UNCHANGED <<copy, sender>>

Confirm ==
    /\ sender = "sending" /\ receiver = "complete"
    /\ sender' = "confirmed"
    /\ UNCHANGED <<copy, receiver>>

Withdraw ==
    /\ sender = "sending"
    /\ sender' = "gaveUp"
    /\ UNCHANGED <<copy, receiver>>

CopyNext == Extend \/ Complete \/ Abandon \/ Confirm \/ Withdraw

CopySpec == CopyInit /\ [][CopyNext]_copyVars
================================================================================
