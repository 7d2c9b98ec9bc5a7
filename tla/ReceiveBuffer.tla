----------------------------- MODULE ReceiveBuffer -----------------------------
(***************************************************************************)
(* src/buffer.c and the loop of flush() in src/rcopy.c: the array in which *)
(* rcopy keeps the packets that arrive ahead of the one it expects.        *)
(***************************************************************************)
EXTENDS SharedConstants, FiniteSetsExt

EmptyEntry == [seqNum |-> 0, flag |-> "NONE", data |-> NoData, valid |-> FALSE]

SetupBuffer == [i \in 0 .. WindowSize - 1 |-> EmptyEntry]

BufferIndex(seqNum) == seqNum % WindowSize

Entry(b, seqNum) == b[BufferIndex(seqNum)]

(* An entry already valid is overwritten without a test.                   *)
AddDataToBuffer(b, seqNum, flag, data) ==
    [b EXCEPT ![BufferIndex(seqNum)] =
        [seqNum |-> seqNum, flag |-> flag, data |-> data, valid |-> TRUE]]

(***************************************************************************)
(* The loop of flush() calls getDataFromBuffer(), which invalidates what   *)
(* it returns, on expected, expected + 1, ... as long as the number is at  *)
(* most highest and its entry is valid.  It has gone once round the array  *)
(* after WindowSize entries.  It returns early at an END_OF_FILE entry.    *)
(***************************************************************************)
FlushStops(b, expected, highest) ==
    {s \in expected .. expected + WindowSize :
        \/ s > highest
        \/ s = expected + WindowSize
        \/ ~Entry(b, s).valid
        \/ Entry(b, s).flag = "END_OF_FILE"}

FlushStop(b, expected, highest) == Min(FlushStops(b, expected, highest))

(* The loop ended at an END_OF_FILE entry rather than at its condition.    *)
StoppedByEof(b, expected, highest, stop) ==
    /\ stop <= highest
    /\ stop < expected + WindowSize
    /\ Entry(b, stop).valid
    /\ Entry(b, stop).flag = "END_OF_FILE"

Invalidated(entry) ==
    [seqNum |-> entry.seqNum, flag |-> entry.flag, data |-> entry.data, valid |-> FALSE]

(* Mutant: flush() clears the whole array.                                 *)
ClearAll(b, first, last) == [i \in DOMAIN b |-> Invalidated(b[i])]

(* The buffer after the entries of first .. last have been taken out.      *)
Taken(b, first, last) ==
    [i \in DOMAIN b |->
        IF \E s \in first .. last : BufferIndex(s) = i
        THEN Invalidated(b[i])
        ELSE b[i]]

(* The payloads written to the to-file for first .. last, in that order.   *)
Flushed(b, first, last) ==
    [k \in 1 .. (last + 1 - first) |-> Entry(b, first + k - 1).data]

BufferType ==
    [0 .. WindowSize - 1 ->
        [seqNum : Nat, flag : {"NONE", "DATA", "RESENT_DATA_SREJ",
                               "RESENT_DATA_TIMEOUT", "END_OF_FILE"},
         data : Chunk \cup {NoData}, valid : BOOLEAN]]
================================================================================
