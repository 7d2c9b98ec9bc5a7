--------------------------- MODULE TransferInvariant ---------------------------
(***************************************************************************)
(* Why FileTransfer is correct: an inductive invariant, in named parts.    *)
(***************************************************************************)
EXTENDS FileTransfer

DataPDUs    == {"DATA", "RESENT_DATA_SREJ", "RESENT_DATA_TIMEOUT"}
Responses   == {"RR", "SREJ"}

(* The window is [lower, upper), what rcopy has acknowledged is below it,  *)
(* and every slot between lower and current still holds its own packet.    *)
WindowInv ==
    /\ win.current = serverSeqNum
    /\ win.upper = win.lower + WindowSize
    /\ win.lower <= expectedSeqNum
    /\ expectedSeqNum <= serverSeqNum
    /\ serverSeqNum <= win.upper
    /\ serverSeqNum <= LastSeqNum
    /\ \A s \in win.lower .. serverSeqNum - 1 :
           win.slots[GetIndex(s)] = [seqNum |-> s, data |-> ChunkAt(s)]
    /\ \A i \in 0 .. WindowSize - 1 :
           win.slots[i].seqNum < serverSeqNum \/ win.slots[i] = EmptySlot

(* The server sends END_OF_FILE only once rcopy has acknowledged the rest. *)
EndOfFileInv ==
    /\ atEOF => serverSeqNum = LastSeqNum
    /\ waitingForLastRR => atEOF /\ serverSeqNum > 0
    /\ serverState = "SEND_DATA_WAIT" /\ atEOF /\ ~waitingForLastRR
           => win.lower = LastSeqNum
    /\ serverState \in {"SEND_EOF", "SEND_EOF_POLL"}
           => atEOF /\ win.lower = LastSeqNum

(* What rcopy has asked for never goes back, and the server has it.        *)
GoodResponse(m) ==
    m.flag \in Responses =>
        /\ win.lower <= m.target
        /\ m.target <= expectedSeqNum
        /\ m.flag = "SREJ" => m.target < serverSeqNum

ResponsesOrdered(m, n) ==
    m.flag \in Responses /\ n.flag \in Responses => m.target <= n.target

ToServerInv ==
    LET q == toServer.queue
    IN  /\ \A i \in 1 .. Len(q) : GoodResponse(q[i])
        /\ \A i, j \in 1 .. Len(q) : i < j => ResponsesOrdered(q[i], q[j])

(* Packets not yet written carry their chunk; only first transmissions run *)
(* ahead of rcopy, and those arrive in order.                              *)
GoodData(m) ==
    m.flag \in DataPDUs =>
        /\ m.seqNum < serverSeqNum
        /\ m.seqNum >= expectedSeqNum => m.payload = ChunkAt(m.seqNum)
        /\ m.flag # "DATA" => m.seqNum <= expectedSeqNum
        /\ m.flag = "DATA" /\ dataState = "BUFFER" => m.seqNum >= highestSeqNum

GoodEof(m) ==
    m.flag = "END_OF_FILE" =>
        m.seqNum = LastSeqNum /\ expectedSeqNum = LastSeqNum

DataOrdered(m, n) ==
    m.flag = "DATA" /\ n.flag = "DATA" => m.seqNum <= n.seqNum

ToClientInv ==
    LET q == toClient.queue
    IN  /\ \A i \in 1 .. Len(q) : GoodData(q[i]) /\ GoodEof(q[i])
        /\ \A i, j \in 1 .. Len(q) : i < j => DataOrdered(q[i], q[j])

(* A valid entry is a chunk rcopy will need, in its own place; highest is  *)
(* the highest of them.                                                    *)
BufferInv ==
    /\ \A i \in 0 .. WindowSize - 1 : buffer[i].valid =>
           /\ dataState = "BUFFER"
           /\ BufferIndex(buffer[i].seqNum) = i
           /\ expectedSeqNum < buffer[i].seqNum
           /\ buffer[i].seqNum <= highestSeqNum
           /\ buffer[i].flag # "END_OF_FILE"
           /\ buffer[i].data = ChunkAt(buffer[i].seqNum)
    /\ dataState = "BUFFER" =>
           /\ expectedSeqNum < highestSeqNum
           /\ highestSeqNum < serverSeqNum
           /\ Entry(buffer, highestSeqNum).valid

OutputInv ==
    /\ Len(outputFile) = expectedSeqNum
    /\ \A k \in 1 .. expectedSeqNum : outputFile[k] = File[k]

(* Each side ends a transfer only after the other has come that far.       *)
TeardownInv ==
    /\ dataState = "DATA_STATE_DONE" => expectedSeqNum = LastSeqNum
    /\ clientState = "SEND_EOF_ACK" => dataState = "DATA_STATE_DONE"
    /\ dataState = "DATA_STATE_DONE" => clientState \in {"SEND_EOF_ACK", "DONE"}
    /\ \A i \in 1 .. Len(toServer.queue) :
           toServer.queue[i].flag = "EOF_ACK" => dataState = "DATA_STATE_DONE"
    /\ serverState = "EXITED" => dataState = "DATA_STATE_DONE"

(* A handler that can still poll has tries left.                           *)
TriesInv ==
    /\ serverState # "DONE" => tryCount < MAX_TRIES
    /\ clientState # "DONE" => retryCount < MAX_TRIES

TransferInv ==
    /\ TriesInv
    /\ WindowInv /\ EndOfFileInv
    /\ ToServerInv /\ ToClientInv
    /\ BufferInv /\ OutputInv
    /\ TeardownInv
================================================================================
