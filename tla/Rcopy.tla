----------------------------------- MODULE Rcopy -------------------------------
(***************************************************************************)
(* The client of src/rcopy.c, from the first FNAME_OK_ACK to its exit.     *)
(* clientState is the STATE of processFile(), refined by the poll or the   *)
(* blocking call a handler is in:                                          *)
(*                                                                         *)
(*   FILENAME_OK       filenameOk(), before it sends                       *)
(*   FILENAME_OK_POLL  filenameOk(), in processPoll()                      *)
(*   RECV_DATA         receiveData(), in pollCall(LONG_TIME)               *)
(*   RECV_DATA_BLOCKED receiveData(), in recvfrom() after that poll        *)
(*   SEND_EOF_ACK      sendEOFAck()                                        *)
(***************************************************************************)
EXTENDS ReceiveBuffer, Pdu

VARIABLES
    clientState,
    dataState,       \* the static DATA_STATE of receiveData()
    expectedSeqNum,
    highestSeqNum,
    buffer,          \* the static array of buffer.c
    outputFile,      \* what each write() to the to-file has written
    retryCount       \* polls of filenameOk() in a row that timed out

clientVars == <<clientState, dataState, expectedSeqNum, highestSeqNum,
                buffer, outputFile, retryCount>>

ClientStates == {"FILENAME_OK", "FILENAME_OK_POLL", "RECV_DATA",
                 "RECV_DATA_BLOCKED", "SEND_EOF_ACK", "DONE"}

ClientInit ==
    /\ clientState = "FILENAME_OK"
    /\ dataState = "IN_ORDER"
    /\ expectedSeqNum = 0
    /\ highestSeqNum = 0
    /\ buffer = SetupBuffer
    /\ outputFile = << >>
    /\ retryCount = 0

ClientExits ==
    /\ clientState' = "DONE"
    /\ toClient' = Closed(toClient)

receiveVars == <<dataState, expectedSeqNum, highestSeqNum, buffer, outputFile>>

--------------------------------------------------------------------------------
(* filenameOk()                                                            *)
SendFilenameOkAck ==
    /\ clientState = "FILENAME_OK"
    /\ SendToServer(ControlPDU("FNAME_OK_ACK", 0))
    /\ clientState' = "FILENAME_OK_POLL"
    /\ UNCHANGED <<receiveVars, retryCount, toClient>>

FirstDataArrives ==
    /\ clientState = "FILENAME_OK_POLL"
    /\ toClient.queue # << >>
    /\ clientState' = "RECV_DATA"
    /\ retryCount' = 0
    /\ UNCHANGED <<receiveVars, linkVars>>

FilenameOkTimeout ==
    /\ clientState = "FILENAME_OK_POLL"
    /\ retryCount' = retryCount + 1
    /\ \/ /\ retryCount + 1 < MAX_TRIES
          /\ clientState' = "FILENAME_OK"
          /\ UNCHANGED toClient
       \/ /\ retryCount + 1 >= MAX_TRIES
          /\ ClientExits
    /\ UNCHANGED <<receiveVars, toServer>>

--------------------------------------------------------------------------------
(***************************************************************************)
(* receiveData(): poll, receive, drop if corrupted, then inOrder() or      *)
(* buffer() and, if that one asks for it, flush().                         *)
(***************************************************************************)

(* pollCall() reports a timeout with -1 ...                                *)
PollCallTimedOut == -1

(* ... and receiveData() returns DONE for 0; anything else goes on to a    *)
(* recvfrom() that blocks.                                                 *)
ReceiveTimeout ==
    /\ clientState = "RECV_DATA"
    /\ IF PollCallTimedOut = 0
       THEN ClientExits
       ELSE clientState' = "RECV_DATA_BLOCKED" /\ UNCHANGED toClient
    /\ UNCHANGED <<receiveVars, retryCount, toServer>>

Reply(flag, target) == ControlPDU(flag, target)

ReplyRR(expected) == SendToServer(Reply("RR", expected))
ReplySREJ(expected) == SendToServer(Reply("SREJ", expected))

ReplyRRAndSREJ(expected) ==
    \E link \in Sent(toServer, Reply("RR", expected), FlippedControl) :
        toServer' \in Sent(link, Reply("SREJ", expected), FlippedControl)

(* What inOrder() and buffer() do with END_OF_FILE when it is expected.    *)
AcceptEof(m) ==
    /\ m.flag = "END_OF_FILE" /\ m.seqNum = expectedSeqNum
    /\ dataState' = "DATA_STATE_DONE"
    /\ clientState' = "SEND_EOF_ACK"
    /\ UNCHANGED <<expectedSeqNum, highestSeqNum, buffer, outputFile, toServer>>

AcceptInOrder(m) ==
    /\ dataState = "IN_ORDER"
    /\ m.flag # "END_OF_FILE" /\ m.seqNum = expectedSeqNum
    /\ highestSeqNum' = m.seqNum
    /\ expectedSeqNum' = expectedSeqNum + 1
    /\ outputFile' = Append(outputFile, m.payload)
    /\ ReplyRR(expectedSeqNum + 1)
    /\ clientState' = "RECV_DATA"
    /\ UNCHANGED <<dataState, buffer>>

(* highestSeqNum follows the last packet stored, not the highest one.      *)
StoreAhead(m) ==
    /\ m.seqNum > expectedSeqNum
    /\ highestSeqNum' = m.seqNum
    /\ buffer' = AddDataToBuffer(buffer, m.seqNum, m.flag, m.payload)
    /\ \/ dataState = "IN_ORDER" /\ ReplySREJ(expectedSeqNum)
       \/ dataState = "BUFFER" /\ UNCHANGED toServer
    /\ dataState' = "BUFFER"
    /\ clientState' = "RECV_DATA"
    /\ UNCHANGED <<expectedSeqNum, outputFile>>

(* Mutant: old data is acknowledged by its own number.                     *)
AnswerOldDataByNumber(m) ==
    /\ m.seqNum < expectedSeqNum
    /\ ReplyRR(m.seqNum)
    /\ clientState' = "RECV_DATA"
    /\ UNCHANGED receiveVars

(* Mutant: old data is dropped without an answer.                          *)
DropOldData(m) ==
    /\ m.seqNum < expectedSeqNum
    /\ clientState' = "RECV_DATA"
    /\ UNCHANGED <<receiveVars, toServer>>

AnswerOldData(m) ==
    /\ m.seqNum < expectedSeqNum
    /\ \/ dataState = "IN_ORDER" /\ ReplyRR(expectedSeqNum)
       \/ dataState = "BUFFER" /\ ReplyRRAndSREJ(expectedSeqNum)
    /\ clientState' = "RECV_DATA"
    /\ UNCHANGED receiveVars

(* The end of flush(): ask for what is still missing, or go on in order.   *)
AnswerFlush(stop) ==
    /\ \/ stop < highestSeqNum /\ ReplyRRAndSREJ(stop) /\ dataState' = "BUFFER"
       \/ stop >= highestSeqNum /\ ReplyRR(stop) /\ dataState' = "IN_ORDER"
    /\ clientState' = "RECV_DATA"

(* buffer() writes the missing packet, flush() what was stored behind it.  *)
FillGap(m) ==
    /\ dataState = "BUFFER"
    /\ m.flag # "END_OF_FILE" /\ m.seqNum = expectedSeqNum
    /\ LET first == expectedSeqNum + 1
           stop  == FlushStop(buffer, first, highestSeqNum)
           byEof == StoppedByEof(buffer, first, highestSeqNum, stop)
       IN  /\ expectedSeqNum' = stop
           /\ outputFile' = Append(outputFile, m.payload) \o Flushed(buffer, first, stop - 1)
           /\ buffer' = Taken(buffer, first, IF byEof THEN stop ELSE stop - 1)
           /\ IF byEof
              THEN /\ dataState' = "DATA_STATE_DONE"
                   /\ clientState' = "SEND_EOF_ACK"
                   /\ UNCHANGED toServer
              ELSE AnswerFlush(stop)
    /\ UNCHANGED highestSeqNum

DropCorrupted(m) ==
    /\ m.flag = "CRC_ERROR"
    /\ clientState' = "RECV_DATA"
    /\ UNCHANGED <<receiveVars, toServer>>

ReceiveData ==
    /\ clientState \in {"RECV_DATA", "RECV_DATA_BLOCKED"}
    /\ toClient.queue # << >>
    /\ toClient' = Received(toClient)
    /\ LET m == Head(toClient.queue)
       IN  \/ DropCorrupted(m)
           \/ /\ m.flag # "CRC_ERROR"
              /\ \/ AcceptEof(m)
                 \/ AcceptInOrder(m)
                 \/ StoreAhead(m)
                 \/ AnswerOldData(m)
                 \/ FillGap(m)
    /\ UNCHANGED retryCount

--------------------------------------------------------------------------------
SendEOFAck ==
    /\ clientState = "SEND_EOF_ACK"
    /\ SendToServer(ControlPDU("EOF_ACK", 0))
    /\ ClientExits
    /\ UNCHANGED <<receiveVars, retryCount>>

--------------------------------------------------------------------------------
ClientStep == SendFilenameOkAck \/ FirstDataArrives \/ ReceiveData \/ SendEOFAck

ClientTypeOK ==
    /\ clientState \in ClientStates
    /\ dataState \in {"IN_ORDER", "BUFFER", "DATA_STATE_DONE"}
    /\ expectedSeqNum \in Nat
    /\ highestSeqNum \in Nat
    /\ buffer \in BufferType
    /\ outputFile \in Seq(Chunk \cup {NoData})
    /\ retryCount \in 0 .. MAX_TRIES
================================================================================
