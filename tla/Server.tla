---------------------------------- MODULE Server -------------------------------
(***************************************************************************)
(* The server child of src/server.c that serves one rcopy, from the wait   *)
(* for FNAME_OK_ACK to its exit.  A poll() splits a handler in two: what   *)
(* it does before the poll, and what it does with the poll's outcome.      *)
(* serverState names the handler and, where it has one, the poll it is in: *)
(*                                                                         *)
(*   WAIT_ON_FILENAME_OK_ACK  filenameOk(), in pollCall(LONG_TIME)         *)
(*   SEND_DATA                sendData(), at the head of its first loop    *)
(*   SEND_DATA_POLL           sendData(), at pollCall(0) after a send      *)
(*   SEND_DATA_WAIT           sendData(), at the head of its second loop   *)
(*   SEND_EOF                 sendEofAndWaitForAck(), before it sends      *)
(*   SEND_EOF_POLL            sendEofAndWaitForAck(), in processPoll()     *)
(*   DONE                     processClient() has returned                 *)
(*   EXITED                   exit(0) of processResponse(), on EOF_ACK     *)
(***************************************************************************)
EXTENDS SlidingWindow, Pdu

CONSTANT ReadMayFail     \* whether read() on the from-file can return -1

ASSUME ReadAssumption == ReadMayFail \in BOOLEAN

VARIABLES
    serverState,
    win,               \* the statics of slidingWindow.c
    serverSeqNum,      \* the next sequence number to send
    atEOF,             \* a read() has returned 0
    waitingForLastRR,
    tryCount           \* polls in a row that timed out

serverVars == <<serverState, win, serverSeqNum, atEOF, waitingForLastRR, tryCount>>

ServerStates == {"WAIT_ON_FILENAME_OK_ACK", "SEND_DATA", "SEND_DATA_POLL",
                 "SEND_DATA_WAIT", "SEND_EOF", "SEND_EOF_POLL", "DONE", "EXITED"}

ServerInit ==
    /\ serverState = "WAIT_ON_FILENAME_OK_ACK"
    /\ win = SetupWindow
    /\ serverSeqNum = 0
    /\ atEOF = FALSE
    /\ waitingForLastRR = FALSE
    /\ tryCount = 0

ServerEnds(how) ==
    /\ serverState' = how
    /\ toServer' = Closed(toServer)

--------------------------------------------------------------------------------
(* filenameOk(): whatever arrives, corrupted or not, stands for the ack.   *)
FilenameOkAckReceived ==
    /\ serverState = "WAIT_ON_FILENAME_OK_ACK"
    /\ toServer.queue # << >>
    /\ toServer' = Received(toServer)
    /\ serverState' = "SEND_DATA"
    /\ UNCHANGED <<win, serverSeqNum, atEOF, waitingForLastRR, tryCount, toClient>>

FilenameOkAckTimeout ==
    /\ serverState = "WAIT_ON_FILENAME_OK_ACK"
    /\ ServerEnds("DONE")
    /\ UNCHANGED <<win, serverSeqNum, atEOF, waitingForLastRR, tryCount, toClient>>

--------------------------------------------------------------------------------
(***************************************************************************)
(* processResponse(), called by the handler that then goes on to goOn.     *)
(* Its last argument lastDataSeqNum is set only once read() has reached    *)
(* the end of the file; before that it is an uninitialized local and the   *)
(* comparison with it may come out either way.                             *)
(***************************************************************************)
EqualsLastDataSeqNum(target) ==
    IF atEOF THEN {target = serverSeqNum} ELSE BOOLEAN

IgnoreResponse(m, goOn) ==
    /\ m.flag \notin {"RR", "SREJ", "EOF_ACK"}
    /\ serverState' = goOn
    /\ toServer' = Received(toServer)
    /\ UNCHANGED <<win, waitingForLastRR, toClient>>

ResendRejected(m, goOn) ==
    /\ m.flag = "SREJ"
    /\ SendToClient(DataPDU("RESENT_DATA_SREJ", m.target,
                            GetDataFromWindow(win, m.target)))
    /\ serverState' = goOn
    /\ toServer' = Received(toServer)
    /\ UNCHANGED <<win, waitingForLastRR>>

SlideWindow(m, goOn) ==
    /\ m.flag = "RR"
    /\ win' = UpdateLower(win, m.target)
    /\ \E isLast \in EqualsLastDataSeqNum(m.target) :
           waitingForLastRR' = (waitingForLastRR /\ ~isLast)
    /\ serverState' = goOn
    /\ toServer' = Received(toServer)
    /\ UNCHANGED toClient

(* Mutant: as in filenameOk(), whatever is no request stands for the ack.  *)
ExitOnAnyAck(m) ==
    /\ m.flag \notin {"RR", "SREJ"}
    /\ ServerEnds("EXITED")
    /\ UNCHANGED <<win, waitingForLastRR, toClient>>

ExitOnEofAck(m) ==
    /\ m.flag = "EOF_ACK"
    /\ ServerEnds("EXITED")
    /\ UNCHANGED <<win, waitingForLastRR, toClient>>

ProcessResponse(goOn) ==
    /\ toServer.queue # << >>
    /\ LET m == Head(toServer.queue)
       IN  \/ IgnoreResponse(m, goOn)
           \/ ResendRejected(m, goOn)
           \/ SlideWindow(m, goOn)
           \/ ExitOnEofAck(m)

--------------------------------------------------------------------------------
(* First loop of sendData(): while the window is open, read, store, send.  *)
SendNextChunk ==
    /\ serverState = "SEND_DATA"
    /\ IsWindowOpen(win) /\ ~atEOF
    /\ serverSeqNum < LastSeqNum
    /\ win' = AddDataToWindow(win, serverSeqNum, ChunkAt(serverSeqNum))
    /\ SendToClient(DataPDU("DATA", serverSeqNum, ChunkAt(serverSeqNum)))
    /\ serverSeqNum' = serverSeqNum + 1
    /\ serverState' = "SEND_DATA_POLL"
    /\ UNCHANGED <<atEOF, waitingForLastRR, tryCount, toServer>>

ReachEndOfFile ==
    /\ serverState = "SEND_DATA"
    /\ IsWindowOpen(win) /\ ~atEOF
    /\ serverSeqNum = LastSeqNum
    /\ atEOF' = TRUE
    /\ serverState' = "SEND_DATA_POLL"
    /\ UNCHANGED <<win, serverSeqNum, waitingForLastRR, tryCount, linkVars>>

ReadError ==
    /\ ReadMayFail
    /\ serverState = "SEND_DATA"
    /\ IsWindowOpen(win) /\ ~atEOF
    /\ ServerEnds("DONE")
    /\ UNCHANGED <<win, serverSeqNum, atEOF, waitingForLastRR, tryCount, toClient>>

(* pollCall(0): at most one response, and none if none has arrived yet.    *)
PollWhileOpen ==
    /\ serverState = "SEND_DATA_POLL"
    /\ \/ ProcessResponse("SEND_DATA")
       \/ /\ serverState' = "SEND_DATA"
          /\ UNCHANGED <<win, waitingForLastRR, linkVars>>
    /\ UNCHANGED <<serverSeqNum, atEOF, tryCount>>

(* Mutant: END_OF_FILE is due as soon as the file has been read.           *)
StopSendingAtOnce ==
    /\ serverState = "SEND_DATA"
    /\ IsWindowClosed(win) \/ atEOF
    /\ tryCount' = 0
    /\ serverState' = "SEND_DATA_WAIT"
    /\ UNCHANGED <<win, serverSeqNum, atEOF, waitingForLastRR, linkVars>>

(* Between the loops: is the last RR still to come?  The test reads the    *)
(* sequence number stored in the slot of `lower`, not `lower` itself.      *)
StopSending ==
    /\ serverState = "SEND_DATA"
    /\ IsWindowClosed(win) \/ atEOF
    /\ waitingForLastRR' =
           (waitingForLastRR \/ (atEOF /\ serverSeqNum # GetLowestSeqNum(win)))
    /\ tryCount' = 0
    /\ serverState' = "SEND_DATA_WAIT"
    /\ UNCHANGED <<win, serverSeqNum, atEOF, linkVars>>

--------------------------------------------------------------------------------
(* Second loop of sendData(): a closed window, or the last RR, is awaited. *)
MustWait == IsWindowClosed(win) \/ waitingForLastRR

ResponseWhileWaiting ==
    /\ serverState = "SEND_DATA_WAIT" /\ MustWait
    /\ ProcessResponse("SEND_DATA_WAIT")
    /\ tryCount' = 0
    /\ UNCHANGED <<serverSeqNum, atEOF>>

(* processPoll() times out: resend the lowest, or give up.                 *)
ResendLowest ==
    /\ serverState = "SEND_DATA_WAIT" /\ MustWait
    /\ tryCount + 1 < MAX_TRIES
    /\ tryCount' = tryCount + 1
    /\ LET lowest == GetLowestSeqNumData(win)
       IN  SendToClient(DataPDU("RESENT_DATA_TIMEOUT", lowest.seqNum, lowest.data))
    /\ UNCHANGED <<serverState, win, serverSeqNum, atEOF, waitingForLastRR, toServer>>

QuitSending ==
    /\ serverState = "SEND_DATA_WAIT" /\ MustWait
    /\ tryCount + 1 >= MAX_TRIES
    /\ tryCount' = tryCount + 1
    /\ ServerEnds("DONE")
    /\ UNCHANGED <<win, serverSeqNum, atEOF, waitingForLastRR, toClient>>

(* sendData() returns SEND_DATA and is called again, or SEND_EOF.  The     *)
(* tryCount of sendEofAndWaitForAck() starts from 0.                       *)
ReturnFromSendData ==
    /\ serverState = "SEND_DATA_WAIT" /\ ~MustWait
    /\ serverState' = IF atEOF THEN "SEND_EOF" ELSE "SEND_DATA"
    /\ tryCount' = 0
    /\ UNCHANGED <<win, serverSeqNum, atEOF, waitingForLastRR, linkVars>>

--------------------------------------------------------------------------------
(* sendEofAndWaitForAck()                                                  *)
SendEof ==
    /\ serverState = "SEND_EOF"
    /\ SendToClient(DataPDU("END_OF_FILE", serverSeqNum, NoData))
    /\ serverState' = "SEND_EOF_POLL"
    /\ UNCHANGED <<win, serverSeqNum, atEOF, waitingForLastRR, tryCount, toServer>>

ResponseToEof ==
    /\ serverState = "SEND_EOF_POLL"
    /\ ProcessResponse("SEND_EOF")
    /\ tryCount' = 0
    /\ UNCHANGED <<serverSeqNum, atEOF>>

(* Mutant: `>` for `>=` in the test of processPoll().                      *)
EofTimeoutOneMore ==
    /\ serverState = "SEND_EOF_POLL"
    /\ tryCount' = tryCount + 1
    /\ \/ /\ tryCount + 1 <= MAX_TRIES
          /\ serverState' = "SEND_EOF"
          /\ UNCHANGED toServer
       \/ /\ tryCount + 1 > MAX_TRIES
          /\ ServerEnds("DONE")
    /\ UNCHANGED <<win, serverSeqNum, atEOF, waitingForLastRR, toClient>>

(* Mutant: tryCount starts again with every END_OF_FILE sent.              *)
EofTimeoutForgetful ==
    /\ serverState = "SEND_EOF_POLL"
    /\ serverState' = "SEND_EOF"
    /\ tryCount' = 0
    /\ UNCHANGED <<win, serverSeqNum, atEOF, waitingForLastRR, linkVars>>

EofTimeout ==
    /\ serverState = "SEND_EOF_POLL"
    /\ tryCount' = tryCount + 1
    /\ \/ /\ tryCount + 1 < MAX_TRIES
          /\ serverState' = "SEND_EOF"
          /\ UNCHANGED toServer
       \/ /\ tryCount + 1 >= MAX_TRIES
          /\ ServerEnds("DONE")
    /\ UNCHANGED <<win, serverSeqNum, atEOF, waitingForLastRR, toClient>>

--------------------------------------------------------------------------------
(* What the child does without waiting for a timer to run out ...          *)
ServerStep ==
    \/ FilenameOkAckReceived
    \/ SendNextChunk \/ ReachEndOfFile \/ ReadError \/ PollWhileOpen \/ StopSending
    \/ ResponseWhileWaiting \/ ReturnFromSendData
    \/ SendEof \/ ResponseToEof

(* ... and when a poll of 1 s (SHORT_TIME) runs out.  The third kind, the  *)
(* 10 s poll, is FilenameOkAckTimeout.                                     *)
ServerShortTimeout == ResendLowest \/ QuitSending \/ EofTimeout

ServerTypeOK ==
    /\ serverState \in ServerStates
    /\ win \in WindowType
    /\ serverSeqNum \in 0 .. LastSeqNum
    /\ atEOF \in BOOLEAN
    /\ waitingForLastRR \in BOOLEAN
    /\ tryCount \in 0 .. MAX_TRIES
================================================================================
