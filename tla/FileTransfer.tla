------------------------------- MODULE FileTransfer ----------------------------
(***************************************************************************)
(* One transfer: a server child and an rcopy that have agreed on a file,   *)
(* a window size and a buffer size, joined by two links that may lose,     *)
(* corrupt and duplicate datagrams but keep their order.                   *)
(***************************************************************************)
EXTENDS Server, Rcopy

vars == <<serverVars, clientVars, linkVars>>

Init ==
    /\ ServerInit
    /\ ClientInit
    /\ toServer = NewLink
    /\ toClient = NewLink

ServerActs  == ServerStep /\ UNCHANGED clientVars
ClientActs  == ClientStep /\ UNCHANGED serverVars

ServerShortPollRunsOut == ServerShortTimeout /\ UNCHANGED clientVars
ServerLongPollRunsOut  == FilenameOkAckTimeout /\ UNCHANGED clientVars
ClientShortPollRunsOut == FilenameOkTimeout /\ UNCHANGED serverVars
ClientLongPollRunsOut  == ReceiveTimeout /\ UNCHANGED serverVars

(***************************************************************************)
(* Asynchronous: a datagram may take longer than any timer, so a poll may  *)
(* run out at any time.                                                    *)
(***************************************************************************)
Next ==
    \/ ServerActs
    \/ ClientActs
    \/ ServerShortPollRunsOut
    \/ ServerLongPollRunsOut
    \/ ClientShortPollRunsOut
    \/ ClientLongPollRunsOut

Spec == Init /\ [][Next]_vars

--------------------------------------------------------------------------------
(***************************************************************************)
(* Timely: datagrams and processes are faster than the 1 s timer, so a     *)
(* poll runs out only when nothing is in flight and the peer waits too.    *)
(* A 10 s timer outlasts the MAX_TRIES polls of 1 s of the peer: it runs   *)
(* out only when the peer is gone.                                         *)
(***************************************************************************)
NothingInFlight == toServer.queue = << >> /\ toClient.queue = << >>

ServerIdle == serverState \in {"WAIT_ON_FILENAME_OK_ACK", "SEND_EOF_POLL", "DONE", "EXITED"}
              \/ (serverState = "SEND_DATA_WAIT" /\ MustWait)

ClientIdle == clientState \in {"FILENAME_OK_POLL", "RECV_DATA", "RECV_DATA_BLOCKED", "DONE"}

ServerTimely ==
    \/ ServerActs
    \/ NothingInFlight /\ ClientIdle /\ ServerShortPollRunsOut
    \/ NothingInFlight /\ clientState = "DONE" /\ ServerLongPollRunsOut

ClientTimely ==
    \/ ClientActs
    \/ NothingInFlight /\ ServerIdle /\ ClientShortPollRunsOut
    \/ NothingInFlight /\ serverState = "DONE" /\ ClientLongPollRunsOut

(* The scheduler runs both processes, and a timer that is due goes off.    *)
TimelySpec ==
    /\ Init /\ [][ServerTimely \/ ClientTimely]_vars
    /\ WF_vars(ServerTimely) /\ WF_vars(ClientTimely)

--------------------------------------------------------------------------------
TypeOK == ServerTypeOK /\ ClientTypeOK /\ LinksTypeOK

(***************************************************************************)
(* The to-file is at all times a prefix of the from-file: nothing lost,    *)
(* doubled, reordered or mislabelled, whatever the links and timers do     *)
(* (inOrder(), buffer(), flush() and the server's resends together).       *)
(***************************************************************************)
OutputIsPrefix ==
    /\ Len(outputFile) <= LastSeqNum
    /\ \A k \in 1 .. Len(outputFile) : outputFile[k] = File[k]

(***************************************************************************)
(* A buffered chunk leaves its entry only by being written: until then no  *)
(* addDatatoBuffer() overwrites the entry with another packet and no       *)
(* flush() drops it or skips it.                                           *)
(***************************************************************************)
BufferedUntilWritten ==
    [][\A i \in DOMAIN buffer :
          buffer[i].valid /\ ~(buffer'[i].valid /\ buffer'[i].seqNum = buffer[i].seqNum)
              => buffer[i].seqNum < Len(outputFile')]_vars

(***************************************************************************)
(* addDataToWindow() reuses a slot only when rcopy has written the packet  *)
(* in it: everything rcopy may still ask for by SREJ, or the timeout may   *)
(* resend, is in the window, although neither reader looks at the number   *)
(* stored in the slot and updateLower() accepts any RR.                    *)
(***************************************************************************)
UnwrittenStillInWindow ==
    \A s \in Len(outputFile) .. serverSeqNum - 1 :
        win.slots[GetIndex(s)] = [seqNum |-> s, data |-> ChunkAt(s)]

(***************************************************************************)
(* Acknowledgements are cumulative: updateLower() has no test for it, yet  *)
(* the window never slides back, and never past what rcopy has written.    *)
(***************************************************************************)
WindowOnlyAdvances ==
    [][win.lower <= win'.lower /\ win'.lower <= Len(outputFile)]_vars

--------------------------------------------------------------------------------
(* The transfer as FileCopy sees it.                                       *)
receiverStatus ==
    IF dataState = "DATA_STATE_DONE" THEN "complete"
    ELSE IF clientState = "DONE" THEN "gaveUp" ELSE "receiving"

senderStatus ==
    IF serverState = "EXITED" THEN "confirmed"
    ELSE IF serverState = "DONE" THEN "gaveUp" ELSE "sending"

Abstract == INSTANCE FileCopy
    WITH copy <- outputFile, receiver <- receiverStatus, sender <- senderStatus

(***************************************************************************)
(* The transfer implements FileCopy: rcopy takes END_OF_FILE for the end   *)
(* only with the whole file written, and the server's exit(0) on EOF_ACK   *)
(* comes only after that.                                                  *)
(***************************************************************************)
ImplementsFileCopy == Abstract!CopySpec

--------------------------------------------------------------------------------
(***************************************************************************)
(* A transfer that meets at most one fault each way ends with the whole    *)
(* file copied: no wait of either side on the other is for ever.           *)
(***************************************************************************)
FewFaults == toServer.faults <= 1 /\ toClient.faults <= 1
CopyCompletes == []FewFaults => <>(clientState = "DONE" /\ outputFile = File)

(***************************************************************************)
(* The server child always ends, whatever is lost and wherever rcopy is:   *)
(* forked children do not pile up.                                         *)
(***************************************************************************)
ServerEnded == serverState \in {"DONE", "EXITED"}
ServerTerminates == <>ServerEnded

--------------------------------------------------------------------------------
(***************************************************************************)
(* README.md:108: if the client polls for 10 seconds without data during   *)
(* transfer, it assumes the server is gone and terminates.                 *)
(***************************************************************************)
ClientNoticesDeadServer == ServerEnded ~> clientState = "DONE"

(***************************************************************************)
(* README.md:104: on a timeout the server resends the lowest unacked       *)
(* sequence number.                                                        *)
(***************************************************************************)
ResendsLowestUnacked ==
    [][ResendLowest => /\ win.lower < serverSeqNum
                       /\ GetLowestSeqNum(win) = win.lower]_vars
================================================================================
