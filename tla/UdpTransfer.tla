-------------------------------- MODULE UdpTransfer ----------------------------
(***************************************************************************)
(* FileTransfer over a path that also reorders: a datagram may overtake    *)
(* the one before it, in either direction.  It counts as a fault.          *)
(***************************************************************************)
EXTENDS FileTransfer

Overtaken(link) ==
    IF link.faults = MaxFaults THEN {}
    ELSE {[link EXCEPT !.queue[i]     = link.queue[i + 1],
                       !.queue[i + 1] = link.queue[i],
                       !.faults       = @ + 1] : i \in 1 .. Len(link.queue) - 1}

Overtake ==
    /\ \/ toServer' \in Overtaken(toServer) /\ UNCHANGED toClient
       \/ toClient' \in Overtaken(toClient) /\ UNCHANGED toServer
    /\ UNCHANGED <<serverVars, clientVars>>

UdpNext == Next \/ Overtake

UdpSpec == Init /\ [][UdpNext]_vars

--------------------------------------------------------------------------------
(***************************************************************************)
(* Even so, what sendData() counts is sound: it goes on to END_OF_FILE     *)
(* only after rcopy has written one chunk for each packet of the file, and *)
(* rcopy never expects a packet that was not sent.  (That the chunks are   *)
(* the right ones is OutputIsPrefix, which reordering breaks.)             *)
(***************************************************************************)
CountsAgree ==
    /\ Len(outputFile) = expectedSeqNum
    /\ expectedSeqNum <= serverSeqNum
    /\ serverState \in {"SEND_EOF", "SEND_EOF_POLL", "EXITED"}
           => Len(outputFile) = LastSeqNum
================================================================================
