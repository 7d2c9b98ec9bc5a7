-------------------------------- MODULE UdpProofs ------------------------------
(***************************************************************************)
(* What sendData() counts is sound on a path that reorders.  TransferInv   *)
(* does not hold there: the window can slide back, and its slots need not  *)
(* hold what rcopy asks for.  What is left are the numbers.                *)
(***************************************************************************)
EXTENDS UdpTransfer, TypeProofs

(* What a response says of rcopy, whenever it arrives.                     *)
RequestFits(m, expected, sent, state) ==
    /\ m.flag \in Responses => m.target <= expected
    /\ m.flag = "SREJ" => m.target < sent
    /\ m.flag = "EOF_ACK" => state = "DATA_STATE_DONE"

(* What a packet says of the server, whenever it arrives.                  *)
DataFits(m, expected, sent) ==
    /\ m.flag \in DataPDUs => m.seqNum < sent
    /\ m.flag = "END_OF_FILE" => m.seqNum = LastSeqNum /\ expected = LastSeqNum

LinksFit ==
    /\ \A i \in 1 .. Len(toServer.queue) :
           RequestFits(toServer.queue[i], expectedSeqNum, serverSeqNum, dataState)
    /\ \A i \in 1 .. Len(toClient.queue) :
           DataFits(toClient.queue[i], expectedSeqNum, serverSeqNum)

(* Every slot holds a packet that was sent, or none.                       *)
SlotsFit(w, sent) ==
    /\ w.current = sent
    /\ w.upper = w.lower + WindowSize
    /\ \A i \in 0 .. WindowSize - 1 : w.slots[i].seqNum < sent \/ w.slots[i].seqNum = 0

(* An RR for the number after the last packet was seen, or is waited for.  *)
EofCounts ==
    /\ atEOF => serverSeqNum = LastSeqNum
    /\ waitingForLastRR => atEOF /\ serverSeqNum > 0
    /\ serverState = "SEND_DATA_WAIT" /\ atEOF /\ ~waitingForLastRR
           => expectedSeqNum = LastSeqNum
    /\ serverState \in {"SEND_EOF", "SEND_EOF_POLL", "EXITED"} => expectedSeqNum = LastSeqNum

ClientCounts ==
    /\ Len(outputFile) = expectedSeqNum
    /\ expectedSeqNum <= serverSeqNum
    /\ dataState = "BUFFER" => expectedSeqNum < serverSeqNum /\ highestSeqNum < serverSeqNum
    /\ \A i \in 0 .. WindowSize - 1 : buffer[i].valid => buffer[i].flag # "END_OF_FILE"
    /\ dataState = "DATA_STATE_DONE" => expectedSeqNum = LastSeqNum
    /\ dataState = "DATA_STATE_DONE" => clientState \in {"SEND_EOF_ACK", "DONE"}
    /\ clientState = "SEND_EOF_ACK" => dataState = "DATA_STATE_DONE"

CountInv == TypeInv /\ LinksFit /\ SlotsFit(win, serverSeqNum) /\ EofCounts /\ ClientCounts

--------------------------------------------------------------------------------
(* The links.                                                              *)

(* Datagram n is on its way.                                               *)
Holds(link, n) == \E j \in 1 .. Len(link.queue) : n = link.queue[j]

(* Overtaking exchanges two neighbours of a queue.                         *)
LEMMA OvertakenProperties ==
    ASSUME NEW M, NEW link \in LinkType(M), NEW after \in Overtaken(link)
    PROVE  /\ after \in LinkType(M)
           /\ \A i \in 1 .. Len(after.queue) :
                  Holds(link, after.queue[i])
  <1> DEFINE q == link.queue
  <1>1. q \in Seq(M) /\ link.faults \in 0 .. MaxFaults /\ link.open \in BOOLEAN
        /\ link = [queue |-> q, faults |-> link.faults, open |-> link.open]
    BY DEF LinkType
  <1>2. PICK k \in 1 .. Len(q) - 1 :
            /\ link.faults # MaxFaults
            /\ after = [link EXCEPT !.queue[k]     = q[k + 1],
                                    !.queue[k + 1] = q[k],
                                    !.faults       = link.faults + 1]
    BY Zenon DEF Overtaken
  <1> DEFINE p == [[q EXCEPT ![k] = q[k + 1]] EXCEPT ![k + 1] = q[k]]
  <1>3. after = [queue |-> p, faults |-> link.faults + 1, open |-> link.open]
    BY <1>1, <1>2
  <1>4. Len(q) \in Nat /\ k \in 1 .. Len(q) /\ k + 1 \in 1 .. Len(q)
    BY <1>1, <1>2
  <1>5. p \in Seq(M) /\ Len(p) = Len(q)
    BY <1>1, <1>4
  <1>6. link.faults + 1 \in 0 .. MaxFaults
    BY <1>1, <1>2, LinkAssumption
  <1>7. after.queue = p
    BY <1>3
  <1>8. ASSUME NEW i \in 1 .. Len(q)
        PROVE  Holds(link, p[i])
    <2>1. p[i] = IF i = k + 1 THEN q[k] ELSE IF i = k THEN q[k + 1] ELSE q[i]
      BY <1>1, <1>4
    <2> QED BY <1>4, <2>1 DEF Holds
  <1>9. after \in LinkType(M)
    BY <1>1, <1>3, <1>5, <1>6 DEF LinkType
  <1>10. \A i \in 1 .. Len(after.queue) : Holds(link, after.queue[i])
    BY <1>5, <1>7, <1>8
  <1> QED BY <1>9, <1>10

(* What both processes may do to the numbers the links are judged by.      *)
Progress ==
    /\ expectedSeqNum <= expectedSeqNum' /\ serverSeqNum <= serverSeqNum'
    /\ expectedSeqNum' <= serverSeqNum'
    /\ dataState = "DATA_STATE_DONE" => dataState' = "DATA_STATE_DONE"

(* The datagrams on the way to the server stay right, if what was there    *)
(* before is joined by right ones only.                                    *)
LEMMA RequestsKept ==
    ASSUME TypeOK, TypeOK', LinksFit, Progress,
           \A i \in 1 .. Len(toServer'.queue) :
               \/ Holds(toServer, toServer'.queue[i])
               \/ RequestFits(toServer'.queue[i], expectedSeqNum', serverSeqNum', dataState')
    PROVE  \A i \in 1 .. Len(toServer'.queue) :
               RequestFits(toServer'.queue[i], expectedSeqNum', serverSeqNum', dataState')
  <1> TAKE i \in 1 .. Len(toServer'.queue)
  <1>1. SUFFICES ASSUME NEW j \in 1 .. Len(toServer.queue),
                        toServer'.queue[i] = toServer.queue[j]
                 PROVE  RequestFits(toServer'.queue[i], expectedSeqNum', serverSeqNum', dataState')
    BY DEF Holds
  <1>2. RequestFits(toServer.queue[j], expectedSeqNum, serverSeqNum, dataState)
    BY DEF LinksFit
  <1>3. /\ toServer.queue[j].target \in Nat
        /\ expectedSeqNum \in Nat /\ serverSeqNum \in Nat
        /\ expectedSeqNum' \in Nat /\ serverSeqNum' \in Nat
    BY InFlightTypes, StateTypes, LastSeqNumType
       DEF TypeOK, ServerTypeOK, ClientTypeOK
  <1> QED BY <1>1, <1>2, <1>3 DEF RequestFits, Progress

(* So do those on the way to rcopy.                                        *)
LEMMA PacketsKept ==
    ASSUME TypeOK, TypeOK', LinksFit, Progress,
           \A i \in 1 .. Len(toClient'.queue) :
               \/ Holds(toClient, toClient'.queue[i])
               \/ DataFits(toClient'.queue[i], expectedSeqNum', serverSeqNum')
    PROVE  \A i \in 1 .. Len(toClient'.queue) :
               DataFits(toClient'.queue[i], expectedSeqNum', serverSeqNum')
  <1> TAKE i \in 1 .. Len(toClient'.queue)
  <1>1. SUFFICES ASSUME NEW j \in 1 .. Len(toClient.queue),
                        toClient'.queue[i] = toClient.queue[j]
                 PROVE  DataFits(toClient'.queue[i], expectedSeqNum', serverSeqNum')
    BY DEF Holds
  <1>2. DataFits(toClient.queue[j], expectedSeqNum, serverSeqNum)
    BY DEF LinksFit
  <1>3. /\ toClient.queue[j].seqNum \in Nat
        /\ expectedSeqNum \in Nat /\ serverSeqNum \in Nat /\ LastSeqNum \in Nat
        /\ expectedSeqNum' \in Nat /\ serverSeqNum' \in 0 .. LastSeqNum
    BY InFlightTypes, StateTypes, LastSeqNumType
       DEF TypeOK, ServerTypeOK, ClientTypeOK
  <1> QED BY <1>1, <1>2, <1>3 DEF DataFits, Progress

(* Receiving, closing and reordering add nothing to a queue.               *)
LEMMA NothingAdded ==
    ASSUME NEW M, NEW link \in LinkType(M), NEW after,
           \/ after = link
           \/ after = Closed(link)
           \/ link.queue # << >> /\ after = Received(link)
           \/ after \in Overtaken(link)
    PROVE  \A i \in 1 .. Len(after.queue) :
               Holds(link, after.queue[i])
  <1>1. CASE after = link
    BY <1>1 DEF Holds
  <1>2. CASE after = Closed(link)
    BY <1>2, ClosedProperties DEF Holds
  <1>3. CASE link.queue # << >> /\ after = Received(link)
    <2>1. /\ Len(link.queue) \in Nat \ {0} /\ Len(after.queue) = Len(link.queue) - 1
          /\ \A i \in 1 .. Len(link.queue) - 1 : after.queue[i] = link.queue[i + 1]
      BY <1>3, ReceivedProperties
    <2> TAKE i \in 1 .. Len(after.queue)
    <2>2. i + 1 \in 1 .. Len(link.queue) /\ after.queue[i] = link.queue[i + 1]
      BY <2>1
    <2> QED BY <2>2 DEF Holds
  <1>4. CASE after \in Overtaken(link)
    BY <1>4, OvertakenProperties, Zenon
  <1> QED BY <1>1, <1>2, <1>3, <1>4

(* All that a step may do to the link to the server ...                    *)
ToServerMoves ==
    \/ toServer' = toServer
    \/ toServer' = Closed(toServer)
    \/ toServer.queue # << >> /\ toServer' = Received(toServer)
    \/ toServer' \in Overtaken(toServer)
    \/ \E m \in ServerMessage :
           /\ SendToServer(m)
           /\ m.flag \notin Responses /\ (m.flag = "EOF_ACK" => dataState' = "DATA_STATE_DONE")
    \/ \E s \in Nat :
           /\ ReplyRR(s) \/ ReplySREJ(s) \/ ReplyRRAndSREJ(s)
           /\ s <= expectedSeqNum' /\ (ReplyRR(s) \/ s < serverSeqNum')

(* ... and to the link to rcopy.                                           *)
ToClientMoves ==
    \/ toClient' = toClient
    \/ toClient' = Closed(toClient)
    \/ toClient.queue # << >> /\ toClient' = Received(toClient)
    \/ toClient' \in Overtaken(toClient)
    \/ \E m \in ClientMessage :
           SendToClient(m) /\ DataFits(m, expectedSeqNum', serverSeqNum')

(* What the steps append fits, so the links keep holding what fits.        *)
LEMMA LinksKept ==
    ASSUME TypeOK, TypeOK', LinksFit, Progress, ToServerMoves, ToClientMoves
    PROVE  LinksFit'
  <1>1. toServer \in LinkType(ServerMessage) /\ toClient \in LinkType(ClientMessage)
    BY StateTypes
  <1>2. /\ FlippedControl.flag = "CRC_ERROR" /\ FlippedData.flag = "CRC_ERROR"
        /\ \A s : /\ Reply("RR", s).flag = "RR" /\ Reply("RR", s).target = s
                 /\ Reply("SREJ", s).flag = "SREJ" /\ Reply("SREJ", s).target = s
    BY DEF FlippedControl, FlippedData, DataPDU, ControlPDU, Reply
  <1>3. \A i \in 1 .. Len(toServer'.queue) :
            \/ Holds(toServer, toServer'.queue[i])
            \/ RequestFits(toServer'.queue[i], expectedSeqNum', serverSeqNum', dataState')
    <2>1. CASE \/ toServer' = toServer
               \/ toServer' = Closed(toServer)
               \/ toServer.queue # << >> /\ toServer' = Received(toServer)
               \/ toServer' \in Overtaken(toServer)
      <3>1. \A i \in 1 .. Len(toServer'.queue) : Holds(toServer, toServer'.queue[i])
        BY <1>1, <2>1, NothingAdded
      <3> QED BY <3>1
    <2>2. ASSUME NEW m \in ServerMessage, SendToServer(m), m.flag \notin Responses,
                 m.flag = "EOF_ACK" => dataState' = "DATA_STATE_DONE",
                 NEW i \in 1 .. Len(toServer'.queue)
          PROVE  \/ Holds(toServer, toServer'.queue[i])
                 \/ RequestFits(toServer'.queue[i], expectedSeqNum', serverSeqNum', dataState')
      <3>1. \/ i \in 1 .. Len(toServer.queue) /\ toServer'.queue[i] = toServer.queue[i]
            \/ toServer'.queue[i] \in {m, FlippedControl}
        BY <2>2, QueueAfterAck
      <3> QED BY <1>2, <2>2, <3>1 DEF RequestFits, Responses, Holds
    <2>3. ASSUME NEW s \in Nat, ReplyRR(s) \/ ReplySREJ(s) \/ ReplyRRAndSREJ(s),
                 s <= expectedSeqNum', ReplyRR(s) \/ s < serverSeqNum',
                 NEW i \in 1 .. Len(toServer'.queue)
          PROVE  \/ Holds(toServer, toServer'.queue[i])
                 \/ RequestFits(toServer'.queue[i], expectedSeqNum', serverSeqNum', dataState')
      <3>1. \/ i \in 1 .. Len(toServer.queue) /\ toServer'.queue[i] = toServer.queue[i]
            \/ /\ toServer'.queue[i] \in {Reply("RR", s), Reply("SREJ", s), FlippedControl}
               /\ ReplyRR(s) => toServer'.queue[i] # Reply("SREJ", s)
        BY <2>3, QueueAfterReply
      <3> QED BY <1>2, <2>3, <3>1 DEF RequestFits, Responses, Holds
    <2> QED BY <2>1, <2>2, <2>3 DEF ToServerMoves
  <1>4. \A i \in 1 .. Len(toClient'.queue) :
            \/ Holds(toClient, toClient'.queue[i])
            \/ DataFits(toClient'.queue[i], expectedSeqNum', serverSeqNum')
    <2>1. CASE \/ toClient' = toClient
               \/ toClient' = Closed(toClient)
               \/ toClient.queue # << >> /\ toClient' = Received(toClient)
               \/ toClient' \in Overtaken(toClient)
      <3>1. \A i \in 1 .. Len(toClient'.queue) :
                Holds(toClient, toClient'.queue[i])
        BY <1>1, <2>1, NothingAdded
      <3> QED BY <3>1
    <2>2. ASSUME NEW m \in ClientMessage, SendToClient(m),
                 DataFits(m, expectedSeqNum', serverSeqNum'),
                 NEW i \in 1 .. Len(toClient'.queue)
          PROVE  \/ Holds(toClient, toClient'.queue[i])
                 \/ DataFits(toClient'.queue[i], expectedSeqNum', serverSeqNum')
      <3>1. \/ i \in 1 .. Len(toClient.queue) /\ toClient'.queue[i] = toClient.queue[i]
            \/ toClient'.queue[i] \in {m, FlippedData}
        BY <2>2, QueueAfterSendToClient
      <3> QED BY <1>2, <2>2, <3>1 DEF DataFits, DataPDUs, Holds
    <2> QED BY <2>1, <2>2 DEF ToClientMoves
  <1> QED BY <1>3, <1>4, RequestsKept, PacketsKept DEF LinksFit

--------------------------------------------------------------------------------
(* The steps of the server child.                                          *)

(* The numbers the counts are about, and what is known of them.            *)
LEMMA Numbers ==
    ASSUME CountInv
    PROVE  /\ TypeInv /\ TypeOK /\ LinksFit /\ SlotsFit(win, serverSeqNum) /\ EofCounts /\ ClientCounts
           /\ serverSeqNum \in 0 .. LastSeqNum /\ LastSeqNum \in Nat
           /\ serverSeqNum \in Nat /\ expectedSeqNum \in Nat /\ highestSeqNum \in Nat
           /\ WindowSize \in Nat \ {0} /\ win.lower \in Nat
           /\ expectedSeqNum <= serverSeqNum
  BY StateTypes DEF CountInv, TypeInv, TypeOK, ServerTypeOK, ClientCounts

(* What is left to show of a step of the server.                           *)
ServerCounts ==
    /\ serverSeqNum <= serverSeqNum'
    /\ ToServerMoves /\ ToClientMoves
    /\ SlotsFit(win', serverSeqNum') /\ EofCounts'

(* The slot timeouts read holds the number of a packet that was sent, or 0.*)
LEMMA LowestFits ==
    ASSUME CountInv
    PROVE  /\ GetLowestSeqNumData(win) = win.slots[GetIndex(win.lower)]
           /\ GetLowestSeqNum(win) \in Nat
           /\ GetLowestSeqNum(win) < serverSeqNum \/ GetLowestSeqNum(win) = 0
  <1>1. GetIndex(win.lower) \in 0 .. WindowSize - 1
    BY Numbers, GetIndexRange
  <1>2. win.slots[GetIndex(win.lower)].seqNum \in Nat
    BY <1>1, Numbers, StateTypes
  <1> QED BY <1>1, <1>2, Numbers DEF SlotsFit, GetLowestSeqNumData, GetLowestSeqNum

(* processResponse(), whichever handler calls it.                          *)
LEMMA ProcessResponseCounts ==
    ASSUME CountInv, NEW goOn \in {"SEND_DATA", "SEND_DATA_WAIT", "SEND_EOF"},
           ProcessResponse(goOn), UNCHANGED <<clientVars, serverSeqNum, atEOF>>,
           goOn = "SEND_DATA_WAIT" => serverState = "SEND_DATA_WAIT",
           goOn = "SEND_EOF" => serverState = "SEND_EOF_POLL"
    PROVE  ServerCounts
  <1> DEFINE m == Head(toServer.queue)
  <1>1. toServer.queue # << >>
    BY DEF ProcessResponse
  <1>2. /\ m \in ServerMessage /\ Len(toServer.queue) \in Nat \ {0}
        /\ m = toServer.queue[1]
    BY <1>1, Numbers, StateTypes, ReceivedProperties
  <1>3. m.target \in Nat
    BY <1>2 DEF ServerMessage
  <1>4. RequestFits(m, expectedSeqNum, serverSeqNum, dataState)
    <2>1. 1 \in 1 .. Len(toServer.queue)
      BY <1>2
    <2> QED BY <1>2, <2>1, Numbers DEF LinksFit
  <1> HIDE DEF m
  <1>5. \/ IgnoreResponse(m, goOn) \/ ResendRejected(m, goOn)
        \/ SlideWindow(m, goOn) \/ ExitOnEofAck(m)
    BY DEF ProcessResponse, m
  <1>6. /\ expectedSeqNum' = expectedSeqNum /\ serverSeqNum' = serverSeqNum
        /\ dataState' = dataState /\ atEOF' = atEOF
    BY DEF clientVars
  <1>7. serverSeqNum <= serverSeqNum'
    BY <1>6, Numbers
  <1>8. CASE IgnoreResponse(m, goOn)
    <2>1. ToServerMoves /\ ToClientMoves
      BY <1>1, <1>8 DEF IgnoreResponse, ToServerMoves, ToClientMoves
    <2>2. SlotsFit(win', serverSeqNum')
      BY <1>6, <1>8, Numbers DEF IgnoreResponse
    <2>3. EofCounts'
      BY <1>6, <1>8, Numbers DEF IgnoreResponse, EofCounts
    <2> QED BY <1>7, <2>1, <2>2, <2>3 DEF ServerCounts
  <1>9. CASE ResendRejected(m, goOn)
    <2>1. ToServerMoves
      BY <1>1, <1>9 DEF ResendRejected, ToServerMoves
    <2>2. ToClientMoves
      <3> DEFINE d == DataPDU("RESENT_DATA_SREJ", m.target, GetDataFromWindow(win, m.target))
      <3>1. d \in ClientMessage
        BY <1>3, Numbers, StateTypes, WindowReads, DataPDUType DEF DataFlags
      <3>2. d.flag = "RESENT_DATA_SREJ" /\ d.seqNum = m.target
        BY DEF DataPDU
      <3>3. m.target < serverSeqNum
        BY <1>4, <1>9 DEF ResendRejected, RequestFits
      <3>4. SendToClient(d)
        BY <1>9 DEF ResendRejected
      <3> HIDE DEF d
      <3>5. DataFits(d, expectedSeqNum', serverSeqNum')
        BY <1>6, <3>2, <3>3 DEF DataFits
      <3> QED BY <3>1, <3>4, <3>5 DEF ToClientMoves
    <2>3. SlotsFit(win', serverSeqNum')
      BY <1>6, <1>9, Numbers DEF ResendRejected
    <2>4. EofCounts'
      BY <1>6, <1>9, Numbers DEF ResendRejected, EofCounts
    <2> QED BY <1>7, <2>1, <2>2, <2>3, <2>4 DEF ServerCounts
  <1>10. CASE SlideWindow(m, goOn)
    <2>1. ToServerMoves /\ ToClientMoves
      BY <1>1, <1>10 DEF SlideWindow, ToServerMoves, ToClientMoves
    <2>2. SlotsFit(win', serverSeqNum')
      <3>1. /\ win'.lower = m.target /\ win'.upper = m.target + WindowSize
            /\ win'.current = win.current /\ win'.slots = win.slots
        BY <1>3, <1>10, Numbers, StateTypes, UpdateLowerProperties DEF SlideWindow
      <3> QED BY <1>6, <3>1, Numbers DEF SlotsFit
    <2>3. atEOF /\ waitingForLastRR /\ ~waitingForLastRR' => expectedSeqNum = LastSeqNum
      <3>1. atEOF => EqualsLastDataSeqNum(m.target) = {m.target = serverSeqNum}
        BY DEF EqualsLastDataSeqNum
      <3>2. atEOF /\ waitingForLastRR /\ ~waitingForLastRR' => m.target = serverSeqNum
        BY <1>10, <3>1, Zenon DEF SlideWindow
      <3>3. m.target <= expectedSeqNum
        BY <1>4, <1>10 DEF SlideWindow, RequestFits, Responses
      <3> QED BY <1>3, <3>2, <3>3, Numbers DEF EofCounts
    <2>4. waitingForLastRR' => waitingForLastRR
      BY <1>10 DEF SlideWindow
    <2>5. EofCounts'
      BY <1>6, <1>10, <2>3, <2>4, Numbers DEF SlideWindow, EofCounts
    <2> QED BY <1>7, <2>1, <2>2, <2>5 DEF ServerCounts
  <1>11. CASE ExitOnEofAck(m)
    <2>1. ToServerMoves /\ ToClientMoves
      BY <1>11 DEF ExitOnEofAck, ServerEnds, ToServerMoves, ToClientMoves
    <2>2. SlotsFit(win', serverSeqNum')
      BY <1>6, <1>11, Numbers DEF ExitOnEofAck
    <2>3. expectedSeqNum = LastSeqNum
      BY <1>4, <1>11, Numbers DEF ExitOnEofAck, RequestFits, ClientCounts
    <2>4. EofCounts'
      BY <1>6, <1>11, <2>3, Numbers DEF ExitOnEofAck, ServerEnds, EofCounts
    <2> QED BY <1>7, <2>1, <2>2, <2>4 DEF ServerCounts
  <1> QED BY <1>5, <1>8, <1>9, <1>10, <1>11

(* sendData() reads, stores and sends the next chunk.                      *)
LEMMA SendNextChunkCounts ==
    ASSUME CountInv, UNCHANGED clientVars, SendNextChunk
    PROVE  ServerCounts
  <1> DEFINE d == DataPDU("DATA", serverSeqNum, ChunkAt(serverSeqNum))
  <1>1. serverSeqNum' = serverSeqNum + 1 /\ expectedSeqNum' = expectedSeqNum
    BY DEF SendNextChunk, clientVars
  <1>2. ChunkAt(serverSeqNum) \in Chunk
    BY Numbers, ChunkAtType DEF SendNextChunk
  <1>3. ToServerMoves
    BY DEF SendNextChunk, ToServerMoves
  <1>4. ToClientMoves
    <2>1. d \in ClientMessage
      BY <1>2, Numbers, DataPDUType DEF DataFlags
    <2>2. d.flag = "DATA" /\ d.seqNum = serverSeqNum
      BY DEF DataPDU
    <2>3. SendToClient(d)
      BY DEF SendNextChunk
    <2> HIDE DEF d
    <2>4. DataFits(d, expectedSeqNum', serverSeqNum')
      BY <1>1, <2>2, Numbers DEF DataFits
    <2> QED BY <2>1, <2>3, <2>4 DEF ToClientMoves
  <1>5. SlotsFit(win', serverSeqNum')
    <2> DEFINE s == serverSeqNum
               w == AddDataToWindow(win, s, ChunkAt(s))
    <2>1. /\ w.lower = win.lower /\ w.upper = win.upper /\ w.current = win.current + 1
          /\ w.slots[GetIndex(s)] = [seqNum |-> s, data |-> ChunkAt(s)]
          /\ \A i \in 0 .. WindowSize - 1 : i # GetIndex(s) => w.slots[i] = win.slots[i]
      BY <1>2, Numbers, StateTypes, AddDataToWindowProperties
    <2>2. win' = w
      BY DEF SendNextChunk
    <2> HIDE DEF w
    <2>3. \A i \in 0 .. WindowSize - 1 : win.slots[i].seqNum \in Nat
      BY Numbers, StateTypes
    <2>4. \A i \in 0 .. WindowSize - 1 :
              w.slots[i].seqNum < serverSeqNum + 1 \/ w.slots[i].seqNum = 0
      BY <2>1, <2>3, Numbers DEF SlotsFit
    <2> QED BY <1>1, <2>1, <2>2, <2>4, Numbers DEF SlotsFit
  <1>6. EofCounts'
    BY <1>1, Numbers DEF SendNextChunk, EofCounts
  <1> QED BY <1>1, <1>3, <1>4, <1>5, <1>6, Numbers DEF ServerCounts

(* A step of the server that sends nothing and leaves the window alone.    *)
LEMMA QuietCounts ==
    ASSUME CountInv, UNCHANGED <<win, serverSeqNum, toClient>>, EofCounts',
           \/ toServer' = toServer
           \/ toServer.queue # << >> /\ toServer' = Received(toServer)
           \/ toServer' = Closed(toServer)
    PROVE  ServerCounts
  BY Numbers DEF ServerCounts, ToServerMoves, ToClientMoves

(* Between its loops sendData() asks for the last RR if a packet was sent. *)
LEMMA StopSendingCounts ==
    ASSUME CountInv, UNCHANGED clientVars, StopSending
    PROVE  ServerCounts
  <1> DEFINE lowest == GetLowestSeqNum(win)
  <1>1. lowest \in Nat /\ (lowest < serverSeqNum \/ lowest = 0)
    BY LowestFits
  <1>2. waitingForLastRR' <=> waitingForLastRR \/ (atEOF /\ serverSeqNum # lowest)
    BY DEF StopSending
  <1> HIDE DEF lowest
  <1>3. /\ expectedSeqNum' = expectedSeqNum /\ serverSeqNum' = serverSeqNum /\ atEOF' = atEOF
        /\ serverState' = "SEND_DATA_WAIT"
    BY DEF StopSending, clientVars
  <1>4. waitingForLastRR' => atEOF /\ serverSeqNum > 0
    BY <1>1, <1>2, Numbers DEF EofCounts
  <1>5. atEOF /\ ~waitingForLastRR' => expectedSeqNum = LastSeqNum
    BY <1>1, <1>2, Numbers DEF EofCounts
  <1>6. EofCounts'
    BY <1>3, <1>4, <1>5, Numbers DEF EofCounts
  <1> QED BY <1>6, QuietCounts DEF StopSending, linkVars

(* A timeout resends a packet that was sent.                               *)
LEMMA ResendLowestCounts ==
    ASSUME CountInv, UNCHANGED clientVars, ResendLowest
    PROVE  ServerCounts
  <1> DEFINE lowest == GetLowestSeqNumData(win)
             d == DataPDU("RESENT_DATA_TIMEOUT", lowest.seqNum, lowest.data)
  <1>1. /\ expectedSeqNum' = expectedSeqNum /\ serverSeqNum' = serverSeqNum
        /\ win' = win
    BY DEF ResendLowest, clientVars
  <1>2. serverSeqNum > 0
    BY Numbers DEF ResendLowest, MustWait, IsWindowClosed, SlotsFit, EofCounts
  <1>3. lowest.seqNum \in Nat /\ lowest.seqNum < serverSeqNum
    BY <1>2, LowestFits DEF GetLowestSeqNum
  <1>4. d \in ClientMessage
    <2>1. lowest.seqNum \in Nat /\ lowest.data \in Chunk \cup {NoData}
      BY Numbers, StateTypes, WindowReads
    <2> QED BY <2>1, DataPDUType DEF DataFlags
  <1>5. d.flag = "RESENT_DATA_TIMEOUT" /\ d.seqNum = lowest.seqNum
    BY DEF DataPDU
  <1>6. SendToClient(d)
    BY DEF ResendLowest
  <1> HIDE DEF d, lowest
  <1>7. DataFits(d, expectedSeqNum', serverSeqNum')
    BY <1>1, <1>3, <1>5 DEF DataFits
  <1>8. ToServerMoves /\ ToClientMoves
    BY <1>4, <1>6, <1>7 DEF ResendLowest, ToServerMoves, ToClientMoves
  <1>9. EofCounts'
    BY <1>1, Numbers DEF ResendLowest, EofCounts
  <1> QED BY <1>1, <1>8, <1>9, Numbers DEF ServerCounts

(* END_OF_FILE is sent only with every packet acknowledged.                *)
LEMMA SendEofCounts ==
    ASSUME CountInv, UNCHANGED clientVars, SendEof
    PROVE  ServerCounts
  <1> DEFINE d == DataPDU("END_OF_FILE", serverSeqNum, NoData)
  <1>1. /\ expectedSeqNum' = expectedSeqNum /\ serverSeqNum' = serverSeqNum
        /\ win' = win
    BY DEF SendEof, clientVars
  <1>2. expectedSeqNum = LastSeqNum /\ serverSeqNum = LastSeqNum
    BY Numbers DEF SendEof, EofCounts
  <1>3. d \in ClientMessage
    BY Numbers, DataPDUType DEF DataFlags
  <1>4. d.flag = "END_OF_FILE" /\ d.seqNum = serverSeqNum
    BY DEF DataPDU
  <1>5. SendToClient(d)
    BY DEF SendEof
  <1> HIDE DEF d
  <1>6. DataFits(d, expectedSeqNum', serverSeqNum')
    BY <1>1, <1>2, <1>4 DEF DataFits, DataPDUs
  <1>7. ToServerMoves /\ ToClientMoves
    BY <1>3, <1>5, <1>6 DEF SendEof, ToServerMoves, ToClientMoves
  <1>8. EofCounts'
    BY <1>1, Numbers DEF SendEof, EofCounts
  <1> QED BY <1>1, <1>7, <1>8, Numbers DEF ServerCounts

(* Every step of the server child.                                         *)
LEMMA ServerStepCounts ==
    ASSUME CountInv, UNCHANGED clientVars,
           ServerStep \/ ServerShortTimeout \/ FilenameOkAckTimeout
    PROVE  ServerCounts
  <1>1. expectedSeqNum' = expectedSeqNum
    BY DEF clientVars
  <1>2. EofCounts
    BY Numbers
  <1>3. CASE FilenameOkAckReceived
    <2>1. EofCounts'
      BY <1>1, <1>2, <1>3 DEF FilenameOkAckReceived, EofCounts
    <2> QED BY <1>3, <2>1, QuietCounts DEF FilenameOkAckReceived
  <1>4. CASE FilenameOkAckTimeout
    <2>1. EofCounts'
      BY <1>1, <1>2, <1>4 DEF FilenameOkAckTimeout, ServerEnds, EofCounts
    <2> QED BY <1>4, <2>1, QuietCounts DEF FilenameOkAckTimeout, ServerEnds
  <1>5. CASE SendNextChunk
    BY <1>5, SendNextChunkCounts
  <1>6. CASE ReachEndOfFile
    <2>1. EofCounts'
      BY <1>1, <1>2, <1>6 DEF ReachEndOfFile, EofCounts
    <2> QED BY <1>6, <2>1, QuietCounts DEF ReachEndOfFile, linkVars
  <1>7. CASE ReadError
    <2>1. EofCounts'
      BY <1>1, <1>2, <1>7 DEF ReadError, ServerEnds, EofCounts
    <2> QED BY <1>7, <2>1, QuietCounts DEF ReadError, ServerEnds
  <1>8. CASE PollWhileOpen
    <2>1. UNCHANGED <<serverSeqNum, atEOF>>
      BY <1>8 DEF PollWhileOpen
    <2>2. CASE ProcessResponse("SEND_DATA")
      BY <2>1, <2>2, ProcessResponseCounts
    <2>3. CASE serverState' = "SEND_DATA" /\ UNCHANGED <<win, waitingForLastRR, linkVars>>
      <3>1. EofCounts'
        BY <1>1, <1>2, <2>1, <2>3 DEF EofCounts
      <3> QED BY <2>1, <2>3, <3>1, QuietCounts DEF linkVars
    <2> QED BY <1>8, <2>2, <2>3 DEF PollWhileOpen
  <1>9. CASE StopSending
    BY <1>9, StopSendingCounts
  <1>10. CASE ResponseWhileWaiting
    BY <1>10, ProcessResponseCounts DEF ResponseWhileWaiting
  <1>11. CASE ReturnFromSendData
    <2>1. EofCounts'
      BY <1>1, <1>2, <1>11 DEF ReturnFromSendData, MustWait, EofCounts
    <2> QED BY <1>11, <2>1, QuietCounts DEF ReturnFromSendData, linkVars
  <1>12. CASE SendEof
    BY <1>12, SendEofCounts
  <1>13. CASE ResponseToEof
    BY <1>13, ProcessResponseCounts DEF ResponseToEof
  <1>14. CASE ResendLowest
    BY <1>14, ResendLowestCounts
  <1>15. CASE QuitSending
    <2>1. EofCounts'
      BY <1>1, <1>2, <1>15 DEF QuitSending, ServerEnds, EofCounts
    <2> QED BY <1>15, <2>1, QuietCounts DEF QuitSending, ServerEnds
  <1>16. CASE EofTimeout
    <2>1. EofCounts'
      BY <1>1, <1>2, <1>16 DEF EofTimeout, ServerEnds, EofCounts
    <2> QED BY <1>16, <2>1, QuietCounts DEF EofTimeout, ServerEnds
  <1> QED
    BY <1>3, <1>4, <1>5, <1>6, <1>7, <1>8, <1>9, <1>10, <1>11, <1>12, <1>13,
       <1>14, <1>15, <1>16
    DEF ServerStep, ServerShortTimeout

--------------------------------------------------------------------------------
(* The steps of rcopy.                                                     *)

(* What is left to show of a step of rcopy.                                *)
RcopyCounts ==
    /\ expectedSeqNum <= expectedSeqNum'
    /\ dataState = "DATA_STATE_DONE" => dataState' = "DATA_STATE_DONE"
    /\ ToServerMoves /\ ToClientMoves
    /\ ClientCounts'

(* A step of rcopy that writes nothing to the to-file.                     *)
LEMMA NothingWritten ==
    ASSUME CountInv, UNCHANGED <<serverVars, receiveVars>>,
           clientState' # clientState =>
               /\ dataState # "DATA_STATE_DONE" \/ clientState' = "DONE"
               /\ clientState' # "SEND_EOF_ACK"
    PROVE  ClientCounts'
  BY Numbers DEF ClientCounts, receiveVars, serverVars

(* What receiveData() knows of the datagram it has taken.                  *)
LEMMA HeadFits ==
    ASSUME CountInv, ReceiveData
    PROVE  LET m == Head(toClient.queue)
           IN  /\ m \in ClientMessage /\ m.seqNum \in Nat
               /\ m.payload \in Chunk \cup {NoData}
               /\ DataFits(m, expectedSeqNum, serverSeqNum)
               /\ m.flag = "CRC_ERROR" \/ m.flag \in DataPDUs \/ m.flag = "END_OF_FILE"
               /\ dataState # "DATA_STATE_DONE"
               /\ toClient' = Received(toClient) /\ toClient.queue # << >>
  <1> DEFINE m == Head(toClient.queue)
  <1>1. toClient.queue # << >> /\ toClient' = Received(toClient)
        /\ clientState \in {"RECV_DATA", "RECV_DATA_BLOCKED"}
    BY DEF ReceiveData
  <1>2. m \in ClientMessage /\ Len(toClient.queue) \in Nat \ {0} /\ m = toClient.queue[1]
    BY <1>1, Numbers, StateTypes, ReceivedProperties
  <1>3. 1 \in 1 .. Len(toClient.queue)
    BY <1>2
  <1>4. DataFits(m, expectedSeqNum, serverSeqNum)
    BY <1>2, <1>3, Numbers DEF LinksFit
  <1> HIDE DEF m
  <1>5. m.seqNum \in Nat /\ m.payload \in Chunk \cup {NoData}
        /\ m.flag \in DataFlags \cup {"CRC_ERROR"}
    BY <1>2 DEF ClientMessage
  <1>6. m.flag = "CRC_ERROR" \/ m.flag \in DataPDUs \/ m.flag = "END_OF_FILE"
    BY <1>5 DEF DataFlags, DataPDUs
  <1>7. dataState # "DATA_STATE_DONE"
    BY <1>1, Numbers DEF ClientCounts
  <1> QED BY <1>1, <1>2, <1>4, <1>5, <1>6, <1>7 DEF m

(* buffer() writes the missing packet, flush() those behind it, and none   *)
(* of them is one that was not sent.                                       *)
LEMMA FillGapCounts ==
    ASSUME CountInv, UNCHANGED serverVars, ReceiveData,
           Head(toClient.queue).flag # "CRC_ERROR", FillGap(Head(toClient.queue))
    PROVE  RcopyCounts
  <1> DEFINE m     == Head(toClient.queue)
             first == expectedSeqNum + 1
             stop  == FlushStop(buffer, first, highestSeqNum)
             byEof == StoppedByEof(buffer, first, highestSeqNum, stop)
             last  == IF byEof THEN stop ELSE stop - 1
  <1>1. /\ dataState = "BUFFER"
        /\ expectedSeqNum' = stop
        /\ outputFile' = Append(outputFile, m.payload) \o Flushed(buffer, first, stop - 1)
        /\ buffer' = Taken(buffer, first, last)
        /\ highestSeqNum' = highestSeqNum
        /\ byEof \/ AnswerFlush(stop)
    BY Zenon DEF FillGap
  <1>2. first \in Nat /\ first <= serverSeqNum /\ highestSeqNum < serverSeqNum
    BY <1>1, Numbers DEF ClientCounts
  <1>3. /\ stop \in first .. first + WindowSize
        /\ \A s \in first .. stop - 1 : s <= highestSeqNum
    BY <1>2, Numbers, FlushStopProperties, FlushedEntriesValid
  <1>4. stop \in Nat /\ first <= stop /\ stop <= serverSeqNum
    <2>1. stop \in Nat /\ first <= stop
      BY <1>2, <1>3, Numbers
    <2>2. stop = first \/ stop - 1 \in first .. stop - 1
      BY <1>2, <2>1
    <2> HIDE DEF stop, first
    <2>3. stop = first \/ stop - 1 <= highestSeqNum
      BY <1>3, <2>2
    <2> QED BY <1>2, <2>1, <2>3, Numbers
  <1>5. ~byEof
    <2>1. BufferIndex(stop) \in 0 .. WindowSize - 1
      BY <1>4, BufferIndexRange
    <2> QED BY <2>1, Numbers DEF StoppedByEof, Entry, ClientCounts
  <1>6. AnswerFlush(stop) /\ last = stop - 1
    BY <1>1, <1>5
  <1>7. Len(outputFile') = stop
    <2>1. /\ Append(outputFile, m.payload) \in Seq(Chunk \cup {NoData})
          /\ Len(Append(outputFile, m.payload)) = expectedSeqNum + 1
      <3>1. outputFile \in Seq(Chunk \cup {NoData}) /\ m.payload \in Chunk \cup {NoData}
        BY HeadFits, Numbers, StateTypes
      <3> QED BY <3>1, Numbers, AppendProperties DEF ClientCounts
    <2>2. /\ Flushed(buffer, first, stop - 1) \in Seq(Chunk \cup {NoData})
          /\ Len(Flushed(buffer, first, stop - 1)) = stop - first
      <3>1. stop - 1 \in Int /\ stop - 1 >= first - 1
        BY <1>2, <1>4
      <3> HIDE DEF stop, first
      <3>2. Flushed(buffer, first, stop - 1) \in Seq(Chunk \cup {NoData})
            /\ Len(Flushed(buffer, first, stop - 1)) = stop - 1 + 1 - first
        BY <1>2, <3>1, Numbers, StateTypes, FlushedProperties
      <3> QED BY <1>2, <1>4, <3>2
    <2>3. Len(outputFile') = (expectedSeqNum + 1) + (stop - first)
      <3> DEFINE a == Append(outputFile, m.payload)
                 f == Flushed(buffer, first, stop - 1)
      <3> HIDE DEF a, f
      <3>1. Len(a \o f) = Len(a) + Len(f)
        BY <2>1, <2>2, ConcatProperties, Zenon DEF a, f
      <3>2. outputFile' = a \o f
        BY <1>1 DEF a, f
      <3> QED BY <2>1, <2>2, <3>1, <3>2 DEF a, f
    <2> QED BY <1>4, <2>3, Numbers
  <1>8. \A i \in 0 .. WindowSize - 1 : buffer'[i].valid => buffer'[i].flag # "END_OF_FILE"
    <2>1. stop - 1 \in Int
      BY <1>4
    <2> HIDE DEF stop, first
    <2>2. \A i \in 0 .. WindowSize - 1 :
              Taken(buffer, first, stop - 1)[i].valid => Taken(buffer, first, stop - 1)[i] = buffer[i]
      <3>1. buffer \in BufferType
        BY Numbers, StateTypes
      <3> QED BY <1>2, <2>1, <3>1, TakenProperties
    <2> QED BY <1>1, <1>6, <2>2, Numbers DEF ClientCounts
  <1> HIDE DEF m, first, stop, byEof, last
  <1>9. /\ clientState' = "RECV_DATA"
        /\ dataState' \in {"IN_ORDER", "BUFFER"}
        /\ dataState' = "BUFFER" => stop < highestSeqNum
        /\ ReplyRR(stop) \/ (ReplyRRAndSREJ(stop) /\ stop < highestSeqNum)
    BY <1>6 DEF AnswerFlush
  <1>10. serverSeqNum' = serverSeqNum
    BY DEF serverVars
  <1>11. ToServerMoves
    <2>1. ReplyRR(stop) \/ stop < serverSeqNum'
      BY <1>2, <1>4, <1>9, <1>10, Numbers
    <2>2. stop <= expectedSeqNum'
      BY <1>1, <1>4
    <2> QED BY <1>4, <1>9, <2>1, <2>2 DEF ToServerMoves
  <1>12. ToClientMoves
    BY HeadFits DEF ToClientMoves
  <1>13. ClientCounts'
    BY <1>1, <1>2, <1>4, <1>7, <1>8, <1>9, <1>10, Numbers DEF ClientCounts
  <1>14. expectedSeqNum <= expectedSeqNum'
    BY <1>1, <1>4, Numbers DEF first
  <1> QED BY <1>1, <1>11, <1>12, <1>13, <1>14 DEF RcopyCounts

(* receiveData(), whatever has arrived.                                    *)
LEMMA ReceiveDataCounts ==
    ASSUME CountInv, UNCHANGED serverVars, ReceiveData
    PROVE  RcopyCounts
  <1> DEFINE m == Head(toClient.queue)
  <1>1. /\ m \in ClientMessage /\ m.seqNum \in Nat /\ m.payload \in Chunk \cup {NoData}
        /\ DataFits(m, expectedSeqNum, serverSeqNum)
        /\ m.flag = "CRC_ERROR" \/ m.flag \in DataPDUs \/ m.flag = "END_OF_FILE"
        /\ dataState # "DATA_STATE_DONE"
    BY HeadFits
  <1>2. ToClientMoves
    BY HeadFits DEF ToClientMoves
  <1>3. \/ DropCorrupted(m)
        \/ m.flag # "CRC_ERROR" /\ (AcceptEof(m) \/ AcceptInOrder(m) \/ StoreAhead(m)
                                     \/ AnswerOldData(m) \/ FillGap(m))
    BY DEF ReceiveData
  <1>4. serverSeqNum' = serverSeqNum
    BY DEF serverVars
  <1>5. ClientCounts
    BY Numbers
  <1>6. CASE m.flag # "CRC_ERROR" /\ FillGap(m)
    BY <1>6, FillGapCounts
  <1> HIDE DEF m
  <1>7. CASE DropCorrupted(m)
    <2>1. ClientCounts'
      BY <1>1, <1>7, NothingWritten DEF DropCorrupted
    <2> QED BY <1>2, <1>7, <2>1, Numbers
        DEF DropCorrupted, receiveVars, RcopyCounts, ToServerMoves
  <1>8. CASE AcceptEof(m)
    <2>1. expectedSeqNum = LastSeqNum
      BY <1>1, <1>8 DEF AcceptEof, DataFits
    <2>2. ClientCounts'
      BY <1>4, <1>5, <1>8, <2>1 DEF AcceptEof, ClientCounts
    <2> QED BY <1>2, <1>8, <2>2, Numbers DEF AcceptEof, RcopyCounts, ToServerMoves
  <1>9. CASE m.flag # "CRC_ERROR" /\ AcceptInOrder(m)
    <2>1. expectedSeqNum < serverSeqNum
      BY <1>1, <1>9 DEF AcceptInOrder, DataFits
    <2>2. expectedSeqNum' = expectedSeqNum + 1 /\ dataState = "IN_ORDER" /\ dataState' = "IN_ORDER"
      BY <1>9 DEF AcceptInOrder
    <2>3. Len(outputFile') = expectedSeqNum + 1
      <3>1. outputFile \in Seq(Chunk \cup {NoData})
        BY Numbers, StateTypes
      <3> QED BY <1>1, <1>5, <1>9, <3>1, AppendProperties DEF AcceptInOrder, ClientCounts
    <2>4. ClientCounts'
      BY <1>4, <1>5, <1>9, <2>1, <2>2, <2>3, Numbers DEF AcceptInOrder, ClientCounts
    <2>5. ToServerMoves
      <3>1. ReplyRR(expectedSeqNum + 1) /\ expectedSeqNum + 1 \in Nat
            /\ expectedSeqNum + 1 <= expectedSeqNum'
        BY <1>9, <2>2, Numbers DEF AcceptInOrder
      <3> QED BY <3>1 DEF ToServerMoves
    <2> QED BY <1>2, <2>2, <2>4, <2>5, Numbers DEF RcopyCounts
  <1>10. CASE m.flag # "CRC_ERROR" /\ StoreAhead(m)
    <2>1. m.flag \in DataPDUs /\ expectedSeqNum < m.seqNum /\ m.seqNum < serverSeqNum
      BY <1>1, <1>10, Numbers DEF StoreAhead, DataFits
    <2>2. \A i \in 0 .. WindowSize - 1 : buffer'[i].valid => buffer'[i].flag # "END_OF_FILE"
      <3> DEFINE b == AddDataToBuffer(buffer, m.seqNum, m.flag, m.payload)
      <3>1. /\ b[BufferIndex(m.seqNum)] =
                   [seqNum |-> m.seqNum, flag |-> m.flag, data |-> m.payload, valid |-> TRUE]
            /\ \A i \in 0 .. WindowSize - 1 : i # BufferIndex(m.seqNum) => b[i] = buffer[i]
        <4>1. buffer \in BufferType
          BY Numbers, StateTypes
        <4>2. m.flag \in {"DATA", "RESENT_DATA_SREJ", "RESENT_DATA_TIMEOUT", "END_OF_FILE"}
          BY <2>1 DEF DataPDUs
        <4> QED BY <1>1, <4>1, <4>2, AddDataToBufferProperties
      <3>2. buffer' = b
        BY <1>10 DEF StoreAhead
      <3>3. m.flag # "END_OF_FILE"
        BY <2>1 DEF DataPDUs
      <3> HIDE DEF b
      <3> QED BY <1>5, <3>1, <3>2, <3>3 DEF ClientCounts
    <2>3. /\ expectedSeqNum' = expectedSeqNum /\ outputFile' = outputFile
          /\ highestSeqNum' = m.seqNum /\ dataState' = "BUFFER" /\ clientState' = "RECV_DATA"
          /\ ReplySREJ(expectedSeqNum) \/ toServer' = toServer
      BY <1>10 DEF StoreAhead
    <2>4. ClientCounts'
      BY <1>1, <1>4, <1>5, <2>1, <2>2, <2>3, Numbers DEF ClientCounts
    <2>5. ToServerMoves
      <3>1. expectedSeqNum <= expectedSeqNum' /\ expectedSeqNum < serverSeqNum'
        BY <1>1, <1>4, <2>1, <2>3, Numbers
      <3> QED BY <2>3, <3>1, Numbers DEF ToServerMoves
    <2> QED BY <1>1, <1>2, <2>3, <2>4, <2>5, Numbers DEF RcopyCounts
  <1>11. CASE AnswerOldData(m)
    <2>1. UNCHANGED receiveVars /\ clientState' = "RECV_DATA"
          /\ \/ ReplyRR(expectedSeqNum)
             \/ dataState = "BUFFER" /\ ReplyRRAndSREJ(expectedSeqNum)
      BY <1>11 DEF AnswerOldData
    <2>2. ClientCounts'
      BY <1>1, <2>1, NothingWritten
    <2>3. ToServerMoves
      <3>1. expectedSeqNum <= expectedSeqNum'
            /\ (dataState = "BUFFER" => expectedSeqNum < serverSeqNum')
        BY <1>4, <1>5, <2>1, Numbers DEF receiveVars, ClientCounts
      <3> QED BY <2>1, <3>1, Numbers DEF ToServerMoves
    <2> QED BY <1>2, <2>1, <2>2, <2>3, Numbers DEF receiveVars, RcopyCounts
  <1> QED BY <1>3, <1>6, <1>7, <1>8, <1>9, <1>10, <1>11 DEF m

(* Every step of rcopy.                                                    *)
LEMMA ClientStepCounts ==
    ASSUME CountInv, UNCHANGED serverVars,
           ClientStep \/ FilenameOkTimeout \/ ReceiveTimeout
    PROVE  RcopyCounts
  <1>1. ClientCounts
    BY Numbers
  <1>2. CASE ReceiveData
    BY <1>2, ReceiveDataCounts
  <1>3. CASE ~ReceiveData
    <2>1. UNCHANGED receiveVars
      BY <1>3 DEF ClientStep, SendFilenameOkAck, FirstDataArrives, SendEOFAck,
                  FilenameOkTimeout, ReceiveTimeout
    <2>2. ClientCounts'
      BY <1>1, <1>3, <2>1, NothingWritten
      DEF ClientStep, SendFilenameOkAck, FirstDataArrives, SendEOFAck,
          FilenameOkTimeout, ReceiveTimeout, ClientExits, ClientCounts
    <2>3. ToClientMoves
      BY <1>3 DEF ClientStep, SendFilenameOkAck, FirstDataArrives, SendEOFAck,
                  FilenameOkTimeout, ReceiveTimeout, ClientExits, ToClientMoves, linkVars
    <2>4. ToServerMoves
      <3>1. \/ toServer' = toServer
            \/ SendFilenameOkAck \/ SendEOFAck
        BY <1>3 DEF ClientStep, FirstDataArrives, FilenameOkTimeout, ReceiveTimeout, linkVars
      <3>2. CASE SendFilenameOkAck
        <4> DEFINE m == ControlPDU("FNAME_OK_ACK", 0)
        <4>1. m \in ServerMessage /\ m.flag = "FNAME_OK_ACK"
          BY ControlPDUType DEF ControlFlags, ControlPDU
        <4>2. SendToServer(m)
          BY <3>2 DEF SendFilenameOkAck
        <4> HIDE DEF m
        <4> QED BY <4>1, <4>2 DEF ToServerMoves, Responses
      <3>3. CASE SendEOFAck
        <4> DEFINE m == ControlPDU("EOF_ACK", 0)
        <4>1. m \in ServerMessage /\ m.flag = "EOF_ACK"
          BY ControlPDUType DEF ControlFlags, ControlPDU
        <4>2. SendToServer(m) /\ dataState' = "DATA_STATE_DONE"
          BY <1>1, <2>1, <3>3 DEF SendEOFAck, receiveVars, ClientCounts
        <4> HIDE DEF m
        <4> QED BY <4>1, <4>2 DEF ToServerMoves, Responses
      <3> QED BY <3>1, <3>2, <3>3 DEF ToServerMoves
    <2> QED BY <2>1, <2>2, <2>3, <2>4, Numbers DEF receiveVars, RcopyCounts
  <1> QED BY <1>2, <1>3

--------------------------------------------------------------------------------
(* The invariant.                                                          *)

(* A datagram that overtakes another leaves every variable its type.       *)
LEMMA OvertakeTypes ==
    ASSUME TypeInv, Overtake
    PROVE  TypeInv'
  <1>1. toServer \in LinkType(ServerMessage) /\ toClient \in LinkType(ClientMessage)
    BY DEF TypeInv, TypeOK, LinksTypeOK
  <1>2. LinksTypeOK'
    BY <1>1, OvertakenProperties, Zenon DEF Overtake, LinksTypeOK
  <1> QED BY <1>2 DEF Overtake, TypeInv, TypeOK, TriesInv, ServerTypeOK, ClientTypeOK,
                      serverVars, clientVars

(* Types and counts hold when the transfer starts.                         *)
LEMMA CountInit == Init => CountInv
  <1> SUFFICES ASSUME Init PROVE CountInv
    OBVIOUS
  <1>1. TypeInv
    BY TypeInit
  <1>2. LinksFit
    BY DEF Init, NewLink, LinksFit
  <1>3. SlotsFit(win, serverSeqNum)
    BY SetupWindowType, WindowAssumption DEF Init, ServerInit, SlotsFit, EmptySlot
  <1>4. EofCounts
    BY DEF Init, ServerInit, EofCounts
  <1>5. ClientCounts
    BY DEF Init, ServerInit, ClientInit, ClientCounts, SetupBuffer, EmptyEntry
  <1> QED BY <1>1, <1>2, <1>3, <1>4, <1>5 DEF CountInv

(* No step breaks them, an overtaking datagram included.                   *)
LEMMA CountStep == CountInv /\ [UdpNext]_vars => CountInv'
  <1> SUFFICES ASSUME CountInv, [UdpNext]_vars PROVE CountInv'
    OBVIOUS
  <1>1. TypeInv'
    BY Numbers, TypeStep, OvertakeTypes DEF UdpNext
  <1>2. TypeOK' /\ expectedSeqNum' \in Nat /\ serverSeqNum' \in 0 .. LastSeqNum
    BY <1>1 DEF TypeInv, TypeOK, ServerTypeOK, ClientTypeOK
  <1>3. CASE UNCHANGED clientVars /\ ServerCounts
    <2>1. /\ expectedSeqNum' = expectedSeqNum /\ dataState' = dataState
          /\ serverSeqNum <= serverSeqNum'
      BY <1>3 DEF clientVars, ServerCounts
    <2>2. ClientCounts'
      BY <1>2, <1>3, <2>1, Numbers DEF ClientCounts, clientVars
    <2>3. Progress
      BY <2>1, <2>2, Numbers DEF Progress, ClientCounts
    <2>4. LinksFit'
      BY <1>2, <1>3, <2>3, Numbers, LinksKept DEF ServerCounts
    <2> QED BY <1>1, <1>3, <2>2, <2>4 DEF CountInv, ServerCounts
  <1>4. CASE UNCHANGED serverVars /\ RcopyCounts
    <2>1. /\ serverSeqNum' = serverSeqNum /\ expectedSeqNum <= expectedSeqNum'
          /\ expectedSeqNum' <= serverSeqNum'
      BY <1>4 DEF serverVars, RcopyCounts, ClientCounts
    <2>2. Progress
      BY <1>4, <2>1, Numbers DEF Progress, RcopyCounts
    <2>3. LinksFit'
      BY <1>2, <1>4, <2>2, Numbers, LinksKept DEF RcopyCounts
    <2>4. expectedSeqNum = LastSeqNum => expectedSeqNum' = LastSeqNum
      BY <1>2, <2>1, Numbers
    <2>5. EofCounts' /\ SlotsFit(win', serverSeqNum')
      BY <1>4, <2>4, Numbers DEF EofCounts, serverVars
    <2> QED BY <1>1, <1>4, <2>3, <2>5 DEF CountInv, RcopyCounts
  <1>5. CASE Overtake
    <2>1. UNCHANGED clientVars /\ ServerCounts
      BY <1>5, Numbers
      DEF Overtake, ServerCounts, ToServerMoves, ToClientMoves, EofCounts, serverVars, clientVars
    <2> QED BY <1>3, <2>1
  <1>6. CASE UNCHANGED vars
    <2>1. UNCHANGED clientVars /\ ServerCounts
      BY <1>6, Numbers
      DEF vars, ServerCounts, ToServerMoves, ToClientMoves, EofCounts, serverVars, clientVars, linkVars
    <2> QED BY <1>3, <2>1
  <1>7. CASE Next
    BY <1>3, <1>4, <1>7, ServerStepCounts, ClientStepCounts
    DEF Next, ServerActs, ClientActs, ServerShortPollRunsOut, ServerLongPollRunsOut,
        ClientShortPollRunsOut, ClientLongPollRunsOut
  <1> QED BY <1>5, <1>6, <1>7 DEF UdpNext

(* However the path reorders, rcopy has written one chunk for each number  *)
(* it no longer expects, expects none that sendData() has not sent, and    *)
(* the server sends END_OF_FILE, or exits on its ack, only when a chunk    *)
(* for each packet of the file has been written.                           *)
THEOREM CountsSound == UdpSpec => []CountsAgree
  <1>1. CountInv => CountsAgree
    BY DEF CountInv, ClientCounts, EofCounts, CountsAgree
  <1> QED BY <1>1, CountInit, CountStep, PTL DEF UdpSpec
================================================================================
