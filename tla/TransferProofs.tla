----------------------------- MODULE TransferProofs ----------------------------
(***************************************************************************)
(* TransferInv is an inductive invariant of FileTransfer; the safety       *)
(* properties of FileTransfer follow from it, and so does that it          *)
(* implements FileCopy.                                                    *)
(***************************************************************************)
EXTENDS TypeProofs

Inv == TypeOK /\ TransferInv

--------------------------------------------------------------------------------
(* The parts of the invariant about datagrams, after a send or a receive.  *)

(* A datagram sent to rcopy disturbs nothing if it is good itself and not  *)
(* behind the packets sent before it.                                      *)
LEMMA ToClientInvAfterSend ==
    ASSUME TypeOK, ToClientInv, NEW m \in ClientMessage, SendToClient(m),
           UNCHANGED <<expectedSeqNum, highestSeqNum, dataState>>,
           serverSeqNum' \in Nat, serverSeqNum <= serverSeqNum',
           m.flag \in DataPDUs =>
               /\ m.seqNum < serverSeqNum'
               /\ m.seqNum >= expectedSeqNum => m.payload = ChunkAt(m.seqNum)
               /\ m.flag # "DATA" => m.seqNum <= expectedSeqNum
               /\ m.flag = "DATA" /\ dataState = "BUFFER" => m.seqNum >= highestSeqNum,
           GoodEof(m),
           m.flag = "DATA" => m.seqNum >= serverSeqNum
    PROVE  ToClientInv'
  <1> DEFINE q == toClient.queue
             p == toClient'.queue
  <1>1. \A i \in 1 .. Len(p) : \/ i \in 1 .. Len(q) /\ p[i] = q[i]
                               \/ i > Len(q) /\ p[i] \in {m, FlippedData}
    BY QueueAfterSendToClient
  <1>2. /\ Len(q) \in Nat /\ serverSeqNum \in Nat
        /\ \A i \in 1 .. Len(q) : q[i].seqNum \in Nat
    BY StateTypes, InFlightTypes
  <1>3. FlippedData.flag = "CRC_ERROR"
    BY DEF FlippedData, DataPDU
  <1>4. m.seqNum \in Nat
    BY DEF ClientMessage
  <1>5. /\ \A i \in 1 .. Len(q) : GoodData(q[i]) /\ GoodEof(q[i])
        /\ \A i, j \in 1 .. Len(q) : i < j => DataOrdered(q[i], q[j])
    BY DEF ToClientInv
  <1> HIDE DEF q, p
  <1>6. ASSUME NEW i \in 1 .. Len(p)
        PROVE  /\ p[i].flag \in DataPDUs =>
                      /\ p[i].seqNum < serverSeqNum'
                      /\ p[i].seqNum >= expectedSeqNum => p[i].payload = ChunkAt(p[i].seqNum)
                      /\ p[i].flag # "DATA" => p[i].seqNum <= expectedSeqNum
                      /\ p[i].flag = "DATA" /\ dataState = "BUFFER"
                             => p[i].seqNum >= highestSeqNum
               /\ GoodEof(p[i])
    <2>1. CASE i \in 1 .. Len(q) /\ p[i] = q[i]
      BY <1>2, <1>5, <2>1 DEF GoodData
    <2>2. CASE p[i] = m
      BY <2>2
    <2>3. CASE p[i] = FlippedData
      BY <1>3, <2>3 DEF DataPDUs, GoodEof
    <2> QED BY <1>1, <2>1, <2>2, <2>3
  <1>7. ASSUME NEW i \in 1 .. Len(p), NEW j \in 1 .. Len(p), i < j
        PROVE  DataOrdered(p[i], p[j])
    <2>1. CASE j \in 1 .. Len(q) /\ p[j] = q[j]
      <3>1. i \in 1 .. Len(q) /\ p[i] = q[i]
        BY <1>1, <1>2, <1>7, <2>1
      <3> QED BY <1>5, <1>7, <2>1, <3>1
    <2>2. CASE p[j] = m
      <3>1. CASE i \in 1 .. Len(q) /\ p[i] = q[i]
        BY <1>2, <1>4, <1>5, <2>2, <3>1 DEF DataOrdered, GoodData, DataPDUs
      <3>2. CASE p[i] = m \/ p[i] = FlippedData
        BY <1>3, <1>4, <2>2, <3>2 DEF DataOrdered
      <3> QED BY <1>1, <3>1, <3>2
    <2>3. CASE p[j] = FlippedData
      BY <1>3, <2>3 DEF DataOrdered
    <2> QED BY <1>1, <2>1, <2>2, <2>3
  <1>8. expectedSeqNum' = expectedSeqNum /\ highestSeqNum' = highestSeqNum
        /\ dataState' = dataState
    OBVIOUS
  <1> QED BY <1>6, <1>7, <1>8 DEF ToClientInv, GoodData, GoodEof, DataOrdered, p

(* What rcopy takes off its queue leaves the rest good, if what rcopy now  *)
(* expects and has highest moved no further than that datagram allows.     *)
LEMMA ToClientInvAfterReceive ==
    ASSUME TypeOK, ToClientInv, toClient.queue # << >>,
           toClient' = Received(toClient), UNCHANGED serverSeqNum,
           expectedSeqNum' \in Nat, expectedSeqNum <= expectedSeqNum',
           expectedSeqNum' = expectedSeqNum \/ expectedSeqNum < LastSeqNum,
           dataState' = "BUFFER" =>
               \/ dataState = "BUFFER" /\ highestSeqNum' = highestSeqNum
               \/ /\ Head(toClient.queue).flag = "DATA"
                  /\ highestSeqNum' = Head(toClient.queue).seqNum
    PROVE  ToClientInv'
  <1> DEFINE q == toClient.queue
             p == toClient'.queue
  <1>1. /\ Len(q) \in Nat \ {0} /\ Head(q) = q[1] /\ Len(p) = Len(q) - 1
        /\ \A i \in 1 .. Len(q) - 1 : p[i] = q[i + 1]
    BY StateTypes, ReceivedProperties
  <1>2. /\ serverSeqNum \in Nat /\ expectedSeqNum \in Nat /\ highestSeqNum \in Nat
        /\ \A i \in 1 .. Len(q) : q[i].seqNum \in Nat
    BY StateTypes, InFlightTypes
  <1>3. /\ \A i \in 1 .. Len(q) : GoodData(q[i]) /\ GoodEof(q[i])
        /\ \A i, j \in 1 .. Len(q) : i < j => DataOrdered(q[i], q[j])
    BY DEF ToClientInv
  <1> HIDE DEF q, p
  <1>4. ASSUME NEW i \in 1 .. Len(p)
        PROVE  /\ p[i].flag \in DataPDUs =>
                      /\ p[i].seqNum < serverSeqNum'
                      /\ p[i].seqNum >= expectedSeqNum' => p[i].payload = ChunkAt(p[i].seqNum)
                      /\ p[i].flag # "DATA" => p[i].seqNum <= expectedSeqNum'
                      /\ p[i].flag = "DATA" /\ dataState' = "BUFFER"
                             => p[i].seqNum >= highestSeqNum'
               /\ p[i].flag = "END_OF_FILE" =>
                      p[i].seqNum = LastSeqNum /\ expectedSeqNum' = LastSeqNum
    <2> DEFINE n == q[i + 1]
    <2>1. p[i] = n /\ i + 1 \in 1 .. Len(q) /\ 1 \in 1 .. Len(q) /\ 1 < i + 1
      BY <1>1
    <2>2. GoodData(n) /\ GoodEof(n) /\ DataOrdered(q[1], n) /\ n.seqNum \in Nat
      BY <1>2, <1>3, <2>1
    <2>3. GoodData(q[1]) /\ q[1].seqNum \in Nat
      BY <1>2, <1>3, <2>1
    <2> HIDE DEF n
    <2>4. n.flag \in DataPDUs =>
              /\ n.seqNum < serverSeqNum'
              /\ n.seqNum >= expectedSeqNum' => n.payload = ChunkAt(n.seqNum)
              /\ n.flag # "DATA" => n.seqNum <= expectedSeqNum'
      BY <1>2, <2>2 DEF GoodData
    <2>5. n.flag = "DATA" /\ dataState' = "BUFFER" => n.seqNum >= highestSeqNum'
      <3>1. CASE dataState = "BUFFER" /\ highestSeqNum' = highestSeqNum
        BY <2>2, <3>1 DEF GoodData, DataPDUs
      <3>2. CASE q[1].flag = "DATA" /\ highestSeqNum' = q[1].seqNum
        BY <2>2, <2>3, <3>2 DEF DataOrdered
      <3> QED BY <1>1, <3>1, <3>2 DEF q
    <2>6. n.flag = "END_OF_FILE" => n.seqNum = LastSeqNum /\ expectedSeqNum' = LastSeqNum
      BY <1>2, <2>2, StateTypes DEF GoodEof
    <2> QED BY <2>1, <2>4, <2>5, <2>6
  <1>5. \A i, j \in 1 .. Len(p) : i < j => DataOrdered(p[i], p[j])
    BY <1>1, <1>3
  <1> QED BY <1>4, <1>5 DEF ToClientInv, GoodData, GoodEof, DataOrdered, p

(* What the server takes off its queue leaves the rest good, if the window *)
(* stays or is moved to the number an RR carries.                          *)
LEMMA ToServerInvAfterReceive ==
    ASSUME TypeOK, ToServerInv, toServer.queue # << >>,
           toServer' = Received(toServer), UNCHANGED <<serverSeqNum, expectedSeqNum>>,
           \/ win' = win
           \/ /\ Head(toServer.queue).flag = "RR"
              /\ win'.lower = Head(toServer.queue).target
    PROVE  ToServerInv'
  <1> DEFINE q == toServer.queue
             p == toServer'.queue
  <1>1. /\ Len(q) \in Nat \ {0} /\ Head(q) = q[1] /\ Len(p) = Len(q) - 1
        /\ \A i \in 1 .. Len(q) - 1 : p[i] = q[i + 1]
    BY StateTypes, ReceivedProperties
  <1>2. /\ \A i \in 1 .. Len(q) : GoodResponse(q[i])
        /\ \A i, j \in 1 .. Len(q) : i < j => ResponsesOrdered(q[i], q[j])
    BY DEF ToServerInv
  <1> HIDE DEF q, p
  <1>3. ASSUME NEW i \in 1 .. Len(p)
        PROVE  p[i].flag \in Responses =>
                   /\ win'.lower <= p[i].target
                   /\ p[i].target <= expectedSeqNum'
                   /\ p[i].flag = "SREJ" => p[i].target < serverSeqNum'
    <2>1. p[i] = q[i + 1] /\ i + 1 \in 1 .. Len(q) /\ 1 \in 1 .. Len(q) /\ 1 < i + 1
      BY <1>1
    <2>2. GoodResponse(q[i + 1]) /\ ResponsesOrdered(q[1], q[i + 1])
      BY <1>2, <2>1
    <2>3. CASE win' = win
      BY <2>1, <2>2, <2>3 DEF GoodResponse
    <2>4. CASE q[1].flag = "RR" /\ win'.lower = q[1].target
      BY <2>1, <2>2, <2>4 DEF GoodResponse, ResponsesOrdered, Responses
    <2> QED BY <1>1, <2>3, <2>4 DEF q
  <1>4. \A i, j \in 1 .. Len(p) : i < j => ResponsesOrdered(p[i], p[j])
    BY <1>1, <1>2
  <1> QED BY <1>3, <1>4 DEF ToServerInv, GoodResponse, ResponsesOrdered, p

(* Replies with the number rcopy now expects keep the queue in order; an   *)
(* SREJ is for a packet the server has sent.                               *)
LEMMA ToServerInvAfterReply ==
    ASSUME TypeOK, ToServerInv, NEW s \in Nat,
           ReplyRR(s) \/ ReplySREJ(s) \/ ReplyRRAndSREJ(s),
           UNCHANGED <<serverSeqNum, win>>,
           win.lower <= s, expectedSeqNum <= s, s = expectedSeqNum',
           ReplyRR(s) \/ s < serverSeqNum
    PROVE  ToServerInv'
  <1> DEFINE q == toServer.queue
             p == toServer'.queue
             rr == Reply("RR", s)
             srej == Reply("SREJ", s)
  <1>1. /\ Len(q) \in Nat /\ serverSeqNum \in Nat /\ expectedSeqNum \in Nat
        /\ \A i \in 1 .. Len(q) : q[i].target \in Nat
    BY StateTypes, InFlightTypes
  <1>2. \A i \in 1 .. Len(p) :
            \/ i \in 1 .. Len(q) /\ p[i] = q[i]
            \/ i > Len(q) /\ p[i] \in {rr, srej, FlippedControl} /\ (ReplyRR(s) => p[i] # srej)
    BY QueueAfterReply
  <1>3. /\ \A i \in 1 .. Len(q) : GoodResponse(q[i])
        /\ \A i, j \in 1 .. Len(q) : i < j => ResponsesOrdered(q[i], q[j])
    BY DEF ToServerInv
  <1>4. /\ rr.flag = "RR" /\ rr.target = s /\ srej.flag = "SREJ" /\ srej.target = s
        /\ FlippedControl.flag = "CRC_ERROR"
    BY DEF Reply, FlippedControl, ControlPDU
  <1> HIDE DEF q, p, rr, srej
  <1>5. ASSUME NEW i \in 1 .. Len(p)
        PROVE  p[i].flag \in Responses =>
                   /\ win'.lower <= p[i].target
                   /\ p[i].target <= expectedSeqNum'
                   /\ p[i].flag = "SREJ" => p[i].target < serverSeqNum'
    <2>1. CASE i \in 1 .. Len(q) /\ p[i] = q[i]
      BY <1>1, <1>3, <2>1 DEF GoodResponse
    <2>2. CASE i > Len(q) /\ p[i] \in {rr, srej, FlippedControl} /\ (ReplyRR(s) => p[i] # srej)
      BY <1>1, <1>4, <2>2 DEF Responses
    <2> QED BY <1>2, <2>1, <2>2
  <1>6. ASSUME NEW i \in 1 .. Len(p), NEW j \in 1 .. Len(p), i < j
        PROVE  ResponsesOrdered(p[i], p[j])
    <2>1. CASE j \in 1 .. Len(q) /\ p[j] = q[j]
      <3>1. i \in 1 .. Len(q) /\ p[i] = q[i]
        BY <1>1, <1>2, <1>6, <2>1
      <3> QED BY <1>3, <1>6, <2>1, <3>1
    <2>2. CASE p[j] \in {rr, srej, FlippedControl}
      <3>1. CASE i \in 1 .. Len(q) /\ p[i] = q[i]
        BY <1>1, <1>3, <1>4, <2>2, <3>1 DEF ResponsesOrdered, GoodResponse, Responses
      <3>2. CASE p[i] \in {rr, srej, FlippedControl}
        BY <1>4, <2>2, <3>2 DEF ResponsesOrdered, Responses
      <3> QED BY <1>2, <3>1, <3>2
    <2> QED BY <1>2, <2>1, <2>2
  <1> QED BY <1>5, <1>6 DEF ToServerInv, GoodResponse, ResponsesOrdered, p

(* The acks at either end of a transfer are no responses.                  *)
LEMMA ToServerInvAfterAck ==
    ASSUME TypeOK, ToServerInv, NEW m \in ServerMessage, SendToServer(m),
           m.flag \notin Responses, UNCHANGED <<serverSeqNum, win, expectedSeqNum>>
    PROVE  ToServerInv'
  <1> DEFINE q == toServer.queue
             p == toServer'.queue
  <1>1. \A i \in 1 .. Len(p) : \/ i \in 1 .. Len(q) /\ p[i] = q[i]
                               \/ p[i] \in {m, FlippedControl}
    BY QueueAfterAck
  <1>2. /\ \A i \in 1 .. Len(q) : GoodResponse(q[i])
        /\ \A i, j \in 1 .. Len(q) : i < j => ResponsesOrdered(q[i], q[j])
    BY DEF ToServerInv
  <1>3. FlippedControl.flag \notin Responses
    BY DEF FlippedControl, ControlPDU, Responses
  <1> HIDE DEF q, p
  <1>4. \A i \in 1 .. Len(p) : GoodResponse(p[i])
    BY <1>1, <1>2, <1>3 DEF GoodResponse
  <1>5. \A i, j \in 1 .. Len(p) : i < j => ResponsesOrdered(p[i], p[j])
    BY <1>1, <1>2, <1>3 DEF ResponsesOrdered
  <1> QED BY <1>4, <1>5 DEF ToServerInv, GoodResponse, ResponsesOrdered, p

--------------------------------------------------------------------------------
(* The steps of the server child.                                          *)

(* What no step of the server can disturb, and what it cannot without a    *)
(* change of the window or of the links.                                   *)
LEMMA ServerFrame ==
    ASSUME Inv, UNCHANGED clientVars, serverSeqNum' \in Nat, serverSeqNum <= serverSeqNum'
    PROVE  /\ BufferInv' /\ OutputInv'
           /\ win' = win /\ serverSeqNum' = serverSeqNum => WindowInv'
           /\ toClient' = toClient /\ serverSeqNum' = serverSeqNum => ToClientInv'
           /\ win' = win /\ serverSeqNum' = serverSeqNum /\ toServer' = toServer => ToServerInv'
  <1>1. BufferInv'
    BY StateTypes DEF Inv, TransferInv, BufferInv, clientVars
  <1>2. OutputInv'
    BY DEF Inv, TransferInv, OutputInv, clientVars
  <1>3. win' = win /\ serverSeqNum' = serverSeqNum => WindowInv'
    BY DEF Inv, TransferInv, WindowInv, clientVars
  <1>4. toClient' = toClient /\ serverSeqNum' = serverSeqNum => ToClientInv'
    BY DEF Inv, TransferInv, ToClientInv, GoodData, GoodEof, DataOrdered, clientVars
  <1>5. win' = win /\ serverSeqNum' = serverSeqNum /\ toServer' = toServer => ToServerInv'
    BY DEF Inv, TransferInv, ToServerInv, GoodResponse, ResponsesOrdered, clientVars
  <1> QED BY <1>1, <1>2, <1>3, <1>4, <1>5

(* TeardownInv concerns the server's EXITED and the EOF_ACKs on its link.  *)
LEMMA ServerTeardown ==
    ASSUME Inv, UNCHANGED clientVars,
           \/ toServer' = toServer
           \/ toServer.queue # << >> /\ toServer' = Received(toServer)
           \/ toServer' = Closed(toServer),
           serverState' = "EXITED" => dataState = "DATA_STATE_DONE"
    PROVE  TeardownInv'
  <1> DEFINE q == toServer.queue
             p == toServer'.queue
  <1>1. \A i \in 1 .. Len(p) : \E j \in 1 .. Len(q) : p[i] = q[j]
    <2>1. toServer \in LinkType(ServerMessage) /\ Len(q) \in Nat
      BY StateTypes DEF Inv
    <2>2. CASE toServer.queue # << >> /\ toServer' = Received(toServer)
      <3>1. /\ Len(q) \in Nat \ {0} /\ Len(p) = Len(q) - 1
            /\ \A i \in 1 .. Len(q) - 1 : p[i] = q[i + 1]
        BY <2>1, <2>2, ReceivedProperties
      <3> HIDE DEF q, p
      <3> QED BY <3>1
    <2>3. CASE toServer' = Closed(toServer)
      BY <2>1, <2>3, ClosedProperties
    <2> QED BY <2>2, <2>3
  <1>2. \A j \in 1 .. Len(q) : q[j].flag = "EOF_ACK" => dataState = "DATA_STATE_DONE"
    BY DEF Inv, TransferInv, TeardownInv
  <1> HIDE DEF q, p
  <1>3. \A i \in 1 .. Len(p) : p[i].flag = "EOF_ACK" => dataState = "DATA_STATE_DONE"
    BY <1>1, <1>2
  <1> QED BY <1>3 DEF Inv, TransferInv, TeardownInv, clientVars, p

(* A step that touches neither the window nor rcopy's link, and at most    *)
(* closes or advances the server's own, keeps all but EndOfFileInv.        *)
LEMMA ServerQuietStep ==
    ASSUME Inv, UNCHANGED <<clientVars, win, serverSeqNum, toClient>>,
           \/ toServer' = toServer
           \/ toServer.queue # << >> /\ toServer' = Received(toServer)
           \/ toServer' = Closed(toServer),
           serverState' = "EXITED" => dataState = "DATA_STATE_DONE"
    PROVE  /\ WindowInv' /\ ToServerInv' /\ ToClientInv'
           /\ BufferInv' /\ OutputInv' /\ TeardownInv'
  <1>1. serverSeqNum' \in Nat /\ serverSeqNum <= serverSeqNum'
    BY StateTypes DEF Inv
  <1>2. ToServerInv'
    <2>1. CASE toServer' = toServer
      BY <1>1, <2>1, ServerFrame
    <2>2. CASE toServer.queue # << >> /\ toServer' = Received(toServer)
      BY <2>2, ToServerInvAfterReceive DEF Inv, TransferInv, clientVars
    <2>3. CASE toServer' = Closed(toServer)
      <3>1. Len(toServer'.queue) = 0
        BY <2>3, StateTypes, ClosedProperties DEF Inv
      <3> QED BY <3>1 DEF ToServerInv
    <2> QED BY <2>1, <2>2, <2>3
  <1>3. TeardownInv'
    BY ServerTeardown
  <1> QED BY <1>1, <1>2, <1>3, ServerFrame

(* Every slot between lower and serverSeqNum holds its own packet.         *)
LEMMA SlotInWindow ==
    ASSUME Inv, NEW s \in Nat, win.lower <= s, s < serverSeqNum
    PROVE  win.slots[GetIndex(s)] = [seqNum |-> s, data |-> ChunkAt(s)]
  BY StateTypes DEF Inv, TransferInv, WindowInv

(* processResponse(), whichever handler calls it.                          *)
LEMMA ProcessResponseStep ==
    ASSUME Inv, NEW goOn \in {"SEND_DATA", "SEND_DATA_WAIT", "SEND_EOF"},
           ProcessResponse(goOn), UNCHANGED <<clientVars, serverSeqNum, atEOF>>,
           goOn = "SEND_DATA_WAIT" => serverState = "SEND_DATA_WAIT",
           goOn = "SEND_EOF" => serverState = "SEND_EOF_POLL"
    PROVE  /\ WindowInv' /\ EndOfFileInv' /\ ToServerInv' /\ ToClientInv'
           /\ BufferInv' /\ OutputInv' /\ TeardownInv'
  <1> DEFINE m == Head(toServer.queue)
  <1>1. toServer.queue # << >>
    BY DEF ProcessResponse
  <1>2. /\ m \in ServerMessage /\ Len(toServer.queue) \in Nat \ {0}
        /\ m = toServer.queue[1]
    BY <1>1, StateTypes, ReceivedProperties DEF Inv
  <1>3. m.target \in Nat
    BY <1>2 DEF ServerMessage
  <1>4. GoodResponse(m) /\ (m.flag = "EOF_ACK" => dataState = "DATA_STATE_DONE")
    <2>1. 1 \in 1 .. Len(toServer.queue)
      BY <1>2
    <2> QED BY <1>2, <2>1 DEF Inv, TransferInv, ToServerInv, TeardownInv
  <1> HIDE DEF m
  <1>5. \/ IgnoreResponse(m, goOn) \/ ResendRejected(m, goOn)
        \/ SlideWindow(m, goOn) \/ ExitOnEofAck(m)
    BY DEF ProcessResponse, m
  <1>6. /\ serverSeqNum' \in Nat /\ serverSeqNum <= serverSeqNum'
        /\ win.lower \in Nat /\ serverSeqNum \in Nat /\ expectedSeqNum \in Nat
        /\ LastSeqNum \in Nat /\ WindowSize \in Nat \ {0}
    BY StateTypes DEF Inv
  <1>7. WindowInv /\ EndOfFileInv /\ ToServerInv /\ ToClientInv /\ TypeOK
    BY DEF Inv, TransferInv
  <1>8. CASE IgnoreResponse(m, goOn)
    <2>1. EndOfFileInv'
      BY <1>7, <1>8 DEF IgnoreResponse, EndOfFileInv
    <2> QED BY <1>1, <1>8, <2>1, ServerQuietStep DEF IgnoreResponse
  <1>9. CASE ResendRejected(m, goOn)
    <2>1. /\ m.target <= expectedSeqNum /\ m.target < serverSeqNum /\ win.lower <= m.target
      BY <1>4, <1>9 DEF ResendRejected, GoodResponse, Responses
    <2>2. GetDataFromWindow(win, m.target) = ChunkAt(m.target)
      <3>1. win.slots[GetIndex(m.target)] = [seqNum |-> m.target, data |-> ChunkAt(m.target)]
        BY <1>3, <2>1, SlotInWindow, Zenon
      <3> QED BY <3>1 DEF GetDataFromWindow
    <2>3. PICK d \in ClientMessage :
              /\ d = DataPDU("RESENT_DATA_SREJ", m.target, ChunkAt(m.target))
              /\ SendToClient(d)
      <3>1. ChunkAt(m.target) \in Chunk
        BY <1>3, <1>6, <1>7, <2>1, ChunkAtType DEF WindowInv
      <3>2. DataPDU("RESENT_DATA_SREJ", m.target, ChunkAt(m.target)) \in ClientMessage
        BY <1>3, <3>1, DataPDUType DEF DataFlags
      <3> QED BY <1>9, <2>2, <3>2 DEF ResendRejected
    <2>4. /\ d.flag = "RESENT_DATA_SREJ" /\ d.seqNum = m.target
          /\ d.payload = ChunkAt(m.target)
      BY <2>3 DEF DataPDU
    <2>5. ToClientInv'
      BY <1>6, <1>7, <2>1, <2>3, <2>4, ToClientInvAfterSend DEF GoodEof, clientVars
    <2>6. ToServerInv'
      BY <1>1, <1>7, <1>9, ToServerInvAfterReceive DEF ResendRejected, clientVars
    <2>7. EndOfFileInv'
      BY <1>7, <1>9 DEF ResendRejected, EndOfFileInv
    <2>8. TeardownInv'
      BY <1>1, <1>9, ServerTeardown DEF ResendRejected
    <2> QED BY <1>6, <1>9, <2>5, <2>6, <2>7, <2>8, ServerFrame DEF ResendRejected
  <1>10. CASE SlideWindow(m, goOn)
    <2>1. win.lower <= m.target /\ m.target <= expectedSeqNum
      BY <1>4, <1>10 DEF SlideWindow, GoodResponse, Responses
    <2>2. /\ win'.lower = m.target /\ win'.upper = m.target + WindowSize
          /\ win'.current = win.current /\ win'.slots = win.slots
      BY <1>3, <1>10, StateTypes, UpdateLowerProperties DEF SlideWindow, Inv
    <2>3. WindowInv'
      BY <1>3, <1>6, <1>7, <2>1, <2>2 DEF WindowInv, clientVars
    <2>4. ToServerInv'
      BY <1>1, <1>7, <1>10, <2>2, ToServerInvAfterReceive DEF SlideWindow, clientVars, m
    <2>5. EndOfFileInv'
      <3>1. expectedSeqNum <= LastSeqNum
        BY <1>6, <1>7 DEF WindowInv
      <3>2. win.lower = LastSeqNum => win'.lower = LastSeqNum
        BY <1>3, <1>6, <2>1, <2>2, <3>1
      <3>3. waitingForLastRR' => waitingForLastRR
        BY <1>10 DEF SlideWindow
      <3>4. atEOF /\ waitingForLastRR /\ ~waitingForLastRR' => win'.lower = LastSeqNum
        <4>1. atEOF => EqualsLastDataSeqNum(m.target) = {m.target = serverSeqNum}
          BY DEF EqualsLastDataSeqNum
        <4>2. atEOF /\ waitingForLastRR /\ ~waitingForLastRR' => m.target = serverSeqNum
          BY <1>10, <4>1, Zenon DEF SlideWindow
        <4> QED BY <1>7, <2>2, <4>2 DEF EndOfFileInv
      <3> QED BY <1>6, <1>7, <1>10, <2>2, <3>2, <3>3, <3>4 DEF EndOfFileInv, SlideWindow
    <2>6. TeardownInv'
      BY <1>1, <1>10, ServerTeardown DEF SlideWindow
    <2> QED BY <1>6, <1>10, <2>3, <2>4, <2>5, <2>6, ServerFrame DEF SlideWindow
  <1>11. CASE ExitOnEofAck(m)
    <2>1. EndOfFileInv'
      BY <1>7, <1>11 DEF ExitOnEofAck, ServerEnds, EndOfFileInv
    <2>2. dataState = "DATA_STATE_DONE"
      BY <1>4, <1>11 DEF ExitOnEofAck
    <2> QED BY <1>11, <2>1, <2>2, ServerQuietStep DEF ExitOnEofAck, ServerEnds
  <1> QED BY <1>5, <1>8, <1>9, <1>10, <1>11

(* While the window is open, a packet is read, stored and sent.            *)
LEMMA SendNextChunkStep ==
    ASSUME Inv, SendNextChunk, UNCHANGED clientVars
    PROVE  /\ WindowInv' /\ EndOfFileInv' /\ ToServerInv' /\ ToClientInv'
           /\ BufferInv' /\ OutputInv' /\ TeardownInv'
  <1>1. /\ serverSeqNum' = serverSeqNum + 1 /\ serverSeqNum < LastSeqNum
        /\ win.current # win.upper /\ ~atEOF /\ atEOF' = atEOF
        /\ waitingForLastRR' = waitingForLastRR /\ toServer' = toServer
        /\ serverState' = "SEND_DATA_POLL"
    BY DEF SendNextChunk, IsWindowOpen
  <1>2. /\ win \in WindowType /\ serverSeqNum \in Nat /\ win.lower \in Nat
        /\ win.current \in Nat /\ win.upper \in Nat
        /\ expectedSeqNum \in Nat /\ highestSeqNum \in Nat
        /\ LastSeqNum \in Nat /\ WindowSize \in Nat \ {0}
        /\ \A i \in 0 .. WindowSize - 1 : win.slots[i].seqNum \in Nat
    BY StateTypes DEF Inv
  <1>3. WindowInv /\ EndOfFileInv /\ ToServerInv /\ ToClientInv /\ BufferInv /\ TypeOK
    BY DEF Inv, TransferInv
  <1>4. ChunkAt(serverSeqNum) \in Chunk
    BY <1>1, <1>2, ChunkAtType
  <1>5. /\ win'.lower = win.lower /\ win'.upper = win.upper
        /\ win'.current = win.current + 1
        /\ win'.slots[GetIndex(serverSeqNum)] =
               [seqNum |-> serverSeqNum, data |-> ChunkAt(serverSeqNum)]
        /\ \A i \in 0 .. WindowSize - 1 : i # GetIndex(serverSeqNum) =>
               win'.slots[i] = win.slots[i]
    <2>1. win' = AddDataToWindow(win, serverSeqNum, ChunkAt(serverSeqNum))
      BY DEF SendNextChunk
    <2>2. PICK d \in Chunk : d = ChunkAt(serverSeqNum)
      BY <1>4
    <2>3. win' = AddDataToWindow(win, serverSeqNum, d)
      BY <2>1, <2>2
    <2> QED BY <1>2, <2>2, <2>3, AddDataToWindowProperties
  <1>6. WindowInv'
    <2>1. serverSeqNum + 1 <= win.upper /\ win.upper = win.lower + WindowSize
          /\ win.lower <= serverSeqNum
      BY <1>1, <1>2, <1>3 DEF WindowInv
    <2>2. \A s \in win.lower .. serverSeqNum :
              win'.slots[GetIndex(s)] = [seqNum |-> s, data |-> ChunkAt(s)]
      <3> TAKE s \in win.lower .. serverSeqNum
      <3>1. CASE s = serverSeqNum
        BY <1>5, <3>1
      <3>2. CASE s # serverSeqNum
        <4>1. s \in Nat /\ s < serverSeqNum /\ serverSeqNum < s + WindowSize
          BY <1>2, <2>1, <3>2
        <4>2. GetIndex(s) # GetIndex(serverSeqNum) /\ GetIndex(s) \in 0 .. WindowSize - 1
          BY <1>2, <4>1, GetIndexInjective, GetIndexRange
        <4>3. win'.slots[GetIndex(s)] = win.slots[GetIndex(s)]
          BY <1>5, <4>2
        <4> QED BY <1>2, <4>1, <4>3, SlotInWindow
      <3> QED BY <3>1, <3>2
    <2>3. \A i \in 0 .. WindowSize - 1 :
              win'.slots[i].seqNum < serverSeqNum + 1 \/ win'.slots[i] = EmptySlot
      <3> TAKE i \in 0 .. WindowSize - 1
      <3>1. CASE i = GetIndex(serverSeqNum)
        BY <1>2, <1>5, <3>1
      <3>2. CASE i # GetIndex(serverSeqNum)
        BY <1>2, <1>3, <1>5, <3>2 DEF WindowInv
      <3> QED BY <3>1, <3>2
    <2> QED BY <1>1, <1>2, <1>3, <1>5, <2>1, <2>2, <2>3 DEF WindowInv, clientVars
  <1>7. EndOfFileInv'
    BY <1>1, <1>3 DEF EndOfFileInv
  <1>8. ToServerInv'
    <2>1. \A i \in 1 .. Len(toServer.queue) :
              /\ GoodResponse(toServer.queue[i]) /\ toServer.queue[i].target \in Nat
      BY <1>3, InFlightTypes DEF ToServerInv
    <2>2. expectedSeqNum' = expectedSeqNum
      BY DEF clientVars
    <2>3. \A i \in 1 .. Len(toServer.queue) : GoodResponse(toServer.queue[i])'
      BY <1>1, <1>2, <1>5, <2>1, <2>2 DEF GoodResponse
    <2> QED BY <1>1, <1>3, <2>3 DEF ToServerInv, GoodResponse, ResponsesOrdered
  <1>9. ToClientInv'
    <2>1. PICK d \in ClientMessage :
              /\ d = DataPDU("DATA", serverSeqNum, ChunkAt(serverSeqNum))
              /\ SendToClient(d)
      <3>1. DataPDU("DATA", serverSeqNum, ChunkAt(serverSeqNum)) \in ClientMessage
        BY <1>2, <1>4, DataPDUType DEF DataFlags
      <3> QED BY <3>1 DEF SendNextChunk
    <2>2. /\ d.flag = "DATA" /\ d.seqNum = serverSeqNum
          /\ d.payload = ChunkAt(serverSeqNum)
      BY <2>1 DEF DataPDU
    <2>3. dataState = "BUFFER" => serverSeqNum >= highestSeqNum
      BY <1>2, <1>3 DEF BufferInv
    <2> QED BY <1>1, <1>2, <1>3, <2>1, <2>2, <2>3, ToClientInvAfterSend
        DEF GoodEof, clientVars
  <1>10. BufferInv' /\ OutputInv'
    BY <1>1, <1>2, ServerFrame
  <1>11. TeardownInv'
    BY <1>1, ServerTeardown
  <1> QED BY <1>6, <1>7, <1>8, <1>9, <1>10, <1>11

(* Between the loops of sendData(): if the last RR is not waited for, it   *)
(* has come, although the test reads a slot that may be stale or empty.    *)
LEMMA StopSendingStep ==
    ASSUME Inv, StopSending, UNCHANGED clientVars
    PROVE  /\ WindowInv' /\ EndOfFileInv' /\ ToServerInv' /\ ToClientInv'
           /\ BufferInv' /\ OutputInv' /\ TeardownInv'
  <1>1. /\ waitingForLastRR' =
               (waitingForLastRR \/ (atEOF /\ serverSeqNum # GetLowestSeqNum(win)))
        /\ serverState' = "SEND_DATA_WAIT" /\ atEOF' = atEOF
        /\ serverSeqNum' = serverSeqNum /\ win' = win
        /\ toServer' = toServer /\ toClient' = toClient
    BY DEF StopSending, linkVars
  <1>2. /\ serverSeqNum \in Nat /\ win.lower \in Nat /\ expectedSeqNum \in Nat
        /\ LastSeqNum \in Nat /\ WindowSize \in Nat \ {0}
        /\ \A i \in 0 .. WindowSize - 1 : win.slots[i].seqNum \in Nat
    BY StateTypes DEF Inv
  <1>3. WindowInv /\ EndOfFileInv
    BY DEF Inv, TransferInv
  <1>4. GetIndex(win.lower) \in 0 .. WindowSize - 1
    BY <1>2, GetIndexRange
  <1>5. GetLowestSeqNum(win) = win.slots[GetIndex(win.lower)].seqNum
    BY DEF GetLowestSeqNum, GetLowestSeqNumData
  <1>6. serverSeqNum = GetLowestSeqNum(win) => serverSeqNum = 0
    BY <1>2, <1>3, <1>4, <1>5 DEF WindowInv, EmptySlot
  <1>7. serverSeqNum = 0 => serverSeqNum = GetLowestSeqNum(win)
    BY <1>2, <1>3, <1>4, <1>5 DEF WindowInv, EmptySlot
  <1>8. serverSeqNum = 0 => win.lower = 0
    BY <1>2, <1>3 DEF WindowInv
  <1>9. EndOfFileInv'
    <2>1. /\ waitingForLastRR' =>
                 waitingForLastRR \/ (atEOF /\ serverSeqNum # GetLowestSeqNum(win))
          /\ ~waitingForLastRR' => (atEOF => serverSeqNum = GetLowestSeqNum(win))
      BY <1>1, Zenon
    <2>2. waitingForLastRR' => atEOF /\ serverSeqNum > 0
      BY <1>2, <1>3, <1>7, <2>1 DEF EndOfFileInv
    <2>3. ~waitingForLastRR' /\ atEOF => win.lower = LastSeqNum
      BY <1>3, <1>6, <1>8, <2>1 DEF EndOfFileInv
    <2> QED BY <1>1, <1>3, <2>2, <2>3 DEF EndOfFileInv
  <1> QED BY <1>1, <1>9, ServerQuietStep

(* A timeout resends what the slot of lower holds: a packet rcopy has not  *)
(* gone past, or an older one that it will answer with an RR.              *)
LEMMA ResendLowestStep ==
    ASSUME Inv, ResendLowest, UNCHANGED clientVars
    PROVE  /\ WindowInv' /\ EndOfFileInv' /\ ToServerInv' /\ ToClientInv'
           /\ BufferInv' /\ OutputInv' /\ TeardownInv'
  <1> DEFINE lowest == GetLowestSeqNumData(win)
  <1>1. /\ MustWait
        /\ SendToClient(DataPDU("RESENT_DATA_TIMEOUT", lowest.seqNum, lowest.data))
        /\ UNCHANGED <<serverState, win, serverSeqNum, atEOF, waitingForLastRR, toServer>>
    BY DEF ResendLowest
  <1>2. /\ serverSeqNum \in Nat /\ win.lower \in Nat /\ expectedSeqNum \in Nat
        /\ win.upper \in Nat /\ win.current \in Nat
        /\ LastSeqNum \in Nat /\ WindowSize \in Nat \ {0} /\ win \in WindowType
    BY StateTypes DEF Inv
  <1>3. WindowInv /\ EndOfFileInv /\ ToClientInv /\ TypeOK
    BY DEF Inv, TransferInv
  <1>4. lowest.seqNum \in Nat /\ lowest.data \in Chunk \cup {NoData}
    BY <1>2, WindowReads
  <1>5. lowest = win.slots[GetIndex(win.lower)] /\ GetIndex(win.lower) \in 0 .. WindowSize - 1
    BY <1>2, GetIndexRange DEF GetLowestSeqNumData
  <1> HIDE DEF lowest
  <1>6. /\ lowest.seqNum < serverSeqNum
        /\ lowest.seqNum <= expectedSeqNum
        /\ lowest.seqNum >= expectedSeqNum => lowest.data = ChunkAt(lowest.seqNum)
    <2>1. win.lower <= expectedSeqNum /\ expectedSeqNum <= serverSeqNum
      BY <1>3 DEF WindowInv
    <2>2. CASE win.lower < serverSeqNum
      <3>1. lowest = [seqNum |-> win.lower, data |-> ChunkAt(win.lower)]
        BY <1>2, <1>5, <2>2, SlotInWindow
      <3> QED BY <1>2, <2>1, <2>2, <3>1
    <2>3. CASE win.lower = serverSeqNum
      <3>1. waitingForLastRR
        BY <1>1, <1>2, <1>3, <2>3 DEF MustWait, IsWindowClosed, WindowInv
      <3>2. serverSeqNum > 0
        BY <1>3, <3>1 DEF EndOfFileInv
      <3>3. lowest.seqNum < serverSeqNum \/ lowest = EmptySlot
        BY <1>3, <1>5 DEF WindowInv
      <3>4. lowest.seqNum < serverSeqNum
        BY <3>2, <3>3 DEF EmptySlot
      <3> QED BY <1>2, <1>4, <2>1, <2>3, <3>4
    <2> QED BY <1>2, <2>1, <2>2, <2>3
  <1>7. ToClientInv'
    <2>1. PICK d \in ClientMessage :
              /\ d = DataPDU("RESENT_DATA_TIMEOUT", lowest.seqNum, lowest.data)
              /\ SendToClient(d)
      <3>1. DataPDU("RESENT_DATA_TIMEOUT", lowest.seqNum, lowest.data) \in ClientMessage
        BY <1>4, DataPDUType DEF DataFlags
      <3> QED BY <1>1, <3>1
    <2>2. /\ d.flag = "RESENT_DATA_TIMEOUT" /\ d.seqNum = lowest.seqNum
          /\ d.payload = lowest.data
      BY <2>1 DEF DataPDU
    <2> QED BY <1>1, <1>2, <1>3, <1>6, <2>1, <2>2, ToClientInvAfterSend
        DEF GoodEof, clientVars
  <1>8. EndOfFileInv'
    BY <1>1, <1>3 DEF EndOfFileInv
  <1>9. TeardownInv'
    <2>1. serverState' # "EXITED"
      BY DEF ResendLowest
    <2> QED BY <1>1, <2>1, ServerTeardown
  <1> QED BY <1>1, <1>2, <1>7, <1>8, <1>9, ServerFrame

(* END_OF_FILE carries the length of the file and finds rcopy there.       *)
LEMMA SendEofStep ==
    ASSUME Inv, SendEof, UNCHANGED clientVars
    PROVE  /\ WindowInv' /\ EndOfFileInv' /\ ToServerInv' /\ ToClientInv'
           /\ BufferInv' /\ OutputInv' /\ TeardownInv'
  <1>1. /\ serverState = "SEND_EOF" /\ serverState' = "SEND_EOF_POLL"
        /\ UNCHANGED <<win, serverSeqNum, atEOF, waitingForLastRR, toServer>>
    BY DEF SendEof
  <1>2. /\ serverSeqNum \in Nat /\ win.lower \in Nat /\ expectedSeqNum \in Nat
        /\ LastSeqNum \in Nat
    BY StateTypes DEF Inv
  <1>3. WindowInv /\ EndOfFileInv /\ ToClientInv /\ TypeOK
    BY DEF Inv, TransferInv
  <1>4. serverSeqNum = LastSeqNum /\ expectedSeqNum = LastSeqNum
    BY <1>1, <1>2, <1>3 DEF WindowInv, EndOfFileInv
  <1>5. ToClientInv'
    <2>1. PICK d \in ClientMessage :
              d = DataPDU("END_OF_FILE", serverSeqNum, NoData) /\ SendToClient(d)
      <3>1. DataPDU("END_OF_FILE", serverSeqNum, NoData) \in ClientMessage
        BY <1>2, DataPDUType DEF DataFlags
      <3> QED BY <3>1 DEF SendEof
    <2>2. d.flag = "END_OF_FILE" /\ d.seqNum = serverSeqNum
      BY <2>1 DEF DataPDU
    <2> QED BY <1>1, <1>2, <1>3, <1>4, <2>1, <2>2, ToClientInvAfterSend
        DEF GoodEof, DataPDUs, clientVars
  <1>6. EndOfFileInv'
    BY <1>1, <1>3 DEF EndOfFileInv
  <1>7. TeardownInv'
    BY <1>1, ServerTeardown
  <1> QED BY <1>1, <1>2, <1>5, <1>6, <1>7, ServerFrame

(* All steps of the server child.                                          *)
LEMMA ServerStepKeepsInv ==
    ASSUME Inv, UNCHANGED clientVars,
           ServerStep \/ ServerShortTimeout \/ FilenameOkAckTimeout
    PROVE  /\ WindowInv' /\ EndOfFileInv' /\ ToServerInv' /\ ToClientInv'
           /\ BufferInv' /\ OutputInv' /\ TeardownInv'
  <1>1. EndOfFileInv
    BY DEF Inv, TransferInv
  <1>2. CASE FilenameOkAckReceived
    <2>1. EndOfFileInv'
      BY <1>1, <1>2 DEF FilenameOkAckReceived, EndOfFileInv
    <2> QED BY <1>2, <2>1, ServerQuietStep DEF FilenameOkAckReceived
  <1>3. CASE FilenameOkAckTimeout
    <2>1. EndOfFileInv'
      BY <1>1, <1>3 DEF FilenameOkAckTimeout, ServerEnds, EndOfFileInv
    <2> QED BY <1>3, <2>1, ServerQuietStep DEF FilenameOkAckTimeout, ServerEnds
  <1>4. CASE SendNextChunk
    BY <1>4, SendNextChunkStep
  <1>5. CASE ReachEndOfFile
    <2>1. EndOfFileInv'
      BY <1>1, <1>5 DEF ReachEndOfFile, EndOfFileInv
    <2> QED BY <1>5, <2>1, ServerQuietStep DEF ReachEndOfFile, linkVars
  <1>6. CASE ReadError
    <2>1. EndOfFileInv'
      BY <1>1, <1>6 DEF ReadError, ServerEnds, EndOfFileInv
    <2> QED BY <1>6, <2>1, ServerQuietStep DEF ReadError, ServerEnds
  <1>7. CASE PollWhileOpen
    <2>1. CASE ProcessResponse("SEND_DATA")
      BY <1>7, <2>1, ProcessResponseStep DEF PollWhileOpen
    <2>2. CASE serverState' = "SEND_DATA" /\ UNCHANGED <<win, waitingForLastRR, linkVars>>
      <3>1. EndOfFileInv'
        BY <1>1, <1>7, <2>2 DEF PollWhileOpen, EndOfFileInv
      <3> QED BY <1>7, <2>2, <3>1, ServerQuietStep DEF PollWhileOpen, linkVars
    <2> QED BY <1>7, <2>1, <2>2 DEF PollWhileOpen
  <1>8. CASE StopSending
    BY <1>8, StopSendingStep
  <1>9. CASE ResponseWhileWaiting
    BY <1>9, ProcessResponseStep DEF ResponseWhileWaiting
  <1>10. CASE ReturnFromSendData
    <2>1. EndOfFileInv'
      BY <1>1, <1>10 DEF ReturnFromSendData, MustWait, EndOfFileInv
    <2> QED BY <1>10, <2>1, ServerQuietStep DEF ReturnFromSendData, linkVars
  <1>11. CASE SendEof
    BY <1>11, SendEofStep
  <1>12. CASE ResponseToEof
    BY <1>12, ProcessResponseStep DEF ResponseToEof
  <1>13. CASE ResendLowest
    BY <1>13, ResendLowestStep
  <1>14. CASE QuitSending
    <2>1. EndOfFileInv'
      BY <1>1, <1>14 DEF QuitSending, ServerEnds, EndOfFileInv
    <2> QED BY <1>14, <2>1, ServerQuietStep DEF QuitSending, ServerEnds
  <1>15. CASE EofTimeout
    <2>1. EndOfFileInv'
      BY <1>1, <1>15 DEF EofTimeout, ServerEnds, EndOfFileInv
    <2> QED BY <1>15, <2>1, ServerQuietStep DEF EofTimeout, ServerEnds
  <1> QED
    BY <1>2, <1>3, <1>4, <1>5, <1>6, <1>7, <1>8, <1>9, <1>10, <1>11, <1>12,
       <1>13, <1>14, <1>15
    DEF ServerStep, ServerShortTimeout

--------------------------------------------------------------------------------
(* The steps of rcopy.                                                     *)

(* What rcopy does leaves the server's variables, and with them all that   *)
(* is said of the window and of END_OF_FILE, as long as it expects no more *)
(* than was sent.                                                          *)
LEMMA ClientFrame ==
    ASSUME Inv, UNCHANGED serverVars, expectedSeqNum' \in Nat,
           expectedSeqNum <= expectedSeqNum', expectedSeqNum' <= serverSeqNum
    PROVE  WindowInv' /\ EndOfFileInv'
  <1>1. win' = win /\ serverSeqNum' = serverSeqNum
    BY DEF serverVars
  <1>2. WindowInv'
    BY <1>1, StateTypes DEF Inv, TransferInv, WindowInv
  <1>3. EndOfFileInv'
    BY DEF Inv, TransferInv, EndOfFileInv, serverVars
  <1> QED BY <1>2, <1>3

(* Outside receiveData() rcopy changes neither what it has nor what it     *)
(* expects.                                                                *)
LEMMA ClientQuietStep ==
    ASSUME Inv, UNCHANGED <<serverVars, receiveVars>>,
           toClient' = toClient \/ toClient' = Closed(toClient),
           \/ toServer' = toServer
           \/ \E m \in ServerMessage : SendToServer(m) /\ m.flag \notin Responses
    PROVE  /\ WindowInv' /\ EndOfFileInv' /\ ToServerInv' /\ ToClientInv'
           /\ BufferInv' /\ OutputInv'
  <1>1. /\ win' = win /\ serverSeqNum' = serverSeqNum
        /\ dataState' = dataState /\ expectedSeqNum' = expectedSeqNum
        /\ highestSeqNum' = highestSeqNum /\ buffer' = buffer /\ outputFile' = outputFile
    BY DEF serverVars, receiveVars
  <1>2. TypeOK /\ WindowInv /\ ToServerInv /\ ToClientInv /\ BufferInv /\ OutputInv
    BY DEF Inv, TransferInv
  <1>3. WindowInv' /\ EndOfFileInv'
    BY <1>1, <1>2, StateTypes, ClientFrame DEF WindowInv
  <1>4. ToServerInv'
    <2>1. CASE toServer' = toServer
      BY <1>1, <1>2, <2>1 DEF ToServerInv, GoodResponse, ResponsesOrdered
    <2>2. CASE \E m \in ServerMessage : SendToServer(m) /\ m.flag \notin Responses
      BY <1>1, <1>2, <2>2, ToServerInvAfterAck
    <2> QED BY <2>1, <2>2
  <1>5. ToClientInv'
    <2>1. CASE toClient' = toClient
      BY <1>1, <1>2, <2>1 DEF ToClientInv, GoodData, GoodEof, DataOrdered
    <2>2. CASE toClient' = Closed(toClient)
      <3>1. Len(toClient'.queue) = 0
        BY <1>2, <2>2, StateTypes, ClosedProperties
      <3> QED BY <3>1 DEF ToClientInv
    <2> QED BY <2>1, <2>2
  <1>6. BufferInv' /\ OutputInv'
    BY <1>1, <1>2 DEF BufferInv, OutputInv
  <1> QED BY <1>3, <1>4, <1>5, <1>6

(* The EOF_ACKs among what rcopy has sent after it sent replies.           *)
LEMMA NoEofAckInReply ==
    ASSUME Inv, dataState # "DATA_STATE_DONE",
           \/ toServer' = toServer
           \/ \E s \in Nat : ReplyRR(s) \/ ReplySREJ(s) \/ ReplyRRAndSREJ(s)
    PROVE  \A i \in 1 .. Len(toServer'.queue) : toServer'.queue[i].flag # "EOF_ACK"
  <1>1. \A i \in 1 .. Len(toServer.queue) : toServer.queue[i].flag # "EOF_ACK"
    BY DEF Inv, TransferInv, TeardownInv
  <1>2. CASE toServer' = toServer
    BY <1>1, <1>2
  <1>3. ASSUME NEW s \in Nat, ReplyRR(s) \/ ReplySREJ(s) \/ ReplyRRAndSREJ(s)
        PROVE  \A i \in 1 .. Len(toServer'.queue) : toServer'.queue[i].flag # "EOF_ACK"
    <2>1. \A i \in 1 .. Len(toServer'.queue) :
              \/ i \in 1 .. Len(toServer.queue) /\ toServer'.queue[i] = toServer.queue[i]
              \/ toServer'.queue[i] \in {Reply("RR", s), Reply("SREJ", s), FlippedControl}
      BY <1>3, QueueAfterReply DEF Inv
    <2>2. /\ Reply("RR", s).flag = "RR" /\ Reply("SREJ", s).flag = "SREJ"
          /\ FlippedControl.flag = "CRC_ERROR"
      BY DEF Reply, FlippedControl, ControlPDU
    <2> QED BY <1>1, <2>1, <2>2
  <1> QED BY <1>2, <1>3

(* In receiveData() no transfer has ended yet.                             *)
LEMMA ReceivingTeardown ==
    ASSUME Inv, UNCHANGED serverVars, dataState # "DATA_STATE_DONE",
           \/ toServer' = toServer
           \/ \E s \in Nat : ReplyRR(s) \/ ReplySREJ(s) \/ ReplyRRAndSREJ(s),
           \/ dataState' # "DATA_STATE_DONE" /\ clientState' = "RECV_DATA"
           \/ /\ dataState' = "DATA_STATE_DONE" /\ clientState' = "SEND_EOF_ACK"
              /\ expectedSeqNum' = LastSeqNum
    PROVE  TeardownInv'
  <1>1. \A i \in 1 .. Len(toServer'.queue) : toServer'.queue[i].flag # "EOF_ACK"
    BY NoEofAckInReply
  <1>2. serverState' # "EXITED"
    BY DEF Inv, TransferInv, TeardownInv, serverVars
  <1> QED BY <1>1, <1>2 DEF TeardownInv

(* What rcopy knows of the datagram it takes off its queue.                *)
LEMMA HeadProperties ==
    ASSUME Inv, toClient.queue # << >>
    PROVE  LET m == Head(toClient.queue)
           IN  /\ m.seqNum \in Nat /\ m.payload \in Chunk \cup {NoData}
               /\ m.flag \in DataFlags \cup {"CRC_ERROR"}
               /\ GoodData(m) /\ GoodEof(m)
  <1>1. /\ Len(toClient.queue) \in Nat \ {0} /\ Head(toClient.queue) = toClient.queue[1]
        /\ Head(toClient.queue) \in ClientMessage
    BY StateTypes, ReceivedProperties DEF Inv
  <1>2. 1 \in 1 .. Len(toClient.queue)
    BY <1>1
  <1>3. GoodData(toClient.queue[1]) /\ GoodEof(toClient.queue[1])
    BY <1>2 DEF Inv, TransferInv, ToClientInv
  <1> QED BY <1>1, <1>3 DEF ClientMessage

(* A valid entry rcopy may look up by number holds that number: all valid  *)
(* entries and the number lie within one window.                           *)
LEMMA EntryOfNumber ==
    ASSUME Inv, NEW i \in 0 .. WindowSize - 1, buffer[i].valid,
           NEW s \in Nat, expectedSeqNum <= s, s < serverSeqNum, BufferIndex(s) = i
    PROVE  buffer[i].seqNum = s
  <1> DEFINE n == buffer[i].seqNum
  <1>1. /\ n \in Nat /\ expectedSeqNum \in Nat /\ highestSeqNum \in Nat
        /\ serverSeqNum \in Nat /\ win.lower \in Nat /\ WindowSize \in Nat \ {0}
    BY StateTypes DEF Inv
  <1>2. /\ BufferIndex(n) = i /\ expectedSeqNum < n /\ n < serverSeqNum
        /\ serverSeqNum <= expectedSeqNum + WindowSize
    <2>1. /\ dataState = "BUFFER" /\ BufferIndex(n) = i /\ expectedSeqNum < n
          /\ n <= highestSeqNum
      BY DEF Inv, TransferInv, BufferInv
    <2>2. highestSeqNum < serverSeqNum
      BY <2>1 DEF Inv, TransferInv, BufferInv
    <2>3. serverSeqNum <= expectedSeqNum + WindowSize
      BY <1>1 DEF Inv, TransferInv, WindowInv
    <2> QED BY <1>1, <2>1, <2>2, <2>3
  <1> HIDE DEF n
  <1>3. s < n + WindowSize /\ n < s + WindowSize
    BY <1>1, <1>2
  <1>4. s <= n => n = s
    BY <1>1, <1>2, <1>3, BufferIndexInjective
  <1>5. n <= s => n = s
    BY <1>1, <1>2, <1>3, BufferIndexInjective
  <1> QED BY <1>1, <1>4, <1>5 DEF n

(* A corrupted datagram is dropped, an old one answered: rcopy stays as it *)
(* is.                                                                     *)
LEMMA AnswerOrDropStep ==
    ASSUME Inv, UNCHANGED serverVars, toClient.queue # << >>,
           toClient' = Received(toClient), dataState # "DATA_STATE_DONE",
           \/ DropCorrupted(Head(toClient.queue))
           \/ AnswerOldData(Head(toClient.queue))
    PROVE  /\ WindowInv' /\ EndOfFileInv' /\ ToServerInv' /\ ToClientInv'
           /\ BufferInv' /\ OutputInv' /\ TeardownInv'
  <1>1. /\ win' = win /\ serverSeqNum' = serverSeqNum
        /\ dataState' = dataState /\ expectedSeqNum' = expectedSeqNum
        /\ highestSeqNum' = highestSeqNum /\ buffer' = buffer /\ outputFile' = outputFile
        /\ clientState' = "RECV_DATA"
    BY DEF serverVars, receiveVars, DropCorrupted, AnswerOldData
  <1>2. /\ TypeOK /\ WindowInv /\ ToServerInv /\ ToClientInv /\ BufferInv /\ OutputInv
        /\ expectedSeqNum \in Nat /\ highestSeqNum \in Nat /\ serverSeqNum \in Nat
    BY StateTypes DEF Inv, TransferInv
  <1>3. \/ toServer' = toServer
        \/ ReplyRR(expectedSeqNum)
        \/ dataState = "BUFFER" /\ ReplyRRAndSREJ(expectedSeqNum)
    BY DEF DropCorrupted, AnswerOldData
  <1>4. WindowInv' /\ EndOfFileInv'
    BY <1>1, <1>2, ClientFrame DEF WindowInv
  <1>5. ToServerInv'
    <2>1. win.lower <= expectedSeqNum
      BY <1>2 DEF WindowInv
    <2>2. CASE toServer' = toServer
      BY <1>1, <1>2, <2>2 DEF ToServerInv, GoodResponse, ResponsesOrdered
    <2>3. CASE ReplyRR(expectedSeqNum)
      BY <1>1, <1>2, <2>1, <2>3, ToServerInvAfterReply
    <2>4. CASE dataState = "BUFFER" /\ ReplyRRAndSREJ(expectedSeqNum)
      <3>1. expectedSeqNum < serverSeqNum
        BY <1>2, <2>4 DEF BufferInv
      <3> QED BY <1>1, <1>2, <2>1, <2>4, <3>1, ToServerInvAfterReply
    <2> QED BY <1>3, <2>2, <2>3, <2>4
  <1>6. ToClientInv'
    BY <1>1, <1>2, ToClientInvAfterReceive
  <1>7. BufferInv' /\ OutputInv'
    BY <1>1, <1>2 DEF BufferInv, OutputInv
  <1>8. TeardownInv'
    BY <1>1, <1>2, <1>3, ReceivingTeardown
  <1> QED BY <1>4, <1>5, <1>6, <1>7, <1>8

(* END_OF_FILE, when it comes, finds nothing in the buffer.                *)
LEMMA AcceptEofStep ==
    ASSUME Inv, UNCHANGED serverVars, toClient.queue # << >>,
           toClient' = Received(toClient), dataState # "DATA_STATE_DONE",
           AcceptEof(Head(toClient.queue))
    PROVE  /\ WindowInv' /\ EndOfFileInv' /\ ToServerInv' /\ ToClientInv'
           /\ BufferInv' /\ OutputInv' /\ TeardownInv'
  <1>1. /\ win' = win /\ serverSeqNum' = serverSeqNum /\ toServer' = toServer
        /\ expectedSeqNum' = expectedSeqNum
        /\ buffer' = buffer /\ outputFile' = outputFile
        /\ dataState' = "DATA_STATE_DONE" /\ clientState' = "SEND_EOF_ACK"
    BY DEF serverVars, AcceptEof
  <1>2. /\ TypeOK /\ WindowInv /\ ToServerInv /\ ToClientInv /\ BufferInv /\ OutputInv
        /\ expectedSeqNum \in Nat /\ highestSeqNum \in Nat /\ serverSeqNum \in Nat
        /\ LastSeqNum \in Nat
    BY StateTypes DEF Inv, TransferInv
  <1>3. expectedSeqNum = LastSeqNum
    BY HeadProperties DEF AcceptEof, GoodEof
  <1>4. dataState # "BUFFER"
    BY <1>2, <1>3 DEF BufferInv, WindowInv
  <1>5. WindowInv' /\ EndOfFileInv'
    BY <1>1, <1>2, ClientFrame DEF WindowInv
  <1>6. ToServerInv'
    BY <1>1, <1>2 DEF ToServerInv, GoodResponse, ResponsesOrdered
  <1>7. ToClientInv'
    BY <1>1, <1>2, ToClientInvAfterReceive
  <1>8. BufferInv' /\ OutputInv'
    BY <1>1, <1>2, <1>4 DEF BufferInv, OutputInv
  <1>9. TeardownInv'
    BY <1>1, <1>3, ReceivingTeardown
  <1> QED BY <1>5, <1>6, <1>7, <1>8, <1>9

(* The expected packet arrives in order: it is written and acknowledged.   *)
LEMMA AcceptInOrderStep ==
    ASSUME Inv, UNCHANGED serverVars, toClient.queue # << >>,
           toClient' = Received(toClient),
           Head(toClient.queue).flag # "CRC_ERROR", AcceptInOrder(Head(toClient.queue))
    PROVE  /\ WindowInv' /\ EndOfFileInv' /\ ToServerInv' /\ ToClientInv'
           /\ BufferInv' /\ OutputInv' /\ TeardownInv'
  <1> DEFINE m == Head(toClient.queue)
  <1>1. /\ win' = win /\ serverSeqNum' = serverSeqNum /\ buffer' = buffer
        /\ dataState = "IN_ORDER" /\ dataState' = "IN_ORDER"
        /\ expectedSeqNum' = expectedSeqNum + 1 /\ ReplyRR(expectedSeqNum + 1)
        /\ outputFile' = Append(outputFile, m.payload)
        /\ clientState' = "RECV_DATA"
        /\ m.flag # "CRC_ERROR" /\ m.flag # "END_OF_FILE" /\ m.seqNum = expectedSeqNum
    BY DEF serverVars, AcceptInOrder
  <1>2. /\ TypeOK /\ WindowInv /\ ToServerInv /\ ToClientInv /\ BufferInv /\ OutputInv
        /\ expectedSeqNum \in Nat /\ highestSeqNum \in Nat /\ serverSeqNum \in Nat
        /\ LastSeqNum \in Nat /\ win.lower \in Nat
        /\ outputFile \in Seq(Chunk \cup {NoData})
    BY StateTypes DEF Inv, TransferInv
  <1>3. /\ m.payload = ChunkAt(expectedSeqNum) /\ expectedSeqNum < serverSeqNum
        /\ m.payload \in Chunk \cup {NoData}
    <2>1. m.flag \in DataPDUs /\ GoodData(m) /\ m.payload \in Chunk \cup {NoData}
      BY <1>1, HeadProperties DEF DataFlags, DataPDUs
    <2> QED BY <1>1, <1>2, <2>1 DEF GoodData
  <1> HIDE DEF m
  <1>4. WindowInv' /\ EndOfFileInv'
    BY <1>1, <1>2, <1>3, ClientFrame
  <1>5. ToServerInv'
    <2>1. win.lower <= expectedSeqNum
      BY <1>2 DEF WindowInv
    <2>2. PICK s \in Nat : s = expectedSeqNum + 1
      BY <1>2
    <2>3. /\ s = expectedSeqNum' /\ ReplyRR(s) /\ win.lower <= s /\ expectedSeqNum <= s
      BY <1>1, <1>2, <2>1, <2>2
    <2> QED BY <1>1, <1>2, <2>3, ToServerInvAfterReply
  <1>6. ToClientInv'
    <2>1. expectedSeqNum < LastSeqNum
      BY <1>2, <1>3 DEF WindowInv
    <2> QED BY <1>1, <1>2, <2>1, ToClientInvAfterReceive
  <1>7. BufferInv'
    BY <1>1, <1>2 DEF BufferInv
  <1>8. OutputInv'
    <2>1. /\ Len(outputFile') = Len(outputFile) + 1
          /\ outputFile'[Len(outputFile) + 1] = m.payload
          /\ \A k \in 1 .. Len(outputFile) : outputFile'[k] = outputFile[k]
      BY <1>1, <1>2, <1>3, AppendProperties
    <2>2. Len(outputFile) = expectedSeqNum
      BY <1>2 DEF OutputInv
    <2>3. m.payload = File[expectedSeqNum + 1]
      BY <1>3 DEF ChunkAt
    <2> QED BY <1>1, <1>2, <2>1, <2>2, <2>3 DEF OutputInv
  <1>9. TeardownInv'
    <2>1. expectedSeqNum + 1 \in Nat
      BY <1>2
    <2> QED BY <1>1, <2>1, ReceivingTeardown
  <1> QED BY <1>4, <1>5, <1>6, <1>7, <1>8, <1>9

(* The buffer after a packet has been stored.                              *)
LEMMA StoreAheadBuffer ==
    ASSUME Inv, toClient.queue # << >>, Head(toClient.queue).flag # "CRC_ERROR",
           StoreAhead(Head(toClient.queue))
    PROVE  LET m == Head(toClient.queue)
               k == BufferIndex(m.seqNum)
           IN  /\ buffer'[k] = [seqNum |-> m.seqNum, flag |-> m.flag, data |-> m.payload,
                                valid |-> TRUE]
               /\ \A i \in 0 .. WindowSize - 1 : i # k => buffer'[i] = buffer[i]
  <1>1. PICK s \in Nat, d \in Chunk \cup {NoData}, f \in DataFlags :
            /\ s = Head(toClient.queue).seqNum /\ d = Head(toClient.queue).payload
            /\ f = Head(toClient.queue).flag
    BY HeadProperties DEF DataFlags
  <1>2. buffer' = AddDataToBuffer(buffer, s, f, d)
    BY <1>1 DEF StoreAhead
  <1>3. f \in {"DATA", "RESENT_DATA_SREJ", "RESENT_DATA_TIMEOUT", "END_OF_FILE"}
    BY DEF DataFlags
  <1>4. buffer \in BufferType
    BY StateTypes DEF Inv
  <1> DEFINE b == AddDataToBuffer(buffer, s, f, d)
  <1>5. /\ b[BufferIndex(s)] = [seqNum |-> s, flag |-> f, data |-> d, valid |-> TRUE]
        /\ \A i \in 0 .. WindowSize - 1 : i # BufferIndex(s) => b[i] = buffer[i]
    BY <1>3, <1>4, AddDataToBufferProperties, Zenon
  <1> HIDE DEF b
  <1>6. buffer' = b
    BY <1>2 DEF b
  <1> QED BY <1>1, <1>5, <1>6

(* A packet ahead of the expected one is stored; it is the furthest yet.   *)
LEMMA StoreAheadStep ==
    ASSUME Inv, UNCHANGED serverVars, toClient.queue # << >>,
           toClient' = Received(toClient),
           Head(toClient.queue).flag # "CRC_ERROR", StoreAhead(Head(toClient.queue))
    PROVE  /\ WindowInv' /\ EndOfFileInv' /\ ToServerInv' /\ ToClientInv'
           /\ BufferInv' /\ OutputInv' /\ TeardownInv'
  <1> DEFINE m == Head(toClient.queue)
  <1>1. /\ win' = win /\ serverSeqNum' = serverSeqNum
        /\ expectedSeqNum' = expectedSeqNum /\ outputFile' = outputFile
        /\ dataState \in {"IN_ORDER", "BUFFER"} /\ dataState' = "BUFFER"
        /\ highestSeqNum' = m.seqNum
        /\ buffer' = AddDataToBuffer(buffer, m.seqNum, m.flag, m.payload)
        /\ toServer' = toServer \/ ReplySREJ(expectedSeqNum)
        /\ clientState' = "RECV_DATA"
        /\ m.flag # "CRC_ERROR" /\ m.seqNum > expectedSeqNum
    BY DEF serverVars, StoreAhead
  <1>2. /\ TypeOK /\ WindowInv /\ ToServerInv /\ ToClientInv /\ BufferInv /\ OutputInv
        /\ expectedSeqNum \in Nat /\ highestSeqNum \in Nat /\ serverSeqNum \in Nat
        /\ LastSeqNum \in Nat /\ win.lower \in Nat /\ buffer \in BufferType
        /\ \A i \in 0 .. WindowSize - 1 : buffer[i].seqNum \in Nat
    BY StateTypes DEF Inv, TransferInv
  <1>3. /\ m.seqNum \in Nat /\ m.payload \in Chunk \cup {NoData}
        /\ m.flag \in DataFlags \cup {"CRC_ERROR"} /\ GoodData(m) /\ GoodEof(m)
    BY HeadProperties
  <1> HIDE DEF m
  <1>4. /\ m.flag = "DATA" /\ m.seqNum < serverSeqNum
        /\ m.payload = ChunkAt(m.seqNum)
        /\ dataState = "BUFFER" => highestSeqNum <= m.seqNum
    <2>1. m.flag \in DataPDUs
      BY <1>1, <1>2, <1>3 DEF DataFlags, DataPDUs, GoodEof
    <2>2. m.flag = "DATA"
      BY <1>1, <1>2, <1>3, <2>1 DEF GoodData
    <2> QED BY <1>1, <1>2, <1>3, <2>1, <2>2 DEF GoodData
  <1>5. WindowInv' /\ EndOfFileInv'
    BY <1>1, <1>2, ClientFrame DEF WindowInv
  <1>6. ToServerInv'
    <2>1. win.lower <= expectedSeqNum /\ expectedSeqNum < serverSeqNum
      BY <1>1, <1>2, <1>3, <1>4 DEF WindowInv
    <2>2. CASE toServer' = toServer
      BY <1>1, <1>2, <2>2 DEF ToServerInv, GoodResponse, ResponsesOrdered
    <2>3. CASE ReplySREJ(expectedSeqNum)
      BY <1>1, <1>2, <2>1, <2>3, ToServerInvAfterReply
    <2> QED BY <1>1, <2>2, <2>3
  <1>7. ToClientInv'
    BY <1>1, <1>2, <1>4, ToClientInvAfterReceive DEF m
  <1>8. BufferInv'
    <2> DEFINE k == BufferIndex(m.seqNum)
    <2>1. /\ buffer'[k] = [seqNum |-> m.seqNum, flag |-> m.flag, data |-> m.payload,
                           valid |-> TRUE]
          /\ \A i \in 0 .. WindowSize - 1 : i # k => buffer'[i] = buffer[i]
      BY StoreAheadBuffer DEF m
    <2>2. ASSUME NEW i \in 0 .. WindowSize - 1, buffer'[i].valid
          PROVE  /\ BufferIndex(buffer'[i].seqNum) = i
                 /\ expectedSeqNum < buffer'[i].seqNum
                 /\ buffer'[i].seqNum <= m.seqNum
                 /\ buffer'[i].flag # "END_OF_FILE"
                 /\ buffer'[i].data = ChunkAt(buffer'[i].seqNum)
      <3>1. CASE i = k
        BY <1>1, <1>3, <1>4, <2>1, <3>1
      <3>2. CASE i # k
        <4>1. buffer'[i] = buffer[i]
          BY <2>1, <3>2
        <4>2. dataState = "BUFFER" /\ buffer[i].seqNum <= highestSeqNum
          BY <1>2, <2>2, <4>1 DEF BufferInv
        <4> QED BY <1>2, <1>3, <1>4, <2>2, <4>1, <4>2 DEF BufferInv
      <3> QED BY <3>1, <3>2
    <2> QED BY <1>1, <1>4, <2>1, <2>2 DEF BufferInv, Entry
  <1>9. OutputInv'
    BY <1>1, <1>2 DEF OutputInv
  <1>10. TeardownInv'
    BY <1>1, <1>2, ReceivingTeardown
  <1> QED BY <1>5, <1>6, <1>7, <1>8, <1>9, <1>10

(* No END_OF_FILE is ever stored, so flush() never ends at one.            *)
LEMMA NeverStoppedByEof ==
    ASSUME Inv, NEW first \in Nat, NEW stop \in Nat
    PROVE  ~StoppedByEof(buffer, first, highestSeqNum, stop)
  <1>1. BufferIndex(stop) \in 0 .. WindowSize - 1
    BY BufferIndexRange
  <1>2. buffer[BufferIndex(stop)].valid => buffer[BufferIndex(stop)].flag # "END_OF_FILE"
    BY <1>1 DEF Inv, TransferInv, BufferInv
  <1> QED BY <1>2 DEF StoppedByEof, Entry

(* The missing packet arrives: it and what is stored behind it are written *)
(* in order, up to the next gap or to the highest packet.                  *)
LEMMA FillGapStep ==
    ASSUME Inv, UNCHANGED serverVars, toClient.queue # << >>,
           toClient' = Received(toClient),
           Head(toClient.queue).flag # "CRC_ERROR", FillGap(Head(toClient.queue))
    PROVE  /\ WindowInv' /\ EndOfFileInv' /\ ToServerInv' /\ ToClientInv'
           /\ BufferInv' /\ OutputInv' /\ TeardownInv'
  <1> DEFINE m     == Head(toClient.queue)
             first == expectedSeqNum + 1
             stop  == FlushStop(buffer, first, highestSeqNum)
             byEof == StoppedByEof(buffer, first, highestSeqNum, stop)
             last  == IF byEof THEN stop ELSE stop - 1
  <1>1. /\ win' = win /\ serverSeqNum' = serverSeqNum /\ highestSeqNum' = highestSeqNum
        /\ dataState = "BUFFER" /\ m.flag \notin {"CRC_ERROR", "END_OF_FILE"}
        /\ m.seqNum = expectedSeqNum
    BY DEF serverVars, FillGap
  <1>2. /\ expectedSeqNum' = stop
        /\ outputFile' = Append(outputFile, m.payload) \o Flushed(buffer, first, stop - 1)
        /\ buffer' = Taken(buffer, first, last)
        /\ ~byEof => AnswerFlush(stop)
    BY Zenon DEF FillGap
  <1>3. /\ TypeOK /\ WindowInv /\ ToServerInv /\ ToClientInv /\ BufferInv /\ OutputInv
        /\ expectedSeqNum \in Nat /\ highestSeqNum \in Nat /\ serverSeqNum \in Nat
        /\ LastSeqNum \in Nat /\ win.lower \in Nat /\ buffer \in BufferType
        /\ \A i \in 0 .. WindowSize - 1 : buffer[i].seqNum \in Nat
        /\ outputFile \in Seq(Chunk \cup {NoData}) /\ WindowSize \in Nat \ {0}
    BY StateTypes DEF Inv, TransferInv
  <1>4. /\ m.payload = ChunkAt(expectedSeqNum) /\ expectedSeqNum < serverSeqNum
        /\ m.payload \in Chunk \cup {NoData}
    <2>1. m.flag \in DataPDUs /\ GoodData(m) /\ m.payload \in Chunk \cup {NoData}
      BY <1>1, HeadProperties DEF DataFlags, DataPDUs
    <2> QED BY <1>1, <1>3, <2>1 DEF GoodData
  <1>5. /\ expectedSeqNum < highestSeqNum /\ highestSeqNum < serverSeqNum
        /\ serverSeqNum <= expectedSeqNum + WindowSize
        /\ BufferIndex(highestSeqNum) \in 0 .. WindowSize - 1
        /\ buffer[BufferIndex(highestSeqNum)].valid
    <2>1. /\ expectedSeqNum < highestSeqNum /\ highestSeqNum < serverSeqNum
          /\ buffer[BufferIndex(highestSeqNum)].valid
      BY <1>1, <1>3 DEF BufferInv, Entry
    <2>2. serverSeqNum <= expectedSeqNum + WindowSize
      BY <1>3 DEF WindowInv
    <2> QED BY <1>3, <2>1, <2>2, BufferIndexRange
  <1>6. first \in Nat /\ first = expectedSeqNum + 1
    BY <1>3
  <1>7. /\ stop \in first .. first + WindowSize
        /\ stop \in FlushStops(buffer, first, highestSeqNum)
        /\ \A s \in first .. stop - 1 : s \notin FlushStops(buffer, first, highestSeqNum)
    BY <1>3, <1>6, FlushStopProperties
  <1>8. \A s \in first .. stop - 1 : s <= highestSeqNum /\ Entry(buffer, s).valid
    BY <1>3, <1>6, FlushedEntriesValid
  <1> HIDE DEF m, first, stop, byEof
  <1>9. stop \in Nat /\ first <= stop /\ stop - 1 \in Int
    BY <1>3, <1>6, <1>7
  <1>10. stop <= highestSeqNum + 1 /\ stop < first + WindowSize
    <2>1. stop - 1 \in first .. stop - 1 => stop - 1 <= highestSeqNum
      BY <1>8
    <2> QED BY <1>3, <1>5, <1>6, <1>9, <2>1
  <1>11. \A i \in 0 .. WindowSize - 1 : buffer[i].valid =>
             /\ BufferIndex(buffer[i].seqNum) = i
             /\ expectedSeqNum < buffer[i].seqNum
             /\ buffer[i].seqNum <= highestSeqNum
             /\ buffer[i].flag # "END_OF_FILE"
             /\ buffer[i].data = ChunkAt(buffer[i].seqNum)
    BY <1>3 DEF BufferInv
  <1>12. ~byEof
    BY <1>6, <1>9, NeverStoppedByEof DEF byEof
  <1>13. AnswerFlush(stop) /\ buffer' = Taken(buffer, first, stop - 1)
    BY <1>2, <1>12
  <1>14. \A s \in first .. stop - 1 : Entry(buffer, s).data = ChunkAt(s)
    <2> TAKE s \in first .. stop - 1
    <2>1. /\ s \in Nat /\ expectedSeqNum <= s /\ s < serverSeqNum
          /\ buffer[BufferIndex(s)].valid
      BY <1>3, <1>5, <1>6, <1>8, <1>9 DEF Entry
    <2>2. BufferIndex(s) \in 0 .. WindowSize - 1
      BY <2>1, BufferIndexRange
    <2>3. buffer[BufferIndex(s)].seqNum = s
      BY <2>1, <2>2, EntryOfNumber
    <2> QED BY <1>11, <2>1, <2>2, <2>3 DEF Entry
  <1>15. \A i \in 0 .. WindowSize - 1 :
             /\ buffer'[i].valid =>
                    /\ buffer'[i] = buffer[i]
                    /\ \A s \in first .. stop - 1 : BufferIndex(s) # i
             /\ (\A s \in first .. stop - 1 : BufferIndex(s) # i) => buffer'[i] = buffer[i]
    <2> DEFINE b == Taken(buffer, first, stop - 1)
    <2>1. \A i \in 0 .. WindowSize - 1 :
              /\ b[i].valid => b[i] = buffer[i] /\ \A s \in first .. stop - 1 : BufferIndex(s) # i
              /\ (\A s \in first .. stop - 1 : BufferIndex(s) # i) => b[i] = buffer[i]
      <3>1. buffer \in BufferType /\ first \in Nat /\ stop - 1 \in Int
        BY <1>3, <1>6, <1>9
      <3> QED BY <3>1, TakenProperties, Zenon
    <2> HIDE DEF b
    <2>2. buffer' = b
      BY <1>13 DEF b
    <2> QED BY <2>1, <2>2
  <1>16. /\ \/ stop >= highestSeqNum /\ dataState' = "IN_ORDER" /\ ReplyRR(stop)
            \/ stop < highestSeqNum /\ dataState' = "BUFFER" /\ ReplyRRAndSREJ(stop)
         /\ clientState' = "RECV_DATA"
    BY <1>13 DEF AnswerFlush
  <1>17. expectedSeqNum' = stop /\ expectedSeqNum < stop /\ stop <= serverSeqNum
    BY <1>2, <1>3, <1>5, <1>6, <1>9, <1>10
  <1>18. WindowInv' /\ EndOfFileInv'
    BY <1>3, <1>9, <1>17, ClientFrame
  <1>19. ToServerInv'
    <2>1. win.lower <= expectedSeqNum
      BY <1>3 DEF WindowInv
    <2>2. win.lower <= stop /\ expectedSeqNum <= stop
      BY <1>3, <1>9, <1>17, <2>1
    <2>3. ReplyRR(stop) \/ stop < serverSeqNum
      BY <1>3, <1>5, <1>9, <1>16
    <2> QED BY <1>1, <1>3, <1>9, <1>16, <1>17, <2>2, <2>3, ToServerInvAfterReply
  <1>20. ToClientInv'
    <2>1. expectedSeqNum < LastSeqNum
      BY <1>3, <1>4 DEF WindowInv
    <2> QED BY <1>1, <1>3, <1>9, <1>17, <2>1, ToClientInvAfterReceive
  <1>21. BufferInv'
    <2>1. ASSUME NEW i \in 0 .. WindowSize - 1, buffer'[i].valid
          PROVE  buffer'[i] = buffer[i] /\ stop < buffer[i].seqNum
      <3> DEFINE n == buffer[i].seqNum
      <3>1. /\ buffer'[i] = buffer[i] /\ buffer[i].valid
            /\ \A s \in first .. stop - 1 : BufferIndex(s) # i
        BY <1>15, <2>1
      <3>2. /\ n \in Nat /\ BufferIndex(n) = i /\ expectedSeqNum < n /\ n <= highestSeqNum
            /\ buffer[i].flag # "END_OF_FILE"
        BY <1>3, <1>11, <3>1
      <3> HIDE DEF n
      <3>3. n \notin first .. stop - 1
        BY <3>1, <3>2
      <3>4. n # stop
        <4>1. SUFFICES ASSUME n = stop PROVE FALSE
          OBVIOUS
        <4>2. Entry(buffer, stop).valid /\ Entry(buffer, stop).flag # "END_OF_FILE"
          BY <3>1, <3>2, <4>1 DEF Entry
        <4>3. \/ stop > highestSeqNum \/ stop = first + WindowSize
              \/ ~Entry(buffer, stop).valid \/ Entry(buffer, stop).flag = "END_OF_FILE"
          BY <1>7 DEF FlushStops
        <4> QED BY <1>3, <1>6, <1>9, <1>10, <3>2, <4>1, <4>2, <4>3
      <3> QED BY <1>3, <1>6, <1>9, <3>1, <3>2, <3>3, <3>4 DEF n
    <2>2. CASE stop < highestSeqNum
      <3>1. \A s \in first .. stop - 1 : BufferIndex(s) # BufferIndex(highestSeqNum)
        <4> TAKE s \in first .. stop - 1
        <4>1. s \in Nat /\ s < highestSeqNum /\ highestSeqNum < s + WindowSize
          BY <1>3, <1>5, <1>6, <1>9, <2>2
        <4> QED BY <1>3, <4>1, BufferIndexInjective
      <3>2. buffer'[BufferIndex(highestSeqNum)].valid
        BY <1>5, <1>15, <3>1
      <3>3. dataState' = "BUFFER"
        BY <1>3, <1>9, <1>16, <2>2
      <3>4. \A i \in 0 .. WindowSize - 1 : buffer'[i].valid =>
                /\ BufferIndex(buffer'[i].seqNum) = i
                /\ stop < buffer'[i].seqNum
                /\ buffer'[i].seqNum <= highestSeqNum
                /\ buffer'[i].flag # "END_OF_FILE"
                /\ buffer'[i].data = ChunkAt(buffer'[i].seqNum)
        BY <1>11, <2>1
      <3> QED BY <1>1, <1>5, <1>17, <2>2, <3>2, <3>3, <3>4 DEF BufferInv, Entry
    <2>3. CASE stop >= highestSeqNum
      <3>1. \A i \in 0 .. WindowSize - 1 : ~buffer'[i].valid
        BY <1>3, <1>9, <1>11, <2>1, <2>3
      <3>2. dataState' = "IN_ORDER"
        BY <1>3, <1>9, <1>16, <2>3
      <3> QED BY <3>1, <3>2 DEF BufferInv
    <2> QED BY <1>3, <1>9, <2>2, <2>3
  <1>22. OutputInv'
    <2> DEFINE head == Append(outputFile, m.payload)
               tail == Flushed(buffer, first, stop - 1)
    <2>1. Len(outputFile) = expectedSeqNum /\ \A k \in 1 .. expectedSeqNum : outputFile[k] = File[k]
      BY <1>3 DEF OutputInv
    <2>2. /\ head \in Seq(Chunk \cup {NoData}) /\ Len(head) = first
          /\ head[first] = m.payload
          /\ \A k \in 1 .. expectedSeqNum : head[k] = outputFile[k]
      BY <1>3, <1>4, <1>6, <2>1, AppendProperties
    <2>3. /\ tail \in Seq(Chunk \cup {NoData}) /\ Len(tail) = stop - first
          /\ \A k \in 1 .. stop - first : tail[k] = Entry(buffer, first + k - 1).data
      <3>1. stop - 1 >= first - 1 /\ stop - 1 + 1 - first = stop - first
        BY <1>6, <1>9
      <3>2. /\ tail \in Seq(Chunk \cup {NoData}) /\ Len(tail) = stop - 1 + 1 - first
            /\ \A k \in 1 .. stop - 1 + 1 - first : tail[k] = Entry(buffer, first + k - 1).data
        BY <1>3, <1>6, <1>9, <3>1, FlushedProperties, Zenon
      <3> QED BY <3>1, <3>2
    <2>4. outputFile' = head \o tail
      BY <1>2
    <2> HIDE DEF head, tail
    <2>5. /\ Len(outputFile') = first + (stop - first)
          /\ \A k \in 1 .. first + (stop - first) :
                 outputFile'[k] = IF k <= first THEN head[k] ELSE tail[k - first]
      <3>1. /\ Len(outputFile') = Len(head) + Len(tail)
            /\ \A k \in 1 .. Len(head) + Len(tail) :
                   outputFile'[k] = IF k <= Len(head) THEN head[k] ELSE tail[k - Len(head)]
        BY <2>2, <2>3, <2>4, ConcatProperties, Zenon
      <3> QED BY <2>2, <2>3, <3>1
    <2>6. \A k \in 1 .. stop : outputFile'[k] = File[k]
      <3> TAKE k \in 1 .. stop
      <3>1. CASE k <= expectedSeqNum
        BY <1>3, <1>6, <1>9, <2>1, <2>2, <2>5, <3>1
      <3>2. CASE k = first
        BY <1>3, <1>4, <1>6, <1>9, <2>2, <2>5, <3>2 DEF ChunkAt
      <3>3. CASE k > first
        <4>1. /\ k - first \in 1 .. stop - first /\ first + (k - first) - 1 = k - 1
              /\ k - 1 \in first .. stop - 1
          BY <1>6, <1>9, <3>3
        <4>2. tail[k - first] = ChunkAt(k - 1)
          BY <1>14, <2>3, <4>1
        <4>3. outputFile'[k] = tail[k - first]
          BY <1>6, <1>9, <2>5, <3>3
        <4>4. ChunkAt(k - 1) = File[k]
          BY <1>9 DEF ChunkAt
        <4> QED BY <4>2, <4>3, <4>4
      <3> QED BY <1>3, <1>6, <1>9, <3>1, <3>2, <3>3
    <2> QED BY <1>6, <1>9, <1>17, <2>5, <2>6 DEF OutputInv
  <1>23. TeardownInv'
    BY <1>1, <1>9, <1>16, ReceivingTeardown
  <1> QED BY <1>18, <1>19, <1>20, <1>21, <1>22, <1>23

(* receiveData() has not ended the transfer before.                        *)
LEMMA ReceiveDataStep ==
    ASSUME Inv, ReceiveData, UNCHANGED serverVars
    PROVE  /\ WindowInv' /\ EndOfFileInv' /\ ToServerInv' /\ ToClientInv'
           /\ BufferInv' /\ OutputInv' /\ TeardownInv'
  <1>1. dataState # "DATA_STATE_DONE"
    BY DEF ReceiveData, Inv, TransferInv, TeardownInv
  <1>2. toClient.queue # << >> /\ toClient' = Received(toClient)
    BY DEF ReceiveData
  <1>3. \/ DropCorrupted(Head(toClient.queue))
        \/ /\ Head(toClient.queue).flag # "CRC_ERROR"
           /\ \/ AcceptEof(Head(toClient.queue)) \/ AcceptInOrder(Head(toClient.queue))
              \/ StoreAhead(Head(toClient.queue)) \/ AnswerOldData(Head(toClient.queue))
              \/ FillGap(Head(toClient.queue))
    BY DEF ReceiveData
  <1> QED BY <1>1, <1>2, <1>3, AnswerOrDropStep, AcceptEofStep, AcceptInOrderStep,
             StoreAheadStep, FillGapStep

(* The EOF_ACKs on the way to the server after rcopy has sent an ack.      *)
LEMMA EofAcksAfterAck ==
    ASSUME Inv, NEW m \in ServerMessage, SendToServer(m),
           m.flag = "EOF_ACK" => dataState = "DATA_STATE_DONE"
    PROVE  \A i \in 1 .. Len(toServer'.queue) :
               toServer'.queue[i].flag = "EOF_ACK" => dataState = "DATA_STATE_DONE"
  <1>1. \A i \in 1 .. Len(toServer'.queue) :
            \/ i \in 1 .. Len(toServer.queue) /\ toServer'.queue[i] = toServer.queue[i]
            \/ toServer'.queue[i] \in {m, FlippedControl}
    BY QueueAfterAck DEF Inv
  <1>2. \A i \in 1 .. Len(toServer.queue) :
            toServer.queue[i].flag = "EOF_ACK" => dataState = "DATA_STATE_DONE"
    BY DEF Inv, TransferInv, TeardownInv
  <1>3. FlippedControl.flag = "CRC_ERROR"
    BY DEF FlippedControl, ControlPDU
  <1> QED BY <1>1, <1>2, <1>3

(* All steps of rcopy.                                                     *)
LEMMA ClientStepKeepsInv ==
    ASSUME Inv, UNCHANGED serverVars,
           ClientStep \/ FilenameOkTimeout \/ ReceiveTimeout
    PROVE  /\ WindowInv' /\ EndOfFileInv' /\ ToServerInv' /\ ToClientInv'
           /\ BufferInv' /\ OutputInv' /\ TeardownInv'
  <1>1. TeardownInv
    BY DEF Inv, TransferInv
  <1>2. CASE SendFilenameOkAck
    <2>1. PICK m \in ServerMessage : m = ControlPDU("FNAME_OK_ACK", 0) /\ SendToServer(m)
      BY <1>2, ControlPDUType DEF SendFilenameOkAck, ControlFlags
    <2>2. m.flag = "FNAME_OK_ACK"
      BY <2>1 DEF ControlPDU
    <2>3. TeardownInv'
      BY <1>1, <1>2, <2>1, <2>2, EofAcksAfterAck
      DEF SendFilenameOkAck, TeardownInv, receiveVars, serverVars
    <2> QED BY <1>2, <2>1, <2>2, <2>3, ClientQuietStep DEF SendFilenameOkAck, Responses
  <1>3. CASE FirstDataArrives
    <2>1. TeardownInv'
      BY <1>1, <1>3 DEF FirstDataArrives, TeardownInv, receiveVars, serverVars, linkVars
    <2> QED BY <1>3, <2>1, ClientQuietStep DEF FirstDataArrives, linkVars
  <1>4. CASE ReceiveData
    BY <1>4, ReceiveDataStep
  <1>5. CASE SendEOFAck
    <2>1. PICK m \in ServerMessage : m = ControlPDU("EOF_ACK", 0) /\ SendToServer(m)
      BY <1>5, ControlPDUType DEF SendEOFAck, ControlFlags
    <2>2. m.flag = "EOF_ACK" /\ dataState = "DATA_STATE_DONE"
      BY <1>1, <1>5, <2>1 DEF ControlPDU, SendEOFAck, TeardownInv
    <2>3. TeardownInv'
      BY <1>1, <1>5, <2>1, <2>2, EofAcksAfterAck
      DEF SendEOFAck, ClientExits, TeardownInv, receiveVars, serverVars
    <2> QED BY <1>5, <2>1, <2>2, <2>3, ClientQuietStep
        DEF SendEOFAck, ClientExits, Responses
  <1>6. CASE FilenameOkTimeout
    <2>1. TeardownInv'
      BY <1>1, <1>6 DEF FilenameOkTimeout, ClientExits, TeardownInv, receiveVars, serverVars
    <2> QED BY <1>6, <2>1, ClientQuietStep DEF FilenameOkTimeout, ClientExits
  <1>7. CASE ReceiveTimeout
    <2>1. TeardownInv'
      BY <1>1, <1>7 DEF ReceiveTimeout, ClientExits, TeardownInv, receiveVars, serverVars
    <2> QED BY <1>7, <2>1, ClientQuietStep DEF ReceiveTimeout, ClientExits
  <1> QED BY <1>2, <1>3, <1>4, <1>5, <1>6, <1>7 DEF ClientStep

--------------------------------------------------------------------------------
(* The theorems.                                                           *)

(* The invariant holds when the transfer starts.                           *)
LEMMA InvInit == Init => Inv
  <1> SUFFICES ASSUME Init PROVE Inv
    OBVIOUS
  <1>1. TypeInv
    BY TypeInit
  <1>2. /\ win = SetupWindow /\ serverSeqNum = 0 /\ ~atEOF /\ ~waitingForLastRR
        /\ serverState = "WAIT_ON_FILENAME_OK_ACK" /\ clientState = "FILENAME_OK"
        /\ dataState = "IN_ORDER" /\ expectedSeqNum = 0
        /\ buffer = SetupBuffer /\ outputFile = << >>
        /\ toServer.queue = << >> /\ toClient.queue = << >>
    BY DEF Init, ServerInit, ClientInit, NewLink
  <1>3. Len(toServer.queue) = 0 /\ Len(toClient.queue) = 0 /\ Len(outputFile) = 0
    BY <1>2
  <1>4. WindowInv
    BY <1>2, SetupWindowType, WindowAssumption, LastSeqNumType DEF WindowInv
  <1>5. EndOfFileInv
    BY <1>2 DEF EndOfFileInv
  <1>6. ToServerInv /\ ToClientInv /\ TeardownInv
    BY <1>2, <1>3 DEF ToServerInv, ToClientInv, TeardownInv
  <1>7. BufferInv
    BY <1>2 DEF BufferInv, SetupBuffer, EmptyEntry
  <1>8. OutputInv
    BY <1>2, <1>3 DEF OutputInv
  <1> QED BY <1>1, <1>4, <1>5, <1>6, <1>7, <1>8 DEF Inv, TransferInv, TypeInv

(* No step of a transfer breaks the invariant.                             *)
LEMMA InvStep == Inv /\ [Next]_vars => Inv'
  <1> SUFFICES ASSUME Inv, [Next]_vars PROVE Inv'
    OBVIOUS
  <1>1. TypeInv'
    BY TypeStep DEF Inv, TransferInv, TypeInv
  <1>2. CASE Next
    <2>1. /\ WindowInv' /\ EndOfFileInv' /\ ToServerInv' /\ ToClientInv'
          /\ BufferInv' /\ OutputInv' /\ TeardownInv'
      BY <1>2, ServerStepKeepsInv, ClientStepKeepsInv
      DEF Next, ServerActs, ClientActs, ServerShortPollRunsOut, ServerLongPollRunsOut,
          ClientShortPollRunsOut, ClientLongPollRunsOut
    <2> QED BY <1>1, <2>1 DEF Inv, TransferInv, TypeInv
  <1>3. CASE UNCHANGED vars
    <2>1. UNCHANGED <<serverVars, receiveVars, toClient, toServer, clientState>>
      BY <1>3 DEF vars, clientVars, linkVars, receiveVars
    <2>2. /\ WindowInv' /\ EndOfFileInv' /\ ToServerInv' /\ ToClientInv'
          /\ BufferInv' /\ OutputInv'
      BY <2>1, ClientQuietStep
    <2>3. TeardownInv'
      BY <2>1 DEF Inv, TransferInv, TeardownInv, serverVars, receiveVars
    <2> QED BY <1>1, <2>2, <2>3 DEF Inv, TransferInv, TypeInv
  <1> QED BY <1>2, <1>3

(* The inductive invariant holds of every transfer: all that the parts of  *)
(* TransferInv say of windows, buffers and datagrams in flight.            *)
THEOREM TransferSafety == Spec => []TransferInv
  <1>1. Inv => TransferInv
    BY DEF Inv
  <1> QED BY <1>1, InvInit, InvStep, PTL DEF Spec

(* For every file, window and fault pattern of paths that keep the order   *)
(* of datagrams, what rcopy has written is a prefix of the from-file.      *)
THEOREM OutputSafety == Spec => []OutputIsPrefix
  <1>1. Inv => OutputIsPrefix
    <2> SUFFICES ASSUME Inv PROVE OutputIsPrefix
      OBVIOUS
    <2>1. WindowInv /\ OutputInv
      BY DEF Inv, TransferInv
    <2>2. expectedSeqNum \in Nat /\ serverSeqNum \in Nat /\ LastSeqNum \in Nat
      BY StateTypes DEF Inv
    <2> QED BY <2>1, <2>2 DEF WindowInv, OutputInv, OutputIsPrefix
  <1> QED BY <1>1, InvInit, InvStep, PTL DEF Spec

(* Whatever rcopy has not written is still in the server's window.         *)
THEOREM WindowSafety == Spec => []UnwrittenStillInWindow
  <1>1. Inv => UnwrittenStillInWindow
    <2> SUFFICES ASSUME Inv, NEW s \in Len(outputFile) .. serverSeqNum - 1
                 PROVE  win.slots[GetIndex(s)] = [seqNum |-> s, data |-> ChunkAt(s)]
      BY DEF UnwrittenStillInWindow
    <2>1. /\ Len(outputFile) = expectedSeqNum /\ win.lower <= expectedSeqNum
          /\ expectedSeqNum \in Nat /\ win.lower \in Nat /\ serverSeqNum \in Nat
      BY StateTypes DEF Inv, TransferInv, WindowInv, OutputInv
    <2>2. s \in Nat /\ win.lower <= s /\ s < serverSeqNum
      BY <2>1
    <2> QED BY <2>2, SlotInWindow
  <1> QED BY <1>1, InvInit, InvStep, PTL DEF Spec

(* A response moves the window forward, to what rcopy has written at most. *)
LEMMA ResponseAdvances ==
    ASSUME Inv, NEW goOn, ProcessResponse(goOn)
    PROVE  win.lower <= win'.lower /\ win'.lower <= expectedSeqNum
  <1> DEFINE m == Head(toServer.queue)
  <1>1. /\ Len(toServer.queue) \in Nat \ {0} /\ m = toServer.queue[1] /\ m \in ServerMessage
    BY StateTypes, ReceivedProperties DEF Inv, ProcessResponse
  <1>2. GoodResponse(m) /\ m.target \in Nat
    <2>1. 1 \in 1 .. Len(toServer.queue)
      BY <1>1
    <2> QED BY <1>1, <2>1 DEF Inv, TransferInv, ToServerInv, ServerMessage
  <1> HIDE DEF m
  <1>3. win' = win \/ (m.flag = "RR" /\ win' = UpdateLower(win, m.target))
    BY DEF ProcessResponse, IgnoreResponse, ResendRejected, SlideWindow, ExitOnEofAck, m
  <1>4. CASE m.flag = "RR" /\ win' = UpdateLower(win, m.target)
    <2>1. win'.lower = m.target
      BY <1>2, <1>4, StateTypes, UpdateLowerProperties DEF Inv
    <2> QED BY <1>2, <1>4, <2>1 DEF GoodResponse, Responses
  <1>5. CASE win' = win
    BY <1>5, StateTypes DEF Inv, TransferInv, WindowInv
  <1> QED BY <1>3, <1>4, <1>5

(* The server's window never slides back, nor past what rcopy has written. *)
THEOREM WindowAdvances == Spec => WindowOnlyAdvances
  <1>1. ASSUME Inv, [Next]_vars
        PROVE  win.lower <= win'.lower /\ win'.lower <= Len(outputFile)
    <2>1. /\ win.lower <= expectedSeqNum /\ Len(outputFile) = expectedSeqNum
          /\ win.lower \in Nat
      BY <1>1, StateTypes DEF Inv, TransferInv, WindowInv, OutputInv
    <2>2. CASE win' = win
      BY <2>1, <2>2
    <2>3. CASE win' # win
      <3>1. SendNextChunk \/ PollWhileOpen \/ ResponseWhileWaiting \/ ResponseToEof
        BY <1>1, <2>3 DEF vars, serverVars, Next, ServerActs, ClientActs,
           ServerShortPollRunsOut, ServerLongPollRunsOut, ClientShortPollRunsOut,
           ClientLongPollRunsOut, ServerStep, ServerShortTimeout, FilenameOkAckReceived,
           FilenameOkAckTimeout, ReachEndOfFile, ReadError, StopSending,
           ReturnFromSendData, SendEof, ResendLowest, QuitSending, EofTimeout
      <3>2. CASE SendNextChunk
        <4>1. win'.lower = win.lower
          BY <3>2 DEF SendNextChunk, AddDataToWindow
        <4> QED BY <2>1, <4>1
      <3>3. CASE PollWhileOpen \/ ResponseWhileWaiting \/ ResponseToEof
        <4>1. \E goOn \in ServerStates : ProcessResponse(goOn)
          BY <2>3, <3>3
          DEF PollWhileOpen, ResponseWhileWaiting, ResponseToEof, ServerStates
        <4>2. win.lower <= win'.lower /\ win'.lower <= expectedSeqNum
          BY <1>1, <4>1, ResponseAdvances
        <4> QED BY <2>1, <4>2
      <3> QED BY <3>1, <3>2, <3>3
    <2> QED BY <2>2, <2>3
  <1>2. Inv /\ [Next]_vars => [win.lower <= win'.lower /\ win'.lower <= Len(outputFile)]_vars
    BY <1>1
  <1> QED BY <1>2, InvInit, InvStep, PTL DEF Spec, WindowOnlyAdvances

--------------------------------------------------------------------------------
(***************************************************************************)
(* What follows from TransferInv for single steps: no buffered packet is   *)
(* lost, and every step of a transfer is a step of FileCopy or a stutter.  *)
(***************************************************************************)

(* A step that changes rcopy's buffer or its output is a receiveData().    *)
LEMMA OnlyReceiveDataWrites ==
    ASSUME [Next]_vars, buffer' # buffer \/ outputFile' # outputFile \/ dataState' # dataState
    PROVE  ReceiveData /\ UNCHANGED serverVars
  BY DEF vars, clientVars, Next, ServerActs, ClientActs, ServerShortPollRunsOut,
         ServerLongPollRunsOut, ClientShortPollRunsOut, ClientLongPollRunsOut,
         ClientStep, SendFilenameOkAck, FirstDataArrives, SendEOFAck,
         FilenameOkTimeout, ReceiveTimeout, receiveVars

(* Of receiveData()'s branches, two change the buffer.                     *)
LEMMA OnlyStoreAndFlushChangeBuffer ==
    ASSUME ReceiveData, buffer' # buffer
    PROVE  /\ Head(toClient.queue).flag # "CRC_ERROR"
           /\ StoreAhead(Head(toClient.queue)) \/ FillGap(Head(toClient.queue))
  BY DEF ReceiveData, DropCorrupted, AcceptEof, AcceptInOrder, AnswerOldData, receiveVars

(* A packet stored over a valid entry is the packet that entry held.       *)
LEMMA StoreAheadKeepsEntries ==
    ASSUME Inv, toClient.queue # << >>, Head(toClient.queue).flag # "CRC_ERROR",
           StoreAhead(Head(toClient.queue)),
           NEW i \in 0 .. WindowSize - 1, buffer[i].valid
    PROVE  buffer'[i].valid /\ buffer'[i].seqNum = buffer[i].seqNum
  <1> DEFINE m == Head(toClient.queue)
  <1>1. /\ m.seqNum \in Nat /\ m.payload \in Chunk \cup {NoData}
        /\ m.flag \in DataFlags /\ GoodData(m) /\ GoodEof(m)
    BY HeadProperties
  <1>2. /\ m.seqNum > expectedSeqNum
        /\ buffer' = AddDataToBuffer(buffer, m.seqNum, m.flag, m.payload)
    BY DEF StoreAhead
  <1>3. expectedSeqNum \in Nat /\ serverSeqNum \in Nat /\ buffer \in BufferType
    BY StateTypes DEF Inv
  <1> HIDE DEF m
  <1>4. m.seqNum < serverSeqNum
    <2>1. m.flag \in DataPDUs
      BY <1>1, <1>2, <1>3 DEF DataFlags, DataPDUs, GoodEof
    <2> QED BY <1>1, <2>1 DEF GoodData
  <1> DEFINE k == BufferIndex(m.seqNum)
  <1>5. /\ buffer'[k].valid /\ buffer'[k].seqNum = m.seqNum
        /\ \A j \in 0 .. WindowSize - 1 : j # k => buffer'[j] = buffer[j]
    BY StoreAheadBuffer DEF m
  <1>7. CASE i = k
    <2>1. buffer[i].seqNum = m.seqNum
      BY <1>1, <1>2, <1>3, <1>4, <1>7, EntryOfNumber
    <2> QED BY <1>5, <1>7, <2>1
  <1>8. CASE i # k
    BY <1>5, <1>8
  <1> QED BY <1>7, <1>8

(* What flush() takes out of the buffer it has written.                    *)
LEMMA FillGapWritesEntries ==
    ASSUME Inv, FillGap(Head(toClient.queue)),
           NEW i \in 0 .. WindowSize - 1, buffer[i].valid, buffer'[i] # buffer[i]
    PROVE  buffer[i].seqNum < expectedSeqNum'
  <1> DEFINE first == expectedSeqNum + 1
             stop  == FlushStop(buffer, first, highestSeqNum)
             byEof == StoppedByEof(buffer, first, highestSeqNum, stop)
             last  == IF byEof THEN stop ELSE stop - 1
  <1>1. /\ expectedSeqNum' = stop /\ buffer' = Taken(buffer, first, last)
        /\ dataState = "BUFFER"
    BY Zenon DEF FillGap
  <1>2. /\ expectedSeqNum \in Nat /\ highestSeqNum \in Nat /\ serverSeqNum \in Nat
        /\ buffer \in BufferType /\ WindowSize \in Nat \ {0}
    BY StateTypes DEF Inv
  <1>3. first \in Nat /\ first = expectedSeqNum + 1
    BY <1>2
  <1>4. stop \in first .. first + WindowSize
    BY <1>2, <1>3, FlushStopProperties
  <1>5. \A s \in first .. stop - 1 : s <= highestSeqNum
    BY <1>2, <1>3, FlushedEntriesValid
  <1> HIDE DEF first, stop, byEof
  <1>6. stop \in Nat /\ first <= stop /\ stop - 1 \in Int
    BY <1>2, <1>3, <1>4
  <1>7. buffer' = Taken(buffer, first, stop - 1)
    <2>1. ~byEof
      BY <1>3, <1>6, NeverStoppedByEof DEF byEof
    <2> QED BY <1>1, <2>1
  <1>8. PICK s \in first .. stop - 1 : BufferIndex(s) = i
    <2> DEFINE b == Taken(buffer, first, stop - 1)
    <2>1. (\A s \in first .. stop - 1 : BufferIndex(s) # i) => b[i] = buffer[i]
      <3>1. buffer \in BufferType /\ first \in Nat /\ stop - 1 \in Int
        BY <1>2, <1>3, <1>6
      <3> QED BY <3>1, TakenProperties, Zenon
    <2> QED BY <1>7, <2>1
  <1>9. /\ s \in Nat /\ expectedSeqNum <= s /\ s < stop /\ s <= highestSeqNum
    BY <1>2, <1>3, <1>5, <1>6
  <1>10. highestSeqNum < serverSeqNum
    BY <1>1 DEF Inv, TransferInv, BufferInv
  <1>11. buffer[i].seqNum = s
    BY <1>2, <1>8, <1>9, <1>10, EntryOfNumber
  <1> QED BY <1>1, <1>9, <1>11

(* A buffered packet stays in its entry until it has been written.         *)
THEOREM NothingBufferedIsLost == Spec => BufferedUntilWritten
  <1>1. ASSUME Inv, Inv', [Next]_vars, NEW i \in DOMAIN buffer, buffer[i].valid,
               ~(buffer'[i].valid /\ buffer'[i].seqNum = buffer[i].seqNum)
        PROVE  buffer[i].seqNum < Len(outputFile')
    <2>1. i \in 0 .. WindowSize - 1
      BY <1>1, StateTypes DEF Inv, BufferType
    <2>2. buffer' # buffer
      BY <1>1
    <2>3. ReceiveData /\ toClient.queue # << >>
      BY <1>1, <2>2, OnlyReceiveDataWrites DEF ReceiveData
    <2>4. FillGap(Head(toClient.queue))
      BY <1>1, <2>1, <2>2, <2>3, OnlyStoreAndFlushChangeBuffer, StoreAheadKeepsEntries
    <2>5. buffer'[i] # buffer[i]
      BY <1>1
    <2>6. buffer[i].seqNum < expectedSeqNum'
      BY <1>1, <2>1, <2>4, <2>5, FillGapWritesEntries
    <2> QED BY <1>1, <2>6 DEF Inv, TransferInv, OutputInv
  <1> DEFINE Kept == \A i \in DOMAIN buffer :
                 buffer[i].valid /\ ~(buffer'[i].valid /\ buffer'[i].seqNum = buffer[i].seqNum)
                     => buffer[i].seqNum < Len(outputFile')
  <1>2. Inv /\ Inv' /\ [Next]_vars => [Kept]_vars
    BY <1>1
  <1> QED BY <1>2, InvInit, InvStep, PTL DEF Spec, BufferedUntilWritten

--------------------------------------------------------------------------------
(* The refinement.                                                         *)

(* What rcopy has written is determined by its length.                     *)
CopySoFar ==
    /\ outputFile = Abstract!Prefix(expectedSeqNum)
    /\ Len(outputFile) = expectedSeqNum
    /\ expectedSeqNum \in 0 .. LastSeqNum
    /\ expectedSeqNum = LastSeqNum => outputFile = File

(* In the invariant, CopySoFar holds.                                      *)
LEMMA OutputIsAPrefix == Inv => CopySoFar
  <1> SUFFICES ASSUME Inv PROVE CopySoFar
    OBVIOUS
  <1>1. /\ Len(outputFile) = expectedSeqNum /\ expectedSeqNum <= LastSeqNum
        /\ \A k \in 1 .. expectedSeqNum : outputFile[k] = File[k]
        /\ expectedSeqNum \in Nat /\ LastSeqNum \in Nat
        /\ outputFile \in Seq(Chunk \cup {NoData})
    BY StateTypes DEF Inv, TransferInv, WindowInv, OutputInv
  <1>2. outputFile = [k \in 1 .. expectedSeqNum |-> outputFile[k]]
    BY <1>1
  <1>3. outputFile = [k \in 1 .. expectedSeqNum |-> File[k]]
    BY <1>1, <1>2
  <1>4. File = [k \in 1 .. LastSeqNum |-> File[k]]
    BY FileAssumption DEF LastSeqNum
  <1> QED BY <1>1, <1>3, <1>4 DEF CopySoFar, Abstract!Prefix

(* So it is after a step.                                                  *)
LEMMA OutputIsAPrefixNext == Inv' => CopySoFar'
  BY OutputIsAPrefix, PTL

(* A step of the server child is Confirm, Withdraw or a stutter.           *)
LEMMA ServerRefines ==
    ASSUME Inv, Inv', UNCHANGED clientVars,
           ServerStep \/ ServerShortTimeout \/ FilenameOkAckTimeout
    PROVE  [Abstract!CopyNext]_(Abstract!copyVars)
  <1>1. outputFile' = outputFile /\ receiverStatus' = receiverStatus
    BY DEF clientVars, receiverStatus
  <1>2. senderStatus = "sending"
    BY DEF senderStatus, ServerStep, ServerShortTimeout, FilenameOkAckReceived,
           FilenameOkAckTimeout, SendNextChunk, ReachEndOfFile, ReadError, PollWhileOpen,
           StopSending, ResponseWhileWaiting, ReturnFromSendData, SendEof, ResponseToEof,
           ResendLowest, QuitSending, EofTimeout
  <1>3. CASE serverState' = "EXITED"
    <2>1. receiverStatus = "complete"
      BY <1>1, <1>3 DEF Inv, TransferInv, TeardownInv, receiverStatus
    <2>2. senderStatus' = "confirmed"
      BY <1>3 DEF senderStatus
    <2> QED BY <1>1, <1>2, <2>1, <2>2 DEF Abstract!CopyNext, Abstract!Confirm
  <1>4. CASE serverState' = "DONE"
    <2>1. senderStatus' = "gaveUp"
      BY <1>4 DEF senderStatus
    <2> QED BY <1>1, <1>2, <2>1 DEF Abstract!CopyNext, Abstract!Withdraw
  <1>5. CASE serverState' \notin {"DONE", "EXITED"}
    <2>1. senderStatus' = "sending"
      BY <1>5 DEF senderStatus
    <2> QED BY <1>1, <1>2, <2>1 DEF Abstract!copyVars
  <1> QED BY <1>3, <1>4, <1>5

(* receiveData() goes on, expecting no less than before, unless it has     *)
(* accepted END_OF_FILE.                                                   *)
LEMMA ReceiveDataOutcome ==
    ASSUME Inv, ReceiveData
    PROVE  /\ AcceptEof(Head(toClient.queue)) \/ clientState' = "RECV_DATA"
           /\ expectedSeqNum <= expectedSeqNum'
  <1> DEFINE m == Head(toClient.queue)
  <1>1. expectedSeqNum \in Nat /\ highestSeqNum \in Nat /\ WindowSize \in Nat \ {0}
    BY StateTypes DEF Inv
  <1>2. \/ DropCorrupted(m) \/ AcceptEof(m) \/ AcceptInOrder(m)
        \/ StoreAhead(m) \/ AnswerOldData(m) \/ FillGap(m)
    BY DEF ReceiveData
  <1>3. CASE FillGap(m)
    <2> DEFINE first == expectedSeqNum + 1
               stop  == FlushStop(buffer, first, highestSeqNum)
               byEof == StoppedByEof(buffer, first, highestSeqNum, stop)
    <2>1. expectedSeqNum' = stop /\ (~byEof => AnswerFlush(stop))
      BY <1>3, Zenon DEF FillGap
    <2>2. first \in Nat /\ first = expectedSeqNum + 1
      BY <1>1
    <2>3. stop \in first .. first + WindowSize
      BY <1>1, <2>2, FlushStopProperties
    <2> HIDE DEF first, stop, byEof
    <2>4. stop \in Nat /\ first <= stop
      BY <1>1, <2>2, <2>3
    <2>5. AnswerFlush(stop)
      BY <2>1, <2>2, <2>4, NeverStoppedByEof DEF byEof
    <2> QED BY <1>1, <2>1, <2>2, <2>4, <2>5 DEF AnswerFlush
  <1>4. CASE ~FillGap(m)
    BY <1>1, <1>2, <1>4
    DEF DropCorrupted, AcceptEof, AcceptInOrder, StoreAhead, AnswerOldData, receiveVars
  <1> QED BY <1>3, <1>4

(* A receiveData() is Extend, Complete or a stutter.                       *)
LEMMA ReceiveDataRefines ==
    ASSUME Inv, Inv', ReceiveData, UNCHANGED serverVars
    PROVE  [Abstract!CopyNext]_(Abstract!copyVars)
  <1> DEFINE m == Head(toClient.queue)
  <1>1. senderStatus' = senderStatus
    BY DEF serverVars, senderStatus
  <1>2. dataState # "DATA_STATE_DONE" /\ clientState # "DONE"
    BY DEF ReceiveData, Inv, TransferInv, TeardownInv
  <1>3. receiverStatus = "receiving"
    BY <1>2 DEF receiverStatus
  <1>4. /\ outputFile = Abstract!Prefix(expectedSeqNum)
        /\ outputFile' = Abstract!Prefix(expectedSeqNum')
        /\ Len(outputFile) = expectedSeqNum
        /\ expectedSeqNum \in Nat /\ expectedSeqNum' \in 0 .. LastSeqNum
        /\ LastSeqNum \in Nat
        /\ expectedSeqNum = LastSeqNum => outputFile = File
    BY OutputIsAPrefix, OutputIsAPrefixNext, StateTypes DEF Inv, CopySoFar
  <1>5. CASE AcceptEof(m) /\ toClient.queue # << >>
    <2>1. outputFile' = outputFile /\ receiverStatus' = "complete"
      BY <1>5 DEF AcceptEof, receiverStatus
    <2>2. outputFile = File
      BY <1>4, <1>5, HeadProperties DEF AcceptEof, GoodEof
    <2> QED BY <1>1, <1>3, <2>1, <2>2 DEF Abstract!CopyNext, Abstract!Complete
  <1>6. CASE clientState' = "RECV_DATA"
    <2>1. receiverStatus' = "receiving"
      BY <1>6 DEF receiverStatus, Inv, TransferInv, TeardownInv
    <2>2. CASE expectedSeqNum' = expectedSeqNum
      <3>1. outputFile' = outputFile
        BY <1>4, <2>2
      <3> QED BY <1>1, <1>3, <2>1, <3>1 DEF Abstract!copyVars
    <2>3. CASE expectedSeqNum < expectedSeqNum'
      <3>1. \E n \in Len(outputFile) + 1 .. Abstract!LastSeqNum :
                outputFile' = Abstract!Prefix(n)
        <4>1. Abstract!LastSeqNum = LastSeqNum
          BY DEF Abstract!LastSeqNum, LastSeqNum
        <4> QED BY <1>4, <2>3, <4>1
      <3> QED BY <1>1, <1>3, <2>1, <3>1 DEF Abstract!CopyNext, Abstract!Extend
    <2>4. expectedSeqNum <= expectedSeqNum'
      BY ReceiveDataOutcome
    <2> QED BY <1>4, <2>2, <2>3, <2>4
  <1>7. AcceptEof(m) \/ clientState' = "RECV_DATA"
    BY ReceiveDataOutcome
  <1> QED BY <1>5, <1>6, <1>7 DEF ReceiveData

(* A step of rcopy is Extend, Complete, Abandon or a stutter.              *)
LEMMA ClientRefines ==
    ASSUME Inv, Inv', UNCHANGED serverVars,
           ClientStep \/ FilenameOkTimeout \/ ReceiveTimeout
    PROVE  [Abstract!CopyNext]_(Abstract!copyVars)
  <1>1. senderStatus' = senderStatus
    BY DEF serverVars, senderStatus
  <1>2. TeardownInv
    BY DEF Inv, TransferInv
  <1>3. CASE ReceiveData
    BY <1>3, ReceiveDataRefines
  <1>4. CASE SendFilenameOkAck \/ FirstDataArrives
    <2>1. /\ outputFile' = outputFile /\ dataState' = dataState
          /\ clientState # "DONE" /\ clientState' # "DONE"
      BY <1>4 DEF SendFilenameOkAck, FirstDataArrives, receiveVars
    <2> QED BY <1>1, <2>1 DEF receiverStatus, Abstract!copyVars
  <1>5. CASE SendEOFAck
    <2>1. /\ outputFile' = outputFile /\ dataState' = dataState
          /\ dataState = "DATA_STATE_DONE"
      BY <1>2, <1>5 DEF SendEOFAck, receiveVars, TeardownInv
    <2> QED BY <1>1, <2>1 DEF receiverStatus, Abstract!copyVars
  <1>6. CASE FilenameOkTimeout
    <2>1. /\ outputFile' = outputFile /\ dataState' = dataState
          /\ clientState = "FILENAME_OK_POLL" /\ dataState # "DATA_STATE_DONE"
      BY <1>2, <1>6 DEF FilenameOkTimeout, receiveVars, TeardownInv
    <2>2. receiverStatus = "receiving"
      BY <2>1 DEF receiverStatus
    <2>3. receiverStatus' \in {"receiving", "gaveUp"}
      BY <2>1 DEF receiverStatus
    <2> QED BY <1>1, <2>1, <2>2, <2>3
        DEF Abstract!copyVars, Abstract!CopyNext, Abstract!Abandon
  <1>7. CASE ReceiveTimeout
    <2>1. /\ outputFile' = outputFile /\ dataState' = dataState
          /\ clientState = "RECV_DATA" /\ dataState # "DATA_STATE_DONE"
      BY <1>2, <1>7 DEF ReceiveTimeout, receiveVars, TeardownInv
    <2>2. receiverStatus = "receiving"
      BY <2>1 DEF receiverStatus
    <2>3. receiverStatus' \in {"receiving", "gaveUp"}
      BY <2>1 DEF receiverStatus
    <2> QED BY <1>1, <2>1, <2>2, <2>3
        DEF Abstract!copyVars, Abstract!CopyNext, Abstract!Abandon
  <1> QED BY <1>3, <1>4, <1>5, <1>6, <1>7 DEF ClientStep

(* Every transfer is a FileCopy: whatever window, buffer and timers do, it *)
(* only extends a true copy, completes it when it is whole, and is         *)
(* confirmed only after that.                                              *)
THEOREM TransferImplementsFileCopy == Spec => ImplementsFileCopy
  <1>1. Init => Abstract!CopyInit
    BY DEF Init, ServerInit, ClientInit, Abstract!CopyInit, receiverStatus, senderStatus
  <1>2. Inv /\ Inv' /\ [Next]_vars => [Abstract!CopyNext]_(Abstract!copyVars)
    <2> SUFFICES ASSUME Inv, Inv', [Next]_vars
                 PROVE  [Abstract!CopyNext]_(Abstract!copyVars)
      OBVIOUS
    <2>1. CASE Next
      BY <2>1, ServerRefines, ClientRefines
      DEF Next, ServerActs, ClientActs, ServerShortPollRunsOut, ServerLongPollRunsOut,
          ClientShortPollRunsOut, ClientLongPollRunsOut
    <2>2. CASE UNCHANGED vars
      BY <2>2 DEF vars, serverVars, clientVars, receiverStatus, senderStatus,
                  Abstract!copyVars
    <2> QED BY <2>1, <2>2
  <1> QED BY <1>1, <1>2, InvInit, InvStep, PTL
      DEF Spec, ImplementsFileCopy, Abstract!CopySpec
================================================================================
