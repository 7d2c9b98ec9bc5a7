------------------------------- MODULE TypeProofs ------------------------------
(***************************************************************************)
(* Every variable of FileTransfer keeps its type.  TypeInv adds what the   *)
(* try counters need: a process that has not ended has tries left.  The    *)
(* lemmas about the links and about the two circular arrays come first;    *)
(* TransferProofs and UdpProofs rest on them, too.                         *)
(***************************************************************************)
EXTENDS TransferInvariant, SequenceTheorems, WellFoundedInduction, TLAPS

--------------------------------------------------------------------------------
(***************************************************************************)
(* What sending, receiving and closing do to a link, position by position. *)
(***************************************************************************)

(* A link after a send holds what it held, then copies of the message or   *)
(* its flipped form.                                                       *)
LEMMA SentProperties ==
    ASSUME NEW M, NEW link \in LinkType(M), NEW m \in M, NEW flipped \in M,
           NEW sent \in Sent(link, m, flipped)
    PROVE  /\ sent \in LinkType(M)
           /\ Len(sent.queue) >= Len(link.queue)
           /\ \A i \in 1 .. Len(link.queue) : sent.queue[i] = link.queue[i]
           /\ \A i \in Len(link.queue) + 1 .. Len(sent.queue) :
                  sent.queue[i] \in {m, flipped}
           /\ sent.open = link.open
  <1> DEFINE q == link.queue
  <1>1. q \in Seq(M) /\ link.faults \in 0 .. MaxFaults /\ link.open \in BOOLEAN
    BY DEF LinkType
  <1>2. <<m>> \in Seq(M) /\ <<flipped>> \in Seq(M) /\ <<m, m>> \in Seq(M) /\ << >> \in Seq(M)
    OBVIOUS
  <1>3. PICK ms \in {<< >>, <<m>>, <<flipped>>, <<m, m>>}, f \in 0 .. MaxFaults :
            sent = [queue |-> q \o ms, faults |-> f, open |-> link.open]
    <2>1. link = [queue |-> q, faults |-> link.faults, open |-> link.open]
      BY DEF LinkType
    <2>2. q \o << >> = q
      BY <1>1, ConcatEmptySeq
    <2>3. \/ sent = link
          \/ sent = [link EXCEPT !.queue = q \o <<m>>]
          \/ /\ link.faults < MaxFaults
             /\ \E ms \in {<< >>, <<flipped>>, <<m, m>>} :
                    sent = [link EXCEPT !.queue = q \o ms, !.faults = link.faults + 1]
      BY Zenon DEF Sent
    <2> HIDE DEF q
    <2>4. CASE sent = link
      BY <1>1, <2>1, <2>2, <2>4 DEF q
    <2>5. CASE sent = [link EXCEPT !.queue = q \o <<m>>]
      <3>1. sent = [queue |-> q \o <<m>>, faults |-> link.faults, open |-> link.open]
        BY <2>1, <2>5
      <3> QED BY <1>1, <3>1 DEF q
    <2>6. ASSUME link.faults < MaxFaults,
                 NEW ms \in {<< >>, <<flipped>>, <<m, m>>},
                 sent = [link EXCEPT !.queue = q \o ms, !.faults = link.faults + 1]
          PROVE  \E f \in 0 .. MaxFaults :
                     sent = [queue |-> q \o ms, faults |-> f, open |-> link.open]
      <3>1. sent = [queue |-> q \o ms, faults |-> link.faults + 1, open |-> link.open]
        BY <2>1, <2>6
      <3>2. link.faults + 1 \in 0 .. MaxFaults
        BY <1>1, <2>6, LinkAssumption
      <3> QED BY <3>1, <3>2
    <2> QED BY <2>3, <2>4, <2>5, <2>6
  <1>4. ms \in Seq(M)
    BY <1>2, <1>3
  <1>5. /\ q \o ms \in Seq(M)
        /\ Len(q \o ms) = Len(q) + Len(ms)
        /\ \A i \in 1 .. Len(q) + Len(ms) :
               (q \o ms)[i] = IF i <= Len(q) THEN q[i] ELSE ms[i - Len(q)]
    BY <1>1, <1>4, ConcatProperties
  <1>6. Len(ms) \in Nat /\ Len(q) \in Nat
    BY <1>1, <1>4
  <1>7. \A i \in 1 .. Len(ms) : ms[i] \in {m, flipped}
    BY <1>3
  <1>8. sent.queue = q \o ms /\ sent.open = link.open
    BY <1>3
  <1>9. sent \in LinkType(M)
    BY <1>1, <1>3, <1>5 DEF LinkType
  <1> HIDE DEF q
  <1>10. \A i \in Len(q) + 1 .. Len(q \o ms) : (q \o ms)[i] \in {m, flipped}
    <2> TAKE i \in Len(q) + 1 .. Len(q \o ms)
    <2>1. i - Len(q) \in 1 .. Len(ms) /\ (q \o ms)[i] = ms[i - Len(q)]
      BY <1>5, <1>6
    <2> QED BY <1>7, <2>1
  <1> QED BY <1>5, <1>6, <1>8, <1>9, <1>10 DEF q

(* Receiving takes the head off; every position moves up by one.           *)
LEMMA ReceivedProperties ==
    ASSUME NEW M, NEW link \in LinkType(M), link.queue # << >>
    PROVE  /\ Received(link) \in LinkType(M)
           /\ Len(link.queue) \in Nat \ {0}
           /\ Head(link.queue) = link.queue[1]
           /\ Head(link.queue) \in M
           /\ Len(Received(link).queue) = Len(link.queue) - 1
           /\ \A i \in 1 .. Len(link.queue) - 1 :
                  Received(link).queue[i] = link.queue[i + 1]
           /\ Received(link).open = link.open
  <1>1. link.queue \in Seq(M)
    BY DEF LinkType
  <1>2. /\ Head(link.queue) \in M
        /\ Tail(link.queue) \in Seq(M)
        /\ Len(Tail(link.queue)) = Len(link.queue) - 1
        /\ Len(link.queue) \in Nat \ {0}
    BY <1>1, HeadTailProperties, EmptySeq
  <1>3. \A i \in 1 .. Len(link.queue) - 1 : Tail(link.queue)[i] = link.queue[i + 1]
    BY <1>1
  <1>4. Received(link).queue = Tail(link.queue) /\ Received(link).open = link.open
    BY DEF Received, LinkType
  <1>5. Received(link) \in LinkType(M)
    BY <1>2 DEF Received, LinkType
  <1> QED BY <1>1, <1>2, <1>3, <1>4, <1>5

(* A closed link is empty.                                                 *)
LEMMA ClosedProperties ==
    ASSUME NEW M, NEW link \in LinkType(M)
    PROVE  /\ Closed(link) \in LinkType(M)
           /\ Len(Closed(link).queue) = 0
  <1>1. Closed(link).queue = << >> /\ Len(<< >>) = 0 /\ << >> \in Seq(M)
    BY DEF Closed
  <1> QED BY <1>1 DEF Closed, LinkType

--------------------------------------------------------------------------------
(***************************************************************************)
(* The arithmetic of `%`, and what the functions of the two circular       *)
(* arrays change and keep.                                                 *)
(***************************************************************************)

(* x % w is an index of an array of w entries.                             *)
LEMMA ModRange ==
    ASSUME NEW a \in Int, NEW w \in Nat \ {0}
    PROVE  a % w \in 0 .. w - 1
  OBVIOUS

(* Quotient and remainder.                                                 *)
LEMMA ModDiv ==
    ASSUME NEW a \in Int, NEW w \in Nat \ {0}
    PROVE  a = w * (a \div w) + (a % w) /\ a \div w \in Int
  OBVIOUS

(* Multiples of w lie at least w apart.                                    *)
LEMMA ProductGap ==
    ASSUME NEW q \in Int, NEW r \in Int, NEW w \in Nat \ {0}, q < r
    PROVE  w * q + w <= w * r
  <1>1. PICK d \in Nat : r = q + 1 + d
    BY r - q - 1 \in Nat
  <1>2. w * r = w * q + w + w * d
    BY <1>1
  <1>3. w * d >= 0
    OBVIOUS
  <1> QED BY <1>2, <1>3

(* Of w consecutive numbers no two have the same index.                    *)
LEMMA ModInjective ==
    ASSUME NEW w \in Nat \ {0}, NEW a \in Nat, NEW b \in Nat,
           a % w = b % w, a <= b, b < a + w
    PROVE  a = b
  <1> DEFINE q == a \div w
             r == b \div w
  <1>1. a = w * q + (a % w) /\ q \in Int
    BY ModDiv
  <1>2. b = w * r + (b % w) /\ r \in Int
    BY ModDiv
  <1>3. a % w \in Int /\ b % w \in Int /\ w * q \in Int /\ w * r \in Int
    BY <1>1, <1>2, ModRange
  <1> HIDE DEF q, r
  <1>4. w * q <= w * r /\ w * r < w * q + w
    BY <1>1, <1>2, <1>3
  <1>5. ~ (q < r)
    BY <1>1, <1>2, <1>3, <1>4, ProductGap
  <1>6. ~ (r < q)
    BY <1>1, <1>2, <1>3, <1>4, ProductGap
  <1>7. q = r
    BY <1>1, <1>2, <1>5, <1>6
  <1> QED BY <1>1, <1>2, <1>7

--------------------------------------------------------------------------------
(* getIndex() of slidingWindow.c returns an index of its array.            *)
LEMMA GetIndexRange ==
    ASSUME NEW s \in Nat
    PROVE  GetIndex(s) \in 0 .. WindowSize - 1
  BY ModRange, WindowAssumption DEF GetIndex

(* Packets that share a window have slots of their own.                    *)
LEMMA GetIndexInjective ==
    ASSUME NEW a \in Nat, NEW b \in Nat, a <= b, b < a + WindowSize,
           GetIndex(a) = GetIndex(b)
    PROVE  a = b
  BY ModInjective, WindowAssumption DEF GetIndex

(* The window setupWindow() leaves.                                        *)
LEMMA SetupWindowType ==
    /\ SetupWindow \in WindowType
    /\ SetupWindow.lower = 0 /\ SetupWindow.current = 0 /\ SetupWindow.upper = WindowSize
    /\ \A i \in 0 .. WindowSize - 1 : SetupWindow.slots[i] = EmptySlot
  BY WindowAssumption DEF SetupWindow, WindowType, EmptySlot

(* addDataToWindow() changes one slot and the current edge.                *)
LEMMA AddDataToWindowProperties ==
    ASSUME NEW w \in WindowType, NEW s \in Nat, NEW d \in Chunk
    PROVE  /\ AddDataToWindow(w, s, d) \in WindowType
           /\ AddDataToWindow(w, s, d).lower = w.lower
           /\ AddDataToWindow(w, s, d).upper = w.upper
           /\ AddDataToWindow(w, s, d).current = w.current + 1
           /\ AddDataToWindow(w, s, d).slots[GetIndex(s)] = [seqNum |-> s, data |-> d]
           /\ \A i \in 0 .. WindowSize - 1 : i # GetIndex(s) =>
                  AddDataToWindow(w, s, d).slots[i] = w.slots[i]
  <1> DEFINE slot == [seqNum |-> s, data |-> d]
             Slot == [seqNum : Nat, data : Chunk \cup {NoData}]
             new  == [w.slots EXCEPT ![GetIndex(s)] = slot]
  <1>1. GetIndex(s) \in 0 .. WindowSize - 1
    BY GetIndexRange
  <1>2. /\ w.slots \in [0 .. WindowSize - 1 -> Slot]
        /\ w.lower \in Nat /\ w.current \in Nat /\ w.upper \in Nat
    BY DEF WindowType
  <1>3. slot \in Slot
    OBVIOUS
  <1> HIDE DEF slot, Slot
  <1>4. /\ new \in [0 .. WindowSize - 1 -> Slot]
        /\ new[GetIndex(s)] = slot
        /\ \A i \in 0 .. WindowSize - 1 : i # GetIndex(s) => new[i] = w.slots[i]
    BY <1>1, <1>2, <1>3
  <1> HIDE DEF new
  <1>5. AddDataToWindow(w, s, d) =
            [slots |-> new, lower |-> w.lower, current |-> w.current + 1, upper |-> w.upper]
    BY DEF AddDataToWindow, new, slot
  <1>6. AddDataToWindow(w, s, d) \in WindowType
    BY <1>2, <1>4, <1>5 DEF WindowType, Slot
  <1> QED BY <1>4, <1>5, <1>6 DEF slot

(* updateLower() changes the two edges and no slot.                        *)
LEMMA UpdateLowerProperties ==
    ASSUME NEW w \in WindowType, NEW s \in Nat
    PROVE  /\ UpdateLower(w, s) \in WindowType
           /\ UpdateLower(w, s).lower = s
           /\ UpdateLower(w, s).upper = s + WindowSize
           /\ UpdateLower(w, s).current = w.current
           /\ UpdateLower(w, s).slots = w.slots
  BY WindowAssumption DEF UpdateLower, WindowType

(* What the readers of the window return.                                  *)
LEMMA WindowReads ==
    ASSUME NEW w \in WindowType, NEW s \in Nat
    PROVE  /\ GetDataFromWindow(w, s) \in Chunk \cup {NoData}
           /\ GetLowestSeqNumData(w) \in [seqNum : Nat, data : Chunk \cup {NoData}]
           /\ GetLowestSeqNumData(w).seqNum \in Nat
           /\ GetLowestSeqNumData(w).data \in Chunk \cup {NoData}
  BY GetIndexRange DEF GetDataFromWindow, GetLowestSeqNumData, WindowType

--------------------------------------------------------------------------------
LessThanOnNat == {pair \in Nat \X Nat : pair[1] < pair[2]}

(* Every non-empty set of naturals has a least element, and Min() is it.   *)
LEMMA MinOfNaturals ==
    ASSUME NEW S \in SUBSET Nat, S # {}
    PROVE  Min(S) \in S /\ \A y \in S : Min(S) <= y
  <1>1. IsWellFoundedOn(LessThanOnNat, Nat)
    BY NatLessThanWellFounded, Zenon DEF OpToRel, LessThanOnNat
  <1>2. PICK x \in S : \A y \in S : <<y, x>> \notin LessThanOnNat
    BY <1>1, WFMin, Zenon
  <1>3. \A y \in S : x <= y
    <2> TAKE y \in S
    <2>1. <<y, x>> \in Nat \X Nat /\ <<y, x>>[1] = y /\ <<y, x>>[2] = x
      OBVIOUS
    <2>2. ~ (y < x)
      BY <1>2, <2>1, Zenon DEF LessThanOnNat
    <2> QED BY <2>2
  <1> QED BY <1>3 DEF Min

(* The index buffer.c computes is one of its array.                        *)
LEMMA BufferIndexRange ==
    ASSUME NEW s \in Nat
    PROVE  BufferIndex(s) \in 0 .. WindowSize - 1
  BY ModRange, WindowAssumption DEF BufferIndex

(* Packets less than WindowSize apart have entries of their own.           *)
LEMMA BufferIndexInjective ==
    ASSUME NEW a \in Nat, NEW b \in Nat, a <= b, b < a + WindowSize,
           BufferIndex(a) = BufferIndex(b)
    PROVE  a = b
  BY ModInjective, WindowAssumption DEF BufferIndex

(* The loop of flush() ends, at most once round the array further on, at   *)
(* the first number that satisfies one of its conditions.                  *)
LEMMA FlushStopProperties ==
    ASSUME NEW b, NEW e \in Nat, NEW h \in Nat
    PROVE  /\ FlushStop(b, e, h) \in FlushStops(b, e, h)
           /\ FlushStop(b, e, h) \in e .. e + WindowSize
           /\ \A s \in e .. FlushStop(b, e, h) - 1 : s \notin FlushStops(b, e, h)
  <1> DEFINE S == FlushStops(b, e, h)
  <1>1. S \in SUBSET Nat
    BY WindowAssumption DEF FlushStops
  <1>2. e + WindowSize \in S
    BY WindowAssumption DEF FlushStops
  <1>3. Min(S) \in S /\ \A y \in S : Min(S) <= y
    BY <1>1, <1>2, MinOfNaturals
  <1>4. Min(S) \in e .. e + WindowSize
    BY <1>3 DEF FlushStops
  <1> QED BY <1>1, <1>3, <1>4 DEF FlushStop

(* Between the start of flush() and its end all entries are valid.         *)
LEMMA FlushedEntriesValid ==
    ASSUME NEW b, NEW e \in Nat, NEW h \in Nat,
           NEW s \in e .. FlushStop(b, e, h) - 1
    PROVE  s <= h /\ Entry(b, s).valid /\ Entry(b, s).flag # "END_OF_FILE"
  <1>1. FlushStop(b, e, h) \in e .. e + WindowSize
    BY FlushStopProperties
  <1>2. s \notin FlushStops(b, e, h)
    BY FlushStopProperties
  <1>3. s \in e .. e + WindowSize
    BY <1>1, WindowAssumption
  <1>4. ~ (s > h) /\ Entry(b, s).valid /\ Entry(b, s).flag # "END_OF_FILE"
    BY <1>2, <1>3, Zenon DEF FlushStops
  <1> QED BY <1>3, <1>4, WindowAssumption

(* The buffer setupBuffer() leaves.                                        *)
LEMMA SetupBufferType == SetupBuffer \in BufferType
  BY DEF SetupBuffer, BufferType, EmptyEntry

(* addDatatoBuffer() changes one entry.                                    *)
LEMMA AddDataToBufferProperties ==
    ASSUME NEW b \in BufferType, NEW s \in Nat, NEW d \in Chunk \cup {NoData},
           NEW f \in {"DATA", "RESENT_DATA_SREJ", "RESENT_DATA_TIMEOUT", "END_OF_FILE"}
    PROVE  /\ AddDataToBuffer(b, s, f, d) \in BufferType
           /\ AddDataToBuffer(b, s, f, d)[BufferIndex(s)] =
                  [seqNum |-> s, flag |-> f, data |-> d, valid |-> TRUE]
           /\ \A i \in 0 .. WindowSize - 1 : i # BufferIndex(s) =>
                  AddDataToBuffer(b, s, f, d)[i] = b[i]
  BY BufferIndexRange DEF AddDataToBuffer, BufferType

(* flush() invalidates the entries it takes and changes no other.          *)
LEMMA TakenProperties ==
    ASSUME NEW b \in BufferType, NEW first \in Nat, NEW last \in Int
    PROVE  /\ Taken(b, first, last) \in BufferType
           /\ \A i \in 0 .. WindowSize - 1 :
                  /\ Taken(b, first, last)[i].valid =>
                         /\ Taken(b, first, last)[i] = b[i]
                         /\ \A s \in first .. last : BufferIndex(s) # i
                  /\ (\A s \in first .. last : BufferIndex(s) # i) =>
                         Taken(b, first, last)[i] = b[i]
  BY DEF Taken, Invalidated, BufferType

(* What flush() writes, entry by entry.                                    *)
LEMMA FlushedProperties ==
    ASSUME NEW b \in BufferType, NEW first \in Nat, NEW last \in Int, last >= first - 1
    PROVE  /\ Flushed(b, first, last) \in Seq(Chunk \cup {NoData})
           /\ Len(Flushed(b, first, last)) = last + 1 - first
           /\ \A k \in 1 .. last + 1 - first :
                  Flushed(b, first, last)[k] = Entry(b, first + k - 1).data
  <1> DEFINE n == last + 1 - first
  <1>1. n \in Nat
    OBVIOUS
  <1>2. \A k \in 1 .. n : Entry(b, first + k - 1).data \in Chunk \cup {NoData}
    <2> TAKE k \in 1 .. n
    <2>1. first + k - 1 \in Nat
      OBVIOUS
    <2>2. BufferIndex(first + k - 1) \in 0 .. WindowSize - 1
      BY <2>1, BufferIndexRange
    <2> QED BY <2>2 DEF Entry, BufferType
  <1> HIDE DEF n
  <1>3. [k \in 1 .. n |-> Entry(b, first + k - 1).data] \in Seq(Chunk \cup {NoData})
    BY <1>1, <1>2
  <1>4. Flushed(b, first, last) = [k \in 1 .. n |-> Entry(b, first + k - 1).data]
    BY DEF Flushed, n
  <1>5. Len(Flushed(b, first, last)) = n
    BY <1>1, <1>4
  <1> QED BY <1>3, <1>4, <1>5 DEF n

--------------------------------------------------------------------------------
(* The types.                                                              *)

TypeInv == TypeOK /\ TriesInv

(* What the server sends is a ClientMessage.                               *)
LEMMA DataPDUType ==
    ASSUME NEW f \in DataFlags, NEW s \in Nat, NEW p \in Chunk \cup {NoData}
    PROVE  DataPDU(f, s, p) \in ClientMessage
  BY DEF DataPDU, ClientMessage

(* What rcopy sends is a ServerMessage.                                    *)
LEMMA ControlPDUType ==
    ASSUME NEW f \in ControlFlags, NEW t \in Nat
    PROVE  ControlPDU(f, t) \in ServerMessage
  BY DEF ControlPDU, ServerMessage

(* So is either with a byte flipped.                                       *)
LEMMA FlippedType == FlippedData \in ClientMessage /\ FlippedControl \in ServerMessage
  BY DEF FlippedData, FlippedControl, DataPDU, ControlPDU, ClientMessage, ServerMessage

(* SendToClient() of a message keeps the type of the link to rcopy.        *)
LEMMA SendToClientType ==
    ASSUME NEW m \in ClientMessage, LinksTypeOK, SendToClient(m)
    PROVE  toClient' \in LinkType(ClientMessage)
  BY FlippedType, SentProperties, Zenon DEF LinksTypeOK, SendToClient

(* SendToServer() of a message keeps the type of the link to the server.   *)
LEMMA SendToServerType ==
    ASSUME NEW m \in ServerMessage, LinksTypeOK, SendToServer(m)
    PROVE  toServer' \in LinkType(ServerMessage)
  BY FlippedType, SentProperties, Zenon DEF LinksTypeOK, SendToServer

(* The chunk read for a sequence number before the end of the file.        *)
LEMMA ChunkAtType ==
    ASSUME NEW s \in Nat, s < LastSeqNum
    PROVE  ChunkAt(s) \in Chunk
  BY FileAssumption DEF ChunkAt, LastSeqNum

(* The number END_OF_FILE carries is a natural.                            *)
LEMMA LastSeqNumType == LastSeqNum \in Nat
  BY FileAssumption DEF LastSeqNum

(* The server's variables other than serverState after processResponse().  *)
LEMMA ProcessResponseType ==
    ASSUME TypeOK, NEW goOn \in ServerStates, ProcessResponse(goOn)
    PROVE  /\ LinksTypeOK'
           /\ serverState' \in {goOn, "EXITED"}
           /\ win' \in WindowType
           /\ waitingForLastRR' \in BOOLEAN
  <1> DEFINE m == Head(toServer.queue)
  <1>1. /\ win \in WindowType /\ waitingForLastRR \in BOOLEAN
        /\ toServer \in LinkType(ServerMessage) /\ toClient \in LinkType(ClientMessage)
    BY DEF TypeOK, ServerTypeOK, LinksTypeOK
  <1>2. toServer.queue # << >>
    BY DEF ProcessResponse
  <1>3. m \in ServerMessage /\ Received(toServer) \in LinkType(ServerMessage)
    BY <1>1, <1>2, ReceivedProperties, Zenon
  <1>4. m.target \in Nat
    BY <1>3 DEF ServerMessage
  <1>5. Closed(toServer) \in LinkType(ServerMessage)
    BY <1>1, ClosedProperties, Zenon
  <1> HIDE DEF m
  <1>6. \/ IgnoreResponse(m, goOn) \/ ResendRejected(m, goOn)
        \/ SlideWindow(m, goOn) \/ ExitOnEofAck(m)
    BY DEF ProcessResponse, m
  <1>7. CASE IgnoreResponse(m, goOn)
    BY <1>1, <1>3, <1>7 DEF IgnoreResponse, LinksTypeOK
  <1>8. CASE ResendRejected(m, goOn)
    <2>1. DataPDU("RESENT_DATA_SREJ", m.target, GetDataFromWindow(win, m.target))
              \in ClientMessage
      BY <1>1, <1>4, WindowReads, DataPDUType DEF DataFlags
    <2>2. toClient' \in LinkType(ClientMessage)
      BY <1>8, <2>1, SendToClientType DEF ResendRejected, TypeOK
    <2> QED BY <1>1, <1>3, <1>8, <2>2 DEF ResendRejected, LinksTypeOK
  <1>9. CASE SlideWindow(m, goOn)
    <2>1. win' \in WindowType
      BY <1>1, <1>4, <1>9, UpdateLowerProperties DEF SlideWindow
    <2>2. waitingForLastRR' \in BOOLEAN
      BY <1>9, Zenon DEF SlideWindow
    <2> QED BY <1>1, <1>3, <1>9, <2>1, <2>2 DEF SlideWindow, LinksTypeOK
  <1>10. CASE ExitOnEofAck(m)
    BY <1>1, <1>5, <1>10 DEF ExitOnEofAck, ServerEnds, LinksTypeOK
  <1> QED BY <1>6, <1>7, <1>8, <1>9, <1>10

(* The steps of the server child keep the types and the tries.             *)
LEMMA ServerTypeStep ==
    ASSUME TypeInv, UNCHANGED clientVars,
           ServerStep \/ ServerShortTimeout \/ FilenameOkAckTimeout
    PROVE  TypeInv'
  <1>1. /\ serverState \in ServerStates /\ win \in WindowType
        /\ serverSeqNum \in 0 .. LastSeqNum
        /\ atEOF \in BOOLEAN /\ waitingForLastRR \in BOOLEAN
        /\ tryCount \in 0 .. MAX_TRIES
        /\ toServer \in LinkType(ServerMessage) /\ toClient \in LinkType(ClientMessage)
    BY DEF TypeInv, TypeOK, ServerTypeOK, LinksTypeOK
  <1>2. (serverState # "DONE" => tryCount < MAX_TRIES) /\ MAX_TRIES \in Nat \ {0}
    BY TriesAssumption DEF TypeInv, TriesInv
  <1>3. TypeOK
    BY DEF TypeInv
  <1>4. SUFFICES /\ serverState' \in ServerStates /\ win' \in WindowType
                 /\ serverSeqNum' \in 0 .. LastSeqNum
                 /\ atEOF' \in BOOLEAN /\ waitingForLastRR' \in BOOLEAN
                 /\ tryCount' \in 0 .. MAX_TRIES
                 /\ toServer' \in LinkType(ServerMessage)
                 /\ toClient' \in LinkType(ClientMessage)
                 /\ serverState' # "DONE" => tryCount' < MAX_TRIES
    <2>1. ServerTypeOK' /\ LinksTypeOK'
      BY <1>4 DEF ServerTypeOK, LinksTypeOK
    <2>2. ClientTypeOK'
      BY DEF TypeInv, TypeOK, ClientTypeOK, clientVars
    <2>3. TriesInv'
      BY <1>4 DEF TypeInv, TriesInv, clientVars
    <2> QED BY <2>1, <2>2, <2>3 DEF TypeInv, TypeOK
  <1>5. Received(toServer) \in LinkType(ServerMessage) \/ toServer.queue = << >>
    BY <1>1, ReceivedProperties, Zenon
  <1>6. Closed(toServer) \in LinkType(ServerMessage)
    BY <1>1, ClosedProperties, Zenon
  <1>7. CASE FilenameOkAckReceived
    BY <1>1, <1>2, <1>5, <1>7 DEF FilenameOkAckReceived, ServerStates
  <1>8. CASE FilenameOkAckTimeout
    BY <1>1, <1>2, <1>6, <1>8 DEF FilenameOkAckTimeout, ServerEnds, ServerStates
  <1>9. CASE SendNextChunk
    <2>1. ChunkAt(serverSeqNum) \in Chunk
      BY <1>1, <1>9, ChunkAtType DEF SendNextChunk
    <2>2. win' \in WindowType
      <3>1. serverSeqNum \in Nat
        BY <1>1, LastSeqNumType
      <3>2. win' = AddDataToWindow(win, serverSeqNum, ChunkAt(serverSeqNum))
        BY <1>9 DEF SendNextChunk
      <3> QED BY <1>1, <2>1, <3>1, <3>2, AddDataToWindowProperties, Zenon
    <2>3. toClient' \in LinkType(ClientMessage)
      <3>1. DataPDU("DATA", serverSeqNum, ChunkAt(serverSeqNum)) \in ClientMessage
        BY <1>1, <2>1, DataPDUType DEF DataFlags
      <3> QED BY <1>3, <1>9, <3>1, SendToClientType DEF SendNextChunk, TypeOK
    <2>4. serverSeqNum' \in 0 .. LastSeqNum
      BY <1>1, <1>9, LastSeqNumType DEF SendNextChunk
    <2> QED BY <1>1, <1>2, <1>9, <2>2, <2>3, <2>4 DEF SendNextChunk, ServerStates
  <1>10. CASE ReachEndOfFile
    BY <1>1, <1>2, <1>10 DEF ReachEndOfFile, ServerStates, linkVars
  <1>11. CASE ReadError
    BY <1>1, <1>2, <1>6, <1>11 DEF ReadError, ServerEnds, ServerStates
  <1>12. CASE PollWhileOpen
    <2>1. CASE ProcessResponse("SEND_DATA")
      BY <1>1, <1>2, <1>3, <1>12, <2>1, ProcessResponseType
      DEF PollWhileOpen, ServerStates, LinksTypeOK
    <2>2. CASE serverState' = "SEND_DATA" /\ UNCHANGED <<win, waitingForLastRR, linkVars>>
      BY <1>1, <1>2, <1>12, <2>2 DEF PollWhileOpen, ServerStates, linkVars
    <2> QED BY <1>12, <2>1, <2>2 DEF PollWhileOpen
  <1>13. CASE StopSending
    <2>1. waitingForLastRR' \in BOOLEAN
      BY <1>13, Zenon DEF StopSending
    <2> QED BY <1>1, <1>2, <1>13, <2>1 DEF StopSending, ServerStates, linkVars
  <1>14. CASE ResponseWhileWaiting
    BY <1>1, <1>2, <1>3, <1>14, ProcessResponseType
    DEF ResponseWhileWaiting, ServerStates, LinksTypeOK
  <1>15. CASE ReturnFromSendData
    BY <1>1, <1>2, <1>15 DEF ReturnFromSendData, ServerStates, linkVars
  <1>16. CASE SendEof
    <2>1. DataPDU("END_OF_FILE", serverSeqNum, NoData) \in ClientMessage
      BY <1>1, DataPDUType DEF DataFlags
    <2>2. toClient' \in LinkType(ClientMessage)
      BY <1>3, <1>16, <2>1, SendToClientType DEF SendEof, TypeOK
    <2> QED BY <1>1, <1>2, <1>16, <2>2 DEF SendEof, ServerStates
  <1>17. CASE ResponseToEof
    BY <1>1, <1>2, <1>3, <1>17, ProcessResponseType
    DEF ResponseToEof, ServerStates, LinksTypeOK
  <1>18. CASE ResendLowest
    <2>1. DataPDU("RESENT_DATA_TIMEOUT", GetLowestSeqNumData(win).seqNum,
                  GetLowestSeqNumData(win).data) \in ClientMessage
      <3>1. /\ GetLowestSeqNumData(win).seqNum \in Nat
            /\ GetLowestSeqNumData(win).data \in Chunk \cup {NoData}
        BY <1>1, WindowReads
      <3> QED BY <3>1, DataPDUType DEF DataFlags
    <2>2. toClient' \in LinkType(ClientMessage)
      BY <1>3, <1>18, <2>1, SendToClientType DEF ResendLowest, TypeOK
    <2> QED BY <1>1, <1>2, <1>18, <2>2 DEF ResendLowest
  <1>19. CASE QuitSending
    BY <1>1, <1>2, <1>6, <1>19 DEF QuitSending, ServerEnds, ServerStates
  <1>20. CASE EofTimeout
    BY <1>1, <1>2, <1>6, <1>20 DEF EofTimeout, ServerEnds, ServerStates
  <1> QED
    BY <1>7, <1>8, <1>9, <1>10, <1>11, <1>12, <1>13, <1>14, <1>15, <1>16,
       <1>17, <1>18, <1>19, <1>20
    DEF ServerStep, ServerShortTimeout

(* A reply of rcopy that carries a sequence number.                        *)
LEMMA ReplyType ==
    ASSUME TypeOK, NEW s \in Nat, ReplyRR(s) \/ ReplySREJ(s) \/ ReplyRRAndSREJ(s)
    PROVE  toServer' \in LinkType(ServerMessage)
  <1>1. toServer \in LinkType(ServerMessage) /\ LinksTypeOK
    BY DEF TypeOK, LinksTypeOK
  <1>2. Reply("RR", s) \in ServerMessage /\ Reply("SREJ", s) \in ServerMessage
    BY ControlPDUType DEF Reply, ControlFlags
  <1>3. CASE ReplyRR(s)
    BY <1>1, <1>2, <1>3, SendToServerType DEF ReplyRR
  <1>4. CASE ReplySREJ(s)
    BY <1>1, <1>2, <1>4, SendToServerType DEF ReplySREJ
  <1>5. CASE ReplyRRAndSREJ(s)
    <2>1. PICK link \in Sent(toServer, Reply("RR", s), FlippedControl) :
              toServer' \in Sent(link, Reply("SREJ", s), FlippedControl)
      BY <1>5 DEF ReplyRRAndSREJ
    <2>2. link \in LinkType(ServerMessage)
      BY <1>1, <1>2, <2>1, FlippedType, SentProperties, Zenon
    <2> QED BY <1>2, <2>1, <2>2, FlippedType, SentProperties, Zenon
  <1> QED BY <1>3, <1>4, <1>5

(* The variables of receiveData() after it has handled one datagram.       *)
LEMMA ReceiveDataType ==
    ASSUME TypeOK, ReceiveData
    PROVE  ClientTypeOK' /\ toServer' \in LinkType(ServerMessage)
                         /\ toClient' \in LinkType(ClientMessage)
                         /\ clientState' # "DONE"
  <1> DEFINE m == Head(toClient.queue)
             payload == Chunk \cup {NoData}
  <1>1. /\ dataState \in {"IN_ORDER", "BUFFER", "DATA_STATE_DONE"}
        /\ expectedSeqNum \in Nat /\ highestSeqNum \in Nat
        /\ buffer \in BufferType /\ outputFile \in Seq(payload)
        /\ retryCount \in 0 .. MAX_TRIES
        /\ toServer \in LinkType(ServerMessage) /\ toClient \in LinkType(ClientMessage)
    BY DEF TypeOK, ClientTypeOK, LinksTypeOK
  <1>2. m \in ClientMessage /\ Received(toClient) \in LinkType(ClientMessage)
    BY <1>1, ReceivedProperties, Zenon DEF ReceiveData
  <1>3. m.seqNum \in Nat /\ m.payload \in payload /\ m.flag \in DataFlags \cup {"CRC_ERROR"}
    BY <1>2 DEF ClientMessage
  <1>4. toClient' = Received(toClient) /\ retryCount' = retryCount
    BY DEF ReceiveData
  <1> HIDE DEF m, payload
  <1>5. SUFFICES /\ dataState' \in {"IN_ORDER", "BUFFER", "DATA_STATE_DONE"}
                 /\ expectedSeqNum' \in Nat /\ highestSeqNum' \in Nat
                 /\ buffer' \in BufferType /\ outputFile' \in Seq(payload)
                 /\ toServer' \in LinkType(ServerMessage)
                 /\ clientState' \in {"RECV_DATA", "SEND_EOF_ACK"}
    BY <1>1, <1>2, <1>4 DEF ClientTypeOK, ClientStates, payload
  <1>6. \/ DropCorrupted(m)
        \/ m.flag # "CRC_ERROR" /\ (AcceptEof(m) \/ AcceptInOrder(m) \/ StoreAhead(m)
                                     \/ AnswerOldData(m) \/ FillGap(m))
    BY DEF ReceiveData, m
  <1>7. CASE DropCorrupted(m)
    BY <1>1, <1>7 DEF DropCorrupted, receiveVars
  <1>8. CASE AcceptEof(m)
    BY <1>1, <1>8 DEF AcceptEof
  <1>9. CASE AcceptInOrder(m)
    <2>1. expectedSeqNum + 1 \in Nat
      BY <1>1
    <2>2. toServer' \in LinkType(ServerMessage)
      BY <1>9, <2>1, ReplyType DEF AcceptInOrder
    <2>3. outputFile' \in Seq(payload)
      BY <1>1, <1>3, <1>9, AppendProperties, Zenon DEF AcceptInOrder
    <2> QED BY <1>1, <1>3, <1>9, <2>1, <2>2, <2>3 DEF AcceptInOrder
  <1>10. CASE m.flag # "CRC_ERROR" /\ StoreAhead(m)
    <2>1. buffer' \in BufferType
      <3>1. buffer' = AddDataToBuffer(buffer, m.seqNum, m.flag, m.payload)
        BY <1>10 DEF StoreAhead
      <3>2. m.flag \in {"DATA", "RESENT_DATA_SREJ", "RESENT_DATA_TIMEOUT", "END_OF_FILE"}
        BY <1>3, <1>10 DEF DataFlags
      <3> QED BY <1>1, <1>3, <3>1, <3>2, AddDataToBufferProperties DEF payload
    <2>2. toServer' \in LinkType(ServerMessage)
      BY <1>1, <1>10, ReplyType DEF StoreAhead
    <2> QED BY <1>1, <1>3, <1>10, <2>1, <2>2 DEF StoreAhead
  <1>11. CASE AnswerOldData(m)
    <2>1. toServer' \in LinkType(ServerMessage)
      BY <1>1, <1>11, ReplyType DEF AnswerOldData
    <2> QED BY <1>1, <1>11, <2>1 DEF AnswerOldData, receiveVars
  <1>12. CASE FillGap(m)
    <2> DEFINE first == expectedSeqNum + 1
               stop  == FlushStop(buffer, first, highestSeqNum)
               byEof == StoppedByEof(buffer, first, highestSeqNum, stop)
               last  == IF byEof THEN stop ELSE stop - 1
    <2>1. first \in Nat
      BY <1>1
    <2>2. stop \in first .. first + WindowSize
      BY <1>1, <2>1, FlushStopProperties
    <2>3. /\ expectedSeqNum' = stop
          /\ outputFile' = Append(outputFile, m.payload) \o Flushed(buffer, first, stop - 1)
          /\ buffer' = Taken(buffer, first, last)
          /\ highestSeqNum' = highestSeqNum
          /\ \/ /\ dataState' = "DATA_STATE_DONE" /\ clientState' = "SEND_EOF_ACK"
                /\ UNCHANGED toServer
             \/ AnswerFlush(stop)
      BY <1>12, Zenon DEF FillGap
    <2> HIDE DEF first, stop, byEof
    <2>4. stop \in Nat /\ stop - 1 \in Int /\ stop - 1 >= first - 1 /\ last \in Int
      BY <2>1, <2>2, WindowAssumption
    <2>5. buffer' \in BufferType
      BY <1>1, <2>1, <2>3, <2>4, TakenProperties
    <2>6. outputFile' \in Seq(payload)
      <3>1. Append(outputFile, m.payload) \in Seq(payload)
        BY <1>1, <1>3, AppendProperties, Zenon
      <3>2. Flushed(buffer, first, stop - 1) \in Seq(payload)
        BY <1>1, <2>1, <2>4, FlushedProperties DEF payload
      <3> QED BY <2>3, <3>1, <3>2, ConcatProperties, Zenon
    <2>7. CASE AnswerFlush(stop)
      <3>1. toServer' \in LinkType(ServerMessage)
        BY <2>4, <2>7, ReplyType, Zenon DEF AnswerFlush
      <3> QED BY <1>1, <2>3, <2>4, <2>5, <2>6, <2>7, <3>1 DEF AnswerFlush
    <2> QED BY <1>1, <2>3, <2>4, <2>5, <2>6, <2>7
  <1> QED BY <1>6, <1>7, <1>8, <1>9, <1>10, <1>11, <1>12

(* The steps of rcopy keep the types and the tries.                        *)
LEMMA ClientTypeStep ==
    ASSUME TypeInv, UNCHANGED serverVars,
           ClientStep \/ FilenameOkTimeout \/ ReceiveTimeout
    PROVE  TypeInv'
  <1>1. /\ ClientTypeOK
        /\ toServer \in LinkType(ServerMessage) /\ toClient \in LinkType(ClientMessage)
        /\ LinksTypeOK /\ TypeOK
    BY DEF TypeInv, TypeOK, LinksTypeOK
  <1>2. (clientState # "DONE" => retryCount < MAX_TRIES) /\ MAX_TRIES \in Nat \ {0}
    BY TriesAssumption DEF TypeInv, TriesInv
  <1>3. SUFFICES /\ ClientTypeOK'
                 /\ toServer' \in LinkType(ServerMessage)
                 /\ toClient' \in LinkType(ClientMessage)
                 /\ clientState' # "DONE" => retryCount' < MAX_TRIES
    BY <1>3 DEF TypeInv, TypeOK, TriesInv, ServerTypeOK, LinksTypeOK, serverVars
  <1>4. Closed(toClient) \in LinkType(ClientMessage)
    BY <1>1, ClosedProperties, Zenon
  <1>5. ControlPDU("FNAME_OK_ACK", 0) \in ServerMessage
        /\ ControlPDU("EOF_ACK", 0) \in ServerMessage
    BY ControlPDUType DEF ControlFlags
  <1>6. CASE SendFilenameOkAck
    <2>1. toServer' \in LinkType(ServerMessage)
      BY <1>1, <1>5, <1>6, SendToServerType DEF SendFilenameOkAck
    <2> QED BY <1>1, <1>2, <1>6, <2>1
        DEF SendFilenameOkAck, ClientTypeOK, ClientStates, receiveVars
  <1>7. CASE FirstDataArrives
    BY <1>1, <1>2, <1>7
    DEF FirstDataArrives, ClientTypeOK, ClientStates, receiveVars, linkVars
  <1>8. CASE ReceiveData
    <2>1. clientState # "DONE" /\ retryCount' = retryCount
      BY <1>8 DEF ReceiveData
    <2> QED BY <1>1, <1>2, <1>8, <2>1, ReceiveDataType
  <1>9. CASE SendEOFAck
    <2>1. toServer' \in LinkType(ServerMessage)
      BY <1>1, <1>5, <1>9, SendToServerType DEF SendEOFAck
    <2> QED BY <1>1, <1>2, <1>4, <1>9, <2>1
        DEF SendEOFAck, ClientExits, ClientTypeOK, ClientStates, receiveVars
  <1>10. CASE FilenameOkTimeout
    BY <1>1, <1>2, <1>4, <1>10
    DEF FilenameOkTimeout, ClientExits, ClientTypeOK, ClientStates, receiveVars
  <1>11. CASE ReceiveTimeout
    BY <1>1, <1>2, <1>4, <1>11
    DEF ReceiveTimeout, ClientExits, ClientTypeOK, ClientStates, receiveVars
  <1> QED BY <1>6, <1>7, <1>8, <1>9, <1>10, <1>11 DEF ClientStep

(* Types and tries hold when the transfer starts.                          *)
LEMMA TypeInit == Init => TypeInv
  <1> SUFFICES ASSUME Init PROVE TypeInv
    OBVIOUS
  <1>1. ServerTypeOK
    <2>1. win \in WindowType
      BY SetupWindowType, Zenon DEF Init, ServerInit
    <2>2. atEOF \in BOOLEAN /\ waitingForLastRR \in BOOLEAN
      BY Zenon DEF Init, ServerInit
    <2>3. serverSeqNum \in 0 .. LastSeqNum /\ tryCount \in 0 .. MAX_TRIES
      BY TriesAssumption, LastSeqNumType DEF Init, ServerInit
    <2>4. serverState \in ServerStates
      BY Zenon DEF Init, ServerInit, ServerStates
    <2> QED BY <2>1, <2>2, <2>3, <2>4 DEF ServerTypeOK
  <1>2. ClientTypeOK
    BY SetupBufferType, TriesAssumption
    DEF Init, ClientInit, ClientTypeOK, ClientStates
  <1>3. LinksTypeOK
    BY LinkAssumption DEF Init, NewLink, LinksTypeOK, LinkType
  <1>4. TriesInv
    BY TriesAssumption DEF Init, ServerInit, ClientInit, TriesInv
  <1> QED BY <1>1, <1>2, <1>3, <1>4 DEF TypeInv, TypeOK

(* No step of a transfer breaks them.                                      *)
LEMMA TypeStep == TypeInv /\ [Next]_vars => TypeInv'
  <1> SUFFICES ASSUME TypeInv, [Next]_vars PROVE TypeInv'
    OBVIOUS
  <1>1. CASE Next
    BY <1>1, ServerTypeStep, ClientTypeStep
    DEF Next, ServerActs, ClientActs, ServerShortPollRunsOut, ServerLongPollRunsOut,
        ClientShortPollRunsOut, ClientLongPollRunsOut
  <1>2. CASE UNCHANGED vars
    BY <1>2 DEF vars, serverVars, clientVars, linkVars, TypeInv, TypeOK, TriesInv,
                ServerTypeOK, ClientTypeOK, LinksTypeOK
  <1> QED BY <1>1, <1>2

--------------------------------------------------------------------------------
(* The types a step of the argument needs, unfolded.                       *)
LEMMA StateTypes ==
    ASSUME TypeOK
    PROVE  /\ win \in WindowType
           /\ win.lower \in Nat /\ win.current \in Nat /\ win.upper \in Nat
           /\ \A i \in 0 .. WindowSize - 1 : win.slots[i].seqNum \in Nat
           /\ serverSeqNum \in Nat /\ LastSeqNum \in Nat
           /\ expectedSeqNum \in Nat /\ highestSeqNum \in Nat
           /\ buffer \in BufferType
           /\ \A i \in 0 .. WindowSize - 1 : buffer[i].seqNum \in Nat
           /\ outputFile \in Seq(Chunk \cup {NoData})
           /\ toServer \in LinkType(ServerMessage)
           /\ toClient \in LinkType(ClientMessage)
           /\ Len(toServer.queue) \in Nat /\ Len(toClient.queue) \in Nat
           /\ WindowSize \in Nat \ {0}
  <1>1. /\ win \in WindowType /\ serverSeqNum \in 0 .. LastSeqNum
        /\ expectedSeqNum \in Nat /\ highestSeqNum \in Nat
        /\ buffer \in BufferType /\ outputFile \in Seq(Chunk \cup {NoData})
        /\ toServer \in LinkType(ServerMessage) /\ toClient \in LinkType(ClientMessage)
    BY DEF TypeOK, ServerTypeOK, ClientTypeOK, LinksTypeOK
  <1>2. /\ win.lower \in Nat /\ win.current \in Nat /\ win.upper \in Nat
        /\ \A i \in 0 .. WindowSize - 1 : win.slots[i].seqNum \in Nat
    BY <1>1 DEF WindowType
  <1>3. \A i \in 0 .. WindowSize - 1 : buffer[i].seqNum \in Nat
    BY <1>1 DEF BufferType
  <1>4. toServer.queue \in Seq(ServerMessage) /\ toClient.queue \in Seq(ClientMessage)
    BY <1>1 DEF LinkType
  <1>5. Len(toServer.queue) \in Nat /\ Len(toClient.queue) \in Nat
    BY <1>4
  <1>6. serverSeqNum \in Nat /\ LastSeqNum \in Nat
    BY <1>1, LastSeqNumType
  <1> QED BY <1>1, <1>2, <1>3, <1>5, <1>6, WindowAssumption

(* Every datagram in flight is a message.                                  *)
LEMMA InFlightTypes ==
    ASSUME TypeOK
    PROVE  /\ \A i \in 1 .. Len(toServer.queue) : toServer.queue[i].target \in Nat
           /\ \A i \in 1 .. Len(toClient.queue) : toClient.queue[i].seqNum \in Nat
  <1>1. toServer.queue \in Seq(ServerMessage) /\ toClient.queue \in Seq(ClientMessage)
    BY StateTypes DEF LinkType
  <1>2. /\ \A i \in 1 .. Len(toServer.queue) : toServer.queue[i] \in ServerMessage
        /\ \A i \in 1 .. Len(toClient.queue) : toClient.queue[i] \in ClientMessage
    BY <1>1
  <1> QED BY <1>2 DEF ServerMessage, ClientMessage

--------------------------------------------------------------------------------
(* The two queues after a send or a receive, position by position.         *)

(* sendPDU() of the server appends to what is on its way to rcopy.         *)
LEMMA QueueAfterSendToClient ==
    ASSUME TypeOK, NEW m \in ClientMessage, SendToClient(m)
    PROVE  \A i \in 1 .. Len(toClient'.queue) :
               \/ i \in 1 .. Len(toClient.queue) /\ toClient'.queue[i] = toClient.queue[i]
               \/ i > Len(toClient.queue) /\ toClient'.queue[i] \in {m, FlippedData}
  <1>1. /\ \A i \in 1 .. Len(toClient.queue) : toClient'.queue[i] = toClient.queue[i]
        /\ \A i \in Len(toClient.queue) + 1 .. Len(toClient'.queue) :
               toClient'.queue[i] \in {m, FlippedData}
        /\ toClient' \in LinkType(ClientMessage)
    BY StateTypes, FlippedType, SentProperties DEF SendToClient
  <1>2. toClient'.queue \in Seq(ClientMessage)
    BY <1>1 DEF LinkType
  <1>3. Len(toClient'.queue) \in Nat /\ Len(toClient.queue) \in Nat
    BY <1>2, StateTypes
  <1> QED BY <1>1, <1>3

(* So does rcopy's sending of one of its two acks, the other way.          *)
LEMMA QueueAfterAck ==
    ASSUME TypeOK, NEW m \in ServerMessage, SendToServer(m)
    PROVE  \A i \in 1 .. Len(toServer'.queue) :
               \/ i \in 1 .. Len(toServer.queue) /\ toServer'.queue[i] = toServer.queue[i]
               \/ i > Len(toServer.queue) /\ toServer'.queue[i] \in {m, FlippedControl}
  <1>1. /\ \A i \in 1 .. Len(toServer.queue) : toServer'.queue[i] = toServer.queue[i]
        /\ \A i \in Len(toServer.queue) + 1 .. Len(toServer'.queue) :
               toServer'.queue[i] \in {m, FlippedControl}
        /\ toServer' \in LinkType(ServerMessage)
    BY StateTypes, FlippedType, SentProperties DEF SendToServer
  <1>2. toServer'.queue \in Seq(ServerMessage)
    BY <1>1 DEF LinkType
  <1>3. Len(toServer'.queue) \in Nat /\ Len(toServer.queue) \in Nat
    BY <1>2, StateTypes
  <1> QED BY <1>1, <1>3

(* sendRR() and sendSREJ() append to what is on its way to the server.     *)
LEMMA QueueAfterReply ==
    ASSUME TypeOK, NEW s \in Nat, ReplyRR(s) \/ ReplySREJ(s) \/ ReplyRRAndSREJ(s)
    PROVE  \A i \in 1 .. Len(toServer'.queue) :
               \/ i \in 1 .. Len(toServer.queue) /\ toServer'.queue[i] = toServer.queue[i]
               \/ /\ i > Len(toServer.queue)
                  /\ toServer'.queue[i] \in {Reply("RR", s), Reply("SREJ", s), FlippedControl}
                  /\ ReplyRR(s) => toServer'.queue[i] # Reply("SREJ", s)
  <1> DEFINE q == toServer.queue
             rr == Reply("RR", s)
             srej == Reply("SREJ", s)
  <1>1. toServer \in LinkType(ServerMessage) /\ toServer' \in LinkType(ServerMessage)
    BY StateTypes, ReplyType
  <1>2. rr \in ServerMessage /\ srej \in ServerMessage /\ FlippedControl \in ServerMessage
    BY ControlPDUType, FlippedType DEF Reply, ControlFlags
  <1>3. rr # srej /\ rr # FlippedControl /\ srej # FlippedControl
    BY DEF Reply, FlippedControl, ControlPDU
  <1>4. Len(q) \in Nat /\ Len(toServer'.queue) \in Nat
    BY <1>1 DEF LinkType
  <1> HIDE DEF rr, srej
  <1>5. CASE ReplyRR(s)
    <2>1. toServer' \in Sent(toServer, rr, FlippedControl)
      BY <1>5 DEF ReplyRR, SendToServer, rr
    <2>2. /\ \A i \in 1 .. Len(q) : toServer'.queue[i] = q[i]
          /\ \A i \in Len(q) + 1 .. Len(toServer'.queue) :
                 toServer'.queue[i] \in {rr, FlippedControl}
      BY <1>1, <1>2, <2>1, SentProperties
    <2> QED BY <1>3, <1>4, <2>2 DEF rr, srej
  <1>6. CASE ReplySREJ(s) /\ ~ReplyRR(s)
    <2>1. toServer' \in Sent(toServer, srej, FlippedControl)
      BY <1>6 DEF ReplySREJ, SendToServer, srej
    <2>2. /\ \A i \in 1 .. Len(q) : toServer'.queue[i] = q[i]
          /\ \A i \in Len(q) + 1 .. Len(toServer'.queue) :
                 toServer'.queue[i] \in {srej, FlippedControl}
      BY <1>1, <1>2, <2>1, SentProperties
    <2> QED BY <1>4, <1>6, <2>2 DEF rr, srej
  <1>7. CASE ReplyRRAndSREJ(s) /\ ~ReplyRR(s)
    <2>1. PICK link \in Sent(toServer, rr, FlippedControl) :
              toServer' \in Sent(link, srej, FlippedControl)
      BY <1>7 DEF ReplyRRAndSREJ, rr, srej
    <2>2. /\ link \in LinkType(ServerMessage)
          /\ Len(link.queue) >= Len(q)
          /\ \A i \in 1 .. Len(q) : link.queue[i] = q[i]
          /\ \A i \in Len(q) + 1 .. Len(link.queue) : link.queue[i] \in {rr, FlippedControl}
      BY <1>1, <1>2, <2>1, SentProperties
    <2>3. /\ \A i \in 1 .. Len(link.queue) : toServer'.queue[i] = link.queue[i]
          /\ \A i \in Len(link.queue) + 1 .. Len(toServer'.queue) :
                 toServer'.queue[i] \in {srej, FlippedControl}
      BY <1>2, <2>1, <2>2, SentProperties
    <2>4. Len(link.queue) \in Nat
      BY <2>2 DEF LinkType
    <2> QED BY <1>4, <1>7, <2>2, <2>3, <2>4 DEF rr, srej
  <1> QED BY <1>5, <1>6, <1>7

--------------------------------------------------------------------------------
(* Every variable keeps its type, for every file, window size and number   *)
(* of tries: no step of either process leaves its state space.             *)
THEOREM TypeSafety == Spec => []TypeOK
  <1>1. TypeInv => TypeOK
    BY DEF TypeInv
  <1> QED BY <1>1, TypeInit, TypeStep, PTL DEF Spec
================================================================================
