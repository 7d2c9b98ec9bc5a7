------------------------------ MODULE SessionProofs ----------------------------
(***************************************************************************)
(* Proofs about Session for any set of rcopies, any files the server has,  *)
(* any number of tries, faults and packets.                                *)
(***************************************************************************)
EXTENDS Session, SequenceTheorems, TLAPS

RequestType == [client : Client, socket : Nat, intact : BOOLEAN]

ReplyType(senders) ==
    [flag : {"FNAME_STATUS", "DATA"}, status : Statuses, from : senders, intact : BOOLEAN]

ChildStates == {"PROCESS_FILENAME", "WAIT_ON_FILENAME_OK_ACK", "SEND_DATA", "DONE"}

ChildType ==
    [state : ChildStates, client : Client, socket : Nat, arrived : BOOLEAN, sent : 0 .. MaxData]

TriesLeft ==
    \A c \in Client : clientState[c] # "DONE" =>
        nameTries[c] < MAX_TRIES /\ okTries[c] < MAX_TRIES

TypeInv == TypeOK /\ TriesLeft

--------------------------------------------------------------------------------
(* TypeOK, one variable at a time.                                         *)
LEMMA TypeParts ==
    TypeOK <=>
        /\ clientState \in [Client -> SetupStates]
        /\ socket \in [Client -> Nat] /\ peer \in [Client -> {Main} \cup Forked]
        /\ inbox \in [Client -> Seq(ReplyType(Forked))]
        /\ nameTries \in [Client -> 0 .. MAX_TRIES] /\ okTries \in [Client -> 0 .. MAX_TRIES]
        /\ toFile \in [Client -> {"untouched", "created"}]
        /\ firstPacket \in [Client -> {"none", "FNAME_STATUS", "DATA"}]
        /\ requests \in Seq(RequestType) /\ children \in Seq(ChildType)
        /\ faults \in 0 .. MaxFaults /\ duplicates \in 0 .. MaxDuplicates
  BY DEF TypeOK, ReplyType, RequestType, ChildType, ChildStates

(* The types of the next state, from those of its variables.               *)
LEMMA NextTypeParts ==
    ASSUME /\ clientState' \in [Client -> SetupStates]
           /\ socket' \in [Client -> Nat] /\ peer' \in [Client -> {Main} \cup Forked']
           /\ inbox' \in [Client -> Seq(ReplyType(Forked'))]
           /\ nameTries' \in [Client -> 0 .. MAX_TRIES] /\ okTries' \in [Client -> 0 .. MAX_TRIES]
           /\ toFile' \in [Client -> {"untouched", "created"}]
           /\ firstPacket' \in [Client -> {"none", "FNAME_STATUS", "DATA"}]
           /\ requests' \in Seq(RequestType) /\ children' \in Seq(ChildType)
           /\ faults' \in 0 .. MaxFaults /\ duplicates' \in 0 .. MaxDuplicates
    PROVE  TypeOK'
  BY DEF TypeOK, ReplyType, RequestType, ChildType, ChildStates

(* A sequence over a set is one over a larger set.                         *)
LEMMA WiderSeq ==
    ASSUME NEW S, NEW T, S \subseteq T, NEW s \in Seq(S)
    PROVE  s \in Seq(T)
  OBVIOUS

(* A queued reply keeps its type when a child is added.                    *)
LEMMA WiderReplies ==
    ASSUME NEW S, NEW T, S \subseteq T
    PROVE  Seq(ReplyType(S)) \subseteq Seq(ReplyType(T))
  BY WiderSeq DEF ReplyType

(* What arrives of a datagram, and what it costs.                          *)
LEMMA ArrivalsAreTyped ==
    ASSUME NEW S, NEW m \in S, NEW flipped \in SUBSET S, NEW arriving \in Arrivals(m, flipped)
    PROVE  arriving \in Seq(S)
  <1>1. <<m>> \in Seq(S) /\ << >> \in Seq(S) /\ <<m, m>> \in Seq(S)
    OBVIOUS
  <1>2. \A f \in flipped : <<f>> \in Seq(S)
    OBVIOUS
  <1> QED BY <1>1, <1>2, Zenon DEF Arrivals

(* The counters of faults and duplicates stay within their bounds.         *)
LEMMA PathKeepsTypes ==
    ASSUME TypeOK, NEW m, NEW arriving, PathDelivers(m, arriving)
    PROVE  faults' \in 0 .. MaxFaults /\ duplicates' \in 0 .. MaxDuplicates
  BY SessionAssumption DEF TypeOK, PathDelivers, pathVars

(* A change of one child.                                                  *)
LEMMA ChangedChild ==
    ASSUME NEW cs \in Seq(ChildType), NEW k \in DOMAIN cs, NEW new \in ChildType
    PROVE  /\ [cs EXCEPT ![k] = new] \in Seq(ChildType)
           /\ DOMAIN [cs EXCEPT ![k] = new] = DOMAIN cs
  BY ExceptSeq

(* A child that sends appends a reply of the right type, or none.          *)
LEMMA SendToClientTypes ==
    ASSUME TypeOK, NEW k \in Forked, NEW m \in ReplyType(Forked), SendToClient(k, m)
    PROVE  /\ inbox' \in [Client -> Seq(ReplyType(Forked))]
           /\ faults' \in 0 .. MaxFaults /\ duplicates' \in 0 .. MaxDuplicates
  <1> DEFINE c == children[k].client
  <1>1. c \in Client /\ inbox \in [Client -> Seq(ReplyType(Forked))]
    <2>1. children \in Seq(ChildType) /\ inbox \in [Client -> Seq(ReplyType(Forked))]
      BY TypeParts
    <2>2. children[k] \in ChildType
      BY <2>1 DEF Forked
    <2> QED BY <2>1, <2>2 DEF ChildType
  <1>2. PICK arriving \in Arrivals(m, FlippedReply(m)) :
            /\ PathDelivers(m, arriving)
            /\ inbox' = IF socket[c] = children[k].socket /\ clientState[c] # "DONE"
                        THEN [inbox EXCEPT ![c] = @ \o arriving] ELSE inbox
    BY DEF SendToClient
  <1>3. FlippedReply(m) \in SUBSET ReplyType(Forked)
    BY DEF FlippedReply, ReplyType, Statuses
  <1>4. arriving \in Seq(ReplyType(Forked))
    BY <1>2, <1>3, ArrivalsAreTyped, Zenon
  <1>5. inbox[c] \o arriving \in Seq(ReplyType(Forked))
    BY <1>1, <1>4, ConcatProperties
  <1> HIDE DEF c
  <1> QED BY <1>1, <1>2, <1>5, PathKeepsTypes

(* An rcopy that sends adds a request, or marks its child as reached.      *)
LEMMA SendToPeerTypes ==
    ASSUME TypeOK, NEW c \in Client, SendToPeer(c)
    PROVE  /\ requests' \in Seq(RequestType) /\ children' \in Seq(ChildType)
           /\ DOMAIN children' = Forked
           /\ faults' \in 0 .. MaxFaults /\ duplicates' \in 0 .. MaxDuplicates
  <1>1. /\ requests \in Seq(RequestType) /\ children \in Seq(ChildType)
        /\ peer[c] \in {Main} \cup Forked
    BY TypeParts
  <1>2. PICK arriving \in Arrivals(Request(c), FlippedRequest(Request(c))) :
            /\ PathDelivers(Request(c), arriving)
            /\ IF peer[c] = Main
               THEN requests' = requests \o arriving /\ UNCHANGED children
               ELSE /\ children' = [children EXCEPT ![peer[c]].arrived =
                           children[peer[c]].state # "DONE" /\ (@ \/ arriving # << >>)]
                    /\ UNCHANGED requests
    BY DEF SendToPeer
  <1>3. Request(c) \in RequestType /\ FlippedRequest(Request(c)) \in SUBSET RequestType
    BY TypeParts DEF Request, FlippedRequest, RequestType
  <1>4. arriving \in Seq(RequestType)
    BY <1>2, <1>3, ArrivalsAreTyped, Zenon
  <1>5. CASE peer[c] = Main
    BY <1>1, <1>2, <1>4, <1>5, ConcatProperties, PathKeepsTypes DEF Forked
  <1>6. CASE peer[c] # Main
    <2> DEFINE k == peer[c]
               b == children[k].state # "DONE" /\ (children[k].arrived \/ arriving # << >>)
               new == [children[k] EXCEPT !.arrived = b]
    <2>1. k \in DOMAIN children /\ children[k] \in ChildType
      BY <1>1, <1>6 DEF Forked
    <2>2. b \in BOOLEAN
      OBVIOUS
    <2> HIDE DEF b
    <2>3. new \in ChildType
      BY <2>1, <2>2 DEF ChildType
    <2>4. children' = [children EXCEPT ![k] = new]
      BY <1>2, <1>6 DEF b
    <2> HIDE DEF new, k
    <2> QED BY <1>1, <1>2, <1>6, <2>1, <2>3, <2>4, ChangedChild, PathKeepsTypes DEF Forked
  <1> QED BY <1>5, <1>6
--------------------------------------------------------------------------------
(* The steps of an rcopy keep the types and leave a try.                   *)
LEMMA ClientKeepsTypes ==
    ASSUME TypeInv, NEW c \in Client, ClientNext(c)
    PROVE  TypeInv'
  <1>1. /\ TypeOK /\ TriesLeft /\ MAX_TRIES \in Nat \ {0}
        /\ clientState \in [Client -> SetupStates]
        /\ socket \in [Client -> Nat] /\ peer \in [Client -> {Main} \cup Forked]
        /\ inbox \in [Client -> Seq(ReplyType(Forked))]
        /\ nameTries \in [Client -> 0 .. MAX_TRIES] /\ okTries \in [Client -> 0 .. MAX_TRIES]
        /\ toFile \in [Client -> {"untouched", "created"}]
        /\ firstPacket \in [Client -> {"none", "FNAME_STATUS", "DATA"}]
        /\ requests \in Seq(RequestType) /\ children \in Seq(ChildType)
        /\ faults \in 0 .. MaxFaults /\ duplicates \in 0 .. MaxDuplicates
    BY TypeParts, SessionAssumption DEF TypeInv
  <1>2. inbox[c] # << >> =>
            /\ Head(inbox[c]) \in ReplyType(Forked)
            /\ Tail(inbox[c]) \in Seq(ReplyType(Forked))
    BY <1>1, HeadTailProperties
  <1>3. << >> \in Seq(ReplyType(Forked))
    OBVIOUS
  <1>4. clientState[c] # "DONE" => /\ nameTries[c] + 1 \in 0 .. MAX_TRIES
                                   /\ okTries[c] + 1 \in 0 .. MAX_TRIES
    BY <1>1 DEF TriesLeft
  <1> DEFINE Rest == /\ requests' \in Seq(RequestType) /\ children' \in Seq(ChildType)
                     /\ Forked' = Forked
                     /\ faults' \in 0 .. MaxFaults /\ duplicates' \in 0 .. MaxDuplicates
             Replies == Seq(ReplyType(Forked))
  <1>5. UNCHANGED <<requests, children, pathVars>> => Rest
    BY <1>1 DEF pathVars, Forked
  <1>6. SendToPeer(c) => Rest
    BY <1>1, SendToPeerTypes DEF Forked
  <1>7. SUFFICES /\ Rest /\ inbox' \in [Client -> Replies]
                 /\ clientState' \in [Client -> SetupStates]
                 /\ socket' \in [Client -> Nat] /\ peer' \in [Client -> {Main} \cup Forked]
                 /\ nameTries' \in [Client -> 0 .. MAX_TRIES]
                 /\ okTries' \in [Client -> 0 .. MAX_TRIES]
                 /\ toFile' \in [Client -> {"untouched", "created"}]
                 /\ firstPacket' \in [Client -> {"none", "FNAME_STATUS", "DATA"}]
                 /\ TriesLeft'
    BY NextTypeParts DEF TypeInv, Rest, Replies
  <1> HIDE DEF Rest, Replies
  <1>8. inbox \in [Client -> Replies] /\ << >> \in Replies
        /\ (inbox[c] # << >> => Tail(inbox[c]) \in Replies /\ Head(inbox[c]).from \in Forked)
    BY <1>1, <1>2, <1>3 DEF Replies, ReplyType
  <1>9. CASE SetupConnection(c)
    BY <1>1, <1>5, <1>8, <1>9
       DEF SetupConnection, EmptyInbox, Goto, SetupStates, TriesLeft
  <1>10. CASE SendFilename(c)
    BY <1>1, <1>6, <1>8, <1>10 DEF SendFilename, Goto, SetupStates, TriesLeft
  <1>11. CASE FilenameTimeout(c)
    BY <1>1, <1>4, <1>5, <1>8, <1>11
       DEF FilenameTimeout, Exit, EmptyInbox, Goto, SetupStates, TriesLeft
  <1>12. CASE GetFilenameStatus(c)
    <2>1. /\ inbox[c] # << >> /\ clientState[c] = "SEND_FILENAME_POLL"
          /\ peer' = [peer EXCEPT ![c] = Head(inbox[c]).from]
          /\ \/ toFile' = [toFile EXCEPT ![c] = "created"] \/ toFile' = toFile
          /\ \E s \in {"FILENAME_OK", "DONE", "SETUP_CONNECTION"} : Goto(c, s)
          /\ TakeFromInbox(c) \/ EmptyInbox(c)
          /\ nameTries' = [nameTries EXCEPT ![c] = 0]
          /\ UNCHANGED <<socket, okTries, firstPacket, requests, children, pathVars>>
      BY <1>12 DEF GetFilenameStatus, Exit
    <2>2. /\ inbox' \in [Client -> Replies] /\ peer' \in [Client -> {Main} \cup Forked]
      BY <1>1, <1>8, <2>1 DEF EmptyInbox, TakeFromInbox
    <2>3. clientState' \in [Client -> SetupStates]
      <3>1. PICK s \in {"FILENAME_OK", "DONE", "SETUP_CONNECTION"} : Goto(c, s)
        BY <2>1
      <3>2. s \in SetupStates
        BY DEF SetupStates
      <3> QED BY <1>1, <3>1, <3>2 DEF Goto
    <2>5. toFile' \in [Client -> {"untouched", "created"}]
      BY <1>1, <2>1
    <2>6. 0 \in 0 .. MAX_TRIES
      BY <1>1
    <2>7. nameTries' \in [Client -> 0 .. MAX_TRIES]
      BY <1>1, <2>1, <2>6
    <2>4. TriesLeft'
      BY <1>1, <2>1 DEF Goto, TriesLeft
    <2> QED BY <1>1, <1>5, <2>1, <2>2, <2>3, <2>4, <2>5, <2>7
  <1>13. CASE SendFilenameOkAck(c)
    BY <1>1, <1>6, <1>8, <1>13 DEF SendFilenameOkAck, Goto, SetupStates, TriesLeft
  <1>14. CASE FilenameOkTimeout(c)
    BY <1>1, <1>4, <1>5, <1>8, <1>14
       DEF FilenameOkTimeout, Exit, EmptyInbox, Goto, SetupStates, TriesLeft
  <1>15. CASE FirstPacketArrives(c)
    BY <1>1, <1>5, <1>8, <1>15 DEF FirstPacketArrives, Goto, SetupStates, TriesLeft
  <1>16. CASE ReceiveData(c)
    <2>1. (IF Head(inbox[c]).intact THEN Head(inbox[c]).flag ELSE "none")
              \in {"none", "FNAME_STATUS", "DATA"}
      BY <1>2, <1>16 DEF ReceiveData, ReplyType
    <2> QED BY <1>1, <1>5, <1>8, <1>16, <2>1 DEF ReceiveData, TakeFromInbox, TriesLeft
  <1> QED BY <1>9, <1>10, <1>11, <1>12, <1>13, <1>14, <1>15, <1>16 DEF ClientNext

(* So do those of the main server and its children.                        *)
LEMMA ServerKeepsTypes ==
    ASSUME TypeInv, MainForks \/ (\E k \in Forked : ChildNext(k)) \/ UNCHANGED vars
    PROVE  TypeInv'
  <1>1. /\ TypeOK /\ TriesLeft
        /\ inbox \in [Client -> Seq(ReplyType(Forked))]
        /\ requests \in Seq(RequestType) /\ children \in Seq(ChildType)
    BY TypeParts DEF TypeInv
  <1>2. SUFFICES ASSUME UNCHANGED rcopyVars
                 PROVE  /\ children' \in Seq(ChildType) /\ Forked \subseteq Forked'
                        /\ inbox' \in [Client -> Seq(ReplyType(Forked'))]
                        /\ requests' \in Seq(RequestType)
                        /\ faults' \in 0 .. MaxFaults /\ duplicates' \in 0 .. MaxDuplicates
    <2>1. UNCHANGED rcopyVars
      BY DEF MainForks, ChildNext, ProcessFilename, FilenameOkAckReceived,
             FilenameOkAckTimeout, SendData, vars
    <2>2. TriesLeft'
      BY <1>1, <2>1 DEF TriesLeft, rcopyVars
    <2>3. ASSUME Forked \subseteq Forked'
          PROVE  peer' \in [Client -> {Main} \cup Forked']
      BY <1>1, <2>1, <2>3, TypeParts DEF rcopyVars
    <2> QED BY <1>1, <2>1, <2>2, <2>3, TypeParts, NextTypeParts DEF TypeInv, rcopyVars
  <1>3. CASE MainForks
    <2> DEFINE r == Head(requests)
               new == [state |-> "PROCESS_FILENAME", client |-> r.client,
                       socket |-> r.socket, arrived |-> FALSE, sent |-> 0]
    <2>1. r \in RequestType /\ requests' \in Seq(RequestType)
      BY <1>1, <1>3, HeadTailProperties DEF MainForks
    <2>2. new \in ChildType
      BY <2>1, SessionAssumption DEF ChildType, ChildStates, RequestType
    <2>3. children' = Append(children, new) \/ children' = children
      BY <1>3 DEF MainForks
    <2> HIDE DEF new
    <2>4. children' \in Seq(ChildType) /\ Forked \subseteq Forked'
      <3>1. DOMAIN children = 1 .. Len(children) /\ Len(children) \in Nat
        BY <1>1
      <3>2. CASE children' = Append(children, new)
        <4>1. children' \in Seq(ChildType) /\ Len(children') = Len(children) + 1
          BY <1>1, <2>2, <3>2, AppendProperties
        <4>2. DOMAIN children' = 1 .. Len(children')
          BY <4>1
        <4> QED BY <3>1, <4>1, <4>2 DEF Forked
      <3> QED BY <1>1, <2>3, <3>2 DEF Forked
    <2>5. inbox' \in [Client -> Seq(ReplyType(Forked'))]
      BY <1>1, <1>3, <2>4, WiderReplies DEF MainForks
    <2> QED BY <1>1, <1>3, <2>1, <2>4, <2>5, TypeParts DEF MainForks, pathVars
  <1>4. ASSUME NEW k \in Forked, ChildNext(k)
        PROVE  /\ children' \in Seq(ChildType) /\ Forked \subseteq Forked'
               /\ inbox' \in [Client -> Seq(ReplyType(Forked'))]
               /\ requests' \in Seq(RequestType)
               /\ faults' \in 0 .. MaxFaults /\ duplicates' \in 0 .. MaxDuplicates
    <2>1. children[k] \in ChildType /\ k \in DOMAIN children
      BY <1>1 DEF Forked
    <2>2. ASSUME NEW new \in ChildType, children' = [children EXCEPT ![k] = new]
          PROVE  children' \in Seq(ChildType) /\ Forked' = Forked
      BY <1>1, <2>1, <2>2, ChangedChild DEF Forked
    <2>3. CASE ProcessFilename(k)
      <3>1. \E status \in Statuses : SendToClient(k, ReplyPDU("FNAME_STATUS", status, k))
        BY <2>3 DEF ProcessFilename, Statuses
      <3>2. \A status \in Statuses : ReplyPDU("FNAME_STATUS", status, k) \in ReplyType(Forked)
        BY DEF ReplyPDU, ReplyType
      <3>3. /\ inbox' \in [Client -> Seq(ReplyType(Forked))]
            /\ faults' \in 0 .. MaxFaults /\ duplicates' \in 0 .. MaxDuplicates
        BY <1>1, <3>1, <3>2, SendToClientTypes, Zenon
      <3>4. PICK s \in ChildStates : children' = [children EXCEPT ![k].state = s]
        BY <2>3 DEF ProcessFilename, ChildStates
      <3>5. [children[k] EXCEPT !.state = s] \in ChildType
        BY <2>1 DEF ChildType
      <3>6. children' \in Seq(ChildType) /\ Forked' = Forked
        BY <2>2, <3>4, <3>5
      <3> QED BY <1>1, <2>3, <3>3, <3>6 DEF ProcessFilename
    <2>4. CASE SendData(k)
      <3>1. SendToClient(k, ReplyPDU("DATA", "OTHER", k)) /\ UNCHANGED requests
        BY <2>4 DEF SendData
      <3>2. ReplyPDU("DATA", "OTHER", k) \in ReplyType(Forked)
        BY DEF ReplyPDU, ReplyType, Statuses
      <3>3. /\ inbox' \in [Client -> Seq(ReplyType(Forked))]
            /\ faults' \in 0 .. MaxFaults /\ duplicates' \in 0 .. MaxDuplicates
        BY <1>1, <3>1, <3>2, SendToClientTypes
      <3>4. [children[k] EXCEPT !.sent = @ + 1] \in ChildType
        BY <2>1, <2>4, SessionAssumption DEF ChildType, SendData
      <3>5. children' = [children EXCEPT ![k] = [children[k] EXCEPT !.sent = @ + 1]]
        BY <2>4 DEF SendData
      <3>6. children' \in Seq(ChildType) /\ Forked' = Forked
        BY <2>2, <3>4, <3>5
      <3> QED BY <1>1, <3>1, <3>3, <3>6
    <2>5. CASE FilenameOkAckReceived(k) \/ FilenameOkAckTimeout(k)
      <3>1. PICK s \in ChildStates :
                children' = [children EXCEPT ![k].state = s, ![k].arrived = FALSE]
        BY <2>5 DEF FilenameOkAckReceived, FilenameOkAckTimeout, ChildStates
      <3>2. [children[k] EXCEPT !.state = s, !.arrived = FALSE] \in ChildType
        BY <2>1 DEF ChildType
      <3>3. children' = [children EXCEPT ![k] = [children[k] EXCEPT !.state = s, !.arrived = FALSE]]
        BY <1>1, <2>1, <3>1
      <3>4. children' \in Seq(ChildType) /\ Forked' = Forked
        BY <2>2, <3>2, <3>3
      <3>5. UNCHANGED <<inbox, requests, pathVars>>
        BY <2>5 DEF FilenameOkAckReceived, FilenameOkAckTimeout
      <3> QED BY <1>1, <3>4, <3>5, TypeParts DEF pathVars
    <2> QED BY <1>4, <2>3, <2>4, <2>5 DEF ChildNext
  <1>5. CASE UNCHANGED vars
    BY <1>1, <1>5, TypeParts DEF vars, pathVars, Forked
  <1> QED BY <1>3, <1>4, <1>5

(* Whatever is lost, flipped or doubled on the path, every variable keeps  *)
(* its type: no count of tries runs over (processPoll()), and every peer   *)
(* of an rcopy is the main server or a child that was forked.              *)
THEOREM TypeSafety == Spec => []TypeOK
  <1>1. Init => TypeInv
    BY SessionAssumption DEF Init, TypeInv, TypeOK, TriesLeft, SetupStates, Forked
  <1>2. TypeInv /\ [Next]_vars => TypeInv'
    BY ClientKeepsTypes, ServerKeepsTypes DEF Next
  <1>3. TypeInv => TypeOK
    BY DEF TypeInv
  <1> QED BY <1>1, <1>2, <1>3, PTL DEF Spec

--------------------------------------------------------------------------------
(***************************************************************************)
(* As long as no datagram arrived twice: who is whose peer, and why.       *)
(*                                                                         *)
(* Each try of an rcopy has a socket of its own, and asks once from it, so *)
(* at most one child answers to that socket.  It is that child that the    *)
(* status comes from, that rcopy makes its peer and sends its acks to, and *)
(* that alone may leave filenameOk().                                      *)
(***************************************************************************)
Asking == {"SETUP_CONNECTION", "SEND_FILENAME", "SEND_FILENAME_POLL"}
Chosen == {"FILENAME_OK", "FILENAME_OK_POLL", "RECV_DATA"}

SameAsk(a, b) == a.client = b.client /\ a.socket = b.socket

(* A socket that a request may already have been sent from.                *)
IsUsed(c, s) == s < socket[c] \/ (s = socket[c] /\ clientState[c] # "SEND_FILENAME")

RequestsInv ==
    /\ \A i, j \in DOMAIN requests : SameAsk(requests[i], requests[j]) => i = j
    /\ \A i \in DOMAIN requests, k \in Forked : ~SameAsk(requests[i], children[k])
    /\ \A k, j \in Forked : SameAsk(children[k], children[j]) => k = j
    /\ \A i \in DOMAIN requests : IsUsed(requests[i].client, requests[i].socket)

Acked(k) == children[k].arrived \/ children[k].state = "SEND_DATA"

ChildInv(k) ==
    /\ IsUsed(children[k].client, children[k].socket)
    /\ Acked(k) => /\ children[k].socket = socket[children[k].client]
                   /\ clientState[children[k].client] \notin Asking

(* Child k was forked for the socket rcopy c has open, and has answered.   *)
IsPeer(k, c) ==
    /\ k \in Forked
    /\ children[k].client = c /\ children[k].socket = socket[c]
    /\ children[k].state # "PROCESS_FILENAME"

(* What may be on its way to rcopy c.                                      *)
Expected(c) ==
    {m \in ReplyType(Forked) :
        /\ IsPeer(m.from, c)
        /\ clientState[c] \in Asking => m.flag = "FNAME_STATUS"
        /\ clientState[c] \in Chosen => m.flag = "DATA"
        /\ m.flag = "FNAME_STATUS" /\ m.intact =>
               m.status = IF c \in Found THEN "FNAME_OK" ELSE "FNAME_BAD"}

(* The tries that the faults so far account for, and those in use: one for *)
(* the socket that setupConnection() is about to open, MAX_TRIES for a     *)
(* flipped reply that is still to be read.                                 *)
Budget == MAX_TRIES * faults

TriesUsed(c) ==
    socket[c] + (IF clientState[c] = "SETUP_CONNECTION" THEN 1 ELSE 0)
              + (IF inbox[c] # << >> /\ ~Head(inbox[c]).intact THEN MAX_TRIES ELSE 0)

AskingInv(c) ==
    /\ clientState[c] # "SETUP_CONNECTION" => peer[c] = Main
    /\ inbox[c] = << >> \/ Tail(inbox[c]) = << >>
    /\ TriesUsed(c) <= Budget + nameTries[c] + 1

ClientInv(c) ==
    /\ inbox[c] \in Seq(Expected(c))
    /\ clientState[c] \in Asking => AskingInv(c)
    /\ clientState[c] \in Chosen => IsPeer(peer[c], c)
    /\ clientState[c] = "FILENAME_OK" /\ okTries[c] = 0 =>
           inbox[c] = << >> /\ ~Acked(peer[c])
    /\ toFile[c] = "created" => c \in Found
    /\ firstPacket[c] \in {"none", "DATA"}
    /\ socket[c] <= Budget + MAX_TRIES

SessionInv ==
    /\ TypeInv
    /\ duplicates = 0 =>
           /\ RequestsInv
           /\ \A k \in Forked : ChildInv(k)
           /\ \A c \in Client : ClientInv(c)

ClientStays(d) ==
    /\ clientState'[d] = clientState[d] /\ socket'[d] = socket[d] /\ peer'[d] = peer[d]
    /\ inbox'[d] = inbox[d] /\ nameTries'[d] = nameTries[d] /\ okTries'[d] = okTries[d]
    /\ toFile'[d] = toFile[d] /\ firstPacket'[d] = firstPacket[d]

(* The children stay who they are.                                         *)
ChildrenKept ==
    \A k \in Forked :
        /\ k \in Forked'
        /\ children'[k].client = children[k].client /\ children'[k].socket = children[k].socket
        /\ children[k].state # "PROCESS_FILENAME" => children'[k].state # "PROCESS_FILENAME"

(* Each fault pays for MAX_TRIES more sockets.                             *)
LEMMA BudgetGrows ==
    ASSUME TypeOK, faults' \in {faults, faults + 1}
    PROVE  /\ Budget \in Int /\ Budget' \in Int /\ MAX_TRIES \in Nat
           /\ faults' = faults => Budget' = Budget
           /\ faults' = faults + 1 => Budget' = Budget + MAX_TRIES
  <1>1. MAX_TRIES \in Nat /\ faults \in Nat
    BY SessionAssumption DEF TypeOK
  <1>2. MAX_TRIES * (faults + 1) = MAX_TRIES * faults + MAX_TRIES
    BY <1>1
  <1>3. MAX_TRIES * faults \in Int
    BY <1>1
  <1>4. CASE faults' = faults
    BY <1>1, <1>3, <1>4 DEF Budget
  <1>5. CASE faults' = faults + 1
    <2>1. Budget' = MAX_TRIES * (faults + 1)
      BY <1>5 DEF Budget
    <2> QED BY <1>1, <1>2, <1>3, <1>5, <2>1 DEF Budget
  <1> QED BY <1>4, <1>5

(* What is queued may stay when more is expected.                          *)
LEMMA SeqOfExpected ==
    ASSUME NEW c \in Client, NEW s \in Seq(Expected(c)), Expected(c) \subseteq Expected(c)'
    PROVE  s \in Seq(Expected(c)')
  BY SeqMonotonic

(* The children are numbered in the order of the forks.                    *)
LEMMA ChildrenAreTyped ==
    ASSUME TypeOK
    PROVE  /\ children \in Seq(ChildType) /\ Main \notin Forked
           /\ Forked = 1 .. Len(children) /\ Len(children) \in Nat
           /\ \A k \in Forked : children[k] \in ChildType
  <1>1. children \in Seq(ChildType)
    BY TypeParts
  <1> QED BY <1>1 DEF Forked, Main

(* Nothing that happens elsewhere disturbs an rcopy.                       *)
LEMMA ClientFrame ==
    ASSUME TypeOK, NEW c \in Client, ClientInv(c), ClientStays(c), ChildrenKept,
           faults' \in {faults, faults + 1},
           clientState[c] = "FILENAME_OK" /\ okTries[c] = 0 /\ ~Acked(peer[c]) => ~Acked(peer[c])'
    PROVE  ClientInv(c)'
  <1>0. /\ Budget \in Int /\ Budget' \in Int /\ Budget <= Budget' /\ MAX_TRIES \in Nat
    BY BudgetGrows
  <1>1. /\ Budget \in Int /\ Budget' \in Int /\ Budget <= Budget'
        /\ MAX_TRIES \in Nat /\ socket[c] \in Nat /\ nameTries[c] \in Nat
    BY <1>0 DEF TypeOK
  <1>2. \A k : IsPeer(k, c) => IsPeer(k, c)'
    BY DEF IsPeer, ChildrenKept, ClientStays
  <1>3. Expected(c) \subseteq Expected(c)'
    <2>1. ReplyType(Forked) \subseteq ReplyType(Forked')
      BY DEF ReplyType, ChildrenKept
    <2> QED BY <1>2, <2>1 DEF Expected, ClientStays
  <1>4. inbox'[c] \in Seq(Expected(c)')
    BY <1>3, SeqOfExpected DEF ClientInv, ClientStays
  <1>5. ASSUME clientState'[c] \in Asking
        PROVE  AskingInv(c)'
    <2>1. AskingInv(c)
      BY <1>5 DEF ClientInv, ClientStays
    <2>2. TriesUsed(c)' = TriesUsed(c) /\ TriesUsed(c) \in Nat
      BY <1>1 DEF TriesUsed, ClientStays
    <2> QED BY <1>1, <2>1, <2>2 DEF AskingInv, ClientStays
  <1>6. socket'[c] <= Budget' + MAX_TRIES
    BY <1>1 DEF ClientInv, ClientStays
  <1> QED BY <1>2, <1>4, <1>5, <1>6 DEF ClientInv, ClientStays

(* What the path makes of a datagram that it does not double.              *)
LEMMA Delivered ==
    ASSUME TypeOK, duplicates' = 0, NEW m, NEW flipped, NEW arriving \in Arrivals(m, flipped),
           PathDelivers(m, arriving)
    PROVE  \/ arriving = <<m>> /\ faults' = faults
           \/ /\ faults' = faults + 1
              /\ arriving = << >> \/ \E f \in flipped : arriving = <<f>>
  <1>1. duplicates \in Nat
    BY SessionAssumption DEF TypeOK
  <1>2. Len(arriving) # 2
    <2>1. CASE arriving = <<m, m>>
      <3>1. Len(<<m>>) = 1 /\ Len(arriving) = 2
        BY <2>1
      <3> QED BY <1>1, <2>1, <3>1 DEF PathDelivers, pathVars
    <2>2. CASE arriving # <<m, m>>
      BY <2>2 DEF Arrivals
    <2> QED BY <2>1, <2>2
  <1>3. arriving # <<m, m>>
    BY <1>2
  <1>4. CASE arriving = <<m>>
    BY <1>2, <1>4 DEF PathDelivers, pathVars
  <1>5. CASE arriving # <<m>>
    <2>1. faults' = faults + 1
      BY <1>2, <1>5 DEF PathDelivers
    <2>2. arriving = << >> \/ \E f \in flipped : arriving = <<f>>
      BY <1>3, <1>5, Zenon DEF Arrivals
    <2> QED BY <2>1, <2>2
  <1> QED BY <1>4, <1>5

(* A request to the main server, at most one.                              *)
LEMMA RequestSent ==
    ASSUME TypeOK, duplicates' = 0, NEW c \in Client, peer[c] = Main, SendToPeer(c)
    PROVE  /\ children' = children /\ faults' \in {faults, faults + 1}
           /\ \/ requests' = requests
              \/ \E r \in RequestType : /\ r.client = c /\ r.socket = socket[c]
                                        /\ requests' = Append(requests, r)
  <1>1. PICK arriving \in Arrivals(Request(c), FlippedRequest(Request(c))) :
            /\ PathDelivers(Request(c), arriving)
            /\ requests' = requests \o arriving /\ children' = children
    BY DEF SendToPeer
  <1>2. requests \in Seq(RequestType)
    BY TypeParts
  <1>3. /\ Request(c) \in RequestType /\ Request(c).client = c /\ Request(c).socket = socket[c]
        /\ \A f \in FlippedRequest(Request(c)) :
               f \in RequestType /\ f.client = c /\ f.socket = socket[c]
    BY TypeParts DEF Request, FlippedRequest, RequestType
  <1>4. /\ faults' \in {faults, faults + 1}
        /\ \/ arriving = << >>
           \/ \E r \in RequestType : r.client = c /\ r.socket = socket[c] /\ arriving = <<r>>
    BY <1>1, <1>3, Delivered
  <1>5. requests \o << >> = requests
    BY <1>2, ConcatEmptySeq
  <1>6. \A r \in RequestType : requests \o <<r>> = Append(requests, r)
    BY <1>2, AppendIsConcat
  <1> QED BY <1>1, <1>4, <1>5, <1>6

(* An ack to a child, of which only that something arrives is left.        *)
LEMMA AckSent ==
    ASSUME TypeOK, duplicates' = 0, NEW c \in Client, peer[c] \in Forked, SendToPeer(c)
    PROVE  /\ requests' = requests /\ faults' \in {faults, faults + 1} /\ Forked' = Forked
           /\ \A k \in Forked : children'[k] =
                  IF k = peer[c] THEN [children[k] EXCEPT !.arrived = children'[k].arrived]
                  ELSE children[k]
  <1>1. peer[c] # Main
    BY ChildrenAreTyped
  <1>2. PICK arriving \in Arrivals(Request(c), FlippedRequest(Request(c))) :
            /\ PathDelivers(Request(c), arriving)
            /\ children' = [children EXCEPT ![peer[c]].arrived =
                   children[peer[c]].state # "DONE" /\ (@ \/ arriving # << >>)]
            /\ requests' = requests
    BY <1>1 DEF SendToPeer
  <1>3. faults' \in {faults, faults + 1}
    BY <1>2, Delivered
  <1>4. children[peer[c]] \in ChildType
    BY ChildrenAreTyped
  <1> QED BY <1>2, <1>3, <1>4 DEF Forked, ChildType

(* A reply of child k, at most one.                                        *)
LEMMA ReplySent ==
    ASSUME TypeOK, duplicates' = 0, NEW k \in Forked, NEW m, SendToClient(k, m)
    PROVE  \E arriving :
        /\ \/ arriving = <<m>> /\ faults' = faults
           \/ /\ faults' = faults + 1
              /\ arriving = << >> \/ \E f \in FlippedReply(m) : arriving = <<f>>
        /\ inbox' = IF /\ socket[children[k].client] = children[k].socket
                       /\ clientState[children[k].client] # "DONE"
                    THEN [inbox EXCEPT ![children[k].client] = @ \o arriving] ELSE inbox
  <1>1. PICK arriving \in Arrivals(m, FlippedReply(m)) :
            /\ PathDelivers(m, arriving)
            /\ inbox' = IF /\ socket[children[k].client] = children[k].socket
                           /\ clientState[children[k].client] # "DONE"
                        THEN [inbox EXCEPT ![children[k].client] = @ \o arriving] ELSE inbox
    BY DEF SendToClient
  <1> QED BY <1>1, Delivered

(* What an rcopy expects changes only with its state and its socket.       *)
LEMMA ExpectedKept ==
    ASSUME NEW c \in Client, ChildrenKept, socket'[c] = socket[c],
           clientState'[c] \in Asking => clientState[c] \in Asking,
           clientState'[c] \in Chosen => clientState[c] \in Chosen
    PROVE  /\ Expected(c) \subseteq Expected(c)'
           /\ \A k : IsPeer(k, c) => IsPeer(k, c)'
  <1>1. \A k : IsPeer(k, c) => IsPeer(k, c)'
    BY DEF IsPeer, ChildrenKept
  <1>2. ReplyType(Forked) \subseteq ReplyType(Forked')
    BY DEF ReplyType, ChildrenKept
  <1> QED BY <1>1, <1>2 DEF Expected

(* What a step of rcopy c leaves alone.                                    *)
LEMMA ClientMoves ==
    ASSUME TypeOK, duplicates' = 0, NEW c \in Client, ClientInv(c), ClientNext(c)
    PROVE  /\ ChildrenKept /\ Forked' = Forked /\ faults' \in {faults, faults + 1}
           /\ \A d \in Client \ {c} : ClientStays(d)
           /\ \A k \in Forked :
                  /\ children'[k].state = children[k].state
                  /\ Acked(k)' => Acked(k) \/ (clientState[c] = "FILENAME_OK" /\ k = peer[c])
  <1> DEFINE Others == \A d \in Client \ {c} : ClientStays(d)
             Same == UNCHANGED <<children, pathVars>>
  <1>1. CASE Same /\ Others
    <2>1. children' = children /\ faults' = faults /\ Forked' = Forked
      BY <1>1 DEF pathVars, Forked
    <2>2. ChildrenKept
      BY <2>1 DEF ChildrenKept
    <2> HIDE DEF Others
    <2> QED BY <1>1, <2>1, <2>2 DEF Others, Acked
  <1>2. /\ clientState \in [Client -> SetupStates]
        /\ socket \in [Client -> Nat] /\ peer \in [Client -> {Main} \cup Forked]
        /\ inbox \in [Client -> Seq(ReplyType(Forked))]
        /\ nameTries \in [Client -> 0 .. MAX_TRIES] /\ okTries \in [Client -> 0 .. MAX_TRIES]
        /\ toFile \in [Client -> {"untouched", "created"}]
        /\ firstPacket \in [Client -> {"none", "FNAME_STATUS", "DATA"}]
    BY TypeParts
  <1>3. CASE SendFilename(c)
    <2>1. Others
      BY <1>2, <1>3 DEF SendFilename, Goto, ClientStays
    <2>2. peer[c] = Main
      BY <1>3 DEF SendFilename, ClientInv, AskingInv, Asking
    <2>3. children' = children /\ faults' \in {faults, faults + 1}
      BY <1>3, <2>2, RequestSent DEF SendFilename
    <2> HIDE DEF Others
    <2>4. ChildrenKept /\ Forked' = Forked
      BY <2>3 DEF ChildrenKept, Forked
    <2>5. \A k \in Forked : children'[k].state = children[k].state /\ (Acked(k)' => Acked(k))
      BY <2>3 DEF Acked
    <2> QED BY <2>1, <2>3, <2>4, <2>5 DEF Others, Acked
  <1>4. CASE SendFilenameOkAck(c)
    <2>1. Others /\ clientState[c] = "FILENAME_OK"
      BY <1>2, <1>4 DEF SendFilenameOkAck, Goto, ClientStays
    <2>2. peer[c] \in Forked
      BY <2>1 DEF ClientInv, Chosen, IsPeer
    <2>3. /\ faults' \in {faults, faults + 1} /\ Forked' = Forked
          /\ \A k \in Forked : children'[k] =
                  IF k = peer[c] THEN [children[k] EXCEPT !.arrived = children'[k].arrived]
                  ELSE children[k]
      BY <1>4, <2>2, AckSent DEF SendFilenameOkAck
    <2>4. \A k \in Forked :
              /\ children'[k].state = children[k].state
              /\ children'[k].client = children[k].client
              /\ children'[k].socket = children[k].socket
              /\ k # peer[c] => children'[k] = children[k]
      <3> SUFFICES ASSUME NEW k \in Forked
                   PROVE  /\ children'[k].state = children[k].state
                          /\ children'[k].client = children[k].client
                          /\ children'[k].socket = children[k].socket
                          /\ k # peer[c] => children'[k] = children[k]
        OBVIOUS
      <3>1. children[k] \in ChildType
        BY ChildrenAreTyped
      <3> QED BY <2>3, <3>1 DEF ChildType
    <2> HIDE DEF Others
    <2>5. ChildrenKept
      BY <2>3, <2>4 DEF ChildrenKept
    <2>6. \A k \in Forked : Acked(k)' => Acked(k) \/ k = peer[c]
      BY <2>4 DEF Acked
    <2> QED BY <2>1, <2>3, <2>4, <2>5, <2>6 DEF Others, Acked
  <1>5. CASE SetupConnection(c)
    <2>1. Same /\ Others
      BY <1>2, <1>5 DEF SetupConnection, Goto, EmptyInbox, ClientStays
    <2> QED BY <1>1, <2>1
  <1>6. CASE FilenameTimeout(c) \/ FilenameOkTimeout(c)
    <2>1. Same /\ Others
      BY <1>2, <1>6 DEF FilenameTimeout, FilenameOkTimeout, Exit, Goto, EmptyInbox, ClientStays
    <2> QED BY <1>1, <2>1
  <1>7. CASE GetFilenameStatus(c)
    <2>1. /\ Same
          /\ peer' = [peer EXCEPT ![c] = Head(inbox[c]).from]
          /\ \/ toFile' = [toFile EXCEPT ![c] = "created"] \/ toFile' = toFile
          /\ \E s \in {"FILENAME_OK", "DONE", "SETUP_CONNECTION"} : Goto(c, s)
          /\ TakeFromInbox(c) \/ EmptyInbox(c)
          /\ nameTries' = [nameTries EXCEPT ![c] = 0]
          /\ UNCHANGED <<socket, okTries, firstPacket>>
      BY <1>7 DEF GetFilenameStatus, Exit
    <2>2. Others
      BY <1>2, <2>1 DEF Goto, EmptyInbox, TakeFromInbox, ClientStays
    <2> QED BY <1>1, <2>1, <2>2
  <1>8. CASE FirstPacketArrives(c) \/ ReceiveData(c)
    <2>1. Same /\ Others
      BY <1>2, <1>8 DEF FirstPacketArrives, ReceiveData, Goto, TakeFromInbox, ClientStays
    <2> QED BY <1>1, <2>1
  <1> QED BY <1>3, <1>4, <1>5, <1>6, <1>7, <1>8 DEF ClientNext

(* Nothing queued is always as expected.                                   *)
LEMMA EmptyInboxIsExpected ==
    ASSUME NEW c \in Client
    PROVE  << >> \in Seq(Expected(c)')
  OBVIOUS

(* A step of an rcopy, whatever it reads, leaves its part in order.        *)
LEMMA ClientKeepsOwn ==
    ASSUME TypeInv, duplicates' = 0, NEW c \in Client, ClientInv(c), ClientNext(c),
           \A k \in Forked : ChildInv(k)
    PROVE  ClientInv(c)'
  <1>1. /\ TypeOK /\ clientState \in [Client -> SetupStates]
        /\ socket \in [Client -> Nat] /\ peer \in [Client -> {Main} \cup Forked]
        /\ inbox \in [Client -> Seq(ReplyType(Forked))]
        /\ nameTries \in [Client -> 0 .. MAX_TRIES] /\ okTries \in [Client -> 0 .. MAX_TRIES]
        /\ toFile \in [Client -> {"untouched", "created"}]
        /\ firstPacket \in [Client -> {"none", "FNAME_STATUS", "DATA"}]
    BY TypeParts DEF TypeInv
  <1>2. /\ ChildrenKept /\ Forked' = Forked /\ faults' \in {faults, faults + 1}
        /\ \A k \in Forked :
               /\ children'[k].state = children[k].state
               /\ Acked(k)' => Acked(k) \/ (clientState[c] = "FILENAME_OK" /\ k = peer[c])
    BY <1>1, ClientMoves
  <1>3. /\ Budget \in Int /\ Budget' \in Int /\ Budget <= Budget' /\ MAX_TRIES \in Nat
    BY <1>1, <1>2, BudgetGrows
  <1>4. socket[c] \in Nat /\ nameTries[c] \in Nat /\ nameTries[c] <= MAX_TRIES
    BY <1>1, <1>3
  <1>5. clientState[c] # "DONE" => nameTries[c] + 1 <= MAX_TRIES
    BY <1>3, <1>4 DEF TypeInv, TriesLeft
  <1>6. /\ toFile[c] = "created" => c \in Found
        /\ firstPacket[c] \in {"none", "DATA"}
        /\ socket[c] <= Budget + MAX_TRIES
    BY DEF ClientInv
  <1>7. inbox[c] \in Seq(Expected(c)) /\ << >> \in Seq(Expected(c)')
    BY EmptyInboxIsExpected DEF ClientInv
  <1>8. CASE SetupConnection(c)
    <2>1. /\ clientState[c] = "SETUP_CONNECTION" /\ clientState'[c] = "SEND_FILENAME"
          /\ socket'[c] = socket[c] + 1 /\ peer'[c] = Main /\ inbox'[c] = << >>
          /\ UNCHANGED <<nameTries, toFile, firstPacket, faults>>
      BY <1>1, <1>8 DEF SetupConnection, Goto, EmptyInbox, pathVars
    <2>2. AskingInv(c)
      BY <2>1 DEF ClientInv, Asking
    <2>3. socket[c] + 1 <= Budget + nameTries[c] + 1
      BY <1>3, <1>4, <2>1, <2>2 DEF AskingInv, TriesUsed
    <2>4. socket'[c] <= Budget' + MAX_TRIES
      BY <1>3, <1>4, <1>5, <2>1, <2>3
    <2>5. TriesUsed(c)' = socket[c] + 1
      BY <1>4, <2>1 DEF TriesUsed
    <2>6. AskingInv(c)'
      BY <1>3, <1>4, <2>1, <2>3, <2>5 DEF AskingInv
    <2> QED BY <1>6, <1>7, <2>1, <2>4, <2>6 DEF ClientInv, Chosen
  <1>9. CASE SendFilename(c)
    <2>1. /\ clientState[c] = "SEND_FILENAME" /\ clientState'[c] = "SEND_FILENAME_POLL"
          /\ UNCHANGED <<socket, peer, nameTries, toFile, firstPacket, inbox>>
      BY <1>1, <1>9 DEF SendFilename, Goto
    <2>2. AskingInv(c)
      BY <2>1 DEF ClientInv, Asking
    <2>3. TriesUsed(c)' = TriesUsed(c) /\ TriesUsed(c) \in Int
      BY <1>3, <1>4, <2>1 DEF TriesUsed
    <2>4. AskingInv(c)'
      BY <1>3, <1>4, <2>1, <2>2, <2>3 DEF AskingInv
    <2>5. inbox'[c] \in Seq(Expected(c)')
      BY <1>2, <1>7, <2>1, ExpectedKept, SeqMonotonic DEF Asking, Chosen
    <2> QED BY <1>3, <1>4, <1>6, <2>1, <2>4, <2>5 DEF ClientInv, Chosen
  <1>10. CASE FilenameTimeout(c)
    <2>1. /\ clientState[c] = "SEND_FILENAME_POLL"
          /\ \/ clientState'[c] = "DONE" /\ inbox'[c] = << >>
             \/ clientState'[c] = "SETUP_CONNECTION" /\ inbox'[c] = inbox[c]
          /\ nameTries'[c] = nameTries[c] + 1
          /\ UNCHANGED <<socket, peer, toFile, firstPacket, faults>>
      BY <1>1, <1>10 DEF FilenameTimeout, Goto, Exit, EmptyInbox, pathVars
    <2>2. AskingInv(c)
      BY <2>1 DEF ClientInv, Asking
    <2>3. clientState'[c] = "SETUP_CONNECTION" =>
              TriesUsed(c)' = TriesUsed(c) + 1 /\ TriesUsed(c) \in Int
      BY <1>3, <1>4, <2>1 DEF TriesUsed
    <2>4. ASSUME clientState'[c] = "SETUP_CONNECTION"
          PROVE  AskingInv(c)'
      <3>1. TriesUsed(c) <= Budget + nameTries[c] + 1
        BY <2>2 DEF AskingInv
      <3>2. TriesUsed(c)' <= Budget' + nameTries'[c] + 1
        BY <1>3, <1>4, <2>1, <2>3, <2>4, <3>1
      <3> QED BY <2>1, <2>2, <2>4, <3>2 DEF AskingInv
    <2>5. inbox'[c] \in Seq(Expected(c)')
      BY <1>2, <1>7, <2>1, ExpectedKept, SeqMonotonic DEF Asking, Chosen
    <2> QED BY <1>3, <1>4, <1>6, <2>1, <2>4, <2>5 DEF ClientInv, Chosen, Asking
  <1>11. CASE GetFilenameStatus(c)
    <2> DEFINE m == Head(inbox[c])
    <2>1. /\ clientState[c] = "SEND_FILENAME_POLL" /\ inbox[c] # << >>
          /\ peer'[c] = m.from
          /\ \/ /\ AcceptsStatus(m) /\ clientState'[c] = "FILENAME_OK"
                /\ inbox'[c] = Tail(inbox[c])
             \/ clientState'[c] = "DONE" /\ toFile'[c] = toFile[c] /\ inbox'[c] = << >>
             \/ /\ ~AcceptsStatus(m) /\ ~RefusesStatus(m) /\ toFile'[c] = toFile[c]
                /\ clientState'[c] = "SETUP_CONNECTION" /\ inbox'[c] = Tail(inbox[c])
          /\ nameTries'[c] = 0
          /\ UNCHANGED <<socket, firstPacket, faults>>
      BY <1>1, <1>11 DEF GetFilenameStatus, Goto, Exit, EmptyInbox, TakeFromInbox, pathVars
    <2>2. m \in Expected(c)
      BY <1>7, <2>1, HeadTailProperties
    <2>3. AskingInv(c) /\ inbox'[c] = << >>
      BY <2>1 DEF ClientInv, Asking, AskingInv
    <2>4. /\ IsPeer(m.from, c) /\ m.flag = "FNAME_STATUS"
          /\ m.intact => m.status = IF c \in Found THEN "FNAME_OK" ELSE "FNAME_BAD"
      BY <2>1, <2>2 DEF Expected, Asking
    <2> HIDE DEF m
    <2>5. IsPeer(peer[c], c)'
      BY <1>2, <2>1, <2>4 DEF IsPeer, ChildrenKept
    <2>6. ASSUME clientState'[c] = "SETUP_CONNECTION"
          PROVE  AskingInv(c)'
      <3>1. ~m.intact
        BY <2>1, <2>4, <2>6 DEF AcceptsStatus, RefusesStatus
      <3>2. socket[c] + MAX_TRIES <= Budget + nameTries[c] + 1
        BY <1>3, <1>4, <2>1, <2>3, <3>1 DEF AskingInv, TriesUsed, m
      <3>3. TriesUsed(c)' = socket[c] + 1
        BY <1>4, <2>1, <2>3, <2>6 DEF TriesUsed
      <3>4. TriesUsed(c)' <= Budget' + nameTries'[c] + 1
        BY <1>3, <1>4, <1>5, <2>1, <3>2, <3>3
      <3> QED BY <2>3, <2>6, <3>4 DEF AskingInv
    <2>7. ASSUME clientState'[c] = "FILENAME_OK"
          PROVE  ~Acked(peer[c])'
      <3>1. ~Acked(m.from)
        BY <2>1, <2>4 DEF IsPeer, ChildInv, Asking
      <3> QED BY <1>2, <2>1, <2>4, <3>1 DEF Acked, IsPeer
    <2>8. toFile'[c] = "created" => c \in Found
      BY <1>6, <2>1, <2>4 DEF AcceptsStatus
    <2> QED BY <1>3, <1>4, <1>6, <1>7, <2>1, <2>3, <2>5, <2>6, <2>7, <2>8
            DEF ClientInv, Chosen, Asking
  <1>12. CASE SendFilenameOkAck(c)
    <2>1. /\ clientState[c] = "FILENAME_OK" /\ clientState'[c] = "FILENAME_OK_POLL"
          /\ UNCHANGED <<socket, peer, toFile, firstPacket, inbox>>
      BY <1>1, <1>12 DEF SendFilenameOkAck, Goto
    <2>2. IsPeer(peer[c], c)' /\ inbox'[c] \in Seq(Expected(c)')
      BY <1>2, <1>7, <2>1, ExpectedKept, SeqMonotonic DEF ClientInv, Asking, Chosen
    <2> QED BY <1>3, <1>4, <1>6, <2>1, <2>2 DEF ClientInv, Chosen, Asking
  <1>13. CASE FilenameOkTimeout(c)
    <2>1. /\ clientState[c] = "FILENAME_OK_POLL"
          /\ \/ clientState'[c] = "DONE" /\ inbox'[c] = << >>
             \/ clientState'[c] = "FILENAME_OK" /\ inbox'[c] = inbox[c]
          /\ okTries'[c] # 0
          /\ UNCHANGED <<socket, peer, toFile, firstPacket, faults>>
      BY <1>1, <1>13 DEF FilenameOkTimeout, Goto, Exit, EmptyInbox, pathVars
    <2>2. /\ inbox'[c] \in Seq(Expected(c)')
          /\ clientState'[c] = "FILENAME_OK" => IsPeer(peer[c], c)'
      BY <1>2, <1>7, <2>1, ExpectedKept, SeqMonotonic DEF ClientInv, Asking, Chosen
    <2> QED BY <1>3, <1>4, <1>6, <2>1, <2>2 DEF ClientInv, Chosen, Asking
  <1>14. CASE FirstPacketArrives(c)
    <2>1. /\ clientState[c] = "FILENAME_OK_POLL" /\ clientState'[c] = "RECV_DATA"
          /\ UNCHANGED <<socket, peer, toFile, firstPacket, inbox, faults>>
      BY <1>1, <1>14 DEF FirstPacketArrives, Goto, pathVars
    <2>2. IsPeer(peer[c], c)' /\ inbox'[c] \in Seq(Expected(c)')
      BY <1>2, <1>7, <2>1, ExpectedKept, SeqMonotonic DEF ClientInv, Asking, Chosen
    <2> QED BY <1>3, <1>4, <1>6, <2>1, <2>2 DEF ClientInv, Chosen, Asking
  <1>15. CASE ReceiveData(c)
    <2> DEFINE m == Head(inbox[c])
    <2>1. /\ clientState[c] = "RECV_DATA" /\ inbox[c] # << >>
          /\ peer'[c] = m.from /\ firstPacket'[c] \in {m.flag, "none"}
          /\ inbox'[c] = Tail(inbox[c])
          /\ UNCHANGED <<clientState, socket, toFile, faults>>
      BY <1>1, <1>15 DEF ReceiveData, TakeFromInbox, pathVars
    <2>2. m \in Expected(c) /\ inbox'[c] \in Seq(Expected(c))
      BY <1>7, <2>1, HeadTailProperties
    <2>3. IsPeer(m.from, c) /\ m.flag = "DATA"
      BY <2>1, <2>2 DEF Expected, Chosen
    <2>4. IsPeer(peer[c], c)' /\ inbox'[c] \in Seq(Expected(c)')
      BY <1>2, <2>1, <2>2, <2>3, ExpectedKept, SeqMonotonic
    <2> QED BY <1>3, <1>4, <1>6, <2>1, <2>3, <2>4 DEF ClientInv, Chosen, Asking
  <1> QED BY <1>8, <1>9, <1>10, <1>11, <1>12, <1>13, <1>14, <1>15 DEF ClientNext

(* A path that has doubled nothing by now had not before.                  *)
LEMMA DuplicatesGrow ==
    ASSUME TypeOK, [Next]_vars, duplicates' = 0
    PROVE  duplicates = 0
  <1>1. duplicates \in Nat
    BY SessionAssumption DEF TypeOK
  <1>2. ASSUME NEW m, NEW arriving, PathDelivers(m, arriving)
        PROVE  duplicates = 0
    BY <1>1, <1>2 DEF PathDelivers, pathVars
  <1>3. CASE UNCHANGED duplicates
    BY <1>3
  <1>4. ASSUME NEW c \in Client, ClientNext(c)
        PROVE  duplicates = 0
    <2>1. UNCHANGED duplicates \/ SendToPeer(c)
      BY <1>4 DEF ClientNext, SetupConnection, SendFilename, FilenameTimeout, GetFilenameStatus,
                  SendFilenameOkAck, FilenameOkTimeout, FirstPacketArrives, ReceiveData, pathVars
    <2> QED BY <1>2, <1>3, <2>1 DEF SendToPeer
  <1>5. ASSUME NEW k \in Forked, ChildNext(k)
        PROVE  duplicates = 0
    <2>1. UNCHANGED duplicates \/ \E m : SendToClient(k, m)
      BY <1>5 DEF ChildNext, ProcessFilename, FilenameOkAckReceived, FilenameOkAckTimeout,
                  SendData, pathVars
    <2> QED BY <1>2, <1>3, <2>1 DEF SendToClient
  <1>6. CASE MainForks \/ UNCHANGED vars
    BY <1>3, <1>6 DEF MainForks, vars, pathVars
  <1> QED BY <1>4, <1>5, <1>6 DEF Next

(* The state and the socket of an rcopy that moves.                        *)
LEMMA ClientStateMoves ==
    ASSUME TypeOK, NEW c \in Client, ClientNext(c)
    PROVE  /\ \/ socket'[c] = socket[c] + 1
              \/ socket'[c] = socket[c] /\ clientState'[c] # "SEND_FILENAME"
           /\ clientState[c] \notin Asking =>
                  socket'[c] = socket[c] /\ clientState'[c] \notin Asking
  <1>1. clientState \in [Client -> SetupStates] /\ socket \in [Client -> Nat]
    BY TypeParts
  <1>2. CASE SetupConnection(c)
    BY <1>1, <1>2 DEF SetupConnection, Goto, Asking
  <1>3. CASE SendFilename(c) \/ FilenameTimeout(c) \/ GetFilenameStatus(c)
    <2>1. clientState[c] \in Asking /\ socket' = socket
      BY <1>3 DEF SendFilename, FilenameTimeout, GetFilenameStatus, Asking
    <2>2. \E s \in SetupStates \ {"SEND_FILENAME"} : Goto(c, s)
      BY <1>3 DEF SendFilename, FilenameTimeout, GetFilenameStatus, Exit, SetupStates
    <2> QED BY <1>1, <2>1, <2>2 DEF Goto
  <1>4. CASE SendFilenameOkAck(c) \/ FilenameOkTimeout(c) \/ FirstPacketArrives(c)
    <2>1. socket' = socket
      BY <1>4 DEF SendFilenameOkAck, FilenameOkTimeout, FirstPacketArrives
    <2>2. \E s \in SetupStates \ Asking : Goto(c, s)
      BY <1>4 DEF SendFilenameOkAck, FilenameOkTimeout, FirstPacketArrives, Exit, SetupStates,
                  Asking
    <2> QED BY <1>1, <2>1, <2>2 DEF Goto, Asking
  <1>5. CASE ReceiveData(c)
    BY <1>5 DEF ReceiveData, Asking
  <1> QED BY <1>2, <1>3, <1>4, <1>5 DEF ClientNext

(* A socket that was asked from once is not asked from again.              *)
LEMMA SocketStaysUsed ==
    ASSUME TypeOK, duplicates' = 0, NEW c \in Client, ClientInv(c), ClientNext(c),
           NEW d \in Client, NEW s \in Nat, IsUsed(d, s)
    PROVE  s < socket'[d] \/ (s = socket'[d] /\ clientState'[d] # "SEND_FILENAME")
  <1>1. socket[d] \in Nat
    BY TypeParts
  <1>2. CASE d = c
    BY <1>1, <1>2, ClientStateMoves DEF IsUsed
  <1>3. CASE d # c
    <2>1. socket'[d] = socket[d] /\ clientState'[d] = clientState[d]
      BY <1>3, ClientMoves DEF ClientStays
    <2> QED BY <2>1 DEF IsUsed
  <1> QED BY <1>2, <1>3

(* The steps of an rcopy keep the invariant.                               *)
LEMMA ClientKeepsSession ==
    ASSUME SessionInv, NEW c \in Client, ClientNext(c)
    PROVE  SessionInv'
  <1>1. TypeInv' /\ TypeInv /\ TypeOK
    BY ClientKeepsTypes DEF SessionInv, TypeInv
  <1>2. SUFFICES ASSUME duplicates' = 0
                 PROVE  /\ RequestsInv'
                        /\ \A k \in Forked' : ChildInv(k)'
                        /\ \A d \in Client : ClientInv(d)'
    BY <1>1 DEF SessionInv
  <1>3. /\ RequestsInv
        /\ \A k \in Forked : ChildInv(k)
        /\ \A d \in Client : ClientInv(d)
    BY <1>1, <1>2, DuplicatesGrow DEF SessionInv, Next
  <1>4. /\ ChildrenKept /\ Forked' = Forked /\ faults' \in {faults, faults + 1}
        /\ \A d \in Client \ {c} : ClientStays(d)
        /\ \A k \in Forked :
               /\ children'[k].state = children[k].state
               /\ Acked(k)' => Acked(k) \/ (clientState[c] = "FILENAME_OK" /\ k = peer[c])
    BY <1>1, <1>2, <1>3, ClientMoves
  <1>5. /\ requests \in Seq(RequestType)
        /\ \A k \in Forked : children[k].client \in Client /\ children[k].socket \in Nat
    BY <1>1, TypeParts, ChildrenAreTyped DEF ChildType
  <1>6. ASSUME NEW d \in Client
        PROVE  ClientInv(d)'
    <2>1. CASE d = c
      BY <1>1, <1>2, <1>3, <2>1, ClientKeepsOwn
    <2>2. CASE d # c
      <3>1. ClientInv(d) /\ ClientStays(d)
        BY <1>3, <1>4, <2>2
      <3>2. ASSUME clientState[d] = "FILENAME_OK", ~Acked(peer[d])
            PROVE  ~Acked(peer[d])'
        <4>1. IsPeer(peer[d], d)
          BY <3>1, <3>2 DEF ClientInv, Chosen
        <4>2. clientState[c] = "FILENAME_OK" => peer[d] # peer[c]
          BY <1>3, <2>2, <4>1 DEF ClientInv, Chosen, IsPeer
        <4>3. ~(children'[peer[d]].arrived \/ children'[peer[d]].state = "SEND_DATA")
          BY <1>4, <3>2, <4>1, <4>2 DEF IsPeer, Acked
        <4> QED BY <3>1, <4>3 DEF Acked, ClientStays
      <3> QED BY <1>1, <1>4, <3>1, <3>2, ClientFrame
    <2> QED BY <2>1, <2>2
  <1>7. ASSUME NEW k \in Forked
        PROVE  ChildInv(k)'
    <2> DEFINE d == children[k].client
               s == children[k].socket
    <2>1. /\ d \in Client /\ s \in Nat /\ IsUsed(d, s)
          /\ children'[k].client = d /\ children'[k].socket = s
      BY <1>3, <1>4, <1>5 DEF ChildInv, ChildrenKept
    <2>2. s < socket'[d] \/ (s = socket'[d] /\ clientState'[d] # "SEND_FILENAME")
      BY <1>1, <1>2, <1>3, <2>1, SocketStaysUsed
    <2>3. IsUsed(children[k].client, children[k].socket)'
      BY <2>1, <2>2 DEF IsUsed
    <2>4. ASSUME Acked(k)'
          PROVE  s = socket'[d] /\ clientState'[d] \notin Asking
      <3>1. s = socket[d] /\ clientState[d] \notin Asking
        BY <1>3, <1>4, <2>4 DEF ChildInv, ClientInv, Chosen, IsPeer, Asking
      <3>2. CASE d = c
        BY <1>1, <3>1, <3>2, ClientStateMoves
      <3>3. CASE d # c
        BY <1>4, <2>1, <3>1, <3>3 DEF ClientStays
      <3> QED BY <3>2, <3>3
    <2> QED BY <2>1, <2>3, <2>4 DEF ChildInv
  <1>8. RequestsInv'
    <2>1. /\ \A i \in DOMAIN requests : requests[i].client \in Client /\ requests[i].socket \in Nat
          /\ DOMAIN requests = 1 .. Len(requests) /\ Len(requests) \in Nat
      <3>1. DOMAIN requests = 1 .. Len(requests) /\ Len(requests) \in Nat
        BY <1>5
      <3>2. \A i \in DOMAIN requests : requests[i] \in RequestType
        BY <1>5
      <3> QED BY <3>1, <3>2 DEF RequestType
    <2>2. \A k, j \in Forked : SameAsk(children'[k], children'[j]) => k = j
      BY <1>3, <1>4 DEF RequestsInv, SameAsk, ChildrenKept
    <2>3. \A i \in DOMAIN requests :
              LET d == requests[i].client
                  s == requests[i].socket
              IN  s < socket'[d] \/ (s = socket'[d] /\ clientState'[d] # "SEND_FILENAME")
      BY <1>1, <1>2, <1>3, <2>1, SocketStaysUsed DEF RequestsInv
    <2>4. CASE requests' = requests
      <3>1. \A i \in DOMAIN requests, k \in Forked : ~SameAsk(requests[i], children'[k])
        BY <1>3, <1>4 DEF RequestsInv, SameAsk, ChildrenKept
      <3> QED BY <1>3, <1>4, <2>2, <2>3, <2>4, <3>1 DEF RequestsInv, IsUsed
    <2>5. ASSUME NEW r \in RequestType, r.client = c, r.socket = socket[c],
                 requests' = Append(requests, r), SendFilename(c)
          PROVE  RequestsInv'
      <3>1. /\ DOMAIN requests' = 1 .. Len(requests) + 1
            /\ \A i \in DOMAIN requests : requests'[i] = requests[i]
            /\ requests'[Len(requests) + 1] = r
        <4>1. requests' \in Seq(RequestType) /\ Len(requests') = Len(requests) + 1
          BY <1>5, <2>5, AppendProperties
        <4> QED BY <1>5, <2>1, <2>5, <4>1, AppendProperties
      <3>2. clientState[c] = "SEND_FILENAME" /\ socket' = socket /\ socket[c] \in Nat
        BY <1>1, <2>5, TypeParts DEF SendFilename
      <3>3. ~IsUsed(c, socket[c])
        BY <3>2 DEF IsUsed
      <3>4. /\ \A i \in DOMAIN requests : ~SameAsk(requests[i], r)
            /\ \A k \in Forked : ~SameAsk(r, children[k])
        BY <1>3, <2>1, <2>5, <3>3 DEF RequestsInv, ChildInv, SameAsk
      <3>5. clientState'[c] # "SEND_FILENAME"
        BY <1>1, <2>5, TypeParts DEF SendFilename, Goto
      <3>6. \A i, j \in DOMAIN requests' : SameAsk(requests'[i], requests'[j]) => i = j
        <4>1. \A i, j \in DOMAIN requests : SameAsk(requests[i], requests[j]) => i = j
          BY <1>3 DEF RequestsInv
        <4>2. \A i \in DOMAIN requests' : i \in DOMAIN requests \/ i = Len(requests) + 1
          BY <2>1, <3>1
        <4>3. \A a : SameAsk(r, a) => SameAsk(a, r)
          BY DEF SameAsk
        <4> HIDE DEF SameAsk
        <4> QED BY <3>1, <3>4, <4>1, <4>2, <4>3
      <3>7. \A i \in DOMAIN requests', k \in Forked : ~SameAsk(requests'[i], children'[k])
        <4>1. \A k \in Forked : \A a : SameAsk(a, children'[k]) <=> SameAsk(a, children[k])
          BY <1>4 DEF SameAsk, ChildrenKept
        <4>2. \A i \in DOMAIN requests' : i \in DOMAIN requests \/ i = Len(requests) + 1
          BY <2>1, <3>1
        <4>3. \A i \in DOMAIN requests, k \in Forked : ~SameAsk(requests[i], children[k])
          BY <1>3 DEF RequestsInv
        <4> QED BY <3>1, <3>4, <4>1, <4>2, <4>3
      <3>8. \A i \in DOMAIN requests' : IsUsed(requests[i].client, requests[i].socket)'
        <4>1. \A i \in DOMAIN requests' : i \in DOMAIN requests \/ i = Len(requests) + 1
          BY <2>1, <3>1
        <4> QED BY <2>3, <2>5, <3>1, <3>2, <3>5, <4>1 DEF IsUsed
      <3> QED BY <1>4, <2>2, <3>6, <3>7, <3>8 DEF RequestsInv
    <2>6. CASE SendFilename(c)
      <3>1. peer[c] = Main
        BY <1>3, <2>6 DEF SendFilename, ClientInv, AskingInv, Asking
      <3> QED BY <1>1, <1>2, <2>4, <2>5, <2>6, <3>1, RequestSent DEF SendFilename
    <2>7. CASE SendFilenameOkAck(c)
      <3>1. peer[c] \in Forked
        BY <1>3, <2>7 DEF SendFilenameOkAck, ClientInv, Chosen, IsPeer
      <3> QED BY <1>1, <1>2, <2>4, <2>7, <3>1, AckSent DEF SendFilenameOkAck
    <2> QED BY <2>4, <2>6, <2>7
            DEF ClientNext, SetupConnection, FilenameTimeout, GetFilenameStatus,
                FilenameOkTimeout, FirstPacketArrives, ReceiveData
  <1> QED BY <1>4, <1>6, <1>7, <1>8

(* So does a fork: the request it takes is the only one of its socket.     *)
LEMMA MainKeepsSession ==
    ASSUME SessionInv, MainForks
    PROVE  SessionInv'
  <1>1. TypeInv' /\ TypeInv /\ TypeOK
    BY ServerKeepsTypes DEF SessionInv, TypeInv
  <1>2. SUFFICES ASSUME duplicates' = 0
                 PROVE  /\ RequestsInv'
                        /\ \A k \in Forked' : ChildInv(k)'
                        /\ \A d \in Client : ClientInv(d)'
    BY <1>1 DEF SessionInv
  <1>3. /\ RequestsInv
        /\ \A k \in Forked : ChildInv(k)
        /\ \A d \in Client : ClientInv(d)
    BY <1>2 DEF SessionInv, MainForks, pathVars
  <1> DEFINE r == Head(requests)
             new == [state |-> "PROCESS_FILENAME", client |-> r.client,
                     socket |-> r.socket, arrived |-> FALSE, sent |-> 0]
             n == Len(children) + 1
  <1>4. /\ requests \in Seq(RequestType) /\ requests # << >> /\ requests' = Tail(requests)
        /\ UNCHANGED <<rcopyVars, inbox, pathVars>>
        /\ children' = Append(children, new) \/ children' = children
    BY <1>1, TypeParts DEF MainForks
  <1>5. r \in RequestType /\ requests[1] = r /\ 1 \in DOMAIN requests
    BY <1>4, HeadTailProperties
  <1>6. /\ DOMAIN requests' = 1 .. Len(requests) - 1 /\ DOMAIN requests = 1 .. Len(requests)
        /\ Len(requests) \in Nat
        /\ \A i \in DOMAIN requests' : requests'[i] = requests[i + 1]
    <2>1. requests' \in Seq(RequestType) /\ Len(requests') = Len(requests) - 1
      BY <1>4, HeadTailProperties
    <2> QED BY <1>4, <2>1, HeadTailProperties
  <1>7. \A i \in DOMAIN requests' : i + 1 \in DOMAIN requests /\ i + 1 # 1
    BY <1>6
  <1>8. new \in ChildType
    BY <1>5, SessionAssumption DEF ChildType, ChildStates, RequestType
  <1>9. /\ new.client = requests[1].client /\ new.socket = requests[1].socket
        /\ ~new.arrived /\ new.state = "PROCESS_FILENAME"
    BY <1>5
  <1> HIDE DEF r, new
  <1>10. /\ Forked \subseteq Forked' /\ Forked' \subseteq Forked \cup {n} /\ n \notin Forked
         /\ \A k \in Forked : children'[k] = children[k]
         /\ n \in Forked' => children'[n] = new
    <2>1. CASE children' = Append(children, new)
      <3>1. children \in Seq(ChildType) /\ Forked = 1 .. Len(children) /\ Len(children) \in Nat
        BY <1>1, ChildrenAreTyped
      <3>2. children' \in Seq(ChildType) /\ Len(children') = n
        BY <1>8, <2>1, <3>1, AppendProperties
      <3>3. Forked' = 1 .. n
        BY <3>1, <3>2 DEF Forked
      <3> QED BY <1>8, <2>1, <3>1, <3>3, AppendProperties
    <2>2. CASE children' = children
      BY <1>1, <2>2, ChildrenAreTyped DEF Forked
    <2> QED BY <1>4, <2>1, <2>2
  <1> HIDE DEF n
  <1>11. ASSUME NEW d \in Client
         PROVE  ClientInv(d)'
    <2>1. ClientInv(d) /\ ClientStays(d) /\ ChildrenKept /\ faults' = faults
      BY <1>3, <1>4, <1>10 DEF ClientStays, ChildrenKept, rcopyVars, pathVars
    <2>2. ASSUME clientState[d] = "FILENAME_OK", ~Acked(peer[d])
          PROVE  ~Acked(peer[d])'
      <3>1. peer[d] \in Forked /\ peer'[d] = peer[d]
        BY <2>1, <2>2 DEF ClientInv, Chosen, IsPeer, ClientStays
      <3> QED BY <1>10, <2>2, <3>1 DEF Acked
    <2> QED BY <1>1, <2>1, <2>2, ClientFrame
  <1>12. ASSUME NEW k \in Forked'
         PROVE  ChildInv(k)'
    <2>1. \A d, s : IsUsed(d, s) =>
              s < socket'[d] \/ (s = socket'[d] /\ clientState'[d] # "SEND_FILENAME")
      BY <1>4 DEF IsUsed, rcopyVars
    <2>2. CASE k \in Forked
      BY <1>3, <1>4, <1>10, <2>1, <2>2 DEF ChildInv, Acked, IsUsed, rcopyVars
    <2>3. CASE k \notin Forked
      <3>1. children'[k] = new
        BY <1>10, <2>3
      <3>2. IsUsed(new.client, new.socket)
        BY <1>3, <1>5, <1>9 DEF RequestsInv
      <3> QED BY <1>9, <2>1, <3>1, <3>2 DEF ChildInv, Acked, IsUsed
    <2> QED BY <2>2, <2>3
  <1>13. RequestsInv'
    <2>1. \A i, j \in DOMAIN requests' : SameAsk(requests'[i], requests'[j]) => i = j
      <3> SUFFICES ASSUME NEW i \in DOMAIN requests', NEW j \in DOMAIN requests',
                          SameAsk(requests'[i], requests'[j])
                   PROVE  i = j
        OBVIOUS
      <3>1. i + 1 = j + 1
        BY <1>3, <1>6, <1>7 DEF RequestsInv
      <3> QED BY <1>6, <3>1
    <2>2. \A i \in DOMAIN requests' : ~SameAsk(requests'[i], new)
      <3> SUFFICES ASSUME NEW i \in DOMAIN requests', SameAsk(requests'[i], new)
                   PROVE  FALSE
        OBVIOUS
      <3>1. SameAsk(requests[i + 1], requests[1])
        BY <1>6, <1>9 DEF SameAsk
      <3> QED BY <1>3, <1>5, <1>7, <3>1 DEF RequestsInv
    <2>3. \A i \in DOMAIN requests', k \in Forked : ~SameAsk(requests'[i], children[k])
      BY <1>3, <1>6, <1>7 DEF RequestsInv
    <2>4. \A i \in DOMAIN requests', k \in Forked' : ~SameAsk(requests'[i], children'[k])
      BY <1>10, <2>2, <2>3
    <2>5. \A k \in Forked : ~SameAsk(new, children[k]) /\ ~SameAsk(children[k], new)
      BY <1>3, <1>5, <1>9 DEF RequestsInv, SameAsk
    <2>6. \A k, j \in Forked : SameAsk(children[k], children[j]) => k = j
      BY <1>3 DEF RequestsInv
    <2>7. \A k, j \in Forked' : SameAsk(children'[k], children'[j]) => k = j
      <3> SUFFICES ASSUME NEW k \in Forked', NEW j \in Forked',
                          SameAsk(children'[k], children'[j])
                   PROVE  k = j
        OBVIOUS
      <3> QED BY <1>10, <2>5, <2>6
    <2>8. \A i \in DOMAIN requests' : IsUsed(requests[i].client, requests[i].socket)'
      BY <1>3, <1>4, <1>6, <1>7 DEF RequestsInv, IsUsed, rcopyVars
    <2> QED BY <2>1, <2>4, <2>7, <2>8 DEF RequestsInv
  <1> QED BY <1>11, <1>12, <1>13

(* What a step of child k leaves alone.                                    *)
LEMMA ChildMoves ==
    ASSUME TypeOK, duplicates' = 0, NEW k \in Forked, ChildNext(k)
    PROVE  /\ ChildrenKept /\ Forked' = Forked /\ faults' \in {faults, faults + 1}
           /\ UNCHANGED <<rcopyVars, requests>>
           /\ \A j \in Forked : Acked(j)' => Acked(j)
           /\ children[k].client \in Client /\ children[k].socket \in Nat
           /\ \A d \in Client \ {children[k].client} : inbox'[d] = inbox[d]
           /\ \/ inbox' = inbox
              \/ ProcessFilename(k) /\ children'[k].state # "PROCESS_FILENAME"
              \/ SendData(k) /\ children[k].state = "SEND_DATA"
  <1>1. /\ children[k] \in ChildType /\ k \in DOMAIN children
        /\ inbox \in [Client -> Seq(ReplyType(Forked))]
    BY ChildrenAreTyped, TypeParts DEF Forked
  <1>2. children[k].client \in Client /\ children[k].socket \in Nat
    BY <1>1 DEF ChildType
  <1>3. UNCHANGED <<rcopyVars, requests>>
    BY DEF ChildNext, ProcessFilename, FilenameOkAckReceived, FilenameOkAckTimeout, SendData
  <1> DEFINE Effect == /\ faults' \in {faults, faults + 1}
                       /\ \A d \in Client \ {children[k].client} : inbox'[d] = inbox[d]
  <1>4. ASSUME NEW m, SendToClient(k, m)
        PROVE  Effect
    <2> DEFINE c == children[k].client
    <2>1. PICK arriving :
              /\ \/ arriving = <<m>> /\ faults' = faults
                 \/ /\ faults' = faults + 1
                    /\ arriving = << >> \/ \E f \in FlippedReply(m) : arriving = <<f>>
              /\ inbox' = IF socket[c] = children[k].socket /\ clientState[c] # "DONE"
                          THEN [inbox EXCEPT ![c] = @ \o arriving] ELSE inbox
      BY <1>4, ReplySent
    <2>2. faults' \in {faults, faults + 1}
      BY <2>1
    <2>3. \A d \in Client \ {c} : inbox'[d] = inbox[d]
      BY <1>1, <2>1
    <2> QED BY <2>2, <2>3
  <1>5. UNCHANGED <<inbox, pathVars>> => Effect
    BY DEF pathVars
  <1> DEFINE Moved == /\ Forked' = Forked
                      /\ \A j \in Forked \ {k} : children'[j] = children[j]
                      /\ children'[k].client = children[k].client
                      /\ children'[k].socket = children[k].socket
                      /\ children'[k].state # "PROCESS_FILENAME"
                      /\ Acked(k)' => Acked(k)
  <1> HIDE DEF Effect
  <1>6. ASSUME ProcessFilename(k)
        PROVE  Effect /\ Moved
    <2>1. Effect
      BY <1>4, <1>6 DEF ProcessFilename
    <2>2. /\ children[k].state = "PROCESS_FILENAME"
          /\ \E s \in {"WAIT_ON_FILENAME_OK_ACK", "DONE"} :
                 children' = [children EXCEPT ![k].state = s]
      BY <1>6 DEF ProcessFilename
    <2>3. Moved
      BY <1>1, <2>2 DEF Acked, Forked, ChildType
    <2> QED BY <2>1, <2>3
  <1>7. ASSUME FilenameOkAckReceived(k) \/ FilenameOkAckTimeout(k)
        PROVE  Effect /\ Moved
    <2>1. inbox' = inbox /\ Effect
      BY <1>5, <1>7 DEF FilenameOkAckReceived, FilenameOkAckTimeout
    <2>2. \/ children' = [children EXCEPT ![k].state = "DONE", ![k].arrived = FALSE]
          \/ /\ children[k].arrived
             /\ children' = [children EXCEPT ![k].state = "SEND_DATA", ![k].arrived = FALSE]
      BY <1>7 DEF FilenameOkAckReceived, FilenameOkAckTimeout
    <2>3. Moved
      BY <1>1, <2>2 DEF Acked, Forked, ChildType
    <2> QED BY <2>1, <2>3
  <1>8. ASSUME SendData(k)
        PROVE  Effect /\ Moved
    <2>1. Effect
      BY <1>4, <1>8 DEF SendData
    <2>2. /\ children[k].state = "SEND_DATA"
          /\ children' = [children EXCEPT ![k].sent = @ + 1]
      BY <1>8 DEF SendData
    <2>3. Moved
      BY <1>1, <2>2 DEF Acked, Forked, ChildType
    <2> QED BY <2>1, <2>3
  <1>9. /\ Effect /\ Moved
        /\ \/ inbox' = inbox
           \/ ProcessFilename(k) /\ children'[k].state # "PROCESS_FILENAME"
           \/ SendData(k) /\ children[k].state = "SEND_DATA"
    <2>1. SendData(k) => children[k].state = "SEND_DATA"
      BY DEF SendData
    <2>2. FilenameOkAckReceived(k) \/ FilenameOkAckTimeout(k) => inbox' = inbox
      BY DEF FilenameOkAckReceived, FilenameOkAckTimeout
    <2> HIDE DEF Moved
    <2>3. Effect /\ Moved
      BY <1>6, <1>7, <1>8 DEF ChildNext
    <2>4. children'[k].state # "PROCESS_FILENAME"
      BY <2>3 DEF Moved
    <2> QED BY <2>1, <2>2, <2>3, <2>4 DEF ChildNext
  <1>10. ChildrenKept /\ \A j \in Forked : Acked(j)' => Acked(j)
    BY <1>9 DEF ChildrenKept, Acked
  <1> QED BY <1>2, <1>3, <1>9, <1>10 DEF Effect

(* Sequences of no and of one member.                                      *)
LEMMA ShortSeq ==
    ASSUME NEW S
    PROVE  /\ << >> \in Seq(S)
           /\ \A x \in S : /\ <<x>> \in Seq(S) /\ <<x>> # << >>
                           /\ Head(<<x>>) = x /\ Tail(<<x>>) = << >>
  OBVIOUS

(* All that can arrive of a reply of child k.                              *)
LEMMA RepliesOfChild ==
    ASSUME NEW k \in Forked, NEW flag \in {"FNAME_STATUS", "DATA"}, NEW status \in Statuses,
           NEW x, x = ReplyPDU(flag, status, k) \/ x \in FlippedReply(ReplyPDU(flag, status, k))
    PROVE  /\ x \in ReplyType(Forked) /\ x.flag = flag /\ x.from = k
           /\ x.intact => x.status = status
  <1>1. CASE x = ReplyPDU(flag, status, k)
    BY <1>1 DEF ReplyPDU, ReplyType
  <1>2. CASE x \in FlippedReply(ReplyPDU(flag, status, k))
    <2>1. PICK s \in Statuses :
              x = [ReplyPDU(flag, status, k) EXCEPT !.intact = FALSE, !.status = s]
      BY <1>2 DEF FlippedReply
    <2>2. x = [flag |-> flag, status |-> s, from |-> k, intact |-> FALSE]
      BY <2>1 DEF ReplyPDU
    <2> QED BY <2>2 DEF ReplyType
  <1> QED BY <1>1, <1>2

(* A reply of child k finds the rcopy that expects it, or none.            *)
LEMMA ReplyIsExpected ==
    ASSUME TypeInv, duplicates' = 0, NEW k \in Forked, ChildNext(k), RequestsInv, ChildInv(k),
           NEW c \in Client, c = children[k].client, ClientInv(c), inbox'[c] # inbox[c]
    PROVE  ClientInv(c)'
  <1>1. /\ TypeOK /\ clientState \in [Client -> SetupStates]
        /\ socket \in [Client -> Nat] /\ peer \in [Client -> {Main} \cup Forked]
        /\ inbox \in [Client -> Seq(ReplyType(Forked))]
        /\ nameTries \in [Client -> 0 .. MAX_TRIES]
    BY TypeParts DEF TypeInv
  <1>2. /\ ChildrenKept /\ Forked' = Forked /\ faults' \in {faults, faults + 1}
        /\ UNCHANGED <<rcopyVars, requests>>
        /\ \A j \in Forked : Acked(j)' => Acked(j)
        /\ \/ ProcessFilename(k) /\ children'[k].state # "PROCESS_FILENAME"
           \/ SendData(k) /\ children[k].state = "SEND_DATA"
    BY <1>1, ChildMoves
  <1>3. /\ Budget \in Int /\ Budget' \in Int /\ Budget <= Budget' /\ MAX_TRIES \in Nat
        /\ faults' = faults + 1 => Budget' = Budget + MAX_TRIES
    BY <1>1, <1>2, BudgetGrows
  <1>4. socket[c] \in Nat /\ nameTries[c] \in Nat
    BY <1>1, <1>3
  <1>5. /\ toFile[c] = "created" => c \in Found
        /\ firstPacket[c] \in {"none", "DATA"}
        /\ socket[c] <= Budget + MAX_TRIES
        /\ inbox[c] \in Seq(Expected(c))
    BY DEF ClientInv
  <1>6. /\ Expected(c) \subseteq Expected(c)'
        /\ \A j : IsPeer(j, c) => IsPeer(j, c)'
    BY <1>2, ExpectedKept DEF rcopyVars
  <1>7. \A j : IsPeer(j, c) /\ children[k].socket = socket[c] => j = k
    BY DEF IsPeer, RequestsInv, SameAsk
  <1>8. ASSUME NEW m, SendToClient(k, m)
        PROVE  /\ children[k].socket = socket[c] /\ clientState[c] # "DONE"
               /\ \E arriving :
                    /\ inbox'[c] = inbox[c] \o arriving
                    /\ \/ arriving = <<m>> /\ faults' = faults
                       \/ /\ faults' = faults + 1
                          /\ arriving = << >> \/ \E f \in FlippedReply(m) : arriving = <<f>>
    <2>1. PICK arriving :
              /\ \/ arriving = <<m>> /\ faults' = faults
                 \/ /\ faults' = faults + 1
                    /\ arriving = << >> \/ \E f \in FlippedReply(m) : arriving = <<f>>
              /\ inbox' = IF /\ socket[children[k].client] = children[k].socket
                             /\ clientState[children[k].client] # "DONE"
                          THEN [inbox EXCEPT ![children[k].client] = @ \o arriving] ELSE inbox
      BY <1>1, <1>8, ReplySent
    <2>2. socket[c] = children[k].socket /\ clientState[c] # "DONE"
      BY <2>1
    <2>3. inbox'[c] = inbox[c] \o arriving
      BY <1>1, <2>1, <2>2
    <2> QED BY <2>1, <2>2, <2>3
  <1>9. IsPeer(k, c)' <=> children'[k].state # "PROCESS_FILENAME" /\ children[k].socket = socket[c]
    BY <1>2 DEF IsPeer, ChildrenKept, rcopyVars
  <1>10. CASE SendData(k) /\ children[k].state = "SEND_DATA"
    <2> DEFINE m == ReplyPDU("DATA", "OTHER", k)
    <2>1. Acked(k) /\ children[k].socket = socket[c] /\ clientState[c] \notin Asking
      BY <1>10 DEF Acked, ChildInv
    <2>2. IsPeer(k, c)'
      BY <1>6, <1>10, <2>1 DEF IsPeer
    <2>3. SendToClient(k, m)
      BY <1>10 DEF SendData
    <2>4. \A x \in {m} \cup FlippedReply(m) : x \in Expected(c)'
      <3>1. \A x \in {m} \cup FlippedReply(m) :
                x \in ReplyType(Forked) /\ x.flag = "DATA" /\ x.from = k
        BY RepliesOfChild DEF Statuses
      <3> HIDE DEF m
      <3>2. clientState'[c] \notin Asking /\ IsPeer(k, c)' /\ Forked' = Forked
        BY <1>2, <2>1, <2>2 DEF rcopyVars
      <3> QED BY <3>1, <3>2 DEF Expected
    <2> HIDE DEF m
    <2>5. PICK arriving : /\ inbox'[c] = inbox[c] \o arriving
                          /\ arriving \in Seq(Expected(c)')
      <3>1. PICK arriving :
                /\ inbox'[c] = inbox[c] \o arriving
                /\ \/ arriving = <<m>> \/ arriving = << >>
                   \/ \E f \in FlippedReply(m) : arriving = <<f>>
        BY <1>8, <2>3
      <3>2. arriving \in Seq(Expected(c)')
        BY <2>4, <3>1, ShortSeq
      <3> QED BY <3>1, <3>2
    <2>6. inbox'[c] \in Seq(Expected(c)')
      BY <1>5, <1>6, <2>5, SeqMonotonic, ConcatProperties
    <2>7. clientState[c] \in Chosen
      BY <1>1, <1>8, <2>1, <2>3 DEF SetupStates, Asking, Chosen
    <2>8. IsPeer(peer[c], c) /\ peer[c] = k
      BY <1>7, <2>1, <2>7 DEF ClientInv
    <2>9. ~(clientState[c] = "FILENAME_OK" /\ okTries[c] = 0)
      BY <2>1, <2>8 DEF ClientInv
    <2>10. IsPeer(peer[c], c)'
      BY <1>2, <2>2, <2>8 DEF rcopyVars, IsPeer
    <2> QED BY <1>2, <1>3, <1>4, <1>5, <2>6, <2>7, <2>9, <2>10
            DEF ClientInv, rcopyVars, Asking, Chosen
  <1>11. CASE ProcessFilename(k) /\ children'[k].state # "PROCESS_FILENAME"
    <2>1. children[k].state = "PROCESS_FILENAME"
      BY <1>11 DEF ProcessFilename
    <2>2. PICK status \in Statuses :
              /\ status = IF c \in Found THEN "FNAME_OK" ELSE "FNAME_BAD"
              /\ SendToClient(k, ReplyPDU("FNAME_STATUS", status, k))
      BY <1>11 DEF ProcessFilename, Statuses
    <2> DEFINE m == ReplyPDU("FNAME_STATUS", status, k)
    <2>3. PICK arriving :
              /\ inbox'[c] = inbox[c] \o arriving
              /\ \/ arriving = <<m>> /\ faults' = faults
                 \/ /\ faults' = faults + 1
                    /\ arriving = << >> \/ \E f \in FlippedReply(m) : arriving = <<f>>
      BY <1>8, <2>2
    <2>4. children[k].socket = socket[c] /\ clientState[c] # "DONE"
      BY <1>8, <2>2
    <2>5. \A j : ~IsPeer(j, c)
      BY <1>7, <2>1, <2>4 DEF IsPeer
    <2>6. inbox[c] = << >>
      <3> SUFFICES ASSUME inbox[c] # << >>
                   PROVE  FALSE
        OBVIOUS
      <3>1. Head(inbox[c]) \in Expected(c)
        BY <1>5, HeadTailProperties
      <3> QED BY <2>5, <3>1 DEF Expected
    <2>7. clientState[c] \in Asking
      BY <1>1, <2>4, <2>5 DEF ClientInv, SetupStates, Asking, Chosen
    <2>8. IsPeer(k, c)'
      BY <1>9, <1>11, <2>4
    <2>9. \A x \in {m} \cup FlippedReply(m) : x \in Expected(c)'
      <3>1. \A x \in {m} \cup FlippedReply(m) :
                /\ x \in ReplyType(Forked) /\ x.flag = "FNAME_STATUS" /\ x.from = k
                /\ x.intact => x.status = status
        BY RepliesOfChild
      <3> HIDE DEF m
      <3>2. clientState'[c] \notin Chosen /\ IsPeer(k, c)' /\ Forked' = Forked
        BY <1>2, <2>7, <2>8 DEF rcopyVars, Asking, Chosen
      <3> QED BY <2>2, <3>1, <3>2 DEF Expected
    <2>10. m.intact
      BY DEF ReplyPDU
    <2> HIDE DEF m
    <2>11. PICK x \in Expected(c)' :
               \/ inbox'[c] = << >>
               \/ inbox'[c] = <<x>> /\ (x.intact \/ faults' = faults + 1)
      <3>1. inbox'[c] = arriving
        <4>1. arriving \in Seq(Expected(c)')
          BY <2>3, <2>9, ShortSeq
        <4> QED BY <2>3, <2>6, <4>1, ConcatEmptySeq
      <3> QED BY <2>3, <2>9, <2>10, <3>1
    <2>12. inbox'[c] \in Seq(Expected(c)')
      BY <2>11, ShortSeq
    <2>13. inbox'[c] = << >> \/ Tail(inbox'[c]) = << >>
      BY <2>11, ShortSeq
    <2>14. AskingInv(c)
      BY <2>7 DEF ClientInv
    <2>15. socket[c] + (IF clientState[c] = "SETUP_CONNECTION" THEN 1 ELSE 0)
               <= Budget + nameTries[c] + 1
      BY <1>3, <1>4, <2>6, <2>14 DEF AskingInv, TriesUsed
    <2>16. inbox'[c] # << >> /\ ~Head(inbox'[c]).intact => Budget' = Budget + MAX_TRIES
      BY <1>3, <2>11, ShortSeq
    <2>17. TriesUsed(c)' <= Budget' + nameTries'[c] + 1
      <3>1. /\ socket'[c] = socket[c] /\ nameTries'[c] = nameTries[c]
            /\ clientState'[c] = clientState[c]
        BY <1>2 DEF rcopyVars
      <3> DEFINE used == socket[c] + (IF clientState[c] = "SETUP_CONNECTION" THEN 1 ELSE 0)
                 bad == inbox'[c] # << >> /\ ~Head(inbox'[c]).intact
      <3>2. TriesUsed(c)' = used + (IF bad THEN MAX_TRIES ELSE 0)
        BY <3>1 DEF TriesUsed
      <3>3. used \in Int /\ used <= Budget + nameTries[c] + 1
        BY <1>4, <2>15
      <3>4. bad => Budget' = Budget + MAX_TRIES
        BY <2>16
      <3> HIDE DEF used, bad
      <3>5. CASE bad
        <4>1. TriesUsed(c)' = used + MAX_TRIES
          BY <3>2, <3>5
        <4> QED BY <1>3, <1>4, <3>1, <3>3, <3>4, <3>5, <4>1
      <3>6. CASE ~bad
        <4>1. TriesUsed(c)' = used
          BY <3>2, <3>3, <3>6
        <4> QED BY <1>3, <1>4, <3>1, <3>3, <4>1
      <3> QED BY <3>5, <3>6
    <2>18. AskingInv(c)'
      BY <1>2, <2>13, <2>14, <2>17 DEF AskingInv, rcopyVars
    <2> QED BY <1>2, <1>3, <1>4, <1>5, <2>7, <2>12, <2>18 DEF ClientInv, rcopyVars, Asking, Chosen
  <1> QED BY <1>2, <1>10, <1>11

(* The steps of a child keep the invariant.                                *)
LEMMA ChildKeepsSession ==
    ASSUME SessionInv, NEW k \in Forked, ChildNext(k)
    PROVE  SessionInv'
  <1>1. TypeInv' /\ TypeInv /\ TypeOK
    BY ServerKeepsTypes DEF SessionInv, TypeInv
  <1>2. SUFFICES ASSUME duplicates' = 0
                 PROVE  /\ RequestsInv'
                        /\ \A j \in Forked' : ChildInv(j)'
                        /\ \A d \in Client : ClientInv(d)'
    BY <1>1 DEF SessionInv
  <1>3. /\ RequestsInv
        /\ \A j \in Forked : ChildInv(j)
        /\ \A d \in Client : ClientInv(d)
    BY <1>1, <1>2, DuplicatesGrow DEF SessionInv, Next
  <1>4. /\ ChildrenKept /\ Forked' = Forked /\ faults' \in {faults, faults + 1}
        /\ UNCHANGED <<rcopyVars, requests>>
        /\ \A j \in Forked : Acked(j)' => Acked(j)
        /\ \A d \in Client \ {children[k].client} : inbox'[d] = inbox[d]
    BY <1>1, <1>2, ChildMoves
  <1>5. ASSUME NEW d \in Client
        PROVE  ClientInv(d)'
    <2>1. CASE inbox'[d] = inbox[d]
      <3>1. ClientInv(d) /\ ClientStays(d)
        BY <1>3, <1>4, <2>1 DEF ClientStays, rcopyVars
      <3>2. ASSUME clientState[d] = "FILENAME_OK", ~Acked(peer[d])
            PROVE  ~Acked(peer[d])'
        <4>1. peer[d] \in Forked /\ peer'[d] = peer[d]
          BY <3>1, <3>2 DEF ClientInv, Chosen, IsPeer, ClientStays
        <4> QED BY <1>4, <3>2, <4>1 DEF Acked
      <3> QED BY <1>1, <1>4, <3>1, <3>2, ClientFrame
    <2>2. CASE inbox'[d] # inbox[d]
      BY <1>1, <1>2, <1>3, <1>4, <2>2, ReplyIsExpected
    <2> QED BY <2>1, <2>2
  <1>6. ASSUME NEW j \in Forked
        PROVE  ChildInv(j)'
    <2>1. ChildInv(j) /\ (Acked(j)' => Acked(j))
      BY <1>3, <1>4
    <2>2. children'[j].client = children[j].client /\ children'[j].socket = children[j].socket
      BY <1>4 DEF ChildrenKept
    <2> QED BY <1>4, <2>1, <2>2 DEF ChildInv, IsUsed, rcopyVars
  <1>7. RequestsInv'
    BY <1>3, <1>4 DEF RequestsInv, SameAsk, IsUsed, ChildrenKept, rcopyVars
  <1> QED BY <1>4, <1>5, <1>6, <1>7

(* SessionInv is inductive.                                                *)
LEMMA SessionInduction ==
    /\ Init => SessionInv
    /\ SessionInv /\ [Next]_vars => SessionInv'
  <1>1. Init => SessionInv
    <2> SUFFICES ASSUME Init
                 PROVE  SessionInv
      OBVIOUS
    <2>1. TypeInv
      BY SessionAssumption DEF Init, TypeInv, TypeOK, TriesLeft, SetupStates, Forked
    <2>2. Forked = {} /\ DOMAIN requests = {}
      BY DEF Init, Forked
    <2>3. \A c \in Client : << >> \in Seq(Expected(c))
      OBVIOUS
    <2>4. MAX_TRIES \in Nat /\ Budget = 0
      BY SessionAssumption DEF Init, Budget
    <2>5. ASSUME NEW c \in Client
          PROVE  ClientInv(c)
      <3>1. /\ clientState[c] = "SETUP_CONNECTION" /\ socket[c] = 0 /\ nameTries[c] = 0
            /\ inbox[c] = << >> /\ toFile[c] = "untouched" /\ firstPacket[c] = "none"
        BY DEF Init
      <3>2. TriesUsed(c) = 1
        BY <3>1 DEF TriesUsed
      <3>3. AskingInv(c)
        BY <2>4, <3>1, <3>2 DEF AskingInv
      <3> QED BY <2>3, <2>4, <3>1, <3>3 DEF ClientInv, Chosen
    <2> QED BY <2>1, <2>2, <2>5 DEF SessionInv, RequestsInv
  <1>2. SessionInv /\ UNCHANGED vars => SessionInv'
    <2> SUFFICES ASSUME SessionInv, UNCHANGED vars
                 PROVE  SessionInv'
      OBVIOUS
    <2>1. TypeInv'
      BY ServerKeepsTypes DEF SessionInv
    <2>2. /\ UNCHANGED <<clientState, socket, peer, inbox, nameTries, okTries, toFile,
                          firstPacket, requests, children, faults, duplicates>>
          /\ Forked' = Forked
      BY DEF vars, rcopyVars, pathVars, Forked
    <2>3. (duplicates = 0 /\ RequestsInv /\ \A k \in Forked : ChildInv(k)) =>
              RequestsInv' /\ \A k \in Forked' : ChildInv(k)'
      BY <2>2 DEF RequestsInv, ChildInv, Acked, IsUsed
    <2>4. ASSUME NEW c \in Client, ClientInv(c)
          PROVE  ClientInv(c)'
      <3>1. ClientStays(c) /\ ChildrenKept
        BY <2>2 DEF ClientStays, ChildrenKept
      <3>2. ~Acked(peer[c]) => ~Acked(peer[c])'
        BY <2>2 DEF Acked
      <3> QED BY <2>2, <2>4, <3>1, <3>2, ClientFrame DEF SessionInv, TypeInv
    <2> QED BY <2>1, <2>2, <2>3, <2>4 DEF SessionInv
  <1> QED BY <1>1, <1>2, ClientKeepsSession, MainKeepsSession, ChildKeepsSession DEF Next

(* So it holds in every state.                                             *)
LEMMA SessionInvariant == Spec => []SessionInv
  BY SessionInduction, PTL DEF Spec

--------------------------------------------------------------------------------
(***************************************************************************)
(* As long as the path doubles nothing, and whatever it loses or flips:    *)
(* however often an rcopy asks, one child sends it the file, to the socket *)
(* that is open (filenameOk() of the server looks at no field of an ack).  *)
(***************************************************************************)
THEOREM OneChildServesEach == Spec => [](duplicates = 0 => OneChildServes)
  <1>1. SessionInv /\ duplicates = 0 => OneChildServes
    <2> SUFFICES ASSUME SessionInv, duplicates = 0,
                        NEW c \in Client, NEW k \in Forked, ServesClient(k, c)
                 PROVE  /\ children[k].socket = socket[c]
                        /\ \A j \in Forked : ServesClient(j, c) => j = k
      BY DEF OneChildServes
    <2>1. \A j \in Forked : ServesClient(j, c) =>
              children[j].client = c /\ children[j].socket = socket[c]
      BY DEF SessionInv, ChildInv, Acked, ServesClient
    <2> QED BY <2>1 DEF SessionInv, RequestsInv, SameAsk
  <1> QED BY <1>1, SessionInvariant, PTL

(* Then an rcopy that sends its first ack, and its peer, are where a       *)
(* FileTransfer starts (getFilenameStatus() goes on to filenameOk()).      *)
THEOREM SessionHandsOver == Spec => [](duplicates = 0 => StartsAsFileTransfer)
  <1>1. SessionInv /\ duplicates = 0 => StartsAsFileTransfer
    <2> SUFFICES ASSUME SessionInv, duplicates = 0,
                        NEW c \in Client, clientState[c] = "FILENAME_OK", okTries[c] = 0
                 PROVE  /\ IsPeer(peer[c], c) /\ ~Acked(peer[c]) /\ inbox[c] = << >>
                        /\ children[peer[c]].state \in {"WAIT_ON_FILENAME_OK_ACK", "DONE"}
      BY DEF StartsAsFileTransfer, IsPeer, Acked
    <2>1. IsPeer(peer[c], c) /\ ~Acked(peer[c]) /\ inbox[c] = << >>
      BY DEF SessionInv, ClientInv, Chosen
    <2>2. children[peer[c]].state \in ChildStates
      BY <2>1, ChildrenAreTyped DEF SessionInv, TypeInv, IsPeer, ChildType
    <2> QED BY <2>1, <2>2 DEF ChildStates, IsPeer, Acked
  <1> QED BY <1>1, SessionInvariant, PTL

(* And no to-file is truncated for a file the server cannot open, whatever *)
(* the path makes of the refusal (getFilenameStatus()).                    *)
THEOREM MissingFileNotCopied == Spec => [](duplicates = 0 => NoCopyOfMissingFile)
  <1>1. SessionInv /\ duplicates = 0 => NoCopyOfMissingFile
    BY DEF SessionInv, ClientInv, NoCopyOfMissingFile
  <1> QED BY <1>1, SessionInvariant, PTL

(* And receiveData() never takes a late FNAME_STATUS for the first packet. *)
THEOREM DataComesFirst == Spec => [](duplicates = 0 => FirstPacketIsData)
  <1>1. SessionInv /\ duplicates = 0 => FirstPacketIsData
    BY DEF SessionInv, ClientInv, FirstPacketIsData
  <1> QED BY <1>1, SessionInvariant, PTL

(* And rcopy opens no more sockets than its timeouts and the flipped       *)
(* replies account for (setupConnection()).                                *)
THEOREM SocketsAreBounded == Spec => [](duplicates = 0 => SocketsBounded)
  <1>1. SessionInv /\ duplicates = 0 => SocketsBounded
    <2> SUFFICES ASSUME SessionInv, duplicates = 0
                 PROVE  SocketsBounded
      OBVIOUS
    <2>1. MAX_TRIES \in Nat /\ faults \in Nat
      BY SessionAssumption DEF SessionInv, TypeInv, TypeOK
    <2>2. MAX_TRIES * (faults + 1) = Budget + MAX_TRIES
      BY <2>1 DEF Budget
    <2> QED BY <2>2 DEF SessionInv, ClientInv, SocketsBounded
  <1> QED BY <1>1, SessionInvariant, PTL

--------------------------------------------------------------------------------
(***************************************************************************)
(* The refinement of FileRequest.  What it needs beyond SessionInv: rcopy  *)
(* has created its to-file just when it has chosen its child, which is its *)
(* peer from then on; only a child that was chosen can have been reached   *)
(* by an ack; and a packet of the file comes from a child that serves.     *)
(***************************************************************************)
Serves(k) == children[k].state = "SEND_DATA"

SentReply == {m \in ReplyType(Forked) : m.flag = "DATA" => Serves(m.from)}

ChosenBy(k, c) ==
    toFile[c] = "created" /\ peer[c] = k /\ k \in Forked /\ children[k].client = c

ClientChoice(c) ==
    /\ clientState[c] \in Asking => toFile[c] = "untouched"
    /\ clientState[c] \in Chosen => toFile[c] = "created"
    /\ toFile[c] = "created" => ChosenBy(peer[c], c)
    /\ inbox[c] \in Seq(SentReply)

ChoiceInv ==
    /\ \A c \in Client : ClientChoice(c)
    /\ \A k \in Forked : Acked(k) => ChosenBy(k, children[k].client)

NothingDoubled == SessionInv /\ duplicates = 0

(* SessionInv where nothing was doubled, unfolded.                         *)
LEMMA SessionParts ==
    ASSUME NothingDoubled
    PROVE  /\ TypeInv /\ TypeOK /\ RequestsInv
           /\ \A k \in Forked : ChildInv(k)
           /\ \A c \in Client : ClientInv(c)
  BY DEF NothingDoubled, SessionInv, TypeInv

(* A child that serves goes on serving, so what it sent may stay queued.   *)
LEMMA SentReplyKept ==
    ASSUME \A k \in Forked : k \in Forked' /\ (Serves(k) => Serves(k)')
    PROVE  SentReply \subseteq SentReply'
  <1>1. ReplyType(Forked) \subseteq ReplyType(Forked')
    BY DEF ReplyType
  <1>2. \A m \in ReplyType(Forked) : m.from \in Forked
    BY DEF ReplyType
  <1> QED BY <1>1, <1>2 DEF SentReply

(* What a step of rcopy c means for its choice: it keeps the child it has  *)
(* chosen, chooses one of its own for a file that exists, or takes its     *)
(* first packet from the one it has chosen.                                *)
ChoiceKept(c) ==
    /\ toFile'[c] = toFile[c]
    /\ toFile[c] = "created" => peer'[c] = peer[c]

LEMMA ClientChoiceMoves ==
    ASSUME NothingDoubled, NothingDoubled', NEW c \in Client, ClientNext(c), ClientChoice(c)
    PROVE  /\ clientState[c] # "DONE"
           /\ clientState'[c] \in Asking => toFile'[c] = "untouched"
           /\ clientState'[c] \in Chosen => toFile'[c] = "created"
           /\ inbox'[c] \in Seq(SentReply)
           /\ \/ ChoiceKept(c) /\ firstPacket'[c] = firstPacket[c]
              \/ /\ clientState'[c] # "DONE" /\ firstPacket'[c] = firstPacket[c]
                 /\ c \in Found /\ toFile[c] = "untouched" /\ toFile'[c] = "created"
                 /\ peer'[c] \in Forked /\ children[peer'[c]].client = c
              \/ /\ clientState'[c] # "DONE" /\ ChoiceKept(c)
                 /\ firstPacket[c] = "none" /\ firstPacket'[c] = "DATA"
                 /\ toFile[c] = "created" /\ Serves(peer[c])
  <1>1. /\ clientState \in [Client -> SetupStates]
        /\ socket \in [Client -> Nat] /\ peer \in [Client -> {Main} \cup Forked]
        /\ inbox \in [Client -> Seq(ReplyType(Forked))]
        /\ toFile \in [Client -> {"untouched", "created"}]
        /\ firstPacket \in [Client -> {"none", "FNAME_STATUS", "DATA"}]
    BY SessionParts, TypeParts
  <1>2. ClientInv(c) /\ RequestsInv /\ inbox[c] \in Seq(SentReply)
    BY SessionParts DEF ClientChoice
  <1>3. << >> \in Seq(SentReply)
    BY ShortSeq
  <1>4. CASE SetupConnection(c)
    <2>1. /\ clientState[c] = "SETUP_CONNECTION" /\ clientState'[c] = "SEND_FILENAME"
          /\ inbox'[c] = << >> /\ toFile'[c] = toFile[c] /\ firstPacket'[c] = firstPacket[c]
      BY <1>1, <1>4 DEF SetupConnection, Goto, EmptyInbox
    <2> QED BY <1>3, <2>1 DEF ClientChoice, ChoiceKept, Asking, Chosen
  <1>5. CASE SendFilename(c)
    <2>1. /\ clientState[c] = "SEND_FILENAME" /\ clientState'[c] = "SEND_FILENAME_POLL"
          /\ UNCHANGED <<peer, toFile, firstPacket, inbox>>
      BY <1>1, <1>5 DEF SendFilename, Goto
    <2> QED BY <1>2, <2>1 DEF ClientChoice, ChoiceKept, Asking, Chosen
  <1>6. CASE FilenameTimeout(c)
    <2>1. /\ clientState[c] = "SEND_FILENAME_POLL"
          /\ \/ clientState'[c] = "DONE" /\ inbox'[c] = << >>
             \/ clientState'[c] = "SETUP_CONNECTION" /\ inbox'[c] = inbox[c]
          /\ UNCHANGED <<peer, toFile, firstPacket>>
      BY <1>1, <1>6 DEF FilenameTimeout, Goto, Exit, EmptyInbox
    <2> QED BY <1>2, <1>3, <2>1 DEF ClientChoice, ChoiceKept, Asking, Chosen
  <1>7. CASE GetFilenameStatus(c)
    <2> DEFINE m == Head(inbox[c])
    <2>1. /\ clientState[c] = "SEND_FILENAME_POLL" /\ inbox[c] # << >>
          /\ peer'[c] = m.from
          /\ \/ /\ AcceptsStatus(m) /\ clientState'[c] = "FILENAME_OK"
                /\ toFile'[c] = "created" /\ inbox'[c] = Tail(inbox[c])
             \/ clientState'[c] = "DONE" /\ toFile'[c] = toFile[c] /\ inbox'[c] = << >>
             \/ /\ toFile'[c] = toFile[c] /\ clientState'[c] = "SETUP_CONNECTION"
                /\ inbox'[c] = Tail(inbox[c])
          /\ firstPacket'[c] = firstPacket[c]
      BY <1>1, <1>7 DEF GetFilenameStatus, Goto, Exit, EmptyInbox, TakeFromInbox
    <2>2. m \in Expected(c)
      BY <1>2, <2>1, HeadTailProperties DEF ClientInv
    <2>3. inbox'[c] = << >> /\ toFile[c] = "untouched"
      BY <1>2, <2>1 DEF ClientInv, AskingInv, ClientChoice, Asking
    <2>4. m.from \in Forked /\ children[m.from].client = c
      BY <2>2 DEF Expected, IsPeer
    <2>5. AcceptsStatus(m) => c \in Found
      BY <2>1, <2>2 DEF Expected, AcceptsStatus, Asking
    <2> HIDE DEF m
    <2> QED BY <1>3, <2>1, <2>3, <2>4, <2>5 DEF ChoiceKept, Asking, Chosen
  <1>8. CASE SendFilenameOkAck(c)
    <2>1. /\ clientState[c] = "FILENAME_OK" /\ clientState'[c] = "FILENAME_OK_POLL"
          /\ UNCHANGED <<peer, toFile, firstPacket, inbox>>
      BY <1>1, <1>8 DEF SendFilenameOkAck, Goto
    <2> QED BY <1>2, <2>1 DEF ClientChoice, ChoiceKept, Asking, Chosen
  <1>9. CASE FilenameOkTimeout(c)
    <2>1. /\ clientState[c] = "FILENAME_OK_POLL"
          /\ \/ clientState'[c] = "DONE" /\ inbox'[c] = << >>
             \/ clientState'[c] = "FILENAME_OK" /\ inbox'[c] = inbox[c]
          /\ UNCHANGED <<peer, toFile, firstPacket>>
      BY <1>1, <1>9 DEF FilenameOkTimeout, Goto, Exit, EmptyInbox
    <2> QED BY <1>2, <1>3, <2>1 DEF ClientChoice, ChoiceKept, Asking, Chosen
  <1>10. CASE FirstPacketArrives(c)
    <2>1. /\ clientState[c] = "FILENAME_OK_POLL" /\ clientState'[c] = "RECV_DATA"
          /\ UNCHANGED <<peer, toFile, firstPacket, inbox>>
      BY <1>1, <1>10 DEF FirstPacketArrives, Goto
    <2> QED BY <1>2, <2>1 DEF ClientChoice, ChoiceKept, Asking, Chosen
  <1>11. CASE ReceiveData(c)
    <2> DEFINE m == Head(inbox[c])
    <2>1. /\ clientState[c] = "RECV_DATA" /\ inbox[c] # << >> /\ firstPacket[c] = "none"
          /\ peer'[c] = m.from /\ firstPacket'[c] \in {m.flag, "none"}
          /\ inbox'[c] = Tail(inbox[c])
          /\ UNCHANGED <<clientState, toFile>>
      BY <1>1, <1>11 DEF ReceiveData, TakeFromInbox
    <2>2. m \in Expected(c) /\ m \in SentReply /\ inbox'[c] \in Seq(SentReply)
      BY <1>2, <2>1, HeadTailProperties DEF ClientInv
    <2>3. IsPeer(m.from, c) /\ m.flag = "DATA" /\ Serves(m.from)
      BY <2>1, <2>2 DEF Expected, SentReply, Chosen
    <2>4. IsPeer(peer[c], c) /\ toFile[c] = "created"
      BY <1>2, <2>1 DEF ClientInv, ClientChoice, Chosen
    <2>5. m.from = peer[c]
      BY <1>2, <2>3, <2>4 DEF IsPeer, RequestsInv, SameAsk
    <2> HIDE DEF m
    <2> QED BY <2>1, <2>2, <2>3, <2>4, <2>5 DEF ChoiceKept, Asking, Chosen
  <1> QED BY <1>4, <1>5, <1>6, <1>7, <1>8, <1>9, <1>10, <1>11 DEF ClientNext

(* The invariant, for a step in which nobody's choice changes.             *)
LEMMA ChoiceFrame ==
    ASSUME TypeOK, ChoiceInv, NEW c \in Client,
           \A k \in Forked : /\ k \in Forked' /\ children'[k].client = children[k].client
                             /\ Serves(k) => Serves(k)',
           toFile'[c] = toFile[c], peer'[c] = peer[c], clientState'[c] = clientState[c],
           inbox'[c] \in Seq(SentReply) \/ inbox'[c] \in Seq(SentReply')
    PROVE  ClientChoice(c)'
  <1>1. inbox'[c] \in Seq(SentReply')
    BY SentReplyKept, SeqMonotonic
  <1>2. ClientChoice(c)
    BY DEF ChoiceInv
  <1> QED BY <1>1, <1>2 DEF ClientChoice, ChosenBy

(* The steps of an rcopy.                                                  *)
LEMMA ClientKeepsChoice ==
    ASSUME NothingDoubled, NothingDoubled', ChoiceInv, NEW c \in Client, ClientNext(c)
    PROVE  ChoiceInv'
  <1>1. /\ TypeOK /\ ClientInv(c) /\ duplicates' = 0
    BY SessionParts DEF NothingDoubled
  <1>2. /\ ChildrenKept /\ Forked' = Forked
        /\ \A d \in Client \ {c} : ClientStays(d)
        /\ \A k \in Forked :
               /\ children'[k].state = children[k].state
               /\ Acked(k)' => Acked(k) \/ (clientState[c] = "FILENAME_OK" /\ k = peer[c])
    BY <1>1, ClientMoves
  <1>3. \A k \in Forked : /\ k \in Forked' /\ children'[k].client = children[k].client
                          /\ Serves(k) => Serves(k)'
    BY <1>2 DEF ChildrenKept, Serves
  <1>4. ClientChoice(c)
    BY DEF ChoiceInv
  <1>5. /\ clientState'[c] \in Asking => toFile'[c] = "untouched"
        /\ clientState'[c] \in Chosen => toFile'[c] = "created"
        /\ inbox'[c] \in Seq(SentReply)
        /\ \/ ChoiceKept(c)
           \/ /\ toFile[c] = "untouched" /\ toFile'[c] = "created"
              /\ peer'[c] \in Forked /\ children[peer'[c]].client = c
    BY <1>4, ClientChoiceMoves
  <1>6. ClientChoice(c)'
    <2>1. inbox'[c] \in Seq(SentReply')
      BY <1>3, <1>5, SentReplyKept, SeqMonotonic
    <2>2. toFile'[c] = "created" => ChosenBy(peer[c], c)'
      BY <1>2, <1>3, <1>4, <1>5 DEF ClientChoice, ChoiceKept, ChosenBy
    <2> QED BY <1>5, <2>1, <2>2 DEF ClientChoice
  <1>7. ASSUME NEW d \in Client, d # c
        PROVE  ClientChoice(d)'
    <2>1. ClientStays(d) /\ ClientChoice(d)
      BY <1>2, <1>7 DEF ChoiceInv
    <2> QED BY <1>1, <1>3, <2>1, ChoiceFrame DEF ClientStays, ClientChoice
  <1>8. ASSUME NEW k \in Forked, NEW d, ChosenBy(k, d), d \in Client
        PROVE  ChosenBy(k, d)'
    <2>1. CASE d = c
      BY <1>3, <1>5, <1>8, <2>1 DEF ChosenBy, ChoiceKept
    <2>2. CASE d # c
      BY <1>2, <1>3, <1>8, <2>2 DEF ChosenBy, ClientStays
    <2> QED BY <2>1, <2>2
  <1>9. ASSUME NEW k \in Forked, Acked(k)'
        PROVE  ChosenBy(k, children[k].client)'
    <2>1. children[k].client \in Client /\ children'[k].client = children[k].client
      BY <1>1, <1>3, ChildrenAreTyped DEF ChildType
    <2>2. CASE Acked(k)
      BY <1>8, <2>1, <2>2 DEF ChoiceInv
    <2>3. CASE clientState[c] = "FILENAME_OK" /\ k = peer[c]
      <3>1. ChosenBy(k, c)
        BY <1>4, <2>3 DEF ClientChoice, Chosen
      <3>2. children[k].client = c
        BY <3>1 DEF ChosenBy
      <3> QED BY <1>8, <2>1, <3>1, <3>2
    <2> QED BY <1>2, <1>9, <2>2, <2>3
  <1> QED BY <1>2, <1>6, <1>7, <1>9 DEF ChoiceInv

(* The steps of the server, which touch no choice.                         *)
LEMMA ServerKeepsChoice ==
    ASSUME TypeOK, ChoiceInv, UNCHANGED rcopyVars,
           \A k \in Forked : /\ k \in Forked' /\ children'[k].client = children[k].client
                             /\ Serves(k) => Serves(k)'
                             /\ Acked(k)' => Acked(k),
           \A k \in Forked' \ Forked : ~Acked(k)',
           \A c \in Client : inbox'[c] \in Seq(SentReply) \/ inbox'[c] \in Seq(SentReply')
    PROVE  ChoiceInv'
  <1>1. ASSUME NEW c \in Client
        PROVE  ClientChoice(c)'
    BY ChoiceFrame DEF rcopyVars
  <1>2. ASSUME NEW k \in Forked, Acked(k)'
        PROVE  ChosenBy(k, children[k].client)'
    <2>1. ChosenBy(k, children[k].client) /\ children'[k].client = children[k].client
      BY <1>2 DEF ChoiceInv
    <2> QED BY <2>1 DEF ChosenBy, rcopyVars
  <1> QED BY <1>1, <1>2 DEF ChoiceInv

(* A fork.                                                                 *)
LEMMA ForkMoves ==
    ASSUME TypeOK, MainForks
    PROVE  /\ UNCHANGED <<rcopyVars, inbox>>
           /\ \/ children' = children
              \/ \E n : /\ n = Len(children) + 1 /\ n \notin Forked /\ Forked' = Forked \cup {n}
                        /\ children'[n].client \in Client /\ ~Acked(n)' /\ ~Serves(n)'
                        /\ \A k \in Forked : children'[k] = children[k]
  <1>1. /\ requests # << >> /\ requests \in Seq(RequestType) /\ children \in Seq(ChildType)
        /\ Forked = 1 .. Len(children) /\ Len(children) \in Nat
    BY TypeParts, ChildrenAreTyped DEF MainForks
  <1> DEFINE r == Head(requests)
             new == [state |-> "PROCESS_FILENAME", client |-> r.client,
                     socket |-> r.socket, arrived |-> FALSE, sent |-> 0]
  <1>2. r.client \in Client
    <2>1. r \in RequestType
      BY <1>1, HeadTailProperties
    <2> QED BY <2>1 DEF RequestType
  <1>3. children' = children \/ children' = Append(children, new)
    BY DEF MainForks
  <1>4. new.client \in Client /\ new.state = "PROCESS_FILENAME" /\ new.arrived = FALSE
    BY <1>2
  <1> HIDE DEF new
  <1>5. CASE children' = Append(children, new)
    <2>1. /\ DOMAIN children' = 1 .. Len(children) + 1
          /\ children'[Len(children) + 1] = new
          /\ \A k \in 1 .. Len(children) : children'[k] = children[k]
      BY <1>1, <1>5
    <2>2. /\ 1 .. Len(children) + 1 = (1 .. Len(children)) \cup {Len(children) + 1}
          /\ Len(children) + 1 \notin 1 .. Len(children)
      BY <1>1
    <2>3. PICK n :
          /\ n = Len(children) + 1 /\ n \notin Forked /\ Forked' = Forked \cup {n}
          /\ children'[n].client \in Client
          /\ children'[n].state = "PROCESS_FILENAME" /\ children'[n].arrived = FALSE
          /\ \A k \in Forked : children'[k] = children[k]
      BY <1>1, <1>4, <2>1, <2>2 DEF Forked
    <2>4. ~Acked(n)' /\ ~Serves(n)'
      BY <2>3 DEF Acked, Serves
    <2> QED BY <2>3, <2>4 DEF MainForks
  <1> QED BY <1>3, <1>5 DEF MainForks

(* What a child sends.                                                     *)
LEMMA ChildSends ==
    ASSUME TypeOK, duplicates' = 0, NEW k \in Forked, ChildNext(k), ChoiceInv,
           NEW c \in Client
    PROVE  inbox'[c] \in Seq(SentReply)
  <1>1. inbox \in [Client -> Seq(ReplyType(Forked))] /\ inbox[c] \in Seq(SentReply)
    BY TypeParts DEF ChoiceInv, ClientChoice
  <1>2. ASSUME NEW flag \in {"FNAME_STATUS", "DATA"}, NEW status \in Statuses,
               flag = "DATA" => Serves(k), SendToClient(k, ReplyPDU(flag, status, k))
        PROVE  inbox'[c] \in Seq(SentReply)
    <2> DEFINE m == ReplyPDU(flag, status, k)
    <2>1. \A x \in {m} \cup FlippedReply(m) : x \in SentReply
      BY <1>2, RepliesOfChild DEF SentReply
    <2> HIDE DEF m
    <2>2. PICK arriving :
              /\ \/ arriving = <<m>> \/ arriving = << >>
                 \/ \E f \in FlippedReply(m) : arriving = <<f>>
              /\ inbox' = IF /\ socket[children[k].client] = children[k].socket
                             /\ clientState[children[k].client] # "DONE"
                          THEN [inbox EXCEPT ![children[k].client] = @ \o arriving] ELSE inbox
      BY <1>2, ReplySent DEF m
    <2>3. arriving \in Seq(SentReply)
      BY <2>1, <2>2, ShortSeq
    <2>4. inbox'[c] = inbox[c] \/ inbox'[c] = inbox[c] \o arriving
      BY <1>1, <2>2
    <2> QED BY <1>1, <2>3, <2>4, ConcatProperties
  <1>3. CASE ProcessFilename(k)
    BY <1>2, <1>3 DEF ProcessFilename, Statuses
  <1>4. CASE SendData(k)
    BY <1>2, <1>4 DEF SendData, Statuses, Serves
  <1>5. CASE FilenameOkAckReceived(k) \/ FilenameOkAckTimeout(k)
    BY <1>1, <1>5 DEF FilenameOkAckReceived, FilenameOkAckTimeout
  <1> QED BY <1>3, <1>4, <1>5 DEF ChildNext

(* How the state of a child moves: it serves only once it was reached.     *)
LEMMA ChildStateMoves ==
    ASSUME TypeOK, NEW k \in Forked, ChildNext(k)
    PROVE  /\ Forked' = Forked /\ \A j \in Forked \ {k} : children'[j] = children[j]
           /\ children'[k].client = children[k].client
           /\ \/ Serves(k)' <=> Serves(k)
              \/ children[k].arrived /\ ~Serves(k) /\ Serves(k)'
  <1>1. children[k] \in ChildType /\ k \in DOMAIN children
    BY ChildrenAreTyped DEF Forked
  <1>2. CASE ProcessFilename(k)
    <2>1. /\ children[k].state = "PROCESS_FILENAME"
          /\ \E s \in {"WAIT_ON_FILENAME_OK_ACK", "DONE"} :
                 children' = [children EXCEPT ![k].state = s]
      BY <1>2 DEF ProcessFilename
    <2> QED BY <1>1, <2>1 DEF Serves, Forked, ChildType
  <1>3. CASE FilenameOkAckReceived(k)
    <2>1. /\ children[k].state = "WAIT_ON_FILENAME_OK_ACK" /\ children[k].arrived
          /\ children' = [children EXCEPT ![k].state = "SEND_DATA", ![k].arrived = FALSE]
      BY <1>3 DEF FilenameOkAckReceived
    <2> QED BY <1>1, <2>1 DEF Serves, Forked, ChildType
  <1>4. CASE FilenameOkAckTimeout(k)
    <2>1. /\ children[k].state = "WAIT_ON_FILENAME_OK_ACK"
          /\ children' = [children EXCEPT ![k].state = "DONE", ![k].arrived = FALSE]
      BY <1>4 DEF FilenameOkAckTimeout
    <2> QED BY <1>1, <2>1 DEF Serves, Forked, ChildType
  <1>5. CASE SendData(k)
    <2>1. children' = [children EXCEPT ![k].sent = @ + 1]
      BY <1>5 DEF SendData
    <2> QED BY <1>1, <2>1 DEF Serves, Forked, ChildType
  <1> QED BY <1>2, <1>3, <1>4, <1>5 DEF ChildNext

(* ChoiceInv is inductive as long as nothing is doubled.                   *)
LEMMA ChoiceInduction ==
    ASSUME NothingDoubled, NothingDoubled', ChoiceInv, [Next]_vars
    PROVE  ChoiceInv'
  <1>1. TypeOK /\ duplicates' = 0
    BY SessionParts DEF NothingDoubled
  <1>2. \A c \in Client : inbox[c] \in Seq(SentReply)
    BY DEF ChoiceInv, ClientChoice
  <1>3. CASE MainForks
    <2>1. CASE children' = children
      <3>1. \A k \in Forked : /\ k \in Forked' /\ children'[k].client = children[k].client
                              /\ Serves(k) => Serves(k)'
                              /\ Acked(k)' => Acked(k)
        BY <2>1 DEF Forked, Serves, Acked
      <3>2. Forked' = Forked /\ UNCHANGED <<rcopyVars, inbox>>
        BY <1>3, <2>1 DEF MainForks, Forked
      <3> QED BY <1>1, <1>2, <3>1, <3>2, ServerKeepsChoice
    <2>2. ASSUME NEW n, Forked' = Forked \cup {n}, ~Acked(n)',
                 \A k \in Forked : children'[k] = children[k]
          PROVE  ChoiceInv'
      <3>1. \A k \in Forked : /\ k \in Forked' /\ children'[k].client = children[k].client
                              /\ Serves(k) => Serves(k)'
                              /\ Acked(k)' => Acked(k)
        BY <2>2 DEF Serves, Acked
      <3>2. \A k \in Forked' \ Forked : ~Acked(k)'
        BY <2>2 DEF Acked
      <3>3. UNCHANGED <<rcopyVars, inbox>>
        BY <1>3 DEF MainForks
      <3> QED BY <1>1, <1>2, <3>1, <3>2, <3>3, ServerKeepsChoice
    <2> QED BY <1>1, <1>3, <2>1, <2>2, ForkMoves
  <1>4. ASSUME NEW k \in Forked, ChildNext(k) PROVE ChoiceInv'
    <2>1. /\ UNCHANGED rcopyVars /\ Forked' = Forked
          /\ \A j \in Forked : Acked(j)' => Acked(j)
      BY <1>1, <1>4, ChildMoves
    <2>2. \A j \in Forked : /\ children'[j].client = children[j].client
                            /\ Serves(j) => Serves(j)'
      BY <1>1, <1>4, ChildStateMoves DEF Serves
    <2>3. \A c \in Client : inbox'[c] \in Seq(SentReply)
      BY <1>1, <1>4, ChildSends
    <2> QED BY <1>1, <2>1, <2>2, <2>3, ServerKeepsChoice
  <1>5. CASE UNCHANGED vars
    <2>1. /\ UNCHANGED rcopyVars /\ Forked' = Forked /\ inbox' = inbox /\ children' = children
      BY <1>5 DEF vars, Forked
    <2>2. \A k \in Forked : /\ k \in Forked' /\ children'[k].client = children[k].client
                            /\ Serves(k) => Serves(k)'
                            /\ Acked(k)' => Acked(k)
      BY <2>1 DEF Serves, Acked
    <2> QED BY <1>1, <1>2, <2>1, <2>2, ServerKeepsChoice
  <1> QED BY <1>3, <1>4, <1>5, ClientKeepsChoice DEF Next

(* Nothing is chosen to begin with.                                        *)
LEMMA ChoiceInit == Init => ChoiceInv /\ Setup!Init
  <1> SUFFICES ASSUME Init PROVE ChoiceInv /\ Setup!Init
    OBVIOUS
  <1>1. /\ Forked = {} /\ children = << >>
        /\ clientState = [c \in Client |-> "SETUP_CONNECTION"]
        /\ toFile = [c \in Client |-> "untouched"]
        /\ firstPacket = [c \in Client |-> "none"]
        /\ inbox = [c \in Client |-> << >>]
    BY DEF Init, Forked
  <1>2. << >> \in Seq(SentReply)
    BY ShortSeq
  <1>3. ChoiceInv
    BY <1>1, <1>2 DEF ChoiceInv, ClientChoice, Asking, Chosen
  <1>4. [k \in Forked |-> children[k].client] = << >>
    BY <1>1
  <1>5. {k \in Forked : children[k].state = "SEND_DATA"} = {}
    BY <1>1
  <1>6. [c \in Client |-> IF toFile[c] = "created" THEN peer[c] ELSE 0] = [c \in Client |-> 0]
    BY <1>1
  <1>7. [c \in Client |-> clientState[c] # "DONE"] = [c \in Client |-> TRUE]
    BY <1>1
  <1>8. Setup!Init
    BY <1>1, <1>4, <1>5, <1>6, <1>7 DEF Setup!Init
  <1> QED BY <1>3, <1>8

(* The variables of FileRequest, as Setup maps them.                       *)
ForkedFor == [k \in Forked |-> children[k].client]
ChosenOf  == [c \in Client |-> IF toFile[c] = "created" THEN peer[c] ELSE 0]
Serving   == {k \in Forked : Serves(k)}
Present   == [c \in Client |-> clientState[c] # "DONE"]

(* A step of an rcopy chooses, receives, leaves, or is none of FileRequest.*)
LEMMA ClientImplements ==
    ASSUME NothingDoubled, NothingDoubled', ChoiceInv, NEW c \in Client, ClientNext(c)
    PROVE  [Setup!Next]_Setup!vars
  <1>1. /\ TypeOK /\ ClientInv(c) /\ duplicates' = 0
        /\ toFile \in [Client -> {"untouched", "created"}]
        /\ firstPacket \in [Client -> {"none", "FNAME_STATUS", "DATA"}]
        /\ toFile' \in [Client -> {"untouched", "created"}]
        /\ firstPacket' \in [Client -> {"none", "FNAME_STATUS", "DATA"}]
    BY SessionParts, TypeParts DEF NothingDoubled, SessionInv, TypeInv, TypeOK
  <1>2. /\ ChildrenKept /\ Forked' = Forked
        /\ \A d \in Client \ {c} : ClientStays(d)
        /\ \A k \in Forked : children'[k].state = children[k].state
    BY <1>1, ClientMoves
  <1>3. ForkedFor' = ForkedFor /\ Serving' = Serving
    BY <1>2 DEF ForkedFor, Serving, Serves, ChildrenKept
  <1>4. /\ ClientChoice(c)
        /\ clientState[c] # "DONE"
        /\ \/ ChoiceKept(c) /\ firstPacket'[c] = firstPacket[c]
           \/ /\ clientState'[c] # "DONE" /\ firstPacket'[c] = firstPacket[c]
              /\ c \in Found /\ toFile[c] = "untouched" /\ toFile'[c] = "created"
              /\ peer'[c] \in Forked /\ children[peer'[c]].client = c
           \/ /\ clientState'[c] # "DONE" /\ ChoiceKept(c)
              /\ firstPacket[c] = "none" /\ firstPacket'[c] = "DATA"
              /\ toFile[c] = "created" /\ Serves(peer[c])
    BY ClientChoiceMoves DEF ChoiceInv
  <1>5. \A d \in Client : d # c =>
            /\ ChosenOf'[d] = ChosenOf[d] /\ Present'[d] = Present[d]
            /\ firstPacket'[d] = firstPacket[d]
    BY <1>2 DEF ClientStays, ChosenOf, Present
  <1>6. Present[c]
    BY <1>4 DEF Present
  <1>7. firstPacket'[c] = firstPacket[c] => firstPacket' = firstPacket
    BY <1>1, <1>5
  <1>8. clientState'[c] # "DONE" => Present' = Present
    BY <1>4, <1>5 DEF Present
  <1>9. ChoiceKept(c) => ChosenOf' = ChosenOf
    BY <1>5 DEF ChoiceKept, ChosenOf
  <1>10. CASE ChoiceKept(c) /\ firstPacket'[c] = firstPacket[c] /\ clientState'[c] # "DONE"
    <2>1. UNCHANGED <<ForkedFor, ChosenOf, Serving, firstPacket, Present>>
      BY <1>3, <1>7, <1>8, <1>9, <1>10
    <2> QED BY <2>1 DEF Setup!vars, ForkedFor, ChosenOf, Serving, Serves, Present
  <1>11. CASE ChoiceKept(c) /\ firstPacket'[c] = firstPacket[c] /\ clientState'[c] = "DONE"
    <2>1. Present' = [Present EXCEPT ![c] = FALSE]
      BY <1>5, <1>11 DEF Present
    <2>2. Setup!Leave(c)
      BY <1>3, <1>6, <1>7, <1>9, <1>11, <2>1
         DEF Setup!Leave, ForkedFor, ChosenOf, Serving, Serves, Present
    <2> QED BY <2>2 DEF Setup!Next
  <1>12. CASE /\ clientState'[c] # "DONE" /\ firstPacket'[c] = firstPacket[c]
              /\ c \in Found /\ toFile[c] = "untouched" /\ toFile'[c] = "created"
              /\ peer'[c] \in Forked /\ children[peer'[c]].client = c
    <2>1. PICK k \in Forked : k = peer'[c]
      BY <1>12
    <2>2. /\ ChosenOf[c] = 0 /\ ForkedFor[k] = c /\ k \in DOMAIN ForkedFor
          /\ ChosenOf' = [ChosenOf EXCEPT ![c] = k]
      BY <1>5, <1>12, <2>1 DEF ChosenOf, ForkedFor
    <2>3. Setup!Choose(c)
      BY <1>3, <1>6, <1>7, <1>8, <1>12, <2>2
         DEF Setup!Choose, ForkedFor, ChosenOf, Serving, Serves, Present
    <2> QED BY <2>3 DEF Setup!Next
  <1>13. CASE /\ clientState'[c] # "DONE" /\ ChoiceKept(c)
              /\ firstPacket[c] = "none" /\ firstPacket'[c] = "DATA"
              /\ toFile[c] = "created" /\ Serves(peer[c])
    <2>1. ChosenOf[c] \in Serving
      BY <1>4, <1>13 DEF ChosenOf, Serving, ClientChoice, ChosenBy
    <2>2. firstPacket' = [firstPacket EXCEPT ![c] = "DATA"]
      BY <1>1, <1>5, <1>13
    <2>3. Setup!Receive(c)
      BY <1>3, <1>6, <1>8, <1>9, <1>13, <2>1, <2>2
         DEF Setup!Receive, ForkedFor, ChosenOf, Serving, Serves, Present
    <2> QED BY <2>3 DEF Setup!Next
  <1> QED BY <1>4, <1>10, <1>11, <1>12, <1>13

(* A sequence is the function of its elements.                             *)
LEMMA SequenceAsFunction ==
    ASSUME NEW S, NEW s \in Seq(S)
    PROVE  s = [k \in DOMAIN s |-> s[k]]
  <1>1. s \in [1 .. Len(s) -> S]
    BY LenProperties
  <1> QED BY <1>1

(* A fork for an intact request is one of FileRequest; a damaged request   *)
(* changes nothing.                                                        *)
LEMMA ForkImplements ==
    ASSUME TypeOK, MainForks
    PROVE  [Setup!Next]_Setup!vars
  <1>1. UNCHANGED <<ChosenOf, firstPacket, Present>>
    BY ForkMoves DEF ChosenOf, Present, rcopyVars
  <1>2. CASE children' = children
    <2>1. UNCHANGED <<ForkedFor, ChosenOf, Serving, firstPacket, Present>>
      BY <1>1, <1>2 DEF ForkedFor, Serving, Serves, Forked
    <2> QED BY <2>1 DEF Setup!vars, ForkedFor, ChosenOf, Serving, Serves, Present
  <1>3. ASSUME NEW n, n = Len(children) + 1, n \notin Forked, Forked' = Forked \cup {n},
               children'[n].client \in Client, ~Serves(n)',
               \A k \in Forked : children'[k] = children[k]
        PROVE  [Setup!Next]_Setup!vars
    <2>1. PICK c \in Client : c = children'[n].client
      BY <1>3
    <2>2. Serving' = Serving
      BY <1>3 DEF Serving, Serves
    <2>3. /\ Forked = 1 .. Len(children) /\ Len(children) \in Nat
          /\ \A k \in Forked : children[k].client \in Client
      BY ChildrenAreTyped DEF ChildType
    <2>4. ForkedFor \in Seq(Client) /\ Len(ForkedFor) = Len(children)
      BY <2>3 DEF ForkedFor
    <2>5. ForkedFor' = Append(ForkedFor, c)
      <3>1. /\ DOMAIN Append(ForkedFor, c) = Forked'
            /\ \A k \in Forked : Append(ForkedFor, c)[k] = ForkedFor[k]
            /\ Append(ForkedFor, c)[n] = c
            /\ Append(ForkedFor, c) \in Seq(Client)
        <4>1. 1 .. n = (1 .. Len(children)) \cup {n}
          BY <1>3, <2>3
        <4> QED BY <1>3, <2>3, <2>4, <4>1, AppendProperties
      <3>2. \A k \in Forked' : Append(ForkedFor, c)[k] = children'[k].client
        BY <1>3, <2>1, <3>1 DEF ForkedFor
      <3>3. Append(ForkedFor, c) = [k \in Forked' |-> Append(ForkedFor, c)[k]]
        <4>1. \A s \in Seq(Client) : s = [k \in DOMAIN s |-> s[k]]
          BY SequenceAsFunction
        <4> QED BY <3>1, <4>1
      <3> QED BY <3>2, <3>3 DEF ForkedFor
    <2>6. Setup!Fork(c)
      BY <1>1, <2>2, <2>5 DEF Setup!Fork, ForkedFor, ChosenOf, Serving, Serves, Present
    <2> QED BY <2>6 DEF Setup!Next
  <1> QED BY <1>2, <1>3, ForkMoves

(* A child that goes on to sendData() was chosen; nothing else it does is  *)
(* a step of FileRequest.                                                  *)
LEMMA ChildImplements ==
    ASSUME TypeOK, duplicates' = 0, ChoiceInv, NEW k \in Forked, ChildNext(k)
    PROVE  [Setup!Next]_Setup!vars
  <1>1. /\ UNCHANGED rcopyVars /\ children[k].client \in Client
        /\ Forked' = Forked /\ \A j \in Forked \ {k} : children'[j] = children[j]
        /\ children'[k].client = children[k].client
        /\ \/ Serves(k)' <=> Serves(k)
           \/ children[k].arrived /\ ~Serves(k) /\ Serves(k)'
    BY ChildMoves, ChildStateMoves
  <1>2. UNCHANGED <<ForkedFor, ChosenOf, firstPacket, Present>>
    BY <1>1 DEF ForkedFor, ChosenOf, Present, rcopyVars
  <1>3. CASE Serves(k)' <=> Serves(k)
    <2>1. Serving' = Serving
      BY <1>1, <1>3 DEF Serving, Serves
    <2> QED BY <1>2, <2>1 DEF Setup!vars, ForkedFor, ChosenOf, Serving, Serves, Present
  <1>4. CASE children[k].arrived /\ ~Serves(k) /\ Serves(k)'
    <2>1. ChosenBy(k, children[k].client)
      BY <1>4 DEF ChoiceInv, Acked
    <2>2. k \in DOMAIN ForkedFor /\ k \notin Serving /\ ChosenOf[ForkedFor[k]] = k
      BY <1>1, <1>4, <2>1 DEF ChosenBy, ForkedFor, Serving, ChosenOf
    <2>3. Serving' = Serving \cup {k}
      BY <1>1, <1>4 DEF Serving, Serves
    <2>4. Setup!Serve(k)
      BY <1>2, <2>2, <2>3 DEF Setup!Serve, ForkedFor, ChosenOf, Serving, Serves, Present
    <2> QED BY <2>2, <2>4 DEF Setup!Next, ForkedFor
  <1> QED BY <1>1, <1>3, <1>4

(* Every step, where nothing is doubled.                                   *)
LEMMA SetupStep ==
    ASSUME NothingDoubled, NothingDoubled', ChoiceInv, [Next]_vars
    PROVE  [Setup!Next]_Setup!vars
  <1>1. TypeOK /\ duplicates' = 0
    BY SessionParts DEF NothingDoubled
  <1>2. CASE UNCHANGED vars
    <2>1. UNCHANGED <<ForkedFor, ChosenOf, Serving, firstPacket, Present>>
      BY <1>2 DEF vars, rcopyVars, ForkedFor, ChosenOf, Serving, Serves, Present, Forked
    <2> QED BY <2>1 DEF Setup!vars, ForkedFor, ChosenOf, Serving, Serves, Present
  <1> QED BY <1>1, <1>2, ClientImplements, ForkImplements, ChildImplements DEF Next

(* Where the path may double nothing, it has doubled nothing.              *)
LEMMA NothingIsDoubled ==
    ASSUME MaxDuplicates = 0
    PROVE  (SessionInv => NothingDoubled) /\ (SessionInv' => NothingDoubled')
  <1>1. SessionInv => duplicates \in 0 .. MaxDuplicates
    BY DEF SessionInv, TypeInv, TypeOK
  <1>2. SessionInv' => duplicates' \in 0 .. MaxDuplicates
    BY DEF SessionInv, TypeInv, TypeOK
  <1>3. \A d \in 0 .. MaxDuplicates : d = 0
    OBVIOUS
  <1> QED BY <1>1, <1>2, <1>3 DEF NothingDoubled

(* On a path that doubles nothing, the sockets, tries, timers and forks of *)
(* a setup implement FileRequest, whatever is lost, flipped or late: each  *)
(* rcopy chooses one child of its own, for good and for a file that exists,*)
(* that child alone sends, and what rcopy takes first is from it.          *)
THEOREM SessionImplementsFileRequest ==
    ASSUME MaxDuplicates = 0
    PROVE  Spec => ImplementsFileRequest
  <1>1. SessionInv /\ SessionInv' /\ ChoiceInv /\ [Next]_vars => ChoiceInv'
    <2> SUFFICES ASSUME SessionInv, SessionInv', ChoiceInv, [Next]_vars
                 PROVE  ChoiceInv'
      OBVIOUS
    <2>1. NothingDoubled /\ NothingDoubled'
      BY NothingIsDoubled
    <2> QED BY <2>1, ChoiceInduction
  <1>2. SessionInv /\ SessionInv' /\ ChoiceInv /\ [Next]_vars => [Setup!Next]_Setup!vars
    <2> SUFFICES ASSUME SessionInv, SessionInv', ChoiceInv, [Next]_vars
                 PROVE  [Setup!Next]_Setup!vars
      OBVIOUS
    <2>1. NothingDoubled /\ NothingDoubled'
      BY NothingIsDoubled
    <2> QED BY <2>1, SetupStep
  <1> QED BY <1>1, <1>2, ChoiceInit, SessionInvariant, PTL
          DEF Spec, ImplementsFileRequest, Setup!Spec

================================================================================
