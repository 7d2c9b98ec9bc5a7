----------------------------------- MODULE Pdu ---------------------------------
(***************************************************************************)
(* The datagrams a server child and rcopy exchange, and the path between   *)
(* them: src/pduHelpers.c over sendtoErr() of libcpe464.                   *)
(*                                                                         *)
(* A PDU is a record of its flag and of the numbers and payload its        *)
(* receiver reads.  The server never reads the sequence number rcopy puts  *)
(* in its headers, so a PDU to the server carries the RR/SREJ number only. *)
(* A PDU that fails checkChecksum() has the flag "CRC_ERROR" and nothing   *)
(* else worth reading: every handler drops it before it looks further.     *)
(*                                                                         *)
(* A link is one direction: the datagrams in flight or in the receiver's   *)
(* socket, in order; how many faults it has shown so far; and whether the  *)
(* receiving socket is still open.                                         *)
(***************************************************************************)
EXTENDS SharedConstants

CONSTANTS
    MaxFaults,   \* bound: drops, flips and duplications of one direction
    QueueLimit   \* bound: datagrams one direction holds; more are discarded

ASSUME LinkAssumption == MaxFaults \in Nat /\ QueueLimit \in Nat

VARIABLES
    toServer,    \* the link from rcopy to the server child
    toClient     \* the link from the server child to rcopy

linkVars == <<toServer, toClient>>

DataFlags    == {"DATA", "RESENT_DATA_SREJ", "RESENT_DATA_TIMEOUT", "END_OF_FILE"}
ControlFlags == {"FNAME_OK_ACK", "RR", "SREJ", "EOF_ACK"}

DataPDU(flag, seqNum, payload) ==
    [flag |-> flag, seqNum |-> seqNum, payload |-> payload]

ControlPDU(flag, target) == [flag |-> flag, target |-> target]

FlippedData    == DataPDU("CRC_ERROR", 0, NoData)
FlippedControl == ControlPDU("CRC_ERROR", 0)

NewLink == [queue |-> << >>, faults |-> 0, open |-> TRUE]

(* A full socket buffer, or no socket, swallows the datagram.              *)
Room(link, n) == link.open /\ Len(link.queue) + n <= QueueLimit

(***************************************************************************)
(* The states of link after a sendPDU() of m: it arrives; sendtoErr()      *)
(* drops it or flips a byte of it (which checkChecksum() will see); UDP    *)
(* delivers it twice; or there is no room for it.                          *)
(***************************************************************************)
Sent(link, m, flipped) ==
    LET Arrives(ms) == [link EXCEPT !.queue = @ \o ms]
        Faulty(ms)  == [link EXCEPT !.queue = @ \o ms, !.faults = @ + 1]
    IN  (IF Room(link, 1) THEN {Arrives(<<m>>)} ELSE {link})
        \cup (IF Room(link, 1) /\ link.faults < MaxFaults
              THEN {Faulty(<< >>), Faulty(<<flipped>>)} ELSE {})
        \cup (IF Room(link, 2) /\ link.faults < MaxFaults
              THEN {Faulty(<<m, m>>)} ELSE {})

(* retrievePDU(): the oldest datagram leaves the queue.                    *)
Received(link) == [link EXCEPT !.queue = Tail(@)]

(* The receiver exits: its socket and what was queued on it are gone.      *)
Closed(link) == [queue |-> << >>, faults |-> link.faults, open |-> FALSE]

SendToClient(m) == toClient' \in Sent(toClient, m, FlippedData)
SendToServer(m) == toServer' \in Sent(toServer, m, FlippedControl)

LinkType(Message) ==
    [queue : Seq(Message), faults : 0 .. MaxFaults, open : BOOLEAN]

ClientMessage ==
    [flag    : DataFlags \cup {"CRC_ERROR"},
     seqNum  : Nat,
     payload : Chunk \cup {NoData}]

ServerMessage == [flag : ControlFlags \cup {"CRC_ERROR"}, target : Nat]

LinksTypeOK ==
    /\ toServer \in LinkType(ServerMessage)
    /\ toClient \in LinkType(ClientMessage)
================================================================================
