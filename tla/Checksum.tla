-------------------------------- MODULE Checksum -------------------------------
(***************************************************************************)
(* The bytes of a PDU: createPDU() and retrieveHeader() of pduHelpers.c,   *)
(* the Internet checksum in_cksum() between them, and the one byte that    *)
(* libcpe464 may flip on the way.  Pdu and Session rest on it: to them a   *)
(* datagram is either what was sent or recognisably damaged.               *)
(*                                                                         *)
(* The host is little-endian, as all the builds in lib/ are.  A uint32_t   *)
(* is its four bytes as they lie in memory, a PDU the sequence of its      *)
(* bytes, and what stands behind it in the buffer is never looked at.      *)
(***************************************************************************)
EXTENDS Integers, Sequences

CONSTANTS
    Uint32,            \* sequence numbers: of the four bytes, some or all
    Flags,             \* flags, of the 256 bytes
    Payloads,          \* payloads
    MAX_PAYLOAD_SIZE

Byte == 0 .. 255

ASSUME ChecksumAssumption ==
    /\ Uint32 \subseteq [1 .. 4 -> Byte]
    /\ Flags \subseteq Byte
    /\ MAX_PAYLOAD_SIZE \in 0 .. 1400
    /\ \A p \in Payloads : p \in Seq(Byte) /\ Len(p) <= MAX_PAYLOAD_SIZE

CHECKSUM_SIZE   == 2
PDU_HEADER_SIZE == 7

VARIABLES
    phase,      \* "idle", "created", "arrived", "retrieved"
    sent,       \* what createPDU() was given
    pdu,        \* the bytes, as they are in the buffer of the sender or receiver
    flipped,    \* which of them libcpe464 flipped; 0 is none
    retrieved   \* what retrieveHeader() made of them

vars == <<phase, sent, pdu, flipped, retrieved>>

--------------------------------------------------------------------------------
(* The sum                                                                 *)

(* in_cksum() adds pairs of bytes, the low one first; an odd byte at the   *)
(* end is the low byte of a word of its own.                               *)
NumWords(bytes) == (Len(bytes) + 1) \div 2

Word(bytes, i) ==
    bytes[2 * i - 1] + 256 * (IF 2 * i <= Len(bytes) THEN bytes[2 * i] ELSE 0)

(* Mutant: the odd byte is not mopped up.                                  *)
WordSumEven(bytes) ==
    LET sum[i \in 0 .. Len(bytes) \div 2] ==
            IF i = 0 THEN 0 ELSE sum[i - 1] + Word(bytes, i)
    IN  sum[Len(bytes) \div 2]

WordSum(bytes) ==
    LET sum[i \in 0 .. NumWords(bytes)] ==
            IF i = 0 THEN 0 ELSE sum[i - 1] + Word(bytes, i)
    IN  sum[NumWords(bytes)]

(* Mutant: the carry of adding the carries is not added.                   *)
FoldedOnce(sum) == ((sum \div 65536) + (sum % 65536)) % 65536

(* The carries are added back, and what adding them carries.               *)
Folded(sum) ==
    LET once == (sum \div 65536) + (sum % 65536)
    IN  (once + (once \div 65536)) % 65536

InCksum(bytes) == 65535 - Folded(WordSum(bytes))

--------------------------------------------------------------------------------
(* The PDU                                                                 *)

(* htonl() and ntohl() turn the bytes round.                               *)
Htonl(n) == <<n[4], n[3], n[2], n[1]>>
Ntohl(n) == <<n[4], n[3], n[2], n[1]>>

(* Mutant: the result of in_cksum() is stored as if it were a byte.        *)
Uint16BytesUnsplit(n) == <<n, 0>>

Uint16Bytes(n) == <<n % 256, n \div 256>>

(* The sum is taken with the place of the checksum zero.                   *)
Layout(seqNum, cksum, flag, payload) ==
    Htonl(seqNum) \o Uint16Bytes(cksum) \o <<flag>> \o payload

CreatePDU(seqNum, flag, payload) ==
    Layout(seqNum, InCksum(Layout(seqNum, 0, flag, payload)), flag, payload)

CheckChecksum(bytes) == IF InCksum(bytes) = 0 THEN "CRC_GOOD" ELSE "CRC_ERROR"

(* Mutant: ntohl() is forgotten.                                           *)
RetrieveHeaderUnswapped(bytes) ==
    [checksumStatus |-> CheckChecksum(bytes),
     seqNum         |-> <<bytes[1], bytes[2], bytes[3], bytes[4]>>,
     flag           |-> bytes[4 + CHECKSUM_SIZE + 1],
     payload        |-> SubSeq(bytes, PDU_HEADER_SIZE + 1, Len(bytes))]

(* retrieveHeader(), and the memcpy() of the payload by its callers.       *)
RetrieveHeader(bytes) ==
    [checksumStatus |-> CheckChecksum(bytes),
     seqNum         |-> Ntohl(<<bytes[1], bytes[2], bytes[3], bytes[4]>>),
     flag           |-> bytes[4 + CHECKSUM_SIZE + 1],
     payload        |-> SubSeq(bytes, PDU_HEADER_SIZE + 1, Len(bytes))]

--------------------------------------------------------------------------------
Nothing == [checksumStatus |-> "CRC_GOOD", seqNum |-> <<0, 0, 0, 0>>, flag |-> 0,
            payload |-> << >>]

Init ==
    /\ phase = "idle"
    /\ sent = Nothing /\ pdu = << >> /\ flipped = 0 /\ retrieved = Nothing

SendPDU ==
    /\ phase = "idle"
    /\ \E s \in Uint32, f \in Flags, p \in Payloads :
           /\ sent' = [Nothing EXCEPT !.seqNum = s, !.flag = f, !.payload = p]
           /\ pdu' = CreatePDU(s, f, p)
    /\ phase' = "created"
    /\ UNCHANGED <<flipped, retrieved>>

(* sendto() as it is, or after errorFlipBits; one byte, by ^ 0xFF.         *)
Deliver ==
    /\ phase = "created" /\ phase' = "arrived"
    /\ UNCHANGED <<sent, pdu, flipped, retrieved>>

FlipBits ==
    /\ phase = "created" /\ phase' = "arrived"
    /\ \E b \in DOMAIN pdu : flipped' = b /\ pdu' = [pdu EXCEPT ![b] = 255 - @]
    /\ UNCHANGED <<sent, retrieved>>

RetrievePDU ==
    /\ phase = "arrived" /\ phase' = "retrieved"
    /\ retrieved' = RetrieveHeader(pdu)
    /\ UNCHANGED <<sent, pdu, flipped>>

Next == SendPDU \/ Deliver \/ FlipBits \/ RetrievePDU

Spec == Init /\ [][Next]_vars

--------------------------------------------------------------------------------
Header == [checksumStatus : {"CRC_GOOD", "CRC_ERROR"}, seqNum : [1 .. 4 -> Byte],
           flag : Byte, payload : Seq(Byte)]

TypeOK ==
    /\ phase \in {"idle", "created", "arrived", "retrieved"}
    /\ sent \in Header /\ retrieved \in Header
    /\ pdu \in Seq(Byte)
    /\ Len(pdu) <= PDU_HEADER_SIZE + MAX_PAYLOAD_SIZE
    /\ flipped \in 0 .. Len(pdu)

(***************************************************************************)
(* Whichever byte is flipped, one of the checksum itself or the odd one at *)
(* the end included, checkChecksum() returns CRC_ERROR: no one change of a *)
(* word is a multiple of 65535, which is all that the sum would miss.      *)
(***************************************************************************)
FlipDetected ==
    phase = "retrieved" /\ flipped # 0 => retrieved.checksumStatus = "CRC_ERROR"

(***************************************************************************)
(* What is not flipped is accepted, and retrieveHeader() returns what      *)
(* createPDU() was given, for payloads of an even and an odd length.       *)
(***************************************************************************)
IntactRetrieved == phase = "retrieved" /\ flipped = 0 => retrieved = sent

(***************************************************************************)
(* in_cksum() is the complement of the one's complement sum of the words:  *)
(* folding the 32 bits of the sum twice leaves no carry.                   *)
(***************************************************************************)
OnesComplementSum(bytes) ==
    LET sum == WordSum(bytes) IN IF sum = 0 THEN 0 ELSE ((sum - 1) % 65535) + 1

CksumIsOnesComplement ==
    phase # "idle" => InCksum(pdu) = 65535 - OnesComplementSum(pdu)
================================================================================
