------------------------------- MODULE WindowWords -----------------------------
(***************************************************************************)
(* src/slidingWindow.c on the machine: sequence numbers are uint32_t, the  *)
(* edges of the window and the argument of getIndex() are int, and the     *)
(* window size is whatever atoi() made of the command line of rcopy and    *)
(* its setupBuffer() did not fail on.  SlidingWindow is the same library   *)
(* over the naturals, with a window that is not empty; here is how far it  *)
(* may be trusted.                                                         *)
(*                                                                         *)
(* The Makefile builds without optimisation, so that an int that overflows *)
(* wraps round.  rcopy is well behaved: its RRs and SREJs name packets     *)
(* that were sent, and it goes back no RR (TransferInvariant is about the  *)
(* rest).  A packet is the natural number that its sequence number would   *)
(* be without a limit.                                                     *)
(***************************************************************************)
EXTENDS Integers

CONSTANTS
    Half,          \* an int is -Half .. Half - 1: 2^31
    WindowSizes,   \* the window sizes of the FNAMEs that are sent
    MAX_TRIES,     \* the 10 passed to processPoll()
    MaxPackets     \* bound: packets of the file

ASSUME WordAssumption ==
    /\ Half \in Nat \ {0} /\ MAX_TRIES \in Nat \ {0} /\ MaxPackets \in Nat
    /\ WindowSizes \subseteq 0 .. Half - 1

VARIABLES
    myWindowSize,  \* with lower, current, upper and window, the statics
    lower, current, upper,
    window,        \* the packet in each slot; 0 in one never written
    serverSeqNum,  \* of processClient()
    tryCount,      \* of sendData(), as the next two
    atEOF, waitingForLastRR,
    sent,          \* how many packets have been sent
    acked,         \* the packet the last RR asked for
    answer,        \* the last packet resent: [asked, got]
    fault          \* "none", "SIGFPE", "outside" (of the array)

windowVars == <<myWindowSize, lower, current, upper, window>>
eofVars == <<atEOF, waitingForLastRR>>
vars == <<windowVars, serverSeqNum, tryCount, eofVars, sent, acked, answer, fault>>

--------------------------------------------------------------------------------
(* int and uint32_t, and the remainder of C, which has the sign of a.      *)
Int32(n)  == ((n + Half) % (2 * Half)) - Half
Uint32(n) == n % (2 * Half)

Remainder(a, b) == IF a >= 0 THEN a % b ELSE -((-a) % b)

(* Mutant: slots are counted from one.                                     *)
GetIndexFromOne(seqNum) == Remainder(Int32(seqNum), myWindowSize) + 1

(* getIndex(), where myWindowSize is not zero.                             *)
GetIndex(seqNum) == Remainder(Int32(seqNum), myWindowSize)

(* What comes of taking window[getIndex(seqNum)].                          *)
Access(seqNum) ==
    CASE myWindowSize = 0                     -> "SIGFPE"
      [] myWindowSize # 0 /\ GetIndex(seqNum) \in DOMAIN window -> "none"
      [] OTHER                                -> "outside"

(* Mutant: the edges are compared by their order.                          *)
IsWindowOpenBelow == current < upper

IsWindowOpen == current # upper

Init ==
    /\ myWindowSize \in WindowSizes
    /\ window = [i \in 0 .. myWindowSize - 1 |-> 0]
    /\ lower = 0 /\ current = 0 /\ upper = myWindowSize
    /\ serverSeqNum = 0 /\ tryCount = 0 /\ atEOF = FALSE /\ waitingForLastRR = FALSE
    /\ sent = 0 /\ acked = 0
    /\ answer = [asked |-> 0, got |-> 0]
    /\ fault = "none"

--------------------------------------------------------------------------------
(* Mutant: current is kept as if it had no limit.                          *)
IncrementedForEver(n) == n + 1

Incremented(n) == Int32(n + 1)

(* sendData() sends a packet.  The slot before the array that a negative   *)
(* index names is not the program's to write to; what follows is open.     *)
SendPacket ==
    /\ fault = "none" /\ ~atEOF /\ sent < MaxPackets
    /\ IsWindowOpen
    /\ fault' = Access(serverSeqNum)
    /\ window' = IF fault' = "none" THEN [window EXCEPT ![GetIndex(serverSeqNum)] = sent]
                 ELSE window
    /\ current' = Incremented(current)
    /\ serverSeqNum' = Uint32(serverSeqNum + 1)
    /\ sent' = sent + 1
    /\ UNCHANGED <<myWindowSize, lower, upper, tryCount, eofVars, acked, answer>>

(* sendData() reaches the end of the file, and compares the number after   *)
(* the last with the one in the slot of lower.                             *)
ReachEndOfFile ==
    /\ fault = "none" /\ ~atEOF
    /\ IsWindowOpen
    /\ atEOF' = TRUE
    /\ fault' = Access(lower)
    /\ waitingForLastRR' = (fault' = "none" /\ window[GetIndex(lower)] # sent)
    /\ UNCHANGED <<windowVars, serverSeqNum, tryCount, sent, acked, answer>>

(* Packet n is resent from the slot of seqNum.                             *)
Resend(n, seqNum) ==
    /\ fault' = Access(seqNum)
    /\ answer' = [asked |-> n,
                  got |-> IF fault' = "none" THEN window[GetIndex(seqNum)] ELSE -1]

(* processResponse(), case RR: updateLower().                              *)
ReceiveRR ==
    /\ fault = "none"
    /\ \E n \in acked .. sent :
           /\ lower' = Int32(Uint32(n))
           /\ upper' = Int32(lower' + myWindowSize)
           /\ acked' = n
           /\ waitingForLastRR' = (waitingForLastRR /\ n # sent)
    /\ tryCount' = 0
    /\ UNCHANGED <<myWindowSize, current, window, serverSeqNum, atEOF, sent, answer, fault>>

(* processResponse(), case SREJ.                                           *)
ReceiveSREJ ==
    /\ fault = "none"
    /\ \E n \in acked .. sent - 1 : Resend(n, Uint32(n))
    /\ tryCount' = 0
    /\ UNCHANGED <<windowVars, serverSeqNum, eofVars, sent, acked>>

(* sendData(), case RESEND_LOWEST: what is in the slot of lower is resent  *)
(* when the window is closed, and when it is open and the last RR has not  *)
(* come, or is believed not to have.                                       *)
ResendLowest ==
    /\ fault = "none" /\ tryCount + 1 < MAX_TRIES
    /\ ~IsWindowOpen \/ waitingForLastRR
    /\ Resend(acked, lower)
    /\ tryCount' = tryCount + 1
    /\ UNCHANGED <<windowVars, serverSeqNum, eofVars, sent, acked>>

Next == SendPacket \/ ReachEndOfFile \/ ReceiveRR \/ ReceiveSREJ \/ ResendLowest

Spec == Init /\ [][Next]_vars

--------------------------------------------------------------------------------
IntRange == -Half .. Half - 1

TypeOK ==
    /\ myWindowSize \in WindowSizes
    /\ lower \in IntRange /\ current \in IntRange /\ upper \in IntRange
    /\ window \in [0 .. myWindowSize - 1 -> 0 .. MaxPackets]
    /\ serverSeqNum \in 0 .. 2 * Half - 1
    /\ tryCount \in 0 .. MAX_TRIES - 1
    /\ atEOF \in BOOLEAN /\ waitingForLastRR \in BOOLEAN
    /\ sent \in 0 .. MaxPackets /\ acked \in 0 .. sent
    /\ answer \in [asked : 0 .. MaxPackets, got : -1 .. MaxPackets]
    /\ fault \in {"none", "SIGFPE", "outside"}

(***************************************************************************)
(* The window is open just when fewer than myWindowSize packets are not    *)
(* acknowledged, wherever the edges and the sequence numbers are and       *)
(* whichever of them have wrapped: isWindowOpen() compares them for        *)
(* equality only, and all are right modulo 2^32.                           *)
(***************************************************************************)
OpenAsNumbers ==
    /\ IsWindowOpen <=> sent # acked + myWindowSize
    /\ sent <= acked + myWindowSize

(* What is in the slot of the next packet: the packet one round of the     *)
(* window before it, or nothing yet.                                       *)
OneRoundBack == IF sent >= myWindowSize THEN sent - myWindowSize ELSE 0

(***************************************************************************)
(* In a file of less than 2^31 packets no index is taken outside of the    *)
(* window, not by the comparison at the end of the file either.  A packet  *)
(* not acknowledged is resent when it was asked for or is the lowest.      *)
(* With all acknowledged, which only the end of the file mistakes for a    *)
(* missing RR, it is the packet one round before, or a slot never written  *)
(* (ResendsLowestUnacked of FileTransfer is the README's word on it).      *)
(***************************************************************************)
SafeBelowHalf ==
    myWindowSize > 0 /\ sent < Half =>
        /\ fault = "none"
        /\ answer.got = IF answer.asked < sent THEN answer.asked ELSE OneRoundBack
================================================================================
