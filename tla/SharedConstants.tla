---------------------------- MODULE SharedConstants ----------------------------
(***************************************************************************)
(* The parameters of one transfer: what include/sharedConstants.h, the     *)
(* command line of rcopy and the file on the server's disk fix before the  *)
(* first data packet is sent.                                              *)
(***************************************************************************)
EXTENDS Naturals, Sequences

CONSTANTS
    Chunk,       \* what one read() of bufferSize bytes can return
    NoData,      \* the zero bytes of a calloc()ed slot or a flag-only PDU
    File,        \* the from-file, one Chunk for each read() that reaches data
    WindowSize,  \* entries of the server's window and of rcopy's buffer
    MAX_TRIES    \* the 10 passed to every processPoll()

(* Every non-final read() of the from-file returns data.                   *)
ASSUME FileAssumption == File \in Seq(Chunk) /\ NoData \notin Chunk

(* rcopy passes any atoi() result on; 0 makes the first `%` of either      *)
(* library a division by zero, a negative value makes calloc() fail.       *)
ASSUME WindowAssumption == WindowSize \in Nat \ {0}

ASSUME TriesAssumption == MAX_TRIES \in Nat \ {0}

LastSeqNum == Len(File)   \* the sequence number END_OF_FILE will carry

(* Chunk number s, counting from START_SEQ_NUM = 0 as the sequence numbers *)
(* of the protocol do.                                                     *)
ChunkAt(s) == File[s + 1]

(* `lower`, `upper` and `current` of slidingWindow.c are 32-bit ints; the  *)
(* models use naturals, so a transfer must stay below their range.         *)
ASSUME NoIntOverflow == LastSeqNum + WindowSize <= 2147483647
================================================================================
