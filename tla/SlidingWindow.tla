----------------------------- MODULE SlidingWindow -----------------------------
(***************************************************************************)
(* src/slidingWindow.c: the server's circular array of sent packets.  The  *)
(* library's four statics are one record, and each function of its API is  *)
(* an operator that returns either a value or the window after the call.   *)
(***************************************************************************)
EXTENDS SharedConstants

EmptySlot == [seqNum |-> 0, data |-> NoData]

SetupWindow ==
    [slots   |-> [i \in 0 .. WindowSize - 1 |-> EmptySlot],
     lower   |-> 0,
     current |-> 0,
     upper   |-> WindowSize]

(* Equality, not an order: a window whose current is past upper is open.   *)
IsWindowOpen(w)   == w.current # w.upper
IsWindowClosed(w) == w.current = w.upper

GetIndex(seqNum) == seqNum % WindowSize

(* Mutant: the window is moved one further than the RR says.               *)
UpdateLowerPastRR(w, seqNum) ==
    [slots |-> w.slots, lower |-> seqNum + 1, current |-> w.current,
     upper |-> seqNum + 1 + WindowSize]

(* No comparison with the old lower edge.                                  *)
UpdateLower(w, seqNum) ==
    [slots |-> w.slots, lower |-> seqNum, current |-> w.current,
     upper |-> seqNum + WindowSize]

(* Its exit(1) on a closed window is out of reach: the one caller has just *)
(* tested isWindowOpen().                                                  *)
AddDataToWindow(w, seqNum, data) ==
    [slots   |-> [w.slots EXCEPT ![GetIndex(seqNum)] = [seqNum |-> seqNum, data |-> data]],
     lower   |-> w.lower,
     current |-> w.current + 1,
     upper   |-> w.upper]

(* Mutant: an SREJ is answered with the lowest packet, as a timeout is.    *)
GetLowestForAnySREJ(w, seqNum) == w.slots[GetIndex(w.lower)].data

(* The slot is chosen by its index alone; its seqNum is not compared.      *)
GetDataFromWindow(w, seqNum) == w.slots[GetIndex(seqNum)].data

GetLowestSeqNumData(w) == w.slots[GetIndex(w.lower)]
GetLowestSeqNum(w)     == GetLowestSeqNumData(w).seqNum

WindowType ==
    [slots   : [0 .. WindowSize - 1 -> [seqNum : Nat, data : Chunk \cup {NoData}]],
     lower   : Nat,
     current : Nat,
     upper   : Nat]
================================================================================
