------------------------------ MODULE PollSetProofs ----------------------------
(***************************************************************************)
(* Proofs about PollSet for any number of descriptors, any set of them     *)
(* open at the start, any POLL_SET_SIZE and any number of tries.  PollInv  *)
(* is what holds while standard input is there; once it has hung up, or    *)
(* where it never was, only the types are left.                            *)
(***************************************************************************)
EXTENDS PollSet, TLAPS

NoSocketYet ==
    socketNum = 0 /\ state # "DONE" =>
        /\ state \in {"SETUP_CONNECTION", "PROCESS_FILENAME"}
        /\ \A i \in 0 .. pollSet.size - 1 : pollSet.entries[i] = Unused
        /\ \A f \in Fd : descriptor[f] # "socket"
        /\ state = "SETUP_CONNECTION" => \A f \in Fd : descriptor[f] # "main"

OnlyEntry(ps, s) ==
    /\ s < ps.max
    /\ \A i \in 0 .. ps.size - 1 :
           ps.entries[i] = IF i = s THEN [fd |-> i, events |-> "POLLIN"] ELSE Unused

SocketWatched ==
    socketNum > 0 /\ state # "DONE" =>
        /\ state # "PROCESS_FILENAME"
        /\ OnlyEntry(pollSet, socketNum)
        /\ \A f \in Fd : descriptor[f] \in {"main", "socket"} <=> f = socketNum
        /\ descriptor[socketNum] = "socket"

TriesLeft == state # "DONE" => tries < MAX_TRIES

PollInv ==
    /\ TypeOK /\ StdinStays /\ NoSocketYet /\ SocketWatched /\ TriesLeft
    /\ ReportsReadySocket

(* The inductive invariant.                                                *)
SetInv == TypeOK /\ TriesLeft /\ (StdinStays => PollInv)

--------------------------------------------------------------------------------
(* growPollSet() keeps the entries and adds unused ones.                   *)
LEMMA GrowProperties ==
    ASSUME NEW ps, IsPollSet(ps), NEW n \in Nat, n >= ps.size
    PROVE  /\ IsPollSet(GrowPollSet(ps, n))
           /\ GrowPollSet(ps, n).size = n /\ GrowPollSet(ps, n).max = ps.max
           /\ \A i \in 0 .. n - 1 : GrowPollSet(ps, n).entries[i] =
                                       IF i < ps.size THEN ps.entries[i] ELSE Unused
  <1> DEFINE g == [i \in 0 .. n - 1 |-> IF i < ps.size THEN ps.entries[i] ELSE Unused]
  <1>1. GrowPollSet(ps, n) = [entries |-> g, max |-> ps.max, size |-> n]
    <2>1. GrowPollSet(ps, n) = [ps EXCEPT !.entries = g, !.size = n]
      BY Zenon DEF GrowPollSet
    <2>2. ps = [entries |-> ps.entries, max |-> ps.max, size |-> ps.size]
      BY DEF IsPollSet
    <2> HIDE DEF g
    <2> QED BY <2>1, <2>2
  <1>2. g \in [0 .. n - 1 -> [fd : Fd, events : {"none", "POLLIN"}]]
    BY PollAssumption DEF IsPollSet, Unused
  <1>3. ps.max \in 0 .. n
    BY DEF IsPollSet
  <1> HIDE DEF g
  <1>4. IsPollSet(GrowPollSet(ps, n))
    BY <1>1, <1>2, <1>3 DEF IsPollSet
  <1>5. \A i \in 0 .. n - 1 : g[i] = IF i < ps.size THEN ps.entries[i] ELSE Unused
    BY DEF g
  <1> QED BY <1>1, <1>4, <1>5

(* addToPollSet() with no entry in use leaves the socket's alone in use.   *)
LEMMA AddProperties ==
    ASSUME NEW ps, IsPollSet(ps), NEW s \in Fd
    PROVE  /\ IsPollSet(AddToPollSet(ps, s))
           /\ (\A i \in 0 .. ps.size - 1 : ps.entries[i] = Unused)
                  => OnlyEntry(AddToPollSet(ps, s), s)
  <1> DEFINE g == IF s >= ps.size THEN GrowPollSet(ps, s + POLL_SET_SIZE) ELSE ps
             top == IF s + 1 >= g.max THEN s + 1 ELSE g.max
             e == [g.entries EXCEPT ![s] = [fd |-> s, events |-> "POLLIN"]]
             NoneInUse(set) == \A i \in 0 .. set.size - 1 : set.entries[i] = Unused
  <1>1. s \in Nat /\ POLL_SET_SIZE \in Nat \ {0} /\ ps.size \in Nat
    BY PollAssumption DEF IsPollSet
  <1>2. /\ IsPollSet(g) /\ s < g.size
        /\ NoneInUse(ps) => NoneInUse(g)
    <2>1. CASE s >= ps.size
      BY <1>1, <2>1, GrowProperties
    <2>2. CASE s < ps.size
      BY <1>1, <2>2
    <2> QED BY <1>1, <2>1, <2>2
  <1>3. AddToPollSet(ps, s) = [g EXCEPT !.max = top, !.entries = e]
    BY Zenon DEF AddToPollSet
  <1> HIDE DEF g
  <1>4. AddToPollSet(ps, s) = [entries |-> e, max |-> top, size |-> g.size]
    BY <1>2, <1>3 DEF IsPollSet
  <1>5. g.max \in 0 .. g.size /\ g.size \in Nat
    BY <1>2 DEF IsPollSet
  <1>6. top \in 0 .. g.size /\ s < top
    BY <1>1, <1>2, <1>5
  <1>7. e \in [0 .. g.size - 1 -> [fd : Fd, events : {"none", "POLLIN"}]]
    BY <1>1, <1>2 DEF IsPollSet
  <1>8. NoneInUse(ps) => \A i \in 0 .. g.size - 1 :
            e[i] = IF i = s THEN [fd |-> i, events |-> "POLLIN"] ELSE Unused
    BY <1>1, <1>2 DEF IsPollSet
  <1> HIDE DEF e, top
  <1> QED BY <1>4, <1>5, <1>6, <1>7, <1>8 DEF IsPollSet, OnlyEntry

(* removeFromPollSet() of the only entry leaves none in use.               *)
LEMMA RemoveProperties ==
    ASSUME NEW ps, IsPollSet(ps), NEW s \in Fd
    PROVE  /\ IsPollSet(RemoveFromPollSet(ps, s))
           /\ OnlyEntry(ps, s) => \A i \in 0 .. RemoveFromPollSet(ps, s).size - 1 :
                                      RemoveFromPollSet(ps, s).entries[i] = Unused
  <1> DEFINE e == [ps.entries EXCEPT ![s] = Unused]
  <1>1. RemoveFromPollSet(ps, s) = [entries |-> e, max |-> ps.max, size |-> ps.size]
    BY DEF RemoveFromPollSet, IsPollSet
  <1>2. e \in [0 .. ps.size - 1 -> [fd : Fd, events : {"none", "POLLIN"}]]
    BY PollAssumption DEF IsPollSet, Unused
  <1>3. OnlyEntry(ps, s) => \A i \in 0 .. ps.size - 1 : e[i] = Unused
    BY DEF IsPollSet, OnlyEntry
  <1>4. ps.size \in Nat /\ ps.max \in 0 .. ps.size
    BY DEF IsPollSet
  <1> HIDE DEF e
  <1> QED BY <1>1, <1>2, <1>3, <1>4 DEF IsPollSet

--------------------------------------------------------------------------------
(* The lowest entry reported is not that of standard input, and a poll     *)
(* that reports nothing finds nothing to receive.                          *)
LEMMA PollReportsSocket ==
    ASSUME PollInv, socketNum > 0, state # "DONE", NEW r \in Fd \cup {-1}, PollCall(r)
    PROVE  \/ r = -1 /\ socketNum \notin readable
           \/ r = socketNum /\ r > 0 /\ socketNum \in readable
  <1>1. /\ socketNum \in Fd /\ Fd \subseteq Nat /\ 0 \in Fd
        /\ descriptor \in [Fd -> {"closed", "inherited", "main", "socket", "file"}]
        /\ pollSet.size \in Nat /\ pollSet.max \in 0 .. pollSet.size
    BY PollAssumption DEF PollInv, TypeOK, IsPollSet
  <1>2. OnlyEntry(pollSet, socketNum) /\ descriptor[socketNum] = "socket"
    BY DEF PollInv, SocketWatched
  <1>3. descriptor[0] = "inherited" /\ ~hungUp
    BY DEF PollInv, StdinStays
  <1>4. \A i \in 0 .. pollSet.max - 1 :
            i \in Reported <=> i = socketNum /\ socketNum \in readable
    <2> TAKE i \in 0 .. pollSet.max - 1
    <2>1. i \in 0 .. pollSet.size - 1
      BY <1>1
    <2>2. CASE i = socketNum
      <3>1. pollSet.entries[i] = [fd |-> i, events |-> "POLLIN"]
        BY <1>2, <2>1, <2>2 DEF OnlyEntry
      <3> QED BY <1>1, <1>2, <1>3, <2>2, <3>1 DEF Reported
    <2>3. CASE i # socketNum
      <3>1. pollSet.entries[i] = Unused
        BY <1>2, <2>1, <2>3 DEF OnlyEntry
      <3> QED BY <1>1, <1>2, <1>3, <2>3, <3>1 DEF Reported, Unused
    <2> QED BY <2>2, <2>3
  <1>5. Reported \subseteq 0 .. pollSet.max - 1
    BY DEF Reported
  <1>6. socketNum \in 0 .. pollSet.max - 1
    BY <1>1, <1>2 DEF OnlyEntry
  <1>7. CASE r = -1 /\ Reported = {}
    BY <1>4, <1>6, <1>7
  <1>8. CASE r \in Reported
    BY <1>4, <1>5, <1>8
  <1> QED BY <1>7, <1>8 DEF PollCall

(* A poll leaves the descriptors and the poll set alone.                   *)
LEMMA PollPreservesInv ==
    ASSUME PollInv, socketNum > 0, state # "DONE",
           NEW r \in Fd \cup {-1}, PollCall(r),
           UNCHANGED <<kernelVars, program, pollSet, socketNum>>,
           state' \in States \ {"PROCESS_FILENAME"},
           tries' \in 0 .. MAX_TRIES, state' # "DONE" => tries' < MAX_TRIES,
           r = -1 => state' \notin {"FILENAME_STATUS", "ACK_RECVFROM", "RESPONSE_RECVFROM"}
    PROVE  PollInv'
  <1>1. TypeOK'
    BY DEF PollInv, TypeOK, IsPollSet, PollCall, kernelVars
  <1>2. StdinStays'
    BY DEF PollInv, StdinStays, kernelVars
  <1>3. NoSocketYet' /\ TriesLeft'
    BY DEF NoSocketYet, TriesLeft
  <1>4. SocketWatched'
    BY DEF PollInv, SocketWatched, OnlyEntry, kernelVars
  <1>5. ReportsReadySocket'
    BY PollReportsSocket DEF ReportsReadySocket, CallersFindDatagram, PollCall, kernelVars
  <1> QED BY <1>1, <1>2, <1>3, <1>4, <1>5 DEF PollInv

(* processPoll() counts a try only when nothing is there to be received.   *)
LEMMA ProcessPollProperties ==
    ASSUME PollInv, socketNum > 0, state # "DONE",
           NEW r \in Fd \cup {-1}, PollCall(r),
           NEW timeoutState \in States, NEW dataState \in States,
           ProcessPoll(r, timeoutState, dataState)
    PROVE  /\ tries' \in 0 .. MAX_TRIES
           /\ state' \in {timeoutState, dataState, "DONE"}
           /\ state' # "DONE" => tries' < MAX_TRIES
           /\ r = -1 => state' \in {timeoutState, "DONE"}
           /\ tries' > tries => socketNum \notin readable
  <1>1. tries \in 0 .. MAX_TRIES /\ tries < MAX_TRIES /\ MAX_TRIES \in Nat \ {0}
    BY PollAssumption DEF PollInv, TypeOK, TriesLeft
  <1>2. \/ r = -1 /\ socketNum \notin readable
        \/ r > 0 /\ socketNum \in readable
    BY PollReportsSocket
  <1>3. CASE r > 0 /\ tries' = 0 /\ state' = dataState
    BY <1>1, <1>3
  <1>4. CASE /\ r <= 0 /\ tries' = tries + 1
             /\ state' = IF tries + 1 >= MAX_TRIES THEN "DONE" ELSE timeoutState
    <2>1. r = -1 /\ socketNum \notin readable
      BY <1>2, <1>4, PollAssumption
    <2> QED BY <1>1, <1>4, <2>1
  <1> QED BY <1>2, <1>3, <1>4 DEF ProcessPoll

--------------------------------------------------------------------------------
(* The steps of rcopy, of a child and of the kernel.                       *)
LEMMA OpenSocketPreservesInv ==
    ASSUME NEW table \in [Fd -> {"closed", "inherited", "main", "socket", "file"}],
           NEW ps, IsPollSet(ps),
           \A i \in 0 .. ps.size - 1 : ps.entries[i] = Unused,
           \A f \in Fd : table[f] \notin {"main", "socket"},
           table[0] = "inherited",
           NEW s \in Fd, table[s] = "closed",
           socketNum' = s, pollSet' = AddToPollSet(ps, s)
    PROVE  /\ s > 0 /\ IsPollSet(pollSet') /\ OnlyEntry(pollSet', s)
           /\ descriptor' = [table EXCEPT ![s] = "socket"] =>
                  /\ descriptor' \in [Fd -> {"closed", "inherited", "main", "socket", "file"}]
                  /\ descriptor'[0] = "inherited" /\ descriptor'[s] = "socket"
                  /\ \A f \in Fd : descriptor'[f] \in {"main", "socket"} <=> f = s
  <1>1. s > 0 /\ 0 \in Fd
    BY PollAssumption
  <1>2. IsPollSet(pollSet') /\ OnlyEntry(pollSet', s)
    BY AddProperties, Zenon
  <1> QED BY <1>1, <1>2

(* The old socket is removed and closed before the new one gets its number. *)
LEMMA SetupConnectionPreservesInv ==
    ASSUME PollInv, SetupConnection
    PROVE  PollInv'
  <1>1. /\ TypeOK /\ StdinStays /\ state = "SETUP_CONNECTION" /\ 0 \in Fd /\ Fd \subseteq Nat
    BY PollAssumption DEF PollInv, SetupConnection
  <1> DEFINE table == IF socketNum > 0 THEN [descriptor EXCEPT ![socketNum] = "closed"]
                      ELSE descriptor
             ps == IF socketNum > 0 THEN RemoveFromPollSet(pollSet, socketNum) ELSE pollSet
  <1>2. /\ table \in [Fd -> {"closed", "inherited", "main", "socket", "file"}]
        /\ table[0] = "inherited"
    BY <1>1 DEF TypeOK, StdinStays
  <1>3. /\ IsPollSet(ps)
        /\ \A i \in 0 .. ps.size - 1 : ps.entries[i] = Unused
        /\ \A f \in Fd : table[f] \notin {"main", "socket"}
    <2>1. CASE socketNum > 0
      <3>1. /\ OnlyEntry(pollSet, socketNum)
            /\ \A f \in Fd : descriptor[f] \in {"main", "socket"} <=> f = socketNum
        BY <1>1, <2>1 DEF PollInv, SocketWatched
      <3>2. \A f \in Fd : table[f] \notin {"main", "socket"}
        BY <1>1, <2>1, <3>1 DEF TypeOK
      <3>3. ps = RemoveFromPollSet(pollSet, socketNum)
        BY <2>1
      <3>4. IsPollSet(ps) /\ \A i \in 0 .. ps.size - 1 : ps.entries[i] = Unused
        BY <1>1, <3>1, <3>3, RemoveProperties DEF TypeOK
      <3> QED BY <3>2, <3>4
    <2>2. CASE socketNum = 0
      <3>1. table = descriptor /\ ps = pollSet
        BY <2>2
      <3> HIDE DEF table, ps
      <3> QED BY <1>1, <2>2, <3>1 DEF PollInv, NoSocketYet, TypeOK
    <2> QED BY <1>1, <2>1, <2>2 DEF TypeOK
  <1>4. OpenSocket(table, ps)
    BY DEF SetupConnection
  <1>5. readable' \subseteq Fd /\ UNCHANGED <<program, hungUp, reported, tries>>
    BY <1>1 DEF SetupConnection, TypeOK
  <1>6. state' = IF descriptor'[socketNum'] = "socket" THEN "SEND_FILENAME" ELSE "DONE"
    BY DEF SetupConnection
  <1> HIDE DEF table, ps
  <1>7. ASSUME NEW s \in Fd, table[s] = "closed",
               descriptor' = [table EXCEPT ![s] = "socket"],
               socketNum' = s, pollSet' = AddToPollSet(ps, s)
        PROVE  PollInv'
    <2>1. /\ s > 0 /\ IsPollSet(pollSet') /\ OnlyEntry(pollSet', s)
          /\ descriptor' \in [Fd -> {"closed", "inherited", "main", "socket", "file"}]
          /\ descriptor'[0] = "inherited" /\ descriptor'[s] = "socket"
          /\ \A f \in Fd : descriptor'[f] \in {"main", "socket"} <=> f = s
      BY <1>2, <1>3, <1>7, OpenSocketPreservesInv
    <2>2. state' = "SEND_FILENAME"
      BY <1>6, <1>7, <2>1
    <2>3. TypeOK'
      BY <1>1, <1>5, <1>7, <2>1, <2>2 DEF TypeOK, States
    <2>4. StdinStays' /\ NoSocketYet' /\ TriesLeft' /\ ReportsReadySocket'
      BY <1>1, <1>5, <1>7, <2>1, <2>2
         DEF PollInv, StdinStays, NoSocketYet, TriesLeft, ReportsReadySocket, CallersFindDatagram
    <2>5. SocketWatched'
      BY <1>7, <2>1, <2>2 DEF SocketWatched
    <2> QED BY <2>3, <2>4, <2>5 DEF PollInv
  <1>8. ASSUME descriptor' = table, pollSet' = ps, UNCHANGED socketNum
        PROVE  PollInv'
    <2>1. state' = "DONE"
      BY <1>1, <1>3, <1>6, <1>8 DEF TypeOK
    <2>2. TypeOK'
      BY <1>1, <1>2, <1>3, <1>5, <1>8, <2>1 DEF TypeOK, States
    <2>3. StdinStays' /\ NoSocketYet' /\ TriesLeft' /\ ReportsReadySocket' /\ SocketWatched'
      BY <1>1, <1>2, <1>5, <1>8, <2>1
         DEF StdinStays, NoSocketYet, TriesLeft, ReportsReadySocket, CallersFindDatagram,
             SocketWatched
    <2> QED BY <2>2, <2>3 DEF PollInv
  <1> QED BY <1>4, <1>7, <1>8 DEF OpenSocket, IsLowestFree

(* A child closes the socket of the main server before it opens its own.   *)
LEMMA ProcessFilenamePreservesInv ==
    ASSUME PollInv, ProcessFilename
    PROVE  PollInv'
  <1>1. /\ TypeOK /\ StdinStays /\ state = "PROCESS_FILENAME" /\ 0 \in Fd /\ Fd \subseteq Nat
    BY PollAssumption DEF PollInv, ProcessFilename
  <1>2. socketNum = 0
    BY <1>1 DEF PollInv, SocketWatched, TypeOK
  <1> DEFINE table == [f \in Fd |-> IF descriptor[f] = "main" THEN "closed" ELSE descriptor[f]]
  <1>3. /\ table \in [Fd -> {"closed", "inherited", "main", "socket", "file"}]
        /\ table[0] = "inherited"
        /\ \A f \in Fd : table[f] \notin {"main", "socket"}
    BY <1>1, <1>2 DEF PollInv, TypeOK, StdinStays, NoSocketYet
  <1>4. IsPollSet(pollSet) /\ \A i \in 0 .. pollSet.size - 1 : pollSet.entries[i] = Unused
    BY <1>1, <1>2 DEF PollInv, TypeOK, NoSocketYet
  <1>5. PICK s \in Fd :
            /\ IsLowestFree(s, table)
            /\ socketNum' = s /\ pollSet' = AddToPollSet(pollSet, s)
            /\ \/ /\ descriptor' = [table EXCEPT ![s] = "socket"]
                  /\ state' = "DONE"
               \/ \E f \in Fd \ {s} :
                      /\ IsLowestFree(f, [table EXCEPT ![s] = "socket"])
                      /\ descriptor' = [table EXCEPT ![s] = "socket", ![f] = "file"]
                      /\ state' = "WAIT_ON_FILENAME_OK_ACK"
    BY Zenon DEF ProcessFilename
  <1>6. UNCHANGED <<program, readable, hungUp, reported, tries>>
    BY DEF ProcessFilename
  <1> HIDE DEF table
  <1>7. /\ s > 0 /\ IsPollSet(pollSet') /\ OnlyEntry(pollSet', s)
        /\ table[s] = "closed"
    BY <1>3, <1>4, <1>5, OpenSocketPreservesInv DEF IsLowestFree
  <1>8. /\ descriptor' \in [Fd -> {"closed", "inherited", "main", "socket", "file"}]
        /\ descriptor'[0] = "inherited" /\ descriptor'[s] = "socket"
        /\ \A f \in Fd : descriptor'[f] \in {"main", "socket"} <=> f = s
    <2>1. CASE descriptor' = [table EXCEPT ![s] = "socket"]
      BY <1>1, <1>3, <1>7, <2>1
    <2>2. ASSUME NEW f \in Fd \ {s}, table[f] = "closed",
                 descriptor' = [table EXCEPT ![s] = "socket", ![f] = "file"]
          PROVE  /\ descriptor' \in [Fd -> {"closed", "inherited", "main", "socket", "file"}]
                 /\ descriptor'[0] = "inherited" /\ descriptor'[s] = "socket"
                 /\ \A g \in Fd : descriptor'[g] \in {"main", "socket"} <=> g = s
      BY <1>1, <1>3, <1>7, <2>2
    <2> QED BY <1>3, <1>5, <2>1, <2>2 DEF IsLowestFree
  <1>9. TypeOK'
    BY <1>1, <1>5, <1>6, <1>7, <1>8 DEF TypeOK, States
  <1>10. StdinStays' /\ NoSocketYet' /\ TriesLeft' /\ ReportsReadySocket' /\ SocketWatched'
    BY <1>1, <1>5, <1>6, <1>7, <1>8
       DEF PollInv, StdinStays, NoSocketYet, TriesLeft, ReportsReadySocket, CallersFindDatagram,
             SocketWatched
  <1> QED BY <1>9, <1>10 DEF PollInv

(* The socket of a process that is past its setup.                         *)
LEMMA HasSocket ==
    ASSUME PollInv, state \notin {"SETUP_CONNECTION", "PROCESS_FILENAME", "DONE"}
    PROVE  socketNum > 0
  BY PollAssumption DEF PollInv, NoSocketYet, TypeOK

(* A process with a socket that polls: all actions that do are like this.  *)
LEMMA PollersPreserveInv ==
    ASSUME PollInv,
           SendFilename \/ FilenameOk \/ PollForData \/ WaitForAck
               \/ PollWhileOpen \/ PollWhileClosed
    PROVE  PollInv' /\ (tries' > tries => socketNum \notin readable)
  <1>1. tries \in 0 .. MAX_TRIES /\ (state # "DONE" => tries < MAX_TRIES)
        /\ MAX_TRIES \in Nat \ {0}
    BY PollAssumption DEF PollInv, TypeOK, TriesLeft
  <1>2. CASE SendFilename
    <2>1. PICK r \in Fd \cup {-1} :
              PollCall(r) /\ ProcessPoll(r, "SETUP_CONNECTION", "FILENAME_STATUS")
      BY <1>2 DEF SendFilename
    <2>2. socketNum > 0 /\ state # "DONE"
      BY <1>2, HasSocket DEF SendFilename
    <2>3. UNCHANGED <<kernelVars, program, pollSet, socketNum>>
      BY <1>2 DEF SendFilename
    <2>4. {"SETUP_CONNECTION", "FILENAME_STATUS"} \subseteq States
      BY DEF States
    <2>5. /\ tries' \in 0 .. MAX_TRIES
          /\ state' \in {"SETUP_CONNECTION", "FILENAME_STATUS", "DONE"}
          /\ state' # "DONE" => tries' < MAX_TRIES
          /\ r = -1 => state' \in {"SETUP_CONNECTION", "DONE"}
          /\ tries' > tries => socketNum \notin readable
      BY <2>1, <2>2, <2>4, ProcessPollProperties
    <2> QED BY <2>1, <2>2, <2>3, <2>5, PollPreservesInv DEF States
  <1>3. CASE FilenameOk
    <2>1. PICK r \in Fd \cup {-1} :
              PollCall(r) /\ ProcessPoll(r, "FILENAME_OK", "RECV_DATA")
      BY <1>3 DEF FilenameOk
    <2>2. socketNum > 0 /\ state # "DONE"
      BY <1>3, HasSocket DEF FilenameOk
    <2>3. UNCHANGED <<kernelVars, program, pollSet, socketNum>>
      BY <1>3 DEF FilenameOk
    <2>4. {"FILENAME_OK", "RECV_DATA"} \subseteq States
      BY DEF States
    <2>5. /\ tries' \in 0 .. MAX_TRIES
          /\ state' \in {"FILENAME_OK", "RECV_DATA", "DONE"}
          /\ state' # "DONE" => tries' < MAX_TRIES
          /\ tries' > tries => socketNum \notin readable
      BY <2>1, <2>2, <2>4, ProcessPollProperties
    <2> QED BY <2>1, <2>2, <2>3, <2>5, PollPreservesInv DEF States
  <1>4. CASE PollForData
    <2>1. PICK r \in Fd \cup {-1} :
              PollCall(r) /\ state' = IF r = 0 THEN "DONE" ELSE "RECV_DATA_RECVFROM"
      BY <1>4 DEF PollForData
    <2>2. socketNum > 0 /\ state # "DONE"
      BY <1>4, HasSocket DEF PollForData
    <2>3. UNCHANGED <<kernelVars, program, pollSet, socketNum, tries>>
      BY <1>4 DEF PollForData
    <2> QED BY <1>1, <2>1, <2>2, <2>3, PollPreservesInv DEF States
  <1>5. CASE WaitForAck
    <2>1. PICK r \in Fd \cup {-1} :
              PollCall(r) /\ state' = IF r = -1 THEN "DONE" ELSE "ACK_RECVFROM"
      BY <1>5 DEF WaitForAck
    <2>2. socketNum > 0 /\ state # "DONE"
      BY <1>5, HasSocket DEF WaitForAck
    <2>3. UNCHANGED <<kernelVars, program, pollSet, socketNum, tries>>
      BY <1>5 DEF WaitForAck
    <2> QED BY <1>1, <2>1, <2>2, <2>3, PollPreservesInv DEF States
  <1>6. CASE PollWhileOpen
    <2>1. PICK r \in Fd \cup {-1} :
              PollCall(r) /\ state' = IF r # -1 THEN "RESPONSE_RECVFROM" ELSE "SEND_DATA"
      BY <1>6 DEF PollWhileOpen
    <2>2. socketNum > 0 /\ state # "DONE" /\ tries' = 0
      BY <1>6, HasSocket DEF PollWhileOpen
    <2>3. UNCHANGED <<kernelVars, program, pollSet, socketNum>>
      BY <1>6 DEF PollWhileOpen
    <2> QED BY <1>1, <2>1, <2>2, <2>3, PollPreservesInv DEF States
  <1>7. CASE PollWhileClosed
    <2>1. PICK r \in Fd \cup {-1} :
              PollCall(r) /\ ProcessPoll(r, "SEND_DATA", "RESPONSE_RECVFROM")
      BY <1>7 DEF PollWhileClosed
    <2>2. socketNum > 0 /\ state # "DONE"
      BY <1>7, HasSocket DEF PollWhileClosed
    <2>3. UNCHANGED <<kernelVars, program, pollSet, socketNum>>
      BY <1>7 DEF PollWhileClosed
    <2>4. {"SEND_DATA", "RESPONSE_RECVFROM"} \subseteq States
      BY DEF States
    <2>5. /\ tries' \in 0 .. MAX_TRIES
          /\ state' \in {"SEND_DATA", "RESPONSE_RECVFROM", "DONE"}
          /\ state' # "DONE" => tries' < MAX_TRIES
          /\ r = -1 => state' \in {"SEND_DATA", "DONE"}
          /\ tries' > tries => socketNum \notin readable
      BY <2>1, <2>2, <2>4, ProcessPollProperties
    <2> QED BY <2>1, <2>2, <2>3, <2>5, PollPreservesInv DEF States
  <1> QED BY <1>2, <1>3, <1>4, <1>5, <1>6, <1>7

(* The steps that take a datagram, and those of the kernel.                *)
LEMMA OthersPreserveInv ==
    ASSUME PollInv,
           GetFilenameStatus \/ ReceiveData \/ ReceiveResponse
               \/ DatagramArrives \/ UNCHANGED vars
    PROVE  PollInv' /\ UNCHANGED tries
  <1> USE DEF PollInv, TypeOK, IsPollSet, StdinStays, NoSocketYet, SocketWatched, OnlyEntry,
              TriesLeft, ReportsReadySocket, CallersFindDatagram, States
  <1>1. CASE GetFilenameStatus
    <2>1. socketNum > 0
      BY <1>1, HasSocket DEF GetFilenameStatus
    <2>2. /\ state = "FILENAME_STATUS"
          /\ state' \in {"SETUP_CONNECTION", "DONE", "FILENAME_OK"}
          /\ readable' \subseteq Fd
          /\ UNCHANGED <<program, hungUp, pollSet, socketNum, reported, tries>>
      BY <1>1 DEF GetFilenameStatus, Recvfrom
    <2>3. CASE UNCHANGED descriptor
      BY <2>1, <2>2, <2>3
    <2>4. CASE OpenFile
      <3>1. PICK f \in Fd : descriptor[f] = "closed" /\ descriptor' = [descriptor EXCEPT ![f] = "file"]
        BY <2>4 DEF OpenFile, IsLowestFree
      <3>2. /\ descriptor' \in [Fd -> {"closed", "inherited", "main", "socket", "file"}]
            /\ descriptor'[0] = "inherited" /\ descriptor'[socketNum] = "socket"
            /\ \A g \in Fd : descriptor'[g] \in {"main", "socket"} <=> g = socketNum
        BY <2>1, <2>2, <3>1, PollAssumption
      <3> QED BY <2>1, <2>2, <3>2
    <2> QED BY <1>1, <2>3, <2>4 DEF GetFilenameStatus
  <1>2. CASE ReceiveData
    BY <1>2, HasSocket DEF ReceiveData, Recvfrom
  <1>3. CASE ReceiveResponse
    BY <1>3, HasSocket DEF ReceiveResponse, Recvfrom
  <1>4. CASE DatagramArrives
    BY <1>4 DEF DatagramArrives, processVars
  <1>5. CASE UNCHANGED vars
    BY <1>5 DEF vars, kernelVars, processVars
  <1> QED BY <1>1, <1>2, <1>3, <1>4, <1>5

--------------------------------------------------------------------------------
(* Whatever was open at the start, nothing is watched yet.                 *)
LEMMA InitEstablishesSetInv ==
    ASSUME Init
    PROVE  SetInv
  <1>1. PICK fds \in Launches :
            \/ program = "rcopy" /\ descriptor = Launched(fds)
            \/ program = "child" /\ \E f \in Fd :
                  /\ IsLowestFree(f, Launched(fds))
                  /\ descriptor = [Launched(fds) EXCEPT ![f] = "main"]
    BY DEF Init
  <1>2. /\ 0 \in Fd /\ POLL_SET_SIZE \in Nat \ {0} /\ MAX_TRIES \in Nat \ {0}
    BY PollAssumption
  <1>3. /\ state = IF program = "rcopy" THEN "SETUP_CONNECTION" ELSE "PROCESS_FILENAME"
        /\ readable = {} /\ hungUp = FALSE /\ pollSet = SetupPollSet
        /\ socketNum = 0 /\ reported = -1 /\ tries = 0
    BY DEF Init
  <1>4. /\ descriptor \in [Fd -> {"closed", "inherited", "main", "socket", "file"}]
        /\ \A f \in Fd : descriptor[f] # "socket"
        /\ program = "rcopy" => \A f \in Fd : descriptor[f] # "main"
        /\ program \in {"rcopy", "child"}
    BY <1>1, <1>2 DEF Launched, IsLowestFree
  <1>5. IsPollSet(pollSet) /\ \A i \in 0 .. pollSet.size - 1 : pollSet.entries[i] = Unused
    BY <1>2, <1>3 DEF IsPollSet, SetupPollSet, Unused
  <1>6. TypeOK
    <2>1. state \in States
      BY <1>3 DEF States
    <2>2. readable \subseteq Fd /\ hungUp \in BOOLEAN /\ reported \in Fd \cup {-1}
      BY <1>3
    <2>3. socketNum \in Fd /\ tries \in 0 .. MAX_TRIES
      BY <1>2, <1>3
    <2> QED BY <1>4, <1>5, <2>1, <2>2, <2>3 DEF TypeOK
  <1> QED BY <1>2, <1>3, <1>4, <1>5, <1>6
          DEF SetInv, PollInv, NoSocketYet, SocketWatched, TriesLeft, ReportsReadySocket, CallersFindDatagram

(* The types, and the count of tries, do not depend on standard input.     *)
LEMMA NextPreservesTypes ==
    ASSUME TypeOK, TriesLeft, [Next]_vars
    PROVE  TypeOK' /\ TriesLeft'
  <1> USE DEF TypeOK, TriesLeft, States
  <1>1. MAX_TRIES \in Nat \ {0}
    BY PollAssumption
  <1>2. CASE SetupConnection
    <2> DEFINE table == IF socketNum > 0 THEN [descriptor EXCEPT ![socketNum] = "closed"]
                        ELSE descriptor
               ps == IF socketNum > 0 THEN RemoveFromPollSet(pollSet, socketNum) ELSE pollSet
    <2>1. /\ table \in [Fd -> {"closed", "inherited", "main", "socket", "file"}]
          /\ IsPollSet(ps)
      BY RemoveProperties
    <2>2. OpenSocket(table, ps) /\ readable' \subseteq Fd
          /\ UNCHANGED <<program, hungUp, reported, tries>>
          /\ state' \in {"SEND_FILENAME", "DONE"} /\ state # "DONE"
      BY <1>2 DEF SetupConnection
    <2> HIDE DEF table, ps
    <2>3. /\ descriptor' \in [Fd -> {"closed", "inherited", "main", "socket", "file"}]
          /\ socketNum' \in Fd /\ IsPollSet(pollSet')
      BY <2>1, <2>2, AddProperties DEF OpenSocket
    <2> QED BY <2>2, <2>3
  <1>3. CASE ProcessFilename
    <2> DEFINE table == [f \in Fd |-> IF descriptor[f] = "main" THEN "closed" ELSE descriptor[f]]
    <2>1. table \in [Fd -> {"closed", "inherited", "main", "socket", "file"}]
      OBVIOUS
    <2>2. PICK s \in Fd :
              /\ socketNum' = s /\ pollSet' = AddToPollSet(pollSet, s)
              /\ \/ descriptor' = [table EXCEPT ![s] = "socket"] /\ state' = "DONE"
                 \/ \E f \in Fd :
                        /\ descriptor' = [table EXCEPT ![s] = "socket", ![f] = "file"]
                        /\ state' = "WAIT_ON_FILENAME_OK_ACK"
      BY <1>3, Zenon DEF ProcessFilename
    <2> HIDE DEF table
    <2>3. /\ descriptor' \in [Fd -> {"closed", "inherited", "main", "socket", "file"}]
          /\ state' \in {"DONE", "WAIT_ON_FILENAME_OK_ACK"}
      BY <2>1, <2>2
    <2>4. socketNum' \in Fd /\ IsPollSet(pollSet')
      BY <2>2, AddProperties
    <2>5. UNCHANGED <<program, readable, hungUp, reported, tries>> /\ state # "DONE"
      BY <1>3 DEF ProcessFilename
    <2> QED BY <2>3, <2>4, <2>5
  <1>4. CASE \/ SendFilename \/ FilenameOk \/ PollForData \/ WaitForAck
             \/ PollWhileOpen \/ PollWhileClosed
    BY <1>1, <1>4 DEF SendFilename, FilenameOk, PollForData, WaitForAck, PollWhileOpen,
                      PollWhileClosed, PollCall, ProcessPoll, kernelVars, IsPollSet
  <1>5. CASE GetFilenameStatus
    BY <1>5 DEF GetFilenameStatus, Recvfrom, OpenFile, IsPollSet
  <1>6. CASE ReceiveData \/ ReceiveResponse
    BY <1>6 DEF ReceiveData, ReceiveResponse, Recvfrom, IsPollSet
  <1>7. CASE DatagramArrives \/ StdinHangsUp \/ UNCHANGED vars
    BY <1>7 DEF DatagramArrives, StdinHangsUp, vars, kernelVars, processVars, IsPollSet
  <1> QED BY <1>2, <1>3, <1>4, <1>5, <1>6, <1>7 DEF Next, RcopyNext, ChildNext

(* Standard input, once gone, does not come back.                          *)
LEMMA StdinWasThere ==
    ASSUME TypeOK, [Next]_vars, StdinStays'
    PROVE  StdinStays /\ ~StdinHangsUp
  <1>1. 0 \in Fd
    BY PollAssumption
  <1>2. ~hungUp' /\ descriptor'[0] = "inherited"
    BY DEF StdinStays
  <1>3. ~StdinHangsUp
    BY <1>2, Zenon DEF StdinHangsUp
  <1> USE DEF TypeOK
  <1>4. CASE SetupConnection
    <2>1. hungUp' = hungUp
      BY <1>4 DEF SetupConnection
    <2>2. descriptor[0] = "inherited"
      BY <1>1, <1>2, <1>4 DEF SetupConnection, OpenSocket
    <2> QED BY <1>2, <1>3, <2>1, <2>2, Zenon DEF StdinStays
  <1>5. CASE ProcessFilename
    <2>1. hungUp' = hungUp
      BY <1>5 DEF ProcessFilename
    <2>2. descriptor[0] = "inherited"
      BY <1>1, <1>2, <1>5 DEF ProcessFilename
    <2> QED BY <1>2, <1>3, <2>1, <2>2, Zenon DEF StdinStays
  <1>6. CASE GetFilenameStatus
    <2>1. hungUp' = hungUp
      BY <1>6 DEF GetFilenameStatus
    <2>2. descriptor[0] = "inherited"
      BY <1>1, <1>2, <1>6 DEF GetFilenameStatus, OpenFile
    <2> QED BY <1>2, <1>3, <2>1, <2>2, Zenon DEF StdinStays
  <1>7. CASE \/ SendFilename \/ FilenameOk \/ PollForData \/ WaitForAck
             \/ PollWhileOpen \/ PollWhileClosed \/ ReceiveData \/ ReceiveResponse
             \/ DatagramArrives \/ UNCHANGED vars
    <2>1. UNCHANGED <<descriptor, hungUp>>
      BY <1>7 DEF SendFilename, FilenameOk, PollForData, WaitForAck, PollWhileOpen,
                  PollWhileClosed, ReceiveData, ReceiveResponse, DatagramArrives, vars, kernelVars
    <2>2. descriptor' = descriptor /\ hungUp' = hungUp
      BY <2>1
    <2> QED BY <1>2, <1>3, <2>2, Zenon DEF StdinStays
  <1> QED BY <1>3, <1>4, <1>5, <1>6, <1>7 DEF Next, RcopyNext, ChildNext

(* Every step but the end of standard input keeps PollInv.                 *)
LEMMA NextPreservesPollInv ==
    ASSUME PollInv, [Next]_vars, ~StdinHangsUp
    PROVE  PollInv' /\ (tries' > tries => socketNum \notin readable)
  <1>1. tries \in Nat
    BY PollAssumption DEF PollInv, TypeOK
  <1>2. CASE SetupConnection
    BY <1>1, <1>2, SetupConnectionPreservesInv DEF SetupConnection
  <1>3. CASE ProcessFilename
    BY <1>1, <1>3, ProcessFilenamePreservesInv DEF ProcessFilename
  <1>4. CASE \/ SendFilename \/ FilenameOk \/ PollForData \/ WaitForAck
             \/ PollWhileOpen \/ PollWhileClosed
    BY <1>4, PollersPreserveInv
  <1>5. CASE \/ GetFilenameStatus \/ ReceiveData \/ ReceiveResponse
             \/ DatagramArrives \/ UNCHANGED vars
    BY <1>1, <1>5, OthersPreserveInv
  <1> QED BY <1>2, <1>3, <1>4, <1>5 DEF Next, RcopyNext, ChildNext

(* With that step the rest remains.                                        *)
LEMMA NextPreservesSetInv ==
    ASSUME SetInv, [Next]_vars
    PROVE  SetInv' /\ (StdinStays /\ tries' > tries => socketNum \notin readable)
  <1>1. TypeOK' /\ TriesLeft'
    BY NextPreservesTypes DEF SetInv
  <1>2. StdinStays' => PollInv'
    BY StdinWasThere, NextPreservesPollInv DEF SetInv
  <1>3. StdinStays /\ tries' > tries => socketNum \notin readable
    <2>1. CASE StdinHangsUp
      <3>1. tries' = tries /\ tries \in Nat
        BY <2>1, PollAssumption DEF StdinHangsUp, processVars, SetInv, TypeOK
      <3> QED BY <3>1
    <2>2. CASE ~StdinHangsUp
      BY <2>2, NextPreservesPollInv DEF SetInv
    <2> QED BY <2>1, <2>2
  <1> QED BY <1>1, <1>2, <1>3 DEF SetInv

(* While standard input is there, the poll set and the descriptors agree   *)
(* (setupConnection(), processFilename() and the poll of every handler).   *)
THEOREM PollSafety == Spec => []SetInv
  <1>1. Init => SetInv
    BY InitEstablishesSetInv
  <1>2. SetInv /\ [Next]_vars => SetInv'
    BY NextPreservesSetInv
  <1> QED BY <1>1, <1>2, PTL DEF Spec

(* SetInv says of a connected process what the run poll_set checks of it.  *)
LEMMA SetInvImplies ==
    SetInv => TypeOK /\ WatchesItsSocket /\ OneSocketOpen /\ ReportsReadySocket
  <1> SUFFICES ASSUME SetInv
               PROVE  TypeOK /\ WatchesItsSocket /\ OneSocketOpen /\ ReportsReadySocket
    OBVIOUS
  <1>1. TypeOK /\ ReportsReadySocket
    BY DEF SetInv, PollInv, ReportsReadySocket
  <1>2. CASE StdinStays /\ Connected
    <2>1. socketNum > 0 /\ state # "DONE"
      BY <1>2, HasSocket DEF SetInv, Connected
    <2>2. /\ OnlyEntry(pollSet, socketNum) /\ descriptor[socketNum] = "socket"
          /\ \A f \in Fd : descriptor[f] \in {"main", "socket"} <=> f = socketNum
      BY <1>2, <2>1 DEF SetInv, PollInv, SocketWatched
    <2>3. WatchesItsSocket
      BY <1>1, <2>2 DEF WatchesItsSocket, OnlyEntry, TypeOK, IsPollSet
    <2>4. OneSocketOpen
      BY <1>1, <2>2 DEF OneSocketOpen, TypeOK
    <2> QED BY <1>1, <2>3, <2>4
  <1>3. CASE ~(StdinStays /\ Connected)
    BY <1>1, <1>3 DEF WatchesItsSocket, OneSocketOpen
  <1> QED BY <1>2, <1>3

(* Types, for every set of descriptors open at the start.                  *)
THEOREM TypeSafety == Spec => []TypeOK
  BY PollSafety, SetInvImplies, PTL

(* Whatever was open at the start and however often the connection was set *)
(* up again, a connected process has pollCall() watch its own socket ...   *)
THEOREM SocketIsWatched == Spec => []WatchesItsSocket
  BY PollSafety, SetInvImplies, PTL

(* ... and has no other socket open: each retry closes the one before.     *)
THEOREM OneSocketIsOpen == Spec => []OneSocketOpen
  BY PollSafety, SetInvImplies, PTL

(* A recvfrom() after pollCall() returned a descriptor does not block.     *)
THEOREM ReportedIsReady == Spec => []ReportsReadySocket
  BY PollSafety, SetInvImplies, PTL

(* processPoll() counts a try only if nothing was there to be received.    *)
THEOREM CountedTriesAreTimeouts == Spec => TriesAreTimeouts
  <1>1. SetInv /\ [Next]_vars => [StdinStays /\ tries' > tries => socketNum \notin readable]_vars
    BY NextPreservesSetInv
  <1> QED BY <1>1, PollSafety, PTL DEF Spec, TriesAreTimeouts

================================================================================
