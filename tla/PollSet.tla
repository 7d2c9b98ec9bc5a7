---------------------------------- MODULE PollSet ------------------------------
(***************************************************************************)
(* pollLib.c, the set of descriptors a process polls, as rcopy and a child *)
(* of the server use it.  What their handlers do with a datagram is left   *)
(* to Session and FileTransfer; here are the descriptors: which number a   *)
(* socket gets, what is registered under it, what poll() reports of it,    *)
(* and what the handlers take that for.                                    *)
(*                                                                         *)
(* A process is started with some descriptors open, 0 (standard input)     *)
(* among them or not, and the kernel hands out the lowest number that is   *)
(* free.  Every entry of the poll set that is not in use names descriptor  *)
(* 0, and poll() reports an error or a hang-up of that one unasked: two    *)
(* properties show what becomes of the comments of pollLib.c then, and the *)
(* others are about a process whose standard input is there and stays.     *)
(***************************************************************************)
EXTENDS Integers

CONSTANTS
    Fd,             \* the descriptors a process can have
    Launches,       \* the sets of descriptors a process is started with
    POLL_SET_SIZE,
    MAX_TRIES       \* the 10 passed to every processPoll()

ASSUME PollAssumption ==
    /\ Fd \subseteq Nat /\ 0 \in Fd
    /\ \A fds \in Launches : fds \subseteq Fd
    /\ POLL_SET_SIZE \in Nat \ {0} /\ MAX_TRIES \in Nat \ {0}

VARIABLES
    program,     \* "rcopy" or "child"
    state,       \* its STATE, or the recvfrom() it is in
    descriptor,  \* what each descriptor is: "closed", "inherited", "main", "socket", "file"
    readable,    \* the sockets with a datagram in them
    hungUp,      \* whether the other end of descriptor 0 is gone
    pollSet,     \* pollFileDescriptors, maxFileDescriptor, currentPollSetSize
    socketNum,   \* socketNum of the Connection; 0 before the first socket
    reported,    \* what pollCall() last returned
    tries        \* the counter passed to processPoll()

kernelVars  == <<descriptor, readable, hungUp>>
processVars == <<program, state, pollSet, socketNum, reported, tries>>
vars == <<kernelVars, processVars>>

--------------------------------------------------------------------------------
(* The library                                                             *)

Unused == [fd |-> 0, events |-> "none"]

SetupPollSet ==
    [entries |-> [i \in 0 .. POLL_SET_SIZE - 1 |-> Unused], max |-> 0, size |-> POLL_SET_SIZE]

(* Mutant: the set grows up to the socket, not past it.                    *)
GrowPollSetShort(ps, newSize) ==
    [ps EXCEPT !.entries = [i \in 0 .. newSize - POLL_SET_SIZE - 1 |->
                                IF i < ps.size THEN ps.entries[i] ELSE Unused],
               !.size = newSize]

GrowPollSet(ps, newSize) ==
    [ps EXCEPT !.entries = [i \in 0 .. newSize - 1 |->
                                IF i < ps.size THEN ps.entries[i] ELSE Unused],
               !.size = newSize]

(* growPollSet()'s test that the new size is larger cannot fail here.      *)
AddToPollSet(ps, s) ==
    LET grown == IF s >= ps.size THEN GrowPollSet(ps, s + POLL_SET_SIZE) ELSE ps
    IN  [grown EXCEPT !.max = IF s + 1 >= @ THEN s + 1 ELSE @,
                      !.entries = [@ EXCEPT ![s] = [fd |-> s, events |-> "POLLIN"]]]

RemoveFromPollSet(ps, s) == [ps EXCEPT !.entries = [@ EXCEPT ![s] = Unused]]

(* Mutant: the entry of the highest descriptor is not looked at.           *)
ReportedBelowMax ==
    {i \in 0 .. pollSet.max - 2 :
        LET entry == pollSet.entries[i]
        IN  entry.events = "POLLIN" /\ entry.fd \in readable}

(* The entries poll() sets revents of: POLLNVAL, POLLHUP or POLLIN.        *)
Reported ==
    {i \in 0 .. pollSet.max - 1 :
        LET entry == pollSet.entries[i]
        IN  \/ descriptor[entry.fd] = "closed"
            \/ entry.fd = 0 /\ hungUp
            \/ entry.events = "POLLIN" /\ entry.fd \in readable}

(* pollCall() returns r: the lowest of them, or -1 when it times out.      *)
PollCall(r) ==
    /\ \/ r = -1 /\ Reported = {}
       \/ r \in Reported /\ \A i \in Reported : r <= i
    /\ reported' = r

(* Mutant: `!= 0` for `> 0`.                                               *)
ProcessPollNonzero(r, timeoutState, dataState) ==
    \/ r # 0 /\ tries' = 0 /\ state' = dataState
    \/ /\ r = 0 /\ tries' = tries + 1
       /\ state' = IF tries + 1 >= MAX_TRIES THEN "DONE" ELSE timeoutState

(* processPoll(), after its pollCall() returned r.                         *)
ProcessPoll(r, timeoutState, dataState) ==
    \/ r > 0 /\ tries' = 0 /\ state' = dataState
    \/ /\ r <= 0 /\ tries' = tries + 1
       /\ state' = IF tries + 1 >= MAX_TRIES THEN "DONE" ELSE timeoutState

--------------------------------------------------------------------------------
(* The kernel                                                              *)

IsLowestFree(f, table) ==
    /\ table[f] = "closed"
    /\ \A g \in Fd : g < f => table[g] # "closed"

NoneFree(table) == \A f \in Fd : table[f] # "closed"

(* fds is open at the start; the server has its own socket besides.        *)
Launched(fds) == [f \in Fd |-> IF f \in fds THEN "inherited" ELSE "closed"]

Init ==
    /\ program \in {"rcopy", "child"}
    /\ \E fds \in Launches :
           \/ program = "rcopy" /\ descriptor = Launched(fds)
           \/ program = "child" /\ \E f \in Fd :
                 /\ IsLowestFree(f, Launched(fds))
                 /\ descriptor = [Launched(fds) EXCEPT ![f] = "main"]
    /\ state = IF program = "rcopy" THEN "SETUP_CONNECTION" ELSE "PROCESS_FILENAME"
    /\ readable = {} /\ hungUp = FALSE
    /\ pollSet = SetupPollSet
    /\ socketNum = 0 /\ reported = -1 /\ tries = 0

DatagramArrives ==
    /\ \E f \in Fd : descriptor[f] = "socket" /\ readable' = readable \cup {f}
    /\ UNCHANGED <<processVars, descriptor, hungUp>>

StdinHangsUp ==
    /\ descriptor[0] = "inherited"
    /\ hungUp' = TRUE
    /\ UNCHANGED <<processVars, descriptor, readable>>

(* socket() fails when there is no descriptor left, and the program exits. *)
OpenSocket(table, ps) ==
    \/ \E s \in Fd :
           /\ IsLowestFree(s, table)
           /\ descriptor' = [table EXCEPT ![s] = "socket"]
           /\ socketNum' = s
           /\ pollSet' = AddToPollSet(ps, s)
    \/ /\ NoneFree(table)
       /\ descriptor' = table /\ pollSet' = ps /\ UNCHANGED socketNum

(* open() of the from-file or the to-file.                                 *)
OpenFile ==
    \E f \in Fd :
        IsLowestFree(f, descriptor) /\ descriptor' = [descriptor EXCEPT ![f] = "file"]

(* recvfrom() takes a datagram; there may be more in the socket.           *)
Recvfrom ==
    /\ socketNum \in readable
    /\ readable' \in {readable, readable \ {socketNum}}

--------------------------------------------------------------------------------
(* rcopy                                                                   *)

(* Mutant: the old entry is removed after the new one was added.           *)
SetupConnectionRemovesLast ==
    /\ state = "SETUP_CONNECTION"
    /\ \E s \in Fd :
           /\ IsLowestFree(s, [descriptor EXCEPT ![socketNum] =
                                  IF socketNum > 0 THEN "closed" ELSE @])
           /\ descriptor' = [descriptor EXCEPT ![s] = "socket"]
           /\ socketNum' = s
           /\ pollSet' = IF socketNum > 0
                         THEN RemoveFromPollSet(AddToPollSet(pollSet, s), socketNum)
                         ELSE AddToPollSet(pollSet, s)
    /\ readable' = readable \ {socketNum}
    /\ state' = "SEND_FILENAME"
    /\ UNCHANGED <<program, hungUp, reported, tries>>

(* Mutant: the old socket stays open.                                      *)
SetupConnectionLeaksSocket ==
    /\ state = "SETUP_CONNECTION"
    /\ OpenSocket(descriptor, IF socketNum > 0 THEN RemoveFromPollSet(pollSet, socketNum)
                              ELSE pollSet)
    /\ state' = IF descriptor'[socketNum'] = "socket" THEN "SEND_FILENAME" ELSE "DONE"
    /\ UNCHANGED <<program, readable, hungUp, reported, tries>>

(* setupConnection(): the socket of the last try is closed, and its entry  *)
(* removed, before there is a new one.                                     *)
SetupConnection ==
    /\ state = "SETUP_CONNECTION"
    /\ IF socketNum > 0
       THEN /\ OpenSocket([descriptor EXCEPT ![socketNum] = "closed"],
                          RemoveFromPollSet(pollSet, socketNum))
            /\ readable' = readable \ {socketNum}
       ELSE OpenSocket(descriptor, pollSet) /\ UNCHANGED readable
    /\ state' = IF descriptor'[socketNum'] = "socket" THEN "SEND_FILENAME" ELSE "DONE"
    /\ UNCHANGED <<program, hungUp, reported, tries>>

(* sendFilename(), after the FNAME.                                        *)
SendFilename ==
    /\ state = "SEND_FILENAME"
    /\ \E r \in Fd \cup {-1} :
           PollCall(r) /\ ProcessPoll(r, "SETUP_CONNECTION", "FILENAME_STATUS")
    /\ UNCHANGED <<kernelVars, program, pollSet, socketNum>>

(* getFilenameStatus(): nothing to be made of it; refused; or accepted,    *)
(* and the to-file opens or does not.                                      *)
GetFilenameStatus ==
    /\ state = "FILENAME_STATUS"
    /\ Recvfrom
    /\ \/ state' \in {"SETUP_CONNECTION", "DONE"} /\ UNCHANGED descriptor
       \/ OpenFile /\ state' = "FILENAME_OK"
    /\ UNCHANGED <<program, hungUp, pollSet, socketNum, reported, tries>>

(* filenameOk() of rcopy, after its ack.                                   *)
FilenameOk ==
    /\ state = "FILENAME_OK"
    /\ \E r \in Fd \cup {-1} : PollCall(r) /\ ProcessPoll(r, "FILENAME_OK", "RECV_DATA")
    /\ UNCHANGED <<kernelVars, program, pollSet, socketNum>>

(* receiveData(): its poll, and the recvfrom() after it.                   *)
PollForData ==
    /\ state = "RECV_DATA"
    /\ \E r \in Fd \cup {-1} :
           PollCall(r) /\ state' = IF r = 0 THEN "DONE" ELSE "RECV_DATA_RECVFROM"
    /\ UNCHANGED <<kernelVars, program, pollSet, socketNum, tries>>

ReceiveData ==
    /\ state = "RECV_DATA_RECVFROM"
    /\ Recvfrom
    /\ state' \in {"RECV_DATA", "DONE"}
    /\ UNCHANGED <<program, descriptor, hungUp, pollSet, socketNum, reported, tries>>

--------------------------------------------------------------------------------
(* A child of the server                                                   *)

(* The main server's socket is closed, then processFilename(): a socket of *)
(* its own, and the from-file, which may not open.                         *)
ProcessFilename ==
    /\ state = "PROCESS_FILENAME"
    /\ LET table == [f \in Fd |-> IF descriptor[f] = "main" THEN "closed" ELSE descriptor[f]]
       IN  \E s \in Fd :
             /\ IsLowestFree(s, table)
             /\ socketNum' = s /\ pollSet' = AddToPollSet(pollSet, s)
             /\ \/ /\ descriptor' = [table EXCEPT ![s] = "socket"]
                   /\ state' = "DONE"
                \/ \E f \in Fd \ {s} :
                       /\ IsLowestFree(f, [table EXCEPT ![s] = "socket"])
                       /\ descriptor' = [table EXCEPT ![s] = "socket", ![f] = "file"]
                       /\ state' = "WAIT_ON_FILENAME_OK_ACK"
    /\ UNCHANGED <<program, readable, hungUp, reported, tries>>

(* filenameOk() of the server.                                             *)
WaitForAck ==
    /\ state = "WAIT_ON_FILENAME_OK_ACK"
    /\ \E r \in Fd \cup {-1} :
           PollCall(r) /\ state' = IF r = -1 THEN "DONE" ELSE "ACK_RECVFROM"
    /\ UNCHANGED <<kernelVars, program, pollSet, socketNum, tries>>

(* sendData(): the poll while the window is open, and the one after it;    *)
(* sendEofAndWaitForAck() polls as the latter does.                        *)
PollWhileOpen ==
    /\ state = "SEND_DATA"
    /\ \E r \in Fd \cup {-1} :
           PollCall(r) /\ state' = IF r # -1 THEN "RESPONSE_RECVFROM" ELSE "SEND_DATA"
    /\ tries' = 0
    /\ UNCHANGED <<kernelVars, program, pollSet, socketNum>>

PollWhileClosed ==
    /\ state = "SEND_DATA"
    /\ \E r \in Fd \cup {-1} : PollCall(r) /\ ProcessPoll(r, "SEND_DATA", "RESPONSE_RECVFROM")
    /\ UNCHANGED <<kernelVars, program, pollSet, socketNum>>

(* The recvfrom() of filenameOk() and of processResponse().                *)
ReceiveResponse ==
    /\ state \in {"ACK_RECVFROM", "RESPONSE_RECVFROM"}
    /\ Recvfrom
    /\ \/ state' = "SEND_DATA"
       \/ state = "RESPONSE_RECVFROM" /\ state' = "DONE"
    /\ UNCHANGED <<program, descriptor, hungUp, pollSet, socketNum, reported, tries>>

--------------------------------------------------------------------------------
RcopyNext ==
    \/ SetupConnection \/ SendFilename \/ GetFilenameStatus \/ FilenameOk
    \/ PollForData \/ ReceiveData

ChildNext ==
    \/ ProcessFilename \/ WaitForAck \/ PollWhileOpen \/ PollWhileClosed \/ ReceiveResponse

Next == DatagramArrives \/ StdinHangsUp \/ RcopyNext \/ ChildNext

Spec == Init /\ [][Next]_vars
--------------------------------------------------------------------------------
States ==
    {"SETUP_CONNECTION", "SEND_FILENAME", "FILENAME_STATUS", "FILENAME_OK", "RECV_DATA",
     "RECV_DATA_RECVFROM", "PROCESS_FILENAME", "WAIT_ON_FILENAME_OK_ACK", "ACK_RECVFROM",
     "SEND_DATA", "RESPONSE_RECVFROM", "DONE"}

IsPollSet(ps) ==
    /\ ps = [entries |-> ps.entries, max |-> ps.max, size |-> ps.size]
    /\ ps.size \in Nat /\ ps.max \in 0 .. ps.size
    /\ ps.entries \in [0 .. ps.size - 1 -> [fd : Fd, events : {"none", "POLLIN"}]]

TypeOK ==
    /\ program \in {"rcopy", "child"} /\ state \in States
    /\ descriptor \in [Fd -> {"closed", "inherited", "main", "socket", "file"}]
    /\ readable \subseteq Fd /\ hungUp \in BOOLEAN
    /\ IsPollSet(pollSet)
    /\ socketNum \in Fd /\ reported \in Fd \cup {-1} /\ tries \in 0 .. MAX_TRIES

(* Standard input was open at the start, and its other end is still there. *)
(* Without it a socket can be descriptor 0, which processPoll() counts as  *)
(* a timeout and setupConnection() never closes; after a hang-up           *)
(* pollCall() returns 0 at once, which three handlers take for data.       *)
StdinStays == descriptor[0] = "inherited" /\ ~hungUp

(* The socket has been opened, and the process uses it.                    *)
Connected ==
    state \notin {"SETUP_CONNECTION", "PROCESS_FILENAME", "DONE"}

(***************************************************************************)
(* Whatever number the socket of this try got, and however often the array *)
(* grew or an entry was removed before it, poll() watches that socket and  *)
(* nothing else: its entry lies below maxFileDescriptor, and all others    *)
(* are unused (setupConnection(), addToPollSet(), removeFromPollSet()).    *)
(***************************************************************************)
WatchesItsSocket ==
    StdinStays /\ Connected =>
        /\ descriptor[socketNum] = "socket"
        /\ socketNum < pollSet.max /\ pollSet.max <= pollSet.size
        /\ \A i \in 0 .. pollSet.size - 1 :
               pollSet.entries[i] = IF i = socketNum THEN [fd |-> i, events |-> "POLLIN"]
                                    ELSE Unused

(***************************************************************************)
(* However often rcopy tries, it has one socket, and a child does not keep *)
(* that of the main server (setupConnection() closes the old one).         *)
(***************************************************************************)
OneSocketOpen ==
    StdinStays /\ Connected => {f \in Fd : descriptor[f] \in {"main", "socket"}} = {socketNum}

(* What the library's comments promise of any process, and what holds of   *)
(* one whose standard input is there.                                      *)

(***************************************************************************)
(* pollLib.c:66: pollCall() returns the socket number if one is ready for  *)
(* read, and -1 on a timeout.  A handler that goes on to recvfrom() for it *)
(* does not block there, as the timers of the protocol take for granted    *)
(* (receiveData() goes there after a timeout as well).                     *)
(***************************************************************************)
CallersFindDatagram ==
    \/ state \in {"FILENAME_STATUS", "ACK_RECVFROM", "RESPONSE_RECVFROM"}
    \/ state = "RECV_DATA_RECVFROM" /\ reported # -1
    => reported = socketNum /\ socketNum \in readable

(***************************************************************************)
(* So it is as long as standard input is there: pollCall() never takes an  *)
(* unused entry for the socket, and no datagram is lost between a poll and *)
(* the recvfrom() after it.                                                *)
(***************************************************************************)
ReportsReadySocket == StdinStays => CallersFindDatagram

(***************************************************************************)
(* pollLib.c:109: the timeout state is for a poll that times out without   *)
(* receiving anything: processPoll() counts a try only when nothing is     *)
(* there to be received.                                                   *)
(***************************************************************************)
TimeoutsReceiveNothing == [][tries' > tries => socketNum \notin readable]_vars

(***************************************************************************)
(* So it is as long as standard input is there: then no socket is number   *)
(* 0, which processPoll() takes for a timeout, and poll() looks at it.     *)
(***************************************************************************)
TriesAreTimeouts == [][StdinStays /\ tries' > tries => socketNum \notin readable]_vars
================================================================================
