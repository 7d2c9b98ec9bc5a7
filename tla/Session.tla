--------------------------------- MODULE Session -------------------------------
(***************************************************************************)
(* Connection setup: rcopies that ask the server for a file, the main      *)
(* server that forks a child for every request, and the children, up to    *)
(* the first packet that receiveData() takes for a part of the file.       *)
(* FileTransfer goes on from there.                                        *)
(*                                                                         *)
(* Every datagram goes to a socket.  rcopy opens a new one for each try,   *)
(* so a socket of rcopy c is named by the number of the try, and what is   *)
(* on its way to an older one is lost.  A child is named by its place in   *)
(* the order of the forks, and that is also the address of its socket.     *)
(***************************************************************************)
EXTENDS Naturals, Sequences

CONSTANTS
    Client,         \* the rcopies
    Found,          \* those whose from-file the server can open
    MAX_TRIES,      \* the 10 passed to every processPoll()
    MaxFaults,      \* bound: datagrams dropped or flipped
    MaxDuplicates,  \* bound: datagrams delivered twice
    MaxData         \* bound: packets of the file a child sends in this model

ASSUME SessionAssumption ==
    /\ Found \subseteq Client
    /\ MAX_TRIES \in Nat \ {0}
    /\ MaxFaults \in Nat /\ MaxDuplicates \in Nat /\ MaxData \in Nat

VARIABLES
    clientState,  \* the STATE of processFile() of each rcopy
    socket,       \* which of its sockets is open; 0 before the first
    peer,         \* server->info: whom rcopy sends to
    inbox,        \* datagrams on their way to that socket, in order
    nameTries,    \* the static retryCount of sendFilename()
    okTries,      \* the static retryCount of filenameOk()
    toFile,       \* whether rcopy has created (and truncated) its to-file
    firstPacket,  \* what receiveData() first took for a packet of the file
    requests,     \* datagrams on their way to the main server, in order
    children,     \* the children forked so far
    faults,
    duplicates

rcopyVars  == <<clientState, socket, peer, nameTries, okTries, toFile, firstPacket>>
pathVars   == <<faults, duplicates>>
vars       == <<rcopyVars, inbox, requests, children, pathVars>>

Main    == 0                       \* the address of the main server
Forked  == DOMAIN children         \* the addresses of the children

Init ==
    /\ clientState = [c \in Client |-> "SETUP_CONNECTION"]
    /\ socket      = [c \in Client |-> 0]
    /\ peer        = [c \in Client |-> Main]
    /\ inbox       = [c \in Client |-> << >>]
    /\ nameTries   = [c \in Client |-> 0]
    /\ okTries     = [c \in Client |-> 0]
    /\ toFile      = [c \in Client |-> "untouched"]
    /\ firstPacket = [c \in Client |-> "none"]
    /\ requests = << >> /\ children = << >>
    /\ faults = 0 /\ duplicates = 0

--------------------------------------------------------------------------------
(***************************************************************************)
(* The path.  A request carries the socket it came from; a reply its flag, *)
(* the status in its first byte and the child it came from.  A flipped     *)
(* datagram is not intact, and its first byte may be anything.  A child    *)
(* never reads what comes from rcopy here: that something has arrived is   *)
(* all that counts, and a child that is DONE has no socket.                *)
(***************************************************************************)
Statuses == {"FNAME_OK", "FNAME_BAD", "OTHER"}

Request(c) == [client |-> c, socket |-> socket[c], intact |-> TRUE]

ReplyPDU(flag, status, k) == [flag |-> flag, status |-> status, from |-> k, intact |-> TRUE]

FlippedRequest(r) == {[r EXCEPT !.intact = FALSE]}
FlippedReply(r)   == {[r EXCEPT !.intact = FALSE, !.status = s] : s \in Statuses}

(* What can become of one sendPDU() of m: the datagrams that arrive.       *)
Arrivals(m, flipped) == {<<m>>, << >>, <<m, m>>} \cup {<<f>> : f \in flipped}

PathDelivers(m, arriving) ==
    \/ arriving = <<m>> /\ UNCHANGED pathVars
    \/ /\ arriving # <<m>> /\ Len(arriving) < 2 /\ faults < MaxFaults
       /\ faults' = faults + 1 /\ UNCHANGED duplicates
    \/ /\ Len(arriving) = 2 /\ duplicates < MaxDuplicates
       /\ duplicates' = duplicates + 1 /\ UNCHANGED faults

(* A datagram of rcopy c to its peer, whoever that is.                     *)
SendToPeer(c) ==
    \E arriving \in Arrivals(Request(c), FlippedRequest(Request(c))) :
        /\ PathDelivers(Request(c), arriving)
        /\ IF peer[c] = Main
           THEN requests' = requests \o arriving /\ UNCHANGED children
           ELSE /\ children' = [children EXCEPT ![peer[c]].arrived =
                       children[peer[c]].state # "DONE" /\ (@ \/ arriving # << >>)]
                /\ UNCHANGED requests

(* A datagram of child k to the socket its request came from.              *)
SendToClient(k, m) ==
    LET c == children[k].client
    IN  \E arriving \in Arrivals(m, FlippedReply(m)) :
            /\ PathDelivers(m, arriving)
            /\ inbox' = IF socket[c] = children[k].socket /\ clientState[c] # "DONE"
                        THEN [inbox EXCEPT ![c] = @ \o arriving] ELSE inbox

Goto(c, state)   == clientState' = [clientState EXCEPT ![c] = state]
EmptyInbox(c)    == inbox' = [inbox EXCEPT ![c] = << >>]
TakeFromInbox(c) == inbox' = [inbox EXCEPT ![c] = Tail(@)]
Exit(c)          == Goto(c, "DONE") /\ EmptyInbox(c)

--------------------------------------------------------------------------------
(* rcopy                                                                   *)

(* Mutant: the socket of the last try is used again.                       *)
SetupKeepsSocket(c) ==
    /\ clientState[c] = "SETUP_CONNECTION"
    /\ socket' = [socket EXCEPT ![c] = 1]
    /\ peer' = [peer EXCEPT ![c] = Main]
    /\ Goto(c, "SEND_FILENAME")
    /\ UNCHANGED <<nameTries, okTries, toFile, firstPacket, inbox, requests, children, pathVars>>

(* Mutant: the peer of the last try is kept.                               *)
SetupKeepsPeer(c) ==
    /\ clientState[c] = "SETUP_CONNECTION"
    /\ socket' = [socket EXCEPT ![c] = @ + 1]
    /\ EmptyInbox(c)
    /\ Goto(c, "SEND_FILENAME")
    /\ UNCHANGED <<peer, nameTries, okTries, toFile, firstPacket, requests, children, pathVars>>

(* setupConnection(): the old socket is closed and a new one opened, and   *)
(* the address is that of the main server again.                           *)
SetupConnection(c) ==
    /\ clientState[c] = "SETUP_CONNECTION"
    /\ socket' = [socket EXCEPT ![c] = @ + 1]
    /\ EmptyInbox(c)
    /\ peer' = [peer EXCEPT ![c] = Main]
    /\ Goto(c, "SEND_FILENAME")
    /\ UNCHANGED <<nameTries, okTries, toFile, firstPacket, requests, children, pathVars>>

(* sendFilename(), up to processPoll().                                    *)
SendFilename(c) ==
    /\ clientState[c] = "SEND_FILENAME"
    /\ SendToPeer(c)
    /\ Goto(c, "SEND_FILENAME_POLL")
    /\ UNCHANGED <<socket, peer, nameTries, okTries, toFile, firstPacket, inbox>>

(* Mutant: retryCount is not static.                                       *)
FilenameTimeoutForgetful(c) ==
    /\ clientState[c] = "SEND_FILENAME_POLL"
    /\ nameTries' = [nameTries EXCEPT ![c] = 0]
    /\ Goto(c, "SETUP_CONNECTION")
    /\ UNCHANGED <<socket, peer, okTries, toFile, firstPacket, inbox, requests, children, pathVars>>

(* Mutant: `>` for `>=` in the test of processPoll().                      *)
FilenameTimeoutOneMore(c) ==
    /\ clientState[c] = "SEND_FILENAME_POLL"
    /\ nameTries' = [nameTries EXCEPT ![c] = @ + 1]
    /\ \/ nameTries[c] + 1 > MAX_TRIES /\ Exit(c)
       \/ nameTries[c] + 1 <= MAX_TRIES /\ Goto(c, "SETUP_CONNECTION") /\ UNCHANGED inbox
    /\ UNCHANGED <<socket, peer, okTries, toFile, firstPacket, requests, children, pathVars>>

FilenameTimeout(c) ==
    /\ clientState[c] = "SEND_FILENAME_POLL"
    /\ nameTries' = [nameTries EXCEPT ![c] = @ + 1]
    /\ \/ nameTries[c] + 1 >= MAX_TRIES /\ Exit(c)
       \/ nameTries[c] + 1 < MAX_TRIES /\ Goto(c, "SETUP_CONNECTION") /\ UNCHANGED inbox
    /\ UNCHANGED <<socket, peer, okTries, toFile, firstPacket, requests, children, pathVars>>

(* Mutant: the checksum is not looked at.                                  *)
AcceptsFlippedStatus(m) == m.status = "FNAME_OK"

(* getFilenameStatus(): the first byte counts, the flag is not looked at.  *)
AcceptsStatus(m) == m.intact /\ m.status = "FNAME_OK"
RefusesStatus(m) == m.intact /\ m.status = "FNAME_BAD"

(* processPoll() returns FILENAME_STATUS, and retrievePDU() sets the peer. *)
(* The to-file may not open.                                               *)
GetFilenameStatus(c) ==
    /\ clientState[c] = "SEND_FILENAME_POLL"
    /\ inbox[c] # << >>
    /\ LET m == Head(inbox[c])
       IN  /\ peer' = [peer EXCEPT ![c] = m.from]
           /\ \/ /\ AcceptsStatus(m)
                 /\ toFile' = [toFile EXCEPT ![c] = "created"]
                 /\ Goto(c, "FILENAME_OK") /\ TakeFromInbox(c)
              \/ /\ AcceptsStatus(m) \/ RefusesStatus(m)
                 /\ Exit(c) /\ UNCHANGED toFile
              \/ /\ ~AcceptsStatus(m) /\ ~RefusesStatus(m)
                 /\ Goto(c, "SETUP_CONNECTION") /\ TakeFromInbox(c) /\ UNCHANGED toFile
    /\ nameTries' = [nameTries EXCEPT ![c] = 0]
    /\ UNCHANGED <<socket, okTries, firstPacket, requests, children, pathVars>>

(* filenameOk(), up to processPoll().                                      *)
SendFilenameOkAck(c) ==
    /\ clientState[c] = "FILENAME_OK"
    /\ SendToPeer(c)
    /\ Goto(c, "FILENAME_OK_POLL")
    /\ UNCHANGED <<socket, peer, nameTries, okTries, toFile, firstPacket, inbox>>

(* Mutant: retryCount is not static.                                       *)
FilenameOkTimeoutForgetful(c) ==
    /\ clientState[c] = "FILENAME_OK_POLL"
    /\ okTries' = [okTries EXCEPT ![c] = 0]
    /\ Goto(c, "FILENAME_OK")
    /\ UNCHANGED <<socket, peer, nameTries, toFile, firstPacket, inbox, requests, children, pathVars>>

FilenameOkTimeout(c) ==
    /\ clientState[c] = "FILENAME_OK_POLL"
    /\ okTries' = [okTries EXCEPT ![c] = @ + 1]
    /\ \/ okTries[c] + 1 >= MAX_TRIES /\ Exit(c)
       \/ okTries[c] + 1 < MAX_TRIES /\ Goto(c, "FILENAME_OK") /\ UNCHANGED inbox
    /\ UNCHANGED <<socket, peer, nameTries, toFile, firstPacket, requests, children, pathVars>>

FirstPacketArrives(c) ==
    /\ clientState[c] = "FILENAME_OK_POLL"
    /\ inbox[c] # << >>
    /\ okTries' = [okTries EXCEPT ![c] = 0]
    /\ Goto(c, "RECV_DATA")
    /\ UNCHANGED <<socket, peer, nameTries, toFile, firstPacket, inbox, requests, children, pathVars>>

(* receiveData(): the sender becomes the peer; of an intact packet only    *)
(* the sequence number and END_OF_FILE are looked at.  FNAME_STATUS has    *)
(* SETUP_SEQ_NUM, which is START_SEQ_NUM, the number expected first.       *)
ReceiveData(c) ==
    /\ clientState[c] = "RECV_DATA" /\ firstPacket[c] = "none"
    /\ inbox[c] # << >>
    /\ LET m == Head(inbox[c])
       IN  /\ peer' = [peer EXCEPT ![c] = m.from]
           /\ firstPacket' = [firstPacket EXCEPT ![c] = IF m.intact THEN m.flag ELSE "none"]
    /\ TakeFromInbox(c)
    /\ UNCHANGED <<clientState, socket, nameTries, okTries, toFile, requests, children, pathVars>>

--------------------------------------------------------------------------------
(* The main server and its children                                        *)

(* processServer(): any datagram with a good checksum forks a child.       *)
MainForks ==
    /\ requests # << >>
    /\ requests' = Tail(requests)
    /\ LET r == Head(requests)
       IN  children' = IF r.intact
                       THEN Append(children, [state |-> "PROCESS_FILENAME", client |-> r.client,
                                              socket |-> r.socket, arrived |-> FALSE, sent |-> 0])
                       ELSE children
    /\ UNCHANGED <<rcopyVars, inbox, pathVars>>

(* processFilename(): the status is sent once, from a socket of its own.   *)
ProcessFilename(k) ==
    /\ children[k].state = "PROCESS_FILENAME"
    /\ \/ /\ children[k].client \in Found
          /\ SendToClient(k, ReplyPDU("FNAME_STATUS", "FNAME_OK", k))
          /\ children' = [children EXCEPT ![k].state = "WAIT_ON_FILENAME_OK_ACK"]
       \/ /\ children[k].client \notin Found
          /\ SendToClient(k, ReplyPDU("FNAME_STATUS", "FNAME_BAD", k))
          /\ children' = [children EXCEPT ![k].state = "DONE"]
    /\ UNCHANGED <<rcopyVars, requests>>

(* filenameOk(): whatever arrives, flipped or not, stands for the ack.     *)
FilenameOkAckReceived(k) ==
    /\ children[k].state = "WAIT_ON_FILENAME_OK_ACK"
    /\ children[k].arrived
    /\ children' = [children EXCEPT ![k].state = "SEND_DATA", ![k].arrived = FALSE]
    /\ UNCHANGED <<rcopyVars, inbox, requests, pathVars>>

(* Mutant: filenameOk() goes on to SEND_DATA after a timeout, too.         *)
FilenameOkAckTimeoutServes(k) ==
    /\ children[k].state = "WAIT_ON_FILENAME_OK_ACK"
    /\ children' = [children EXCEPT ![k].state = "SEND_DATA", ![k].arrived = FALSE]
    /\ UNCHANGED <<rcopyVars, inbox, requests, pathVars>>

FilenameOkAckTimeout(k) ==
    /\ children[k].state = "WAIT_ON_FILENAME_OK_ACK"
    /\ children' = [children EXCEPT ![k].state = "DONE", ![k].arrived = FALSE]
    /\ UNCHANGED <<rcopyVars, inbox, requests, pathVars>>

(* sendData(), of which only that it sends packets of the file is kept.    *)
SendData(k) ==
    /\ children[k].state = "SEND_DATA" /\ children[k].sent < MaxData
    /\ SendToClient(k, ReplyPDU("DATA", "OTHER", k))
    /\ children' = [children EXCEPT ![k].sent = @ + 1]
    /\ UNCHANGED <<rcopyVars, requests>>

--------------------------------------------------------------------------------
ClientNext(c) ==
    \/ SetupConnection(c) \/ SendFilename(c) \/ FilenameTimeout(c) \/ GetFilenameStatus(c)
    \/ SendFilenameOkAck(c) \/ FilenameOkTimeout(c) \/ FirstPacketArrives(c)
    \/ ReceiveData(c)

ChildNext(k) ==
    \/ ProcessFilename(k) \/ FilenameOkAckReceived(k) \/ FilenameOkAckTimeout(k)
    \/ SendData(k)

Next ==
    \/ \E c \in Client : ClientNext(c)
    \/ MainForks
    \/ \E k \in Forked : ChildNext(k)

Spec == Init /\ [][Next]_vars

(* rcopy is scheduled, and every poll() of it returns, answer or not.      *)
(* Nothing is asked of the server or the path.                             *)
FairSpec == Spec /\ \A c \in Client : WF_vars(ClientNext(c))

--------------------------------------------------------------------------------
SetupStates == {"SETUP_CONNECTION", "SEND_FILENAME", "SEND_FILENAME_POLL",
                "FILENAME_OK", "FILENAME_OK_POLL", "RECV_DATA", "DONE"}

TypeOK ==
    /\ clientState \in [Client -> SetupStates]
    /\ socket \in [Client -> Nat] /\ peer \in [Client -> {Main} \cup Forked]
    /\ inbox \in [Client -> Seq([flag : {"FNAME_STATUS", "DATA"}, status : Statuses,
                                 from : Forked, intact : BOOLEAN])]
    /\ nameTries \in [Client -> 0 .. MAX_TRIES] /\ okTries \in [Client -> 0 .. MAX_TRIES]
    /\ toFile \in [Client -> {"untouched", "created"}]
    /\ firstPacket \in [Client -> {"none", "FNAME_STATUS", "DATA"}]
    /\ requests \in Seq([client : Client, socket : Nat, intact : BOOLEAN])
    /\ children \in Seq([state : {"PROCESS_FILENAME", "WAIT_ON_FILENAME_OK_ACK",
                                  "SEND_DATA", "DONE"},
                         client : Client, socket : Nat, arrived : BOOLEAN, sent : 0 .. MaxData])
    /\ faults \in 0 .. MaxFaults /\ duplicates \in 0 .. MaxDuplicates

ServesClient(k, c) == children[k].client = c /\ children[k].state = "SEND_DATA"

(***************************************************************************)
(* However often an rcopy asks, and however late the replies are, at most  *)
(* one of the children forked for it sends the file, and to the socket     *)
(* that is open: a child has nothing but a datagram on its socket to tell  *)
(* that it was chosen (filenameOk() looks at no field of it).              *)
(***************************************************************************)
OneChildServes ==
    \A c \in Client : \A k \in Forked :
        ServesClient(k, c) =>
            /\ children[k].socket = socket[c]
            /\ \A j \in Forked : ServesClient(j, c) => j = k

(***************************************************************************)
(* When rcopy sends its first FNAME_OK_ACK, it and its peer are where a    *)
(* FileTransfer starts: the peer is a child forked for the open socket, it *)
(* waits for the ack or has given up, and nothing is in flight between     *)
(* them.                                                                   *)
(***************************************************************************)
StartsAsFileTransfer ==
    \A c \in Client : clientState[c] = "FILENAME_OK" /\ okTries[c] = 0 =>
        /\ peer[c] \in Forked
        /\ LET child == children[peer[c]]
           IN  /\ child.client = c /\ child.socket = socket[c]
               /\ child.state \in {"WAIT_ON_FILENAME_OK_ACK", "DONE"}
               /\ ~child.arrived
        /\ inbox[c] = << >>

(***************************************************************************)
(* A to-file is created, and an old one of that name truncated, only when  *)
(* the server has the from-file, whatever the path flips                   *)
(* (getFilenameStatus() reads the status from any reply on its socket).    *)
(***************************************************************************)
NoCopyOfMissingFile ==
    \A c \in Client : toFile[c] = "created" => c \in Found

(***************************************************************************)
(* The first thing rcopy takes for a part of the file is one, although     *)
(* receiveData() never compares the flag with DATA.  With MaxDuplicates =  *)
(* 0 this rests on the new socket of each try.  README.md:10 says that     *)
(* the code is reliable on a path that duplicates, too.                    *)
(***************************************************************************)
FirstPacketIsData ==
    \A c \in Client : firstPacket[c] \in {"none", "DATA"}

(***************************************************************************)
(* The count of timeouts lives through the new connections it causes:      *)
(* rcopy opens at most MAX_TRIES sockets for each reply that it can make   *)
(* nothing of, and that reply was flipped (sendFilename() and              *)
(* getFilenameStatus() both go back to setupConnection()).                 *)
(***************************************************************************)
SocketsBounded == \A c \in Client : socket[c] <= MAX_TRIES * (faults + 1)

(***************************************************************************)
(* Sockets, tries, timers and a path that drops and flips implement        *)
(* FileRequest: rcopy has chosen its child when it has created the to-file *)
(* (getFilenameStatus()), and keeps it, although every recvfrom() sets the *)
(* peer again; a child sends the file only when it was chosen, although it *)
(* takes any datagram for the ack (filenameOk() of the server).            *)
(***************************************************************************)
Setup == INSTANCE FileRequest WITH
    forkedFor <- [k \in Forked |-> children[k].client],
    chosen    <- [c \in Client |-> IF toFile[c] = "created" THEN peer[c] ELSE 0],
    serving   <- {k \in Forked : children[k].state = "SEND_DATA"},
    first     <- firstPacket,
    present   <- [c \in Client |-> clientState[c] # "DONE"]

ImplementsFileRequest == Setup!Spec

(***************************************************************************)
(* rcopy's setup ends, in receiveData() or in an exit, whatever the server *)
(* and the path do (processPoll() under sendFilename() and filenameOk()).  *)
(***************************************************************************)
SetupEnds == \A c \in Client : <>(clientState[c] \in {"RECV_DATA", "DONE"})
================================================================================
