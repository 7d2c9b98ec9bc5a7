# A TLA+ verification of the selective-reject file transfer

The program is a file transfer over UDP: `rcopy` (the client) asks a `server`
for a file; the server forks a child that sends it through a sliding window;
`rcopy` buffers what arrives ahead of its turn, rejects the packets that are
missing (SREJ), acknowledges the rest cumulatively (RR) and writes the to-file.
Both send through `sendtoErr()`, which drops datagrams and flips bytes on purpose.

This directory holds TLA+ modules translated from the C source, TLC
configurations that check them on small instances, and proofs that TLAPS checks
for all values of the models' parameters. Paths below are relative to the
repository.

## 1. The system

### Components

| Component | Code | State it keeps | Operations | Modelled |
|---|---|---|---|---|
| Data transfer, server side | `src/server.c` (`filenameOk`, `sendData`, `processResponse`, `sendEofAndWaitForAck`), `src/slidingWindow.c` | the state of `processClient()`, the window's slots and its `lower`, `current`, `upper`, `serverSeqNum`, `atEOF`, `waitingForLastRR`, `tryCount` | send while the window is open, take one response per poll, wait on a closed window or for the last RR, resend the lowest, send END_OF_FILE until EOF_ACK | yes: `SlidingWindow`, `Server` |
| Data transfer, client side | `src/rcopy.c` (`filenameOk`, `receiveData`, `inOrder`, `buffer`, `flush`, `sendEOFAck`), `src/buffer.c` | the state of `processFile()`, `dataState`, `expectedSeqNum`, `highestSeqNum`, the buffer's entries, the to-file, `retryCount` | acknowledge the file name, write in order, buffer and reject, fill the gap and flush, answer old data, acknowledge the end | yes: `ReceiveBuffer`, `Rcopy` |
| PDUs and the datagram path | `src/pduHelpers.c`, `src/safeUtil.c`, `lib/libcpe464/checksum.c` | the bytes of a PDU, datagrams in flight | build a PDU, sum it, check it and take it apart; drop, flip, deliver twice, overtake | yes: `Pdu`, `UdpTransfer`, `Checksum` |
| A whole transfer | both programs | all of the above | the interleavings of the two processes, their timers and the path | yes: `FileTransfer`, `FileCopy` |
| Connection setup | `server.c` `processServer`, `processFilename`; `rcopy.c` `setupConnection`, `sendFilename`, `getFilenameStatus` | a socket per try, children forked so far | FNAME, FNAME_STATUS, fork for each FNAME | yes: `Session`, `FileRequest` |
| Poll set | `src/pollLib.c` | the array of descriptors, its size and its end, the result of the last poll | add, remove, grow, poll, count tries | yes: `PollSet` |
| Error injection | `lib/libcpe464` (`PacketManager.cpp`, `SettingsManager.cpp`, `network-hooks.c`) | settings, events, the number of the datagram, the seed | read the environment, `sendErr_init`, `forkMod`, `sendtoErr` | yes: `ErrorInjection`; debug output, ports and the autograder's settings are left out |
| Address lookup, socket setup, command lines | `src/gethostbyname.c`, `src/networks.c`, the `checkArgs()` of both programs | none | wrappers of system calls and of `atoi()` that exit on error | no: pure I/O; what the accepted values do is modelled where they are used |
| TCP samples | `src/myClient.c`, `src/myServer.c` | none | sample programs of the course | no: not part of the transfer |

### How they interact

The child and `rcopy` share nothing but datagrams. Each is one thread that blocks
in `poll()` or `recvfrom()` and otherwise runs a handler to its end, so what can
go wrong is in the order of datagrams and timers, not inside a handler. The
child sends DATA, RESENT_DATA_SREJ, RESENT_DATA_TIMEOUT and END_OF_FILE; `rcopy`
sends FNAME_OK_ACK, RR, SREJ and EOF_ACK. `slidingWindow.c` and `buffer.c` are
called synchronously by the process that owns them. When a process exits, its
socket and what was queued on it are gone, and later datagrams to it vanish.

### What is hard

* Both circular arrays are read by index alone. `getDataFromWindow()` and
  `getDataFromBuffer()` never compare the number stored in the slot with the one
  asked for. They are right only if no slot is reused too early, and that depends on
  the other process.
* `updateLower()` takes any RR, old ones included, and `isWindowOpen()` tests
  `current != upper`, not an order. The window stays sound only because RRs cannot
  go back, which has to be derived from `rcopy` and the path.
* `highestSeqNum` of `rcopy` follows the last packet buffered, not the highest.
* Timers race answers: a packet is resent while its RR is on its way, and rcopy
  gets it again after it was written.
* A lost SREJ is never sent again by a timer of `rcopy`; progress after a loss
  rests on the server's resend of its lowest packet and `rcopy`'s answer to old data.
* EOF_ACK is sent once; END_OF_FILE must not be sent while packets are
  outstanding; the test for the last RR reads a slot rather than `lower`.
* Every FNAME forks a child. A child is chosen by nothing but a datagram on its
  socket, and `receiveData()` looks at the sequence number of a packet, not at its
  flag: what keeps late and extra replies out is only the new socket of each try.
* `pollCall()` reports a timeout with -1, and its callers do not agree on that. It
  returns the index of an entry, so a descriptor number, an array index and a
  result of the poll are one number; unused entries watch descriptor 0.
* The settings of the error injection come from the program, the environment and the
  parent of a fork, in an order that differs between the two programs.
* The window's numbers are `uint32_t` in a PDU and `int` in the window.

PROJECT.json lists these with their lines under "hazards".

### What makes each component correct

* Server child: a slot is reused only when `rcopy` has its packet; the window only
  advances; END_OF_FILE goes out only after everything is acknowledged; the child
  always ends.
* rcopy: a buffered packet leaves the buffer only by being written; the to-file is
  always a prefix of the from-file; it takes END_OF_FILE only with the whole file.
* The transfer: it implements "copy, then confirm" (`FileCopy`), and completes if
  fewer datagrams are lost than an exchange has tries.
* Connection setup: however many children were forked for an `rcopy`, one serves it,
  and the two are in the state a transfer starts from; no to-file is created for a
  from-file the server does not have; the setup ends.
* PDUs: every flip of one byte is detected, and what is not flipped is accepted and
  read as it was written.
* Poll set: poll() watches the socket of the current try and nothing else, a process
  has one socket, a handler that goes on to `recvfrom()` because the poll reported something
  finds a datagram there, and only timeouts are counted as tries (but for divergences C and D).
* Error injection: what the environment says holds in every process however it was
  forked and whatever it asked for; a listed datagram is dropped, or flipped, and a rate
  of 0 does nothing; `sendtoErr()` is a link that drops and flips where that was asked for,
  and otherwise sends everything, in order and once. (Divergences A and B of section 4 are where it is not so.)
* The window in machine words: it is open just when fewer than its size are
  unacknowledged, and below 2^31 packets it never leaves its array, and what is resent is
  the packet asked for or the lowest not acknowledged (but for finding 2).

## 2. Modules

| Module | Models | Notes |
|---|---|---|
| `SharedConstants` | `include/sharedConstants.h`, the command line, the from-file | the constants and what is assumed of them |
| `SlidingWindow` | `src/slidingWindow.c` | one record for the four statics; one operator per function |
| `ReceiveBuffer` | `src/buffer.c`, the loop of `flush()` | the loop is one operator: where it stops, what it writes, what it invalidates |
| `Pdu` | `src/pduHelpers.c` over `sendtoErr()` and UDP | `Sent` is the set of outcomes of one `sendPDU()` |
| `Server` | the child, from WAIT_ON_FILENAME_OK_ACK to its exit | |
| `Rcopy` | `rcopy`, from FILENAME_OK to its exit | |
| `FileTransfer` | both, joined by two links; `Spec` and `TimelySpec`; the properties | extends `Server` and `Rcopy` |
| `FileCopy` | nothing: the abstract specification | instantiated by `FileTransfer` with a refinement mapping |
| `UdpTransfer` | `FileTransfer` on a path that also reorders | adds the action `Overtake` |
| `Session` | the main server, its children and several `rcopy`s, up to the first packet of a transfer | stands alone; `StartsAsFileTransfer` is its seam with `FileTransfer` |
| `FileRequest` | nothing: the abstract specification of a setup: fork, choose one child of one's own for good, serve only when chosen | instantiated by `Session` with a refinement mapping |
| `TransferInvariant` | nothing: the inductive invariant in named parts | |
| `Checksum` | `in_cksum()`, `createPDU()`, `retrieveHeader()` on bytes, one flipped byte between them | what `Pdu` and `Session` take for granted of a damaged datagram |
| `PollSet` | `pollLib.c` with the descriptors of the process, and the polls of both programs' handlers | what `Server` and `Rcopy` take for granted of `pollCall()` |
| `ErrorInjection` | the settings, events and hooks of libcpe464 as the programs use them | instantiates `LossyLink` twice: with any errors (`SendsInOrder`), and with those that were asked for (`ImplementsLossyLink`) |
| `LossyLink` | nothing: the abstract specification of a sender's path: in order, at most once, drops and single flips where they are switched on | what `Pdu` takes for granted of `sendtoErr()` |
| `WindowWords` | `slidingWindow.c` in words of w bits, with any window size the programs accept | how far `SlidingWindow`, over the naturals, can be trusted |
| `MCFileTransfer`, `MCUdpTransfer` | files of 3 to 5 distinct chunks for TLC | |
| `MCSession` | two rcopies for TLC, one of them with a file the server does not have | |
| `MCChecksum`, `MCPollSet`, `MCErrorInjection`, `MCWindowWords` | payloads, descriptors, environments and window sizes for TLC | |
| `TypeProofs` | nothing: lemmas about `Pdu` and the two arrays, types of `FileTransfer` | section 5 |
| `TransferProofs`, `UdpProofs` | nothing: the theorems about `FileTransfer` and `UdpTransfer` | section 5; both extend `TypeProofs` |
| `SessionProofs`, `PollSetProofs`, `ChecksumProofs`, `InjectionProofs`, `WindowWordsProofs` | nothing: the theorems about `Session`, `PollSet`, `Checksum`, `ErrorInjection`, `WindowWords` | section 5 |

### State and actions

A handler is one action, or two when it contains a `poll()`: what it does up to the
poll, and what it does with the poll's outcome. `serverState` and `clientState`
are therefore the state of `processClient()` or `processFile()` refined by the
poll (or blocking `recvfrom()`) a handler is in; the header comments of `Server`
and `Rcopy` list them. All a handler changes is in its action. For example
`FillGap` is `buffer()` writing the missing packet, the loop of `flush()`, and the
RR (and SREJ) after it; `ResponseWhileWaiting` is `processPoll()` returning
RESPONSE_RECV, its reset of `tryCount` and the whole of `processResponse()`.

In `Session` the datagrams of an `rcopy` go to `peer` (`server->info`), which
`setupConnection()` sets to the main server and every `recvfrom()` to whoever sent the
datagram. Its sockets are numbered by its tries; what is on its way to a closed
socket is lost. (A port number the system reuses at once is not modelled.) The main
server forks for any datagram with a good checksum, a child sends its status once, and
`ReceiveData` stops at the first packet taken for a part of the file; `SendData` keeps
of `sendData()` only that it sends, and the rest is `Server`'s.

`PollSet` follows one process, rcopy or a child of the server, and keeps of its handlers
only the descriptors they open and close, the polls they make and what they do with
the result. The kernel hands out the lowest free number. Which descriptors are open at the
start is left to `Launches`; the run takes all subsets. A datagram can arrive at any
time, so a poll that finds nothing has timed out.

`ErrorInjection` keeps the settings of every process as `forkMod()` copies them. Chance is
a choice: `drand48()` returns any number of `Draws`, and where a chance event runs,
any of those registered may be the one. `LossyLink` has two switches, whether a datagram may be
dropped and whether it may be flipped. `AnyLink` has both on, which leaves that what is sent leaves in order,
at most once and changed in one byte at most. `AskedLink` takes them from what the headers of
libcpe464 say of the settings, not from what the code does with them: a switch is on with a rate
above 0, or with a list of messages.

In `Checksum` a `uint32_t` is its four bytes in memory (little-endian), and `in_cksum()` is a
sum over pairs of bytes with the odd one last. `WindowWords` computes in `int` and
`uint32_t` of a width that `Half` gives (2^31 in the code), with C's remainder; the build
has no optimisation, so a signed overflow wraps.

Four points of the C code that are easy to misread, and how they are modelled:

* `lastDataSeqNum` in `sendData()` is an uninitialized local until the call that
  reaches the end of the file. `EqualsLastDataSeqNum` lets the comparison with it
  come out either way until then.
* `waitingForLastRR` and `atEOF` are static: they survive a return to `sendData()`.
  `tryCount` of `sendEofAndWaitForAck()` is another static than that of
  `sendData()`; `ReturnFromSendData` starts it at 0.
* `filenameOk()` of the server takes any datagram, even a corrupted one, for the
  FNAME_OK_ACK.
* In `SEND_DATA_POLL` a `pollCall(0)` takes at most one response, and may find none
  although one is on its way.

### Data abstraction

A chunk is what one `read()` of `bufferSize` bytes returns; the bytes in it never
matter. A PDU is a record of the fields its receiver reads. Checksums are modelled by
their effect: a PDU with a flipped byte arrives as `CRC_ERROR`, which every handler
drops before it looks further. That `in_cksum()` finds the flip of one byte is
`FlipDetected` of `Checksum`; that `sendtoErr()` does no more than drop it or flip one byte is
`SendsInOrder` of `ErrorInjection`. The sequence number `rcopy` puts into its own
headers is never read and is left out. Sequence numbers are naturals and
`NoIntOverflow` keeps a transfer below 2^31, the range of the window's `int`s;
`SafeBelowHalf` of `WindowWords` shows that this bound is enough. (The comment in
lib/libcpe464/checksum.c:37-41, that an odd length reads a byte past the data, is older than lines
76-79, which sum the last byte alone; `Checksum` follows the code.)

The path may drop, flip or duplicate a datagram, or have no room for it. It keeps
order in `Spec`, as `sendtoErr()` does (`SendsInOrder`) and one host, or one route; `UdpSpec`
drops that assumption.

## 3. Runs

| Run | Specification | Question | Result |
|---|---|---|---|
| `transfer` | `Spec` | With losses, flips and duplicates both ways, polls that run out at any time and reads that fail: types, the inductive invariant `TransferInv`, `OutputIsPrefix`, `UnwrittenStillInWindow`, `BufferedUntilWritten`, `WindowOnlyAdvances`, and the refinement `ImplementsFileCopy` | holds |
| `timely` | `TimelySpec` | `CopyCompletes`: a transfer that meets at most one fault each way ends with a full copy; `ServerTerminates`: the child ends even when more is lost than its tries can make up for | holds |
| `udp_counts` | `UdpSpec` | `CountsAgree`: even with reordering, END_OF_FILE follows only as many writes as the file has chunks | holds |
| `session` | `FairSpec` | Two rcopies, drops, flips and delays: types, `OneChildServes`, `StartsAsFileTransfer` (where `FileTransfer!Init` starts), `NoCopyOfMissingFile`, `FirstPacketIsData`, `SocketsBounded`, the refinement `ImplementsFileRequest`, and `SetupEnds` whatever the server and the path do | holds |
| `session_dup` | `Spec` | `FirstPacketIsData` when one datagram is delivered twice | violated, finding 4 |
| `udp_reorder` | `UdpSpec` | `OutputIsPrefix` with reordering | violated, finding 3 |
| `dead_server` | `TimelySpec` | `ClientNoticesDeadServer` (README.md:108) | violated, finding 1 |
| `last_rr` | `Spec` | `ResendsLowestUnacked` (README.md:104), no faults at all | violated, finding 2 |
| `injection` | `Spec` | Any command line, environment and order of forks and initialisations: `EnvironmentWins`, `ListDecides` (a drop list drops just what is on it), and `ImplementsLossyLink`, the refinement of a link that drops and flips only where the settings, as documented, ask for it | holds, with draws above 0 (divergence A) |
| `poll_set` | `Spec` | Any descriptors at the start, any number of tries: `WatchesItsSocket`, `OneSocketOpen`, `ReportsReadySocket`, `TriesAreTimeouts` | holds while standard input is there (`StdinStays`; divergences C and D are what happens otherwise) |
| `checksum` | `Spec` | `FlipDetected`, `IntactRetrieved`, and `CksumIsOnesComplement`: the code's two foldings against the reference definition | holds |
| `word_window` | `Spec` | Words of four bits, window sizes 0 to 3, files that wrap them: `OpenAsNumbers`, `SafeBelowHalf` | holds |

### Bounds

| Run | Chunks | WindowSize | MAX_TRIES | MaxFaults (each way) | QueueLimit | ReadMayFail |
|---|---|---|---|---|---|---|
| `transfer` | 5 | 3 | 2 | 2 | 4 | TRUE |
| `timely` | 4 | 2 | 4 | 5 | 8 | FALSE |
| `udp_counts` | 4 | 2 | 2 | 2 | 3 | TRUE |
| `udp_reorder` | 5 | 2 | 2 | 1 | 3 | FALSE |
| `dead_server` | 3 | 2 | 2 | 2 | 6 | FALSE |
| `last_rr` | 3 | 2 | 2 | 0 | 3 | FALSE |

* A file longer than the window makes both arrays wrap and a slot be reused, which
  is where reads by index can go wrong. A window of 3 leaves room for two packets
  behind a gap, so that `flush()` has a loop to run and can stop in the middle of it.
  Five chunks are the least at which a window that is one too wide reuses the slot of a
  packet that was not written, after the window has moved.
  The window can close with packets still to be read, which is the other half of
  `sendData()`.
* Two faults each way lose a packet and its retransmission, or lose one packet and
  an RR or SREJ about it; duplicates count as faults too. Polls that run out at any
  time add retransmissions that cost no fault.
* `MAX_TRIES` is 10 in the code. Two is the least with a retry and a give-up; the
  `timely` run has four, more than the losses that one fault each way (the hypothesis
  `FewFaults` of `CopyCompletes`) can cause one exchange, and fewer than its five faults
  each way, which can therefore use up all tries.
* `QueueLimit` is the room of a socket. A full link swallows datagrams without
  counting a fault. In `timely` and `dead_server` it is larger than what both sides can have in
  flight between two polls, so that the only losses there are the counted ones.
* `session` has two rcopies, two tries and one dropped or flipped datagram; timers run
  out at any time, so late replies cost no fault. A flipped status resets the count of tries, so
  the faults also bound the number of sockets. A child sends one packet (`MaxData`): the first one taken ends
  the model's interest in that rcopy. `session_dup` has one duplicate and no other fault.
* `injection` has two processes, three datagrams each and draws of 1 and 2: rates
  below, at and above the least of them, 0 among those below; the environments hold each kind of value (unset, not
  a number, negative, several) for each variable, alone and together.
* `poll_set` has seven descriptors, all 128 sets of them open at the start and an array
  that starts with two entries, so that sockets fall inside, at and past its end; three tries
  and the connections after them close and open sockets again.
* `checksum` has the bytes at which sums carry, do not, and carry twice, payloads of even
  and odd length, and flips every byte of every PDU; the proofs cover up to 1400 bytes.
* `word_window` has ints from -8 to 7 and 20 packets: the `int`s wrap at the eighth and the
  numbers at the sixteenth. 3 does not divide the number of words, so an index
  is wrong from the first negative number on, as it is in 32 bits for most sizes. The model
  stops at the first access outside of the array, so TLC meets edges that wrap again and again with window
  size 1 only (every remainder is 0) and the larger sizes up to their first bad index; that
  `OpenAsNumbers` holds for these as well, and however long, is the theorem `OpenAtEveryNumber`.
* All chunks differ, so a chunk in the wrong place is always seen.
* Every proof is for all values of the constants, so the bounds limit only what
  section 5 lists as model-checked.

Deadlock is not checked in any run: the program really stops. Both sides end, and a
blocked `rcopy` (finding 1) has no step left.

### Fairness and time

`Spec` has no fairness and lets a poll run out whenever the process is in it: nothing in
the safety results rests on the timers.

`TimelySpec` is for liveness. It says that the scheduler runs each of the two processes
(weak fairness of all of its steps together), and that the network and the processes
are faster than the 1 s timer: a poll of 1 s runs out only when nothing is in flight
and the peer waits as well. A 10 s timer outlasts the `MAX_TRIES` polls of 1 s of the
peer, so it runs out only when the peer has ended (10 tries of 1 s against one poll
of 10 s that was started no later). No fairness is assumed of the path: what is lost is
bounded by `MaxFaults` and chosen by TLC. A process in a state with nothing to
receive and no timer due is not obliged to step.

`FairSpec` of `Session` asks only that each rcopy is scheduled and that its polls
return, answer or not, which is what `poll()` with a timeout does. Nothing is asked of the
server, its children or the path.

Without the timing assumption `CopyCompletes` is not true of the code: timers faster
than the network exhaust the tries, and both sides give up, as they should.

## 4. Findings

1. `dead_server`: `receiveData()` tests `pollCall(LONG_TIME) == 0` for its timeout
   (src/rcopy.c:261), but `pollCall()` returns -1 on a timeout (src/pollLib.c:67,
   :73). rcopy then blocks in `recvfrom()`, against README.md:108. The shortest
   scenario: everything the server sends until it gives up is lost.
2. `last_rr`: `sendData()` decides whether the last RR is still to come with
   `getLowestSeqNum()` (src/server.c:283), the number stored in the slot of `lower`.
   When everything is already acknowledged, that slot holds an older packet (or zeros), so
   the server waits a second for an RR it has had and resends a packet that was
   acknowledged (README.md:104: "resends the lowest unacked seqNum"). The transfer
   still completes: rcopy answers old data with an RR (`timely` shows it). `SafeBelowHalf` of
   `WindowWords` says which packet that is: the one a round of the window before, or a slot
   never written.
3. `udp_reorder`: README.md:10 names reordering among what the code handles. Two RRs
   that arrive in the other order move `lower` and `upper` back (src/slidingWindow.c:36);
   `current` may then be past `upper`, the window counts as open for good, slots not yet
   acknowledged are overwritten, and an SREJ is answered with another packet's data.
   One lost packet then puts a wrong chunk in the to-file.
4. `session_dup`: `receiveData()` never compares the flag of a packet with DATA
   (src/rcopy.c:286), and FNAME_STATUS carries sequence number 0, the first one expected.
   An FNAME_STATUS that is delivered twice, or the status of a second child forked
   for an FNAME that is, becomes the first byte of the to-file; packet 0 of the
   file is then old data. README.md:10 names duplication. On a path that does not duplicate,
   `FirstPacketIsData` holds (`session`).

Not counted as a finding: EOF_ACK is sent once and rcopy exits, so when it is lost the
server goes on to resend END_OF_FILE until its tries are used up. The copy is complete, and
the server ends (`timely`).

In four more places, narrower than the findings above or in code around the protocol, the code does not do
what a comment says. Each has its property, next to the one that does hold, and a
configuration in which TLC finds it violated (`tlc -config zero_rate.cfg MCErrorInjection`). They are not
among the runs of PROJECT.json.

| | Configuration, module | Property | States of the counterexample |
|---|---|---|---|
| A | `zero_rate.cfg`, `MCErrorInjection` | `ZeroRateIsFaultless` | 4 |
| B | `flip_list.cfg`, `MCErrorInjection` | `FlipsAsListed` | 3 |
| C | `stdin_hung_up.cfg`, `MCPollSet` | `CallersFindDatagram` | 4 |
| D | `socket_zero.cfg`, `MCPollSet` | `TimeoutsReceiveNothing` | 4 |

* A. include/cpe464.h:82 and lib/libcpe464/networks/network-hooks.h:61 say of the error
  rate that "0 means no errors", but a chance event runs when the draw is `<=` the rate
  (lib/libcpe464/PacketManager.cpp:161), and `drand48()` can return 0. It is one draw in 2^48. With
  draws above 0, a rate of 0 is no errors: `ImplementsLossyLink` takes it so, in `injection` and in the
  theorem.
* B. lib/libcpe464/SettingsManager.h:17-18 offers a "list of MsgEvents to perform an event"
  for drops and for flips. The list of messages to flip is read and then not used
  (lib/libcpe464/SettingsManager.cpp:239, a TODO), and since the variable is set, the program's own
  FLIP_ON does not count either: nothing is flipped. A drop list does what it says (`ListDecides`);
  `EnvironmentWins` says nothing of a flip list.
* C. Entries of the poll set that are not in use hold descriptor 0 (src/pollLib.c:60), and
  `poll()` reports a hang-up on any descriptor it is given. When standard input is a
  terminal or pipe whose other end is gone, `pollCall()` returns 0, which is neither the socket nor
  the -1 of a timeout (src/pollLib.c:66-67). `filenameOk()` and `sendData()` of the server
  (src/server.c:229, :278) go on to a `recvfrom()` that blocks; `processPoll()` takes it for a timeout, and
  `receiveData()` for the end of the server. `ReportsReadySocket` is `CallersFindDatagram` under `StdinStays`.
* D. Started with standard input closed, a process gets socket 0. `processPoll()`
  takes a result that is not above 0 for a timeout (src/pollLib.c:115), so rcopy counts a try for
  every answer it gets, and gives up; src/pollLib.c:109 reserves that for a poll "without
  receiving anything". `TriesAreTimeouts` is `TimeoutsReceiveNothing` under `StdinStays`.

Seen while modelling, and in the models as the code has it, but contradicting nothing the
repository says:

* Children forked within one second seed their random numbers alike (src/server.c:103).
* Window size 0 is a division by zero (src/slidingWindow.c:40), and from packet 2^31 on the
  index into the window is negative.

## 5. Proofs

Each theorem is about the `Spec` of the module it names, for every value of its constants
that the assumptions allow.

| Assumption | Says | Why the code justifies it |
|---|---|---|
| `FileAssumption` | `File` is a sequence of chunks; `NoData` is none | every read before the last returns data |
| `WindowAssumption` | `WindowSize` is positive | 0 is a division by zero in both arrays |
| `TriesAssumption` | `MAX_TRIES` is positive | it is 10 |
| `NoIntOverflow` | the file has fewer than 2^31 chunks, with room for a window | the window's edges are `int` |
| `LinkAssumption`, `ReadAssumption` | types of the bounds | |
| `SessionAssumption` | `Found` is a set of clients, `MAX_TRIES` is positive, types of the bounds | as above |
| `PollAssumption` | descriptors are naturals, 0 among them; the array has an entry to start with | descriptor 0 is what unused entries hold; `POLL_SET_SIZE` is 10 |
| `InjectionAssumption` | draws are naturals, and rates integers on their scale; the environment's rate and seed are integers, unset, or not a number; types of the bounds | `drand48()` is not negative; `SettingsManager` tells just these three apart |
| `WordAssumption` | window sizes are from 0 to below 2^31; types of the bounds | with a negative size `sCalloc()` fails in `rcopy`, before it sends an FNAME |
| `ChecksumAssumption` | bytes are bytes, and a payload has at most 1400 of them | `MAX_PAYLOAD_SIZE` is 1400 |

| Theorem | Module | About | States |
|---|---|---|---|
| `TypeSafety` | `TypeProofs` | `FileTransfer` | `Spec => []TypeOK` |
| `TransferSafety` | `TransferProofs` | `FileTransfer` | `Spec => []TransferInv` |
| `OutputSafety` | `TransferProofs` | `FileTransfer` | `Spec => []OutputIsPrefix` |
| `WindowSafety` | `TransferProofs` | `FileTransfer` | `Spec => []UnwrittenStillInWindow` |
| `WindowAdvances` | `TransferProofs` | `FileTransfer` | `Spec => WindowOnlyAdvances` |
| `NothingBufferedIsLost` | `TransferProofs` | `FileTransfer` | `Spec => BufferedUntilWritten` |
| `TransferImplementsFileCopy` | `TransferProofs` | `FileTransfer` | `Spec => ImplementsFileCopy`, the refinement |
| `CountsSound` | `UdpProofs` | `UdpTransfer` | `UdpSpec => []CountsAgree` |
| `TypeSafety` | `SessionProofs` | `Session` | `Spec => []TypeOK` |
| `OneChildServesEach` | `SessionProofs` | `Session` | `Spec => [](duplicates = 0 => OneChildServes)` |
| `SessionHandsOver` | `SessionProofs` | `Session` | `Spec => [](duplicates = 0 => StartsAsFileTransfer)` |
| `MissingFileNotCopied` | `SessionProofs` | `Session` | `Spec => [](duplicates = 0 => NoCopyOfMissingFile)` |
| `DataComesFirst` | `SessionProofs` | `Session` | `Spec => [](duplicates = 0 => FirstPacketIsData)` |
| `SocketsAreBounded` | `SessionProofs` | `Session` | `Spec => [](duplicates = 0 => SocketsBounded)` |
| `SessionImplementsFileRequest` | `SessionProofs` | `Session` | `MaxDuplicates = 0` gives `Spec => ImplementsFileRequest`, the refinement |
| `TypeSafety` | `PollSetProofs` | `PollSet` | `Spec => []TypeOK` |
| `SocketIsWatched` | `PollSetProofs` | `PollSet` | `Spec => []WatchesItsSocket` |
| `OneSocketIsOpen` | `PollSetProofs` | `PollSet` | `Spec => []OneSocketOpen` |
| `ReportedIsReady` | `PollSetProofs` | `PollSet` | `Spec => []ReportsReadySocket` |
| `CountedTriesAreTimeouts` | `PollSetProofs` | `PollSet` | `Spec => TriesAreTimeouts` |
| `FlipsAreDetected` | `ChecksumProofs` | `Checksum` | `Spec => []FlipDetected` |
| `TypeSafety` | `ChecksumProofs` | `Checksum` | `Spec => []TypeOK` |
| `IntactIsRetrieved` | `ChecksumProofs` | `Checksum` | `Spec => []IntactRetrieved` |
| `CksumIsComplement` | `ChecksumProofs` | `Checksum` | `Spec => []CksumIsOnesComplement` |
| `TypeSafety` | `InjectionProofs` | `ErrorInjection` | `Spec => []TypeOK` |
| `ListAloneDecides` | `InjectionProofs` | `ErrorInjection` | `Spec => []ListDecides` |
| `EnvironmentDecides` | `InjectionProofs` | `ErrorInjection` | `Spec => []EnvironmentWins` |
| `SendingKeepsOrder` | `InjectionProofs` | `ErrorInjection` | `Spec => SendsInOrder`, the refinement of a link with any errors |
| `SendingIsALossyLink` | `InjectionProofs` | `ErrorInjection` | `ZeroIsNotDrawn` gives `Spec => ImplementsLossyLink`, the refinement of a link with the errors asked for |
| `TypeSafety` | `WindowWordsProofs` | `WindowWords` | `Spec => []TypeOK` |
| `OpenAtEveryNumber` | `WindowWordsProofs` | `WindowWords` | `Spec => []OpenAsNumbers` |
| `SafeBelowLimit` | `WindowWordsProofs` | `WindowWords` | `Spec => []SafeBelowHalf` |

Three hypotheses limit these. `duplicates = 0` says that no datagram of the setup was
delivered twice so far, and `MaxDuplicates = 0` that none ever will be (a refinement speaks of whole
behaviours); without them `FirstPacketIsData` is false (finding 4). `StdinStays`, inside the
properties of `PollSet`, says that standard input was open at the start and was not hung up; divergences C and D are what
happens otherwise. `ZeroIsNotDrawn` says that no draw of 0 meets a rate of 0 (divergence A).
`EnvironmentWins` says nothing of what a flip list does: that is `FlipsAsListed`, which is
false (divergence B). `SendingKeepsOrder` needs no hypothesis; it is what `Pdu`, `Session` and
`UdpTransfer` build on.

### The argument for `FileTransfer`

`OutputIsPrefix` is not inductive: whether the next write is right depends on what is
in flight, in the buffer and in the window. The inductive invariant is
`Inv == TypeOK /\ TransferInv`, in these parts (`TransferInvariant`):

* `WindowInv`: lower <= expected <= current <= upper = lower + WindowSize, and the
  slots of lower .. current - 1 hold their own packets. Since at most WindowSize
  consecutive numbers are involved and indices are injective on them
  (`GetIndexInjective`), adding a packet overwrites only an acknowledged one.
* `ToServerInv`: the RRs and SREJs in flight ask for numbers between lower and expected,
  in ascending order, and an SREJ only for a packet already sent. This is what
  `updateLower()` and `getDataFromWindow()` silently rely on.
* `ToClientInv`: packets in flight that are not yet written carry their chunk; only
  first transmissions can be ahead of expected, and they are in order. So `rcopy`'s
  highestSeqNum, the last packet buffered, is in fact the highest.
* `BufferInv`: valid entries are in their own place, above expected and at most
  highest, and the entry of highest is valid. Together with the window's bound on how
  far the server may run ahead, `flush()` can neither meet a stale entry nor write one
  under another number, and stops at the next gap or after the highest.
* `EndOfFileInv`: END_OF_FILE is sent only with lower = the length of the file.
  waitingForLastRR is set only at the end of a file that is not empty: that is what
  makes the stale read of finding 2 harmless to safety.
* `OutputInv`, `TeardownInv`, `TriesInv`: the to-file is the first `expected` chunks;
  each side ends only after the other came that far; a handler that can poll has tries left.

The circularity (RRs are ordered because rcopy's expected grows; expected grows
rightly because the window served the right data; the window did because RRs are
ordered) is why the parts are proved together: `InvInit` and `InvStep`, one lemma
per action. The refinement maps every step to a step of `FileCopy` or a stutter under
`Inv`, with `OutputIsAPrefix` giving the mapped `copy` its shape.

`TypeProofs` begins with the lemmas these proofs and those of `UdpProofs` share: the set of
outcomes of a send comes down to three facts (what may be appended to the queue, and that nothing
else changes), and the arithmetic of `%` gives the facts about the two arrays, `FlushStop` included.

### The argument for `UdpTransfer`

On a path that reorders, `TransferInv` is false: an old RR slides the window back, and its slots
need not hold what rcopy asks for (finding 3). What is left are numbers that only grow, so a
datagram that was true when it was sent is true whenever it arrives. `CountInv` is `TypeInv` and these:

* `LinksFit`: an RR asks for no number beyond `expectedSeqNum`, an SREJ and a data packet name only
  packets that were sent, END_OF_FILE and EOF_ACK are on their way only after the end.
* `SlotsFit`: `current` is `serverSeqNum` and a slot holds the number of a packet that was sent, or 0,
  whichever way the edges moved, so no resend invents a number.
* `EofCounts`: the server goes on to END_OF_FILE only after an RR for the number after the last
  packet, or when the test of src/server.c:283 shows that it had come. A window that slid back makes that
  test wait for nothing, and never skip what it should wait for.
* `ClientCounts`: rcopy has written one chunk for each number it no longer expects, expects and has
  buffered none that was not sent, and never buffers END_OF_FILE.

### The argument for `Session`

`OneChildServes` speaks of children, of which there may be any number, and nothing in a
datagram says which child it is for. `SessionInv` therefore ties requests, children and
replies to the socket of the try they belong to. As long as nothing was doubled:

* `RequestsInv`: each try has a socket of its own and asks once from it, so a request
  on its way is the only one of its socket and no child was forked for it yet. Hence at most
  one child per socket of an rcopy.
* `ChildInv`: a child that an ack has reached was forked for the socket its rcopy has open, and
  that rcopy has chosen its child. Two such children of one rcopy would share a socket.
* `ClientInv`: whatever is queued at an rcopy comes from the child forked for its open socket
  (`IsPeer`), and is a status while it asks and a packet of the file once it has chosen
  (`Expected`); the child it chose has no ack before it sends the first one; a to-file is created only
  for a file that was found; and the tries made are covered by a budget of `MAX_TRIES` for each
  fault, as a flipped status is all that sets their count back.

The refinement of `FileRequest` needs a second invariant, `ChoiceInv`, on top of `SessionInv`: an
rcopy that has created its to-file has a child of its own for a peer (every `recvfrom()` sets the
peer again, so this rests on all that is queued being from that child), a child that an ack has reached is
that peer, and a packet of the file on its way is from a child that serves. The children, of which
an rcopy may leave any number behind, are mapped to the clients they were forked for, in the order
of the forks.

### The argument for `PollSet`

`PollInv` holds while standard input stays: between adding its entry and closing it, a process has
one socket, its number is not 0, and its entry is the only one in use and inside the array that
`poll()` is given. The proof follows the order of the calls in a retry (remove, close, open,
add). `SetInv` is `PollInv` under that condition, with what holds without it.

### The argument for `Checksum`

The words of a PDU that was created add up to a multiple of 65535, and `checkChecksum()`
accepts no other sum. A flip replaces one byte by its complement, which changes one word by an
amount other than 0 and less than 65535. The loop of `in_cksum()`
is a recursive function, and induction over it is not available as a rule. The two facts that
need it (the sum changes by what the one word does; the sum is at most 65535 for each word) are
proved through the least index at which they would fail, which exists because `<` on the
naturals is well-founded.

### The argument for `ErrorInjection`

`InjectionInv` is `TypeOK`, `StartInv`, `SettingsInv` and `ListDecides`. `SettingsInv` says what the
two lists of events of each process are, element by element: those of the environment, followed
by those of the process's own `sendErr_init()` once it has run. A fork copies the parent's
lists, so `StartInv` is needed as well: the main server never initialises before it forks, and a
process that has not initialised has sent nothing. From the lists follow the events a process can have
(`EventsOfProcess`), and from these what may happen to a datagram: a drop list leaves no other event that
drops (`ListDrops`), and, as long as no draw of 0 meets a rate of 0, nothing is dropped or flipped where that
was not asked for (`OnlyWhereAsked`). Each send is then a step of `LossyLink`, and every other step a
stutter. That the environment and the program together register a random event once is counted from
the same lists (`ChanceLength`).

### The argument for `WindowWords`

`EdgesInv` says which number each word stands for: lower the packet last acknowledged, current the packets sent,
upper the last acknowledged plus the window, each modulo 2^32. Two numbers less than 2^32 apart are equal
if their words are, which makes `isWindowOpen()` right however often they wrap (`OpenAsNumbers`), for any
size, 0 included. `SlotsInv` adds what the slots hold as long as fewer than 2^31 packets were sent:
each of the last round of packets is in its slot, and the other slots were never written;
from there on the remainder of a negative `int` is negative, and it says nothing. `EndInv` says
that the server waits for the last RR only at the end of the file. So the resend with an open window
(src/server.c:301) is either of the lowest packet or, with everything acknowledged, of what is in the slot the
next packet would take: the packet one round before.

### Only model-checked

* `CopyCompletes`, `ServerTerminates`, `SetupEnds`: liveness under fairness is outside what TLAPS proves.
* The four violations, and the divergences A to D, are TLC's counterexamples.

Every other property of a run is a theorem above.

## 6. Not modelled, and what comes next

Not modelled: the addresses and sockets of `gethostbyname.c` and `networks.c`, the parsing of
the command lines, the TCP samples, DEBUG output, `perror()` exits of system-call wrappers
other than `read()`, the result of `write()` (which the code ignores), and the ports and the
autograder's settings of libcpe464. These keep no state of the protocol; what they pass on is a
constant or a choice of the models. `FileTransfer` starts where the child waits for
FNAME_OK_ACK and rcopy is about to send it, which is where `Session` shows the setup to end
on a path without duplicates.

Planned:

1. A composition of `Session` and `FileTransfer` at the seam `StartsAsFileTransfer`: a theorem that
   the state a setup ends in, seen through a mapping of one rcopy and its child, satisfies
   `FileTransfer!Init`.
2. How far `OutputIsPrefix` reaches on a path that reorders: the weakest restriction of `Overtake`
   (for instance, RRs among themselves in order) under which `TransferInv` is inductive again.
