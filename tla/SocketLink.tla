------------------------------ MODULE SocketLink ------------------------------
(***************************************************************************)
(* The TCP link of each network interface, as the three controller threads *)
(* that share one TcpSocketClient see it: the connection controller (NCC)  *)
(* builds, accepts, pings and rebuilds, the reader blocks in recv, the     *)
(* writer sends messages in three segments.  connectionStatus and          *)
(* socketObject are read and written without a lock, so every access to    *)
(* them is a step; sockets live in the descriptor table of the process,    *)
(* which hands out the lowest free number, so a closed number comes back.  *)
(*                                                                         *)
(* Data is abstracted: a message is three segments, received bytes are one *)
(* flag per socket, and time (usleep, CpuLimiter) is left out: a thread    *)
(* may be delayed between any two of its steps.                            *)
(***************************************************************************)
EXTENDS Integers, FiniteSets

CONSTANTS
  Interfaces,     \* entries of networkList that have a connection controller
  Readers,        \* those that also have a reader controller
  Writers,        \* those that also have a writer controller
  Ports,          \* values of the hostPort setting
  MaxFd,          \* bound: descriptor numbers are 0 .. MaxFd
  Socks,          \* bound: identities for the sockets alive at one time
  MaxQueue,       \* bound: messages waiting in one writeBuffer
  AutoReconnect,  \* Auto-Reconnect of NetworkConnectionController
  AutoRestart,    \* Auto-Restart of NetworkReaderController
  SetupMayFail    \* may socket, setsockopt, bind and listen return an error?

Fds == 0 .. MaxFd
NoFd == -1
NoFile == 0        \* a free descriptor number
Stdin == -1        \* the file every process starts with on descriptor 0

ASSUME LinkAssumption ==
  /\ Interfaces # {}
  /\ Readers \subseteq Interfaces
  /\ Writers \subseteq Interfaces
  /\ Ports \subseteq Nat
  /\ MaxFd \in Nat
  /\ IsFiniteSet(Socks)
  /\ Socks \subseteq Nat \ {0}
  /\ MaxQueue \in Nat
  /\ AutoReconnect \in BOOLEAN
  /\ AutoRestart \in BOOLEAN
  /\ SetupMayFail \in BOOLEAN

VARIABLES
  hostPort,                         \* of each TcpSocketClient, from the settings
  connectionStatus, socketObject,   \* TcpSocketClient
  state, nccPc, temp,               \* connection controller: state, place,
                                    \* and tempSocketObject of acceptSocket
  readerPc, readerSock,             \* reader, and the socket its recv is in
  writerPc, queued,                 \* writer, and the length of writeBuffer
  fdTable, sock                     \* operating system

link == <<connectionStatus, socketObject>>
ncc == <<state, nccPc, temp>>
reader == <<readerPc, readerSock>>
writer == <<writerPc, queued>>
kernel == <<fdTable, sock>>
vars == <<hostPort, link, ncc, reader, writer, kernel>>

States == {"TO_BUILD", "TO_CONNECT", "CONNECTED", "DISCONNECTED"}
NccPcs == {"loop", "bind", "listen", "swapClose", "swap", "connected",
           "ping", "send", "closeStatus", "closeFd"}
ReaderPcs == {"poll", "readData", "recv", "inRecv", "closeStatus", "closeFd",
              "failed"}
WriterPcs == {"poll", "sendData", "size", "type", "payload",
              "closeStatus", "closeFd"}

(* A socket: a "stray" one listens on a port the system picked because bind *)
(* failed; peer is the far end of a "conn", or the accept queue of a         *)
(* "listening" socket; wire is how far the bytes sent so far have got in the *)
(* message format of Doc/MessageFormat.md, "start" as long as there are none. *)
Wires == {"start", "boundary", "afterLength", "afterType", "garbled"}
SockRecords ==
  [kind : {"free", "fresh", "bound", "listening", "stray", "conn"},
   iface : Interfaces, peer : {"none", "pending", "open", "fin", "rst"},
   data : BOOLEAN, wire : Wires]

NewSock(k, i, p) ==
  [kind |-> k, iface |-> i, peer |-> p, data |-> FALSE, wire |-> "start"]
FreeSock == NewSock("free", CHOOSE i \in Interfaces : TRUE, "none")

TypeOK ==
  /\ hostPort \in [Interfaces -> Ports]
  /\ connectionStatus \in [Interfaces -> BOOLEAN]
  /\ socketObject \in [Interfaces -> Fds \cup {NoFd}]
  /\ state \in [Interfaces -> States]
  /\ nccPc \in [Interfaces -> NccPcs]
  /\ temp \in [Interfaces -> Fds \cup {NoFd}]
  /\ readerPc \in [Readers -> ReaderPcs]
  /\ readerSock \in [Readers -> Socks \cup {NoFile}]
  /\ writerPc \in [Writers -> WriterPcs]
  /\ queued \in [Writers -> 0 .. MaxQueue]
  /\ fdTable \in [Fds -> Socks \cup {NoFile, Stdin}]
  /\ sock \in [Socks -> SockRecords]

Init ==
  /\ hostPort \in [Interfaces -> Ports]
  /\ connectionStatus = [i \in Interfaces |-> FALSE]
  /\ socketObject = [i \in Interfaces |-> 0]
  /\ state = [i \in Interfaces |-> "TO_BUILD"]
  /\ nccPc = [i \in Interfaces |-> "loop"]
  /\ temp = [i \in Interfaces |-> NoFd]
  /\ readerPc = [i \in Readers |-> "poll"]
  /\ readerSock = [i \in Readers |-> NoFile]
  /\ writerPc = [i \in Writers |-> "poll"]
  /\ queued = [i \in Writers |-> 0]
  /\ fdTable = [f \in Fds |-> IF f = 0 THEN Stdin ELSE NoFile]
  /\ sock = [s \in Socks |-> FreeSock]

-----------------------------------------------------------------------------
(* The operating system.                                                    *)

FileOf(fd) == IF fd \in Fds THEN fdTable[fd] ELSE NoFile
IsSock(file) == file \in Socks
KindOf(fd) == IF IsSock(FileOf(fd)) THEN sock[FileOf(fd)].kind ELSE "none"

\* Descriptors and sockets are handed out lowest first.
IsLowestFreeFd(f) ==
  /\ f \in Fds /\ fdTable[f] = NoFile
  /\ \A g \in Fds : g < f => fdTable[g] # NoFile
IsLowestFreeSock(s) ==
  /\ s \in Socks /\ sock[s].kind = "free"
  /\ \A t \in Socks : t < s => sock[t].kind # "free"
FdAvailable == \E f \in Fds, s \in Socks : IsLowestFreeFd(f) /\ IsLowestFreeSock(s)

HeldByReader(file) == \E r \in Readers : readerSock[r] = file

\* close(fd): a recv in progress keeps its socket alive until it returns.
Close(fd) ==
  IF FileOf(fd) = NoFile
    THEN UNCHANGED kernel
    ELSE /\ fdTable' = [fdTable EXCEPT ![fd] = NoFile]
         /\ sock' = IF IsSock(fdTable[fd]) /\ ~HeldByReader(fdTable[fd])
                      THEN [sock EXCEPT ![fdTable[fd]] = FreeSock]
                      ELSE sock

\* send(fd, ...) succeeds as long as no reset from the peer has arrived.
SendOk(fd) ==
  KindOf(fd) = "conn" /\ sock[FileOf(fd)].peer \in {"open", "fin"}

\* The bytes sent so far on fd now end at w.
Put(fd, w) ==
  /\ sock' = [sock EXCEPT ![FileOf(fd)].wire = w]
  /\ UNCHANGED fdTable

\* The lowest free descriptor f is given to the new socket s.
TakeFd(f, s) ==
  /\ IsLowestFreeFd(f) /\ IsLowestFreeSock(s)
  /\ fdTable' = [fdTable EXCEPT ![f] = s]

-----------------------------------------------------------------------------
(* The connection controller.  Only the state chooses what it does at the   *)
(* top of its loop: the order of its ifs is the order of the life cycle.    *)

AtNcc(i, p) == nccPc[i] = p
NccTo(i, p) == nccPc' = [nccPc EXCEPT ![i] = p]

\* Mutant of NccSocket: the old descriptor is closed first, then socket() fails.
NccSocket_ClosesOld(i) ==
  /\ AtNcc(i, "loop") /\ state[i] = "TO_BUILD" /\ ~connectionStatus[i]
  /\ Close(socketObject[i])
  /\ socketObject' = [socketObject EXCEPT ![i] = NoFd]
  /\ NccTo(i, "bind")
  /\ UNCHANGED <<connectionStatus, state, temp, reader, writer>>

\* createSocket: whatever socketObject held before is forgotten.
NccSocket(i) ==
  /\ AtNcc(i, "loop") /\ state[i] = "TO_BUILD" /\ ~connectionStatus[i]
  /\ \/ \E f \in Fds, s \in Socks :
          /\ TakeFd(f, s)
          /\ sock' = [sock EXCEPT ![s] = NewSock("fresh", i, "none")]
          /\ socketObject' = [socketObject EXCEPT ![i] = f]
     \/ /\ SetupMayFail \/ ~FdAvailable
        /\ socketObject' = [socketObject EXCEPT ![i] = NoFd]
        /\ UNCHANGED kernel
  /\ NccTo(i, "bind")
  /\ UNCHANGED <<connectionStatus, state, temp, reader, writer>>

\* buildInternalSocketAddress and bindSocket; their return codes are ignored.
NccBind(i) ==
  /\ AtNcc(i, "bind")
  /\ IF KindOf(socketObject[i]) = "fresh"
       THEN \/ sock' = [sock EXCEPT ![FileOf(socketObject[i])].kind = "bound"]
            \/ SetupMayFail /\ UNCHANGED sock
       ELSE UNCHANGED sock
  /\ NccTo(i, "listen")
  /\ UNCHANGED <<link, state, temp, reader, writer, fdTable>>

\* Mutant of NccListen: the state does not advance.
NccListen_StaysInBuild(i) ==
  /\ AtNcc(i, "listen") /\ NccTo(i, "loop")
  /\ UNCHANGED <<link, state, temp, reader, writer, kernel>>

\* listenSocket, its return code ignored as well, and state = TO_CONNECT.
\* The system gives a socket that was never bound a port of its own choice.
NccListen(i) ==
  /\ AtNcc(i, "listen")
  /\ IF KindOf(socketObject[i]) \in {"fresh", "bound"}
       THEN \/ sock' = [sock EXCEPT ![FileOf(socketObject[i])].kind =
                          IF @ = "bound" THEN "listening" ELSE "stray"]
            \/ SetupMayFail /\ UNCHANGED sock
       ELSE UNCHANGED sock
  /\ state' = [state EXCEPT ![i] = "TO_CONNECT"]
  /\ NccTo(i, "loop")
  /\ UNCHANGED <<link, temp, reader, writer, fdTable>>

\* accept finds a client: only on a socket that listens on the right port.
ClientWaits(i) ==
  /\ KindOf(socketObject[i]) = "listening"
  /\ sock[FileOf(socketObject[i])].peer = "pending"

\* accept is given internalSocketAddress once more as the address length: the
\* four bytes of family and port, read as an int, the low byte of the port last.
LengthNegative(i) == hostPort[i] % 256 >= 128

\* acceptSocket, up to the new descriptor.
NccAccept(i) ==
  /\ AtNcc(i, "loop") /\ state[i] = "TO_CONNECT"
  /\ ClientWaits(i) /\ ~LengthNegative(i)
  /\ LET l == FileOf(socketObject[i])
     IN \E f \in Fds, s \in Socks :
          /\ TakeFd(f, s)
          /\ sock' = [sock EXCEPT ![l].peer = "none",
                                  ![s] = NewSock("conn", sock[l].iface, "open")]
          /\ temp' = [temp EXCEPT ![i] = f]
  /\ NccTo(i, "swapClose")
  /\ UNCHANGED <<link, state, reader, writer>>

\* accept fails, whatever is wrong with socketObject: sleep and try again.
NccAcceptFails(i) ==
  /\ AtNcc(i, "loop") /\ state[i] = "TO_CONNECT"
  /\ ~(ClientWaits(i) /\ FdAvailable)
  /\ UNCHANGED vars

\* accept refuses a negative length, but only after it has taken the client from
\* the queue: the connection is dropped.
NccAcceptRefused(i) ==
  /\ AtNcc(i, "loop") /\ state[i] = "TO_CONNECT"
  /\ ClientWaits(i) /\ FdAvailable /\ LengthNegative(i)
  /\ sock' = [sock EXCEPT ![FileOf(socketObject[i])].peer = "none"]
  /\ UNCHANGED <<link, ncc, reader, writer, fdTable>>

\* Mutant of NccSwapClose: the listening socket is not closed.
NccSwapClose_Forgotten(i) ==
  /\ AtNcc(i, "swapClose") /\ NccTo(i, "swap")
  /\ UNCHANGED <<link, state, temp, reader, writer, kernel>>

NccSwapClose(i) ==
  /\ AtNcc(i, "swapClose")
  /\ Close(socketObject[i])
  /\ NccTo(i, "swap")
  /\ UNCHANGED <<link, state, temp, reader, writer>>

\* Mutant of NccSwap: socketObject is not replaced.
NccSwap_Forgotten(i) ==
  /\ AtNcc(i, "swap") /\ NccTo(i, "connected")
  /\ temp' = [temp EXCEPT ![i] = NoFd]
  /\ UNCHANGED <<link, state, reader, writer, kernel>>

NccSwap(i) ==
  /\ AtNcc(i, "swap")
  /\ socketObject' = [socketObject EXCEPT ![i] = temp[i]]
  /\ temp' = [temp EXCEPT ![i] = NoFd]
  /\ NccTo(i, "connected")
  /\ UNCHANGED <<connectionStatus, state, reader, writer, kernel>>

\* connectionStatus = true, acceptSocket returns 0, state = CONNECTED.
NccConnected(i) ==
  /\ AtNcc(i, "connected")
  /\ connectionStatus' = [connectionStatus EXCEPT ![i] = TRUE]
  /\ state' = [state EXCEPT ![i] = "CONNECTED"]
  /\ NccTo(i, "loop")
  /\ UNCHANGED <<socketObject, temp, reader, writer, kernel>>

\* Mutant of NccCheck: the flag is not looked at.
NccCheck_Blind(i) ==
  /\ AtNcc(i, "loop") /\ state[i] = "CONNECTED"
  /\ NccTo(i, "ping")
  /\ UNCHANGED <<link, state, temp, reader, writer, kernel>>

NccCheck(i) ==
  /\ AtNcc(i, "loop") /\ state[i] = "CONNECTED"
  /\ IF connectionStatus[i]
       THEN NccTo(i, "ping") /\ UNCHANGED state
       ELSE state' = [state EXCEPT ![i] = "DISCONNECTED"] /\ UNCHANGED nccPc
  /\ UNCHANGED <<link, temp, reader, writer, kernel>>

\* ping: sendData(buffer, size) looks at connectionStatus once more.
NccPing(i) ==
  /\ AtNcc(i, "ping")
  /\ NccTo(i, IF connectionStatus[i] THEN "send" ELSE "loop")
  /\ UNCHANGED <<link, state, temp, reader, writer, kernel>>

\* Mutant of NccSend: the result of send is ignored.
NccSend_IgnoresError(i) ==
  /\ AtNcc(i, "send") /\ NccTo(i, "loop")
  /\ IF SendOk(socketObject[i]) THEN Put(socketObject[i], "garbled") ELSE UNCHANGED kernel
  /\ UNCHANGED <<link, state, temp, reader, writer>>

\* Mutant of NccSend: the test of the result is inverted.
NccSend_ClosesOnSuccess(i) ==
  /\ AtNcc(i, "send")
  /\ NccTo(i, IF SendOk(socketObject[i]) THEN "closeStatus" ELSE "loop")
  /\ UNCHANGED <<link, state, temp, reader, writer, kernel>>

\* Four bytes with no length and no type: they fit no frame.
NccSend(i) ==
  /\ AtNcc(i, "send")
  /\ IF SendOk(socketObject[i])
       THEN Put(socketObject[i], "garbled") /\ NccTo(i, "loop")
       ELSE NccTo(i, "closeStatus") /\ UNCHANGED kernel
  /\ UNCHANGED <<link, state, temp, reader, writer>>

\* closeSocket: connectionStatus = false, then close(socketObject).
NccCloseStatus(i) ==
  /\ AtNcc(i, "closeStatus")
  /\ connectionStatus' = [connectionStatus EXCEPT ![i] = FALSE]
  /\ NccTo(i, "closeFd")
  /\ UNCHANGED <<socketObject, state, temp, reader, writer, kernel>>

NccCloseFd(i) ==
  /\ AtNcc(i, "closeFd")
  /\ Close(socketObject[i])
  /\ NccTo(i, "loop")
  /\ UNCHANGED <<link, state, temp, reader, writer>>

\* Mutant of NccRebuild: from any other state.
NccRebuild_FromAnyState(i) ==
  /\ AtNcc(i, "loop") /\ state[i] # "TO_BUILD" /\ AutoReconnect
  /\ state' = [state EXCEPT ![i] = "TO_BUILD"]
  /\ UNCHANGED <<link, nccPc, temp, reader, writer, kernel>>

NccRebuild(i) ==
  /\ AtNcc(i, "loop") /\ state[i] = "DISCONNECTED" /\ AutoReconnect
  /\ state' = [state EXCEPT ![i] = "TO_BUILD"]
  /\ UNCHANGED <<link, nccPc, temp, reader, writer, kernel>>

Ncc(i) ==
  /\ UNCHANGED hostPort
  /\ \/ NccSocket(i) \/ NccBind(i) \/ NccListen(i)
     \/ NccAccept(i) \/ NccAcceptFails(i) \/ NccAcceptRefused(i)
     \/ NccSwapClose(i) \/ NccSwap(i) \/ NccConnected(i)
     \/ NccCheck(i) \/ NccPing(i) \/ NccSend(i)
     \/ NccCloseStatus(i) \/ NccCloseFd(i) \/ NccRebuild(i)

-----------------------------------------------------------------------------
(* The reader controller.                                                   *)

AtReader(i, p) == readerPc[i] = p
ReaderTo(i, p) == readerPc' = [readerPc EXCEPT ![i] = p]

ReaderPoll(i) ==
  /\ AtReader(i, "poll") /\ connectionStatus[i]
  /\ ReaderTo(i, "readData")
  /\ UNCHANGED <<link, ncc, readerSock, writer, kernel>>

\* readData looks at connectionStatus once, before its first recv.
ReaderReadData(i) ==
  /\ AtReader(i, "readData")
  /\ ReaderTo(i, IF connectionStatus[i] THEN "recv" ELSE "poll")
  /\ UNCHANGED <<link, ncc, readerSock, writer, kernel>>

\* recv(socketObject, ...) is an error on anything but a connection.
ReaderRecv(i) ==
  /\ AtReader(i, "recv")
  /\ IF KindOf(socketObject[i]) = "conn"
       THEN /\ readerSock' = [readerSock EXCEPT ![i] = FileOf(socketObject[i])]
            /\ ReaderTo(i, "inRecv")
       ELSE ReaderTo(i, "closeStatus") /\ UNCHANGED readerSock
  /\ UNCHANGED <<link, ncc, writer, kernel>>

\* recv returns: n > 0 bytes, which complete the message or do not; 0 at the
\* end of the stream, which readData takes for a short read and repeats; -1
\* after a reset, or 0 when a send of another thread consumed the error.
ReaderRecvReturns(i) ==
  /\ AtReader(i, "inRecv")
  /\ LET s == readerSock[i]
         open == \E f \in Fds : fdTable[f] = s
     IN /\ \/ sock[s].data /\ \E p \in {"recv", "poll"} : ReaderTo(i, p)
           \/ ~sock[s].data /\ sock[s].peer = "fin" /\ ReaderTo(i, "recv")
           \/ sock[s].peer = "rst" /\ \E p \in {"recv", "closeStatus"} : ReaderTo(i, p)
        /\ sock' = [sock EXCEPT ![s] = IF open THEN [@ EXCEPT !.data = FALSE]
                                               ELSE FreeSock]
  /\ readerSock' = [readerSock EXCEPT ![i] = NoFile]
  /\ UNCHANGED <<link, ncc, writer, fdTable>>

ReaderCloseStatus(i) ==
  /\ AtReader(i, "closeStatus")
  /\ connectionStatus' = [connectionStatus EXCEPT ![i] = FALSE]
  /\ ReaderTo(i, "closeFd")
  /\ UNCHANGED <<socketObject, ncc, readerSock, writer, kernel>>

\* After the close readData throws and the reader's startThread returns 1.
ReaderCloseFd(i) ==
  /\ AtReader(i, "closeFd")
  /\ Close(socketObject[i])
  /\ ReaderTo(i, "failed")
  /\ UNCHANGED <<link, ncc, readerSock, writer>>

\* The orchestrator starts it again (module ThreadSupervision).
ReaderRestart(i) ==
  /\ AtReader(i, "failed") /\ AutoRestart
  /\ ReaderTo(i, "poll")
  /\ UNCHANGED <<link, ncc, readerSock, writer, kernel>>

Reader(i) ==
  /\ UNCHANGED hostPort
  /\ \/ ReaderPoll(i) \/ ReaderReadData(i) \/ ReaderRecv(i) \/ ReaderRecvReturns(i)
     \/ ReaderCloseStatus(i) \/ ReaderCloseFd(i) \/ ReaderRestart(i)

-----------------------------------------------------------------------------
(* The writer controller.  sendMutex has no other user than this thread.    *)

AtWriter(i, p) == writerPc[i] = p
WriterTo(i, p) == writerPc' = [writerPc EXCEPT ![i] = p]

\* The logging controller puts a message in writeBuffer.
Produce(i) ==
  /\ queued[i] < MaxQueue
  /\ queued' = [queued EXCEPT ![i] = @ + 1]
  /\ UNCHANGED <<hostPort, link, ncc, reader, writerPc, kernel>>

\* Mutant of WriterPoll: pop without asking for the size.
WriterPoll_NoSize(i) ==
  /\ AtWriter(i, "poll") /\ connectionStatus[i]
  /\ queued' = [queued EXCEPT ![i] = @ - 1]
  /\ WriterTo(i, "sendData")
  /\ UNCHANGED <<link, ncc, reader, kernel>>

WriterPoll(i) ==
  /\ AtWriter(i, "poll") /\ connectionStatus[i] /\ queued[i] > 0
  /\ queued' = [queued EXCEPT ![i] = @ - 1]
  /\ WriterTo(i, "sendData")
  /\ UNCHANGED <<link, ncc, reader, kernel>>

\* sendData(message): the message is gone when the link went down meanwhile.
WriterSendData(i) ==
  /\ AtWriter(i, "sendData")
  /\ WriterTo(i, IF connectionStatus[i] THEN "size" ELSE "poll")
  /\ UNCHANGED <<link, ncc, reader, queued, kernel>>

\* One of the three sends of a message: in place when the bytes before it end
\* at wire position from.
InPlace(wire, from) == wire = from \/ (wire = "start" /\ from = "boundary")
SendSegment(i, pc, from, to, next) ==
  /\ AtWriter(i, pc)
  /\ IF SendOk(socketObject[i])
       THEN /\ Put(socketObject[i],
                   IF InPlace(sock[FileOf(socketObject[i])].wire, from) THEN to ELSE "garbled")
            /\ WriterTo(i, next)
       ELSE WriterTo(i, "closeStatus") /\ UNCHANGED kernel
  /\ UNCHANGED <<link, ncc, reader, queued>>

\* Mutant of WriterSend: the type is forgotten.
WriterSend_NoType(i) ==
  \/ SendSegment(i, "size", "boundary", "afterLength", "payload")
  \/ SendSegment(i, "payload", "afterType", "boundary", "poll")

WriterSend(i) ==
  \/ SendSegment(i, "size", "boundary", "afterLength", "type")
  \/ SendSegment(i, "type", "afterLength", "afterType", "payload")
  \/ SendSegment(i, "payload", "afterType", "boundary", "poll")

WriterCloseStatus(i) ==
  /\ AtWriter(i, "closeStatus")
  /\ connectionStatus' = [connectionStatus EXCEPT ![i] = FALSE]
  /\ WriterTo(i, "closeFd")
  /\ UNCHANGED <<socketObject, ncc, reader, queued, kernel>>

WriterCloseFd(i) ==
  /\ AtWriter(i, "closeFd")
  /\ Close(socketObject[i])
  /\ WriterTo(i, "poll")
  /\ UNCHANGED <<link, ncc, reader, queued>>

Writer(i) ==
  /\ UNCHANGED hostPort
  /\ \/ WriterPoll(i) \/ WriterSendData(i) \/ WriterSend(i)
     \/ WriterCloseStatus(i) \/ WriterCloseFd(i)

-----------------------------------------------------------------------------
(* The far ends.                                                            *)

threads == <<hostPort, link, ncc, reader, writer>>
IsConn(s, peers) == sock[s].kind = "conn" /\ sock[s].peer \in peers

PeerConnect(s) ==
  /\ sock[s].kind = "listening" /\ sock[s].peer = "none"
  /\ sock' = [sock EXCEPT ![s].peer = "pending"]
  /\ UNCHANGED <<threads, fdTable>>

PeerSend(s) ==
  /\ IsConn(s, {"open"}) /\ ~sock[s].data
  /\ sock' = [sock EXCEPT ![s].data = TRUE]
  /\ UNCHANGED <<threads, fdTable>>

PeerClose(s) ==
  /\ IsConn(s, {"open"})
  /\ sock' = [sock EXCEPT ![s].peer = "fin"]
  /\ UNCHANGED <<threads, fdTable>>

PeerReset(s) ==
  /\ IsConn(s, {"open", "fin"})
  /\ sock' = [sock EXCEPT ![s].peer = "rst", ![s].data = FALSE]
  /\ UNCHANGED <<threads, fdTable>>

Peer(s) == PeerConnect(s) \/ PeerSend(s) \/ PeerClose(s) \/ PeerReset(s)

Next ==
  \/ \E i \in Interfaces : Ncc(i)
  \/ \E i \in Readers : Reader(i)
  \/ \E i \in Writers : Produce(i) \/ Writer(i)
  \/ \E s \in Socks : Peer(s)

Spec == Init /\ [][Next]_vars

\* The operating system schedules every thread.
ThreadFairness ==
  /\ \A i \in Interfaces : WF_vars(Ncc(i))
  /\ \A i \in Readers : WF_vars(Reader(i))
  /\ \A i \in Writers : WF_vars(Writer(i))

\* The environment: a client keeps trying to connect, and a host that has
\* closed its end answers the bytes it still receives with a reset.
PeerFairness ==
  \A s \in Socks :
    /\ WF_vars(PeerConnect(s))
    /\ WF_vars(sock[s].peer = "fin" /\ sock[s].wire \notin {"start", "boundary"}
              /\ PeerReset(s))

FairSpec == Spec /\ ThreadFairness /\ PeerFairness

-----------------------------------------------------------------------------
(* Properties.                                                              *)

\* socketObject starts as 0, which is standard input: whatever fails and in
\* whatever order the threads run, no closeSocket closes that descriptor.
StdinNeverClosed == fdTable[0] = Stdin

\* The controller never waits in TO_BUILD for a connectionStatus that nobody
\* clears: outside the connected part of its life cycle the flag is false.
NoBuildSpin ==
  \A i \in Interfaces : state[i] # "CONNECTED" => ~connectionStatus[i]

\* A connection that any of the three threads has given up is noticed by the
\* connection controller, which leaves CONNECTED.
DownNoticed ==
  \A i \in Interfaces :
    state[i] = "CONNECTED" /\ ~connectionStatus[i] ~> state[i] # "CONNECTED"

\* A connection whose far end is gone is given up, although readData itself
\* loops forever at the end of a stream: the pings find out.
DeadPeerNoticed ==
  \A i \in Interfaces :
    (/\ connectionStatus[i]
     /\ KindOf(socketObject[i]) = "conn"
     /\ sock[FileOf(socketObject[i])].peer \in {"fin", "rst"}) ~> ~connectionStatus[i]

\* With one interface and no writer, the reader is never left blocked in a recv
\* on a socket that another thread has closed and whose far end may stay silent
\* forever.  A second interface can be given the number a late close aims at.
ReaderNotStranded ==
  \A i \in Readers :
    AtReader(i, "inRecv") =>
      \/ \E f \in Fds : fdTable[f] = readerSock[i]
      \/ sock[readerSock[i]].peer = "rst"

\* The numbers interface i has to close: socketObject unless it has been closed
\* and not replaced yet, and the descriptor accept has returned.
Gone(i) ==
  \/ AtNcc(i, "swap")
  \/ /\ AtNcc(i, "loop")
     /\ ~(state[i] = "TO_CONNECT" \/ connectionStatus[i])
Holds(i) == ((IF Gone(i) THEN {} ELSE {socketObject[i]}) \cup {temp[i]}) \ {NoFd}

\* As long as the connection controllers are the only threads that close, every
\* open socket is held by exactly one interface, the one it was made for: none
\* leaks and none is closed or used by another interface.
SocketsOwned ==
  /\ \A f \in Fds : IsSock(fdTable[f]) =>
       \E i \in Interfaces : f \in Holds(i) /\ sock[fdTable[f]].iface = i
  /\ \A i, j \in Interfaces : i # j => Holds(i) \cap Holds(j) = {}

\* connectionStatus is only true while socketObject is a connection.
UpMeansConnected ==
  \A i \in Interfaces :
    connectionStatus[i] => KindOf(socketObject[i]) = "conn"

\* Auto-Reconnect: as long as clients keep trying, the link is up again and
\* again, unless its port makes accept refuse every one of them.
Reconnects ==
  \A i \in Interfaces : ~LengthNegative(i) => []<>connectionStatus[i]

\* Doc/MessageFormat.md wants a length, a type and a payload, in this order.  A
\* stream that has kept to it so far stops doing so only at a ping, which is no
\* message, or at its very first bytes, when the writer goes on with a message
\* it began on the connection before: with one interface the writer alone never
\* breaks a stream.  With two, a descriptor number read before a close can be the
\* other interface's when the segment is sent.
BrokenOnlyByPing ==
  [][\A s \in Socks :
       sock[s].wire # "garbled" /\ sock'[s].wire = "garbled" =>
         \/ sock[s].wire = "start"
         \/ \E i \in Interfaces : AtNcc(i, "send") /\ AtNcc(i, "loop")']_vars
=============================================================================
