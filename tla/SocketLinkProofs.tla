-------------------------- MODULE SocketLinkProofs --------------------------
(***************************************************************************)
(* Proofs about SocketLink, with set-up calls that may fail.  The first    *)
(* part holds for any number of interfaces, readers and writers.  The      *)
(* other three each have an invariant of their own, and the hypothesis     *)
(* they need: no reader and no writer for who owns a socket, one interface *)
(* without a writer for the blocked recv, one interface for the stream.    *)
(***************************************************************************)
EXTENDS SocketLink, TLAPS

(* The place of the connection controller determines its state. *)
PlaceMatchesState ==
  \A i \in Interfaces :
    /\ nccPc[i] \in {"bind", "listen"} => state[i] = "TO_BUILD"
    /\ nccPc[i] \in {"swapClose", "swap", "connected"} => state[i] = "TO_CONNECT"
    /\ nccPc[i] \in {"ping", "send", "closeStatus", "closeFd"} => state[i] = "CONNECTED"

(* An interface whose socketObject is still the initial 0 has never been     *)
(* built, so none of its threads is on the way to a close.                   *)
Untouched(i) ==
  /\ state[i] = "TO_BUILD" /\ nccPc[i] = "loop"
  /\ ~connectionStatus[i]
  /\ i \in Readers => readerPc[i] = "poll"
  /\ i \in Writers => writerPc[i] = "poll"

ZeroMeansUntouched ==
  \A i \in Interfaces : temp[i] # 0 /\ (socketObject[i] = 0 => Untouched(i))

Inv ==
  /\ TypeOK
  /\ PlaceMatchesState
  /\ NoBuildSpin
  /\ StdinNeverClosed
  /\ ZeroMeansUntouched

LEMMA SomeInterface == \A x : (CHOOSE i \in Interfaces : TRUE) = x => x \in Interfaces
<1>1. \E i \in Interfaces : TRUE  BY LinkAssumption
<1> QED  BY <1>1

(* What close() leaves in the descriptor table and in the sockets. *)
LEMMA CloseTyped ==
  ASSUME TypeOK, NEW fd \in Fds \cup {NoFd}, Close(fd)
  PROVE  /\ fdTable' \in [Fds -> Socks \cup {NoFile, Stdin}]
         /\ sock' \in [Socks -> SockRecords]
         /\ fd # 0 => fdTable'[0] = fdTable[0]
<1>1. FreeSock \in SockRecords
  <2>1. (CHOOSE i \in Interfaces : TRUE) \in Interfaces  BY SomeInterface
  <2> QED  BY <2>1 DEF FreeSock, NewSock, SockRecords, Wires
<1>2. CASE FileOf(fd) = NoFile
  BY <1>2 DEF Close, TypeOK, kernel
<1>3. CASE FileOf(fd) # NoFile
  <2>1. fd \in Fds  BY <1>3 DEF FileOf
  <2>2. fdTable' = [fdTable EXCEPT ![fd] = NoFile]  BY <1>3 DEF Close
  <2>3. \/ sock' = sock
        \/ fdTable[fd] \in Socks /\ sock' = [sock EXCEPT ![fdTable[fd]] = FreeSock]
    BY <1>3 DEF Close, IsSock
  <2>4. 0 \in Fds  BY LinkAssumption DEF Fds
  <2>5. fdTable' \in [Fds -> Socks \cup {NoFile, Stdin}] BY <2>2 DEF TypeOK
  <2>6. sock' \in [Socks -> SockRecords]  BY <1>1, <2>3 DEF TypeOK
  <2>7. fd # 0 => fdTable'[0] = fdTable[0]  BY <2>2, <2>4 DEF TypeOK
  <2> QED  BY <2>5, <2>6, <2>7
<1> QED  BY <1>2, <1>3

(* A descriptor that is handed out was free, so it is not standard input. *)
LEMMA TakeFdTyped ==
  ASSUME TypeOK, StdinNeverClosed, NEW f, NEW s, TakeFd(f, s)
  PROVE  /\ f \in Fds /\ f # 0 /\ s \in Socks
         /\ fdTable' \in [Fds -> Socks \cup {NoFile, Stdin}]
         /\ fdTable'[0] = Stdin
<1>1. f \in Fds /\ fdTable[f] = NoFile /\ s \in Socks
  BY DEF TakeFd, IsLowestFreeFd, IsLowestFreeSock
<1>2. f # 0  BY <1>1 DEF StdinNeverClosed, NoFile, Stdin
<1>3. fdTable' = [fdTable EXCEPT ![f] = s]  BY DEF TakeFd
<1>4. 0 \in Fds  BY LinkAssumption DEF Fds
<1> QED  BY <1>1, <1>2, <1>3, <1>4 DEF TypeOK, StdinNeverClosed

(* The file of a descriptor of a known kind is a socket. *)
LEMMA KindIsSock ==
  ASSUME NEW fd, KindOf(fd) # "none"
  PROVE  FileOf(fd) \in Socks /\ fd \in Fds /\ KindOf(fd) = sock[FileOf(fd)].kind
<1>1. FileOf(fd) \in Socks  BY DEF KindOf, IsSock
<1>2. NoFile \notin Socks  BY LinkAssumption DEF NoFile
<1> QED  BY <1>1, <1>2 DEF FileOf, KindOf, IsSock

(* What a successful send leaves behind. *)
LEMMA PutTyped ==
  ASSUME TypeOK, NEW fd, SendOk(fd), NEW w \in Wires, Put(fd, w)
  PROVE  sock' \in [Socks -> SockRecords] /\ fdTable' = fdTable
<1>1. FileOf(fd) \in Socks  BY KindIsSock DEF SendOk
<1>2. sock[FileOf(fd)] \in SockRecords  BY <1>1 DEF TypeOK
<1>3. [sock[FileOf(fd)] EXCEPT !.wire = w] \in SockRecords
  BY <1>2 DEF SockRecords
<1> QED  BY <1>1, <1>3 DEF Put, TypeOK

LEMMA InitInv == Init => Inv
<1> SUFFICES ASSUME Init PROVE Inv  OBVIOUS
<1>1. (CHOOSE i \in Interfaces : TRUE) \in Interfaces  BY SomeInterface
<1>2. FreeSock \in SockRecords  BY <1>1 DEF FreeSock, NewSock, SockRecords, Wires
<1>3. 0 \in Fds  BY LinkAssumption DEF Fds
<1>4. TypeOK
  BY <1>2, <1>3, LinkAssumption
     DEF Init, TypeOK, States, NccPcs, ReaderPcs, WriterPcs
<1>5. StdinNeverClosed  BY <1>3 DEF Init, StdinNeverClosed
<1>6. PlaceMatchesState /\ NoBuildSpin
  BY DEF Init, PlaceMatchesState, NoBuildSpin
<1>7. ZeroMeansUntouched
  BY LinkAssumption DEF Init, ZeroMeansUntouched, Untouched, NoFd
<1> QED  BY <1>4, <1>5, <1>6, <1>7 DEF Inv

-----------------------------------------------------------------------------
(* A step of the connection controller. *)

LEMMA NccType ==
  ASSUME Inv, NEW i \in Interfaces, Ncc(i)
  PROVE  TypeOK' /\ StdinNeverClosed'
<1> USE DEF Inv
<1> DEFINE KernelOK == /\ fdTable' \in [Fds -> Socks \cup {NoFile, Stdin}]
                      /\ sock' \in [Socks -> SockRecords]
                      /\ fdTable'[0] = Stdin
<1> DEFINE ThreadsOK == /\ connectionStatus' \in [Interfaces -> BOOLEAN]
                       /\ socketObject' \in [Interfaces -> Fds \cup {NoFd}]
                       /\ state' \in [Interfaces -> States]
                       /\ nccPc' \in [Interfaces -> NccPcs]
                       /\ temp' \in [Interfaces -> Fds \cup {NoFd}]
                       /\ UNCHANGED <<hostPort, reader, writer>>
<1> SUFFICES KernelOK /\ ThreadsOK
  BY DEF TypeOK, StdinNeverClosed, reader, writer
<1> USE DEF NccTo, AtNcc, NccPcs, States
<1>00. UNCHANGED hostPort  BY DEF Ncc
<1> USE <1>00
<1>0. CASE UNCHANGED kernel /\ ThreadsOK
  BY <1>0 DEF TypeOK, kernel, StdinNeverClosed
<1>1. CASE NccSocket(i)
  <2>1. CASE UNCHANGED kernel
    BY <1>1, <2>1, <1>0, TakeFdTyped DEF NccSocket, TypeOK
  <2>2. ASSUME NEW f \in Fds, NEW s \in Socks, TakeFd(f, s),
               sock' = [sock EXCEPT ![s] = NewSock("fresh", i, "none")],
               socketObject' = [socketObject EXCEPT ![i] = f]
        PROVE  KernelOK /\ ThreadsOK
    <3>1. NewSock("fresh", i, "none") \in SockRecords
      BY DEF NewSock, SockRecords, Wires
    <3> QED  BY <1>1, <2>2, <3>1, TakeFdTyped DEF NccSocket, TypeOK, StdinNeverClosed
  <2> QED  BY <1>1, <2>1, <2>2 DEF NccSocket
<1>2. CASE NccBind(i)
  <2>1. ThreadsOK  BY <1>2 DEF NccBind, TypeOK, link
  <2>2. fdTable' = fdTable  BY <1>2 DEF NccBind
  <2>3. sock' \in [Socks -> SockRecords]
    <3>1. CASE UNCHANGED sock  BY <3>1 DEF TypeOK
    <3>2. CASE KindOf(socketObject[i]) = "fresh"
      <4>1. FileOf(socketObject[i]) \in Socks  BY <3>2, KindIsSock
      <4>2. [sock[FileOf(socketObject[i])] EXCEPT !.kind = "bound"] \in SockRecords
        BY <4>1 DEF TypeOK, SockRecords
      <4> QED  BY <1>2, <3>1, <4>1, <4>2 DEF NccBind, TypeOK
    <3> QED  BY <1>2, <3>1, <3>2 DEF NccBind
  <2> QED  BY <2>1, <2>2, <2>3 DEF TypeOK, StdinNeverClosed
<1>3. CASE NccListen(i)
  <2>1. ThreadsOK  BY <1>3 DEF NccListen, TypeOK, link
  <2>2. fdTable' = fdTable  BY <1>3 DEF NccListen
  <2>3. sock' \in [Socks -> SockRecords]
    <3>1. CASE UNCHANGED sock  BY <3>1 DEF TypeOK
    <3>2. CASE KindOf(socketObject[i]) \in {"fresh", "bound"}
      <4>1. FileOf(socketObject[i]) \in Socks  BY <3>2, KindIsSock
      <4>2. \A k \in {"listening", "stray"} :
              [sock[FileOf(socketObject[i])] EXCEPT !.kind = k] \in SockRecords
        BY <4>1 DEF TypeOK, SockRecords
      <4> QED  BY <1>3, <3>1, <4>1, <4>2 DEF NccListen, TypeOK
    <3> QED  BY <1>3, <3>1, <3>2 DEF NccListen
  <2> QED  BY <2>1, <2>2, <2>3 DEF TypeOK, StdinNeverClosed
<1>4. CASE NccAccept(i)
  <2> DEFINE l == FileOf(socketObject[i])
  <2>1. l \in Socks  BY <1>4, KindIsSock DEF NccAccept, ClientWaits
  <2>2. PICK f \in Fds, s \in Socks :
          /\ TakeFd(f, s)
          /\ sock' = [sock EXCEPT ![l].peer = "none",
                                  ![s] = NewSock("conn", sock[l].iface, "open")]
          /\ temp' = [temp EXCEPT ![i] = f]
    BY <1>4 DEF NccAccept
  <2>3. [sock[l] EXCEPT !.peer = "none"] \in SockRecords
    BY <2>1 DEF TypeOK, SockRecords
  <2>4. NewSock("conn", sock[l].iface, "open") \in SockRecords
    BY <2>1 DEF NewSock, TypeOK, SockRecords, Wires
  <2>5. sock' \in [Socks -> SockRecords]  BY <2>1, <2>2, <2>3, <2>4 DEF TypeOK
  <2> QED  BY <1>4, <2>2, <2>5, TakeFdTyped DEF NccAccept, TypeOK, link
<1>5. CASE NccSwapClose(i) \/ NccCloseFd(i)
  <2>1. Close(socketObject[i]) /\ ThreadsOK
    BY <1>5 DEF NccSwapClose, NccCloseFd, TypeOK, link
  <2>2. socketObject[i] \in Fds \cup {NoFd}  BY DEF TypeOK
  <2>3. socketObject[i] # 0
    BY <1>5 DEF ZeroMeansUntouched, Untouched, NccSwapClose, NccCloseFd
  <2> QED  BY <2>1, <2>2, <2>3, CloseTyped DEF StdinNeverClosed
<1>6. CASE NccSwap(i)
  BY <1>6, <1>0 DEF NccSwap, TypeOK
<1>7. CASE NccConnected(i)
  BY <1>7, <1>0 DEF NccConnected, TypeOK
<1>8. CASE NccCheck(i) \/ NccPing(i) \/ NccRebuild(i)
  BY <1>8, <1>0 DEF NccCheck, NccPing, NccRebuild, TypeOK, link
<1>9. CASE NccSend(i)
  <2>1. ThreadsOK  BY <1>9 DEF NccSend, TypeOK, link
  <2>2. CASE SendOk(socketObject[i])
    BY <1>9, <2>1, <2>2, PutTyped DEF NccSend, Wires, TypeOK, StdinNeverClosed
  <2>3. CASE ~SendOk(socketObject[i])
    BY <1>9, <2>1, <2>3, <1>0 DEF NccSend
  <2> QED  BY <2>2, <2>3
<1>10. CASE NccCloseStatus(i)
  BY <1>10, <1>0 DEF NccCloseStatus, TypeOK
<1>11. CASE NccAcceptFails(i)
  BY <1>11, <1>0 DEF NccAcceptFails, TypeOK, vars, kernel, link, ncc
<1>12. CASE NccAcceptRefused(i)
  <2> DEFINE l == FileOf(socketObject[i])
  <2>1. l \in Socks  BY <1>12, KindIsSock DEF NccAcceptRefused, ClientWaits
  <2>2. [sock[l] EXCEPT !.peer = "none"] \in SockRecords
    BY <2>1 DEF TypeOK, SockRecords
  <2>3. sock' = [sock EXCEPT ![l] = [sock[l] EXCEPT !.peer = "none"]]
    BY <1>12, <2>1 DEF NccAcceptRefused, TypeOK
  <2>4. sock' \in [Socks -> SockRecords]  BY <2>1, <2>2, <2>3 DEF TypeOK
  <2>5. ThreadsOK  BY <1>12 DEF NccAcceptRefused, TypeOK, link, ncc
  <2> QED  BY <1>12, <2>4, <2>5 DEF NccAcceptRefused, TypeOK, StdinNeverClosed
<1> QED
  BY <1>1, <1>2, <1>3, <1>4, <1>5, <1>6, <1>7, <1>8, <1>9, <1>10, <1>11, <1>12 DEF Ncc

LEMMA NccPlaces ==
  ASSUME Inv, NEW i \in Interfaces, Ncc(i)
  PROVE  PlaceMatchesState' /\ NoBuildSpin' /\ ZeroMeansUntouched'
<1> USE DEF Inv, NccTo, AtNcc
<1>0. /\ state \in [Interfaces -> States] /\ nccPc \in [Interfaces -> NccPcs]
      /\ connectionStatus \in [Interfaces -> BOOLEAN]
      /\ temp \in [Interfaces -> Fds \cup {NoFd}]
      /\ socketObject \in [Interfaces -> Fds \cup {NoFd}]
  BY DEF TypeOK
<1>1. CASE NccSocket(i)
  <2>1. \A f, s : TakeFd(f, s) => f # 0  BY TakeFdTyped
  <2>2. socketObject' = [socketObject EXCEPT ![i] = socketObject'[i]]
        /\ socketObject'[i] # 0
    BY <1>0, <1>1, <2>1 DEF NccSocket, NoFd
  <2> QED
    BY <1>0, <1>1, <2>2
       DEF NccSocket, PlaceMatchesState, NoBuildSpin, ZeroMeansUntouched, Untouched,
           reader, writer
<1>2. CASE NccBind(i) \/ NccListen(i)
  BY <1>0, <1>2
     DEF NccBind, NccListen, PlaceMatchesState, NoBuildSpin, ZeroMeansUntouched,
         Untouched, reader, writer, link
<1>4. CASE NccAccept(i)
  <2>1. \A f, s : TakeFd(f, s) => f # 0  BY TakeFdTyped
  <2>2. \E f : f # 0 /\ temp' = [temp EXCEPT ![i] = f]
    BY <1>4, <2>1 DEF NccAccept
  <2>3. socketObject[i] # 0
    BY <1>4 DEF ZeroMeansUntouched, Untouched, NccAccept
  <2> QED
    BY <1>0, <1>4, <2>2, <2>3
       DEF NccAccept, PlaceMatchesState, NoBuildSpin, ZeroMeansUntouched, Untouched,
           reader, writer, link
<1>5. CASE NccSwapClose(i) \/ NccCloseFd(i)
  BY <1>0, <1>5
     DEF NccSwapClose, NccCloseFd, PlaceMatchesState, NoBuildSpin,
         ZeroMeansUntouched, Untouched, reader, writer, link
<1>6. CASE NccSwap(i)
  BY <1>0, <1>6
     DEF NccSwap, PlaceMatchesState, NoBuildSpin, ZeroMeansUntouched, Untouched,
         reader, writer, NoFd
<1>7. CASE NccConnected(i) \/ NccCloseStatus(i)
  BY <1>0, <1>7
     DEF NccConnected, NccCloseStatus, PlaceMatchesState, NoBuildSpin,
         ZeroMeansUntouched, Untouched, reader, writer
<1>8. CASE NccCheck(i) \/ NccPing(i) \/ NccRebuild(i) \/ NccSend(i)
  BY <1>0, <1>8
     DEF NccCheck, NccPing, NccRebuild, NccSend, PlaceMatchesState, NoBuildSpin,
         ZeroMeansUntouched, Untouched, reader, writer, link
<1>9. CASE NccAcceptFails(i) \/ NccAcceptRefused(i)
  BY <1>9
     DEF NccAcceptFails, NccAcceptRefused, PlaceMatchesState, NoBuildSpin, ZeroMeansUntouched,
         Untouched, vars, link, ncc, reader, writer
<1> QED  BY <1>1, <1>2, <1>4, <1>5, <1>6, <1>7, <1>8, <1>9 DEF Ncc

LEMMA NccStep ==
  ASSUME Inv, NEW i \in Interfaces, Ncc(i)
  PROVE  Inv'
BY NccType, NccPlaces DEF Inv

-----------------------------------------------------------------------------
(* A step of a reader, of a writer or of a peer leaves the connection       *)
(* controllers where they are.                                              *)

(* What such a step has to respect to keep the invariant of the controllers. *)
LEMMA ControllersUndisturbed ==
  ASSUME Inv, UNCHANGED <<ncc, socketObject>>,
         \A i \in Interfaces : connectionStatus'[i] => connectionStatus[i],
         \A i \in Interfaces : socketObject[i] = 0 => Untouched(i)'
  PROVE  PlaceMatchesState' /\ NoBuildSpin' /\ ZeroMeansUntouched'
BY DEF Inv, ncc, PlaceMatchesState, NoBuildSpin, ZeroMeansUntouched

LEMMA ReaderStep ==
  ASSUME Inv, NEW i \in Readers, Reader(i)
  PROVE  Inv'
<1> USE DEF Inv, ReaderTo, AtReader
<1> DEFINE ThreadsOK == /\ connectionStatus' \in [Interfaces -> BOOLEAN]
                       /\ readerPc' \in [Readers -> ReaderPcs]
                       /\ readerSock' \in [Readers -> Socks \cup {NoFile}]
                       /\ UNCHANGED <<hostPort, socketObject, ncc, writer>>
<1> DEFINE Kept == /\ \A j \in Interfaces : connectionStatus'[j] => connectionStatus[j]
                  /\ \A j \in Interfaces : socketObject[j] = 0 => Untouched(j)'
<1>0. i \in Interfaces /\ Readers \subseteq Interfaces  BY LinkAssumption
<1>1. SUFFICES /\ ThreadsOK /\ Kept
               /\ fdTable' \in [Fds -> Socks \cup {NoFile, Stdin}]
               /\ sock' \in [Socks -> SockRecords]
               /\ fdTable'[0] = Stdin
  BY ControllersUndisturbed DEF TypeOK, StdinNeverClosed, ncc, writer
<1> USE DEF ReaderPcs
<1>9. UNCHANGED hostPort  BY DEF Reader
<1> USE <1>9
<1>2. CASE ReaderPoll(i) \/ ReaderReadData(i) \/ ReaderRestart(i)
  <2>1. UNCHANGED <<kernel, link, ncc, writer, readerSock>>
    BY <1>2 DEF ReaderPoll, ReaderReadData, ReaderRestart
  <2>2. \/ connectionStatus[i] \/ readerPc[i] # "poll"
    BY <1>2 DEF ReaderPoll, ReaderReadData, ReaderRestart
  <2>3. ThreadsOK
    BY <1>2, <2>1 DEF ReaderPoll, ReaderReadData, ReaderRestart, TypeOK, link
  <2>4. Kept
    <3>1. socketObject[i] # 0  BY <1>0, <2>2 DEF ZeroMeansUntouched, Untouched
    <3>2. \A j \in Readers \ {i} : readerPc'[j] = readerPc[j]
      BY <1>2 DEF ReaderPoll, ReaderReadData, ReaderRestart, TypeOK
    <3> QED  BY <2>1, <3>1, <3>2 DEF ZeroMeansUntouched, Untouched, ncc, writer, link
  <2> QED  BY <2>1, <2>3, <2>4 DEF TypeOK, StdinNeverClosed, kernel
<1>3. CASE ReaderRecv(i) \/ ReaderRecvReturns(i) \/ ReaderCloseStatus(i) \/ ReaderCloseFd(i)
  <2>1. readerPc[i] \in {"recv", "inRecv", "closeStatus", "closeFd"}
    BY <1>3 DEF ReaderRecv, ReaderRecvReturns, ReaderCloseStatus, ReaderCloseFd
  <2>2. socketObject[i] # 0  BY <1>0, <2>1 DEF ZeroMeansUntouched, Untouched
  <2>3. UNCHANGED <<socketObject, ncc, writer>>
    BY <1>3 DEF ReaderRecv, ReaderRecvReturns, ReaderCloseStatus, ReaderCloseFd, link
  <2>4. Kept
    <3>1. \A j \in Readers \ {i} : readerPc'[j] = readerPc[j]
      BY <1>3 DEF ReaderRecv, ReaderRecvReturns, ReaderCloseStatus, ReaderCloseFd, TypeOK
    <3>2. \A j \in Interfaces : connectionStatus'[j] => connectionStatus[j]
      BY <1>0, <1>3 DEF ReaderRecv, ReaderRecvReturns, ReaderCloseStatus, ReaderCloseFd, link, TypeOK
    <3> QED  BY <2>2, <2>3, <3>1, <3>2 DEF ZeroMeansUntouched, Untouched, ncc, writer
  <2>5. CASE ReaderRecv(i)
    <3>1. KindOf(socketObject[i]) = "conn" => FileOf(socketObject[i]) \in Socks
      BY KindIsSock
    <3>2. ThreadsOK  BY <2>3, <2>5, <3>1 DEF ReaderRecv, TypeOK, link
    <3> QED  BY <2>4, <2>5, <3>2 DEF ReaderRecv, TypeOK, StdinNeverClosed, kernel
  <2>6. CASE ReaderRecvReturns(i)
    <3> DEFINE s == readerSock[i]
    <3>1. FreeSock \in SockRecords
      <4>1. (CHOOSE j \in Interfaces : TRUE) \in Interfaces  BY SomeInterface
      <4> QED  BY <4>1 DEF FreeSock, NewSock, SockRecords, Wires
    <3>2. sock' \in [Socks -> SockRecords]
      <4>1. \/ sock' = [sock EXCEPT ![s] = [@ EXCEPT !.data = FALSE]]
            \/ sock' = [sock EXCEPT ![s] = FreeSock]
        BY <2>6 DEF ReaderRecvReturns
      <4>2. \A r \in SockRecords : [r EXCEPT !.data = FALSE] \in SockRecords
        BY DEF SockRecords
      <4> QED  BY <3>1, <4>1, <4>2 DEF TypeOK
    <3>3. readerPc' \in [Readers -> ReaderPcs]
      <4>1. \E p \in ReaderPcs : readerPc' = [readerPc EXCEPT ![i] = p]
        BY <2>6 DEF ReaderRecvReturns
      <4> QED  BY <4>1 DEF TypeOK
    <3>4. ThreadsOK  BY <2>3, <2>6, <3>3 DEF ReaderRecvReturns, TypeOK, link
    <3> QED  BY <2>4, <2>6, <3>2, <3>4 DEF ReaderRecvReturns, TypeOK, StdinNeverClosed
  <2>7. CASE ReaderCloseStatus(i)
    BY <2>4, <2>7 DEF ReaderCloseStatus, TypeOK, StdinNeverClosed, kernel
  <2>8. CASE ReaderCloseFd(i)
    <3>1. Close(socketObject[i]) /\ ThreadsOK
      BY <2>8 DEF ReaderCloseFd, TypeOK, link
    <3>2. socketObject[i] \in Fds \cup {NoFd}  BY <1>0 DEF TypeOK
    <3> QED  BY <2>2, <2>4, <3>1, <3>2, CloseTyped DEF StdinNeverClosed
  <2> QED  BY <1>3, <2>5, <2>6, <2>7, <2>8
<1> QED  BY <1>2, <1>3 DEF Reader

LEMMA WriterStep ==
  ASSUME Inv, NEW i \in Writers, Produce(i) \/ Writer(i)
  PROVE  Inv'
<1> USE DEF Inv, WriterTo, AtWriter
<1> DEFINE ThreadsOK == /\ connectionStatus' \in [Interfaces -> BOOLEAN]
                       /\ writerPc' \in [Writers -> WriterPcs]
                       /\ queued' \in [Writers -> 0 .. MaxQueue]
                       /\ UNCHANGED <<hostPort, socketObject, ncc, reader>>
<1> DEFINE Kept == /\ \A j \in Interfaces : connectionStatus'[j] => connectionStatus[j]
                  /\ \A j \in Interfaces : socketObject[j] = 0 => Untouched(j)'
<1>0. i \in Interfaces /\ Writers \subseteq Interfaces /\ MaxQueue \in Nat
  BY LinkAssumption
<1>1. SUFFICES /\ ThreadsOK /\ Kept
               /\ fdTable' \in [Fds -> Socks \cup {NoFile, Stdin}]
               /\ sock' \in [Socks -> SockRecords]
               /\ fdTable'[0] = Stdin
  BY ControllersUndisturbed DEF TypeOK, StdinNeverClosed, ncc, reader
<1>2. /\ fdTable \in [Fds -> Socks \cup {NoFile, Stdin}] /\ fdTable[0] = Stdin
      /\ sock \in [Socks -> SockRecords]
  BY DEF TypeOK, StdinNeverClosed
<1> USE DEF WriterPcs
<1>9. UNCHANGED hostPort  BY DEF Writer, Produce
<1> USE <1>9
<1>3. CASE Produce(i)
  <2>1. queued[i] \in 0 .. MaxQueue /\ queued[i] + 1 \in 0 .. MaxQueue
    BY <1>0, <1>3 DEF Produce, TypeOK
  <2>2. ThreadsOK  BY <1>3, <2>1 DEF Produce, TypeOK, link
  <2>3. Kept
    BY <1>3 DEF Produce, ZeroMeansUntouched, Untouched, ncc, reader, link
  <2> QED  BY <1>2, <1>3, <2>2, <2>3 DEF Produce, kernel
<1>4. CASE Writer(i)
  <2>1. connectionStatus[i] \/ writerPc[i] # "poll"
    BY <1>4 DEF Writer, WriterPoll, WriterSendData, WriterSend, SendSegment,
                WriterCloseStatus, WriterCloseFd
  <2>2. socketObject[i] # 0  BY <1>0, <2>1 DEF ZeroMeansUntouched, Untouched
  <2>3. UNCHANGED <<socketObject, ncc, reader>>
    BY <1>4 DEF Writer, WriterPoll, WriterSendData, WriterSend, SendSegment,
                WriterCloseStatus, WriterCloseFd, link
  <2>4. \/ connectionStatus' = connectionStatus
        \/ connectionStatus' = [connectionStatus EXCEPT ![i] = FALSE]
    BY <1>4 DEF Writer, WriterPoll, WriterSendData, WriterSend, SendSegment,
                WriterCloseStatus, WriterCloseFd, link
  <2>5. \E p \in WriterPcs : writerPc' = [writerPc EXCEPT ![i] = p]
    <3>1. CASE WriterSend(i)  BY <3>1 DEF WriterSend, SendSegment
    <3> QED  BY <1>4, <3>1 DEF Writer, WriterPoll, WriterSendData, WriterCloseStatus,
                               WriterCloseFd
  <2>6. queued' \in [Writers -> 0 .. MaxQueue]
    <3>1. CASE WriterPoll(i)
      <4>1. queued[i] \in 0 .. MaxQueue /\ queued[i] - 1 \in 0 .. MaxQueue
        BY <1>0, <3>1 DEF WriterPoll, TypeOK
      <4> QED  BY <3>1, <4>1 DEF WriterPoll, TypeOK
    <3> QED  BY <1>4, <3>1 DEF Writer, WriterSendData, WriterSend, SendSegment,
                               WriterCloseStatus, WriterCloseFd, TypeOK
  <2>7. Kept
    <3>1. \A j \in Interfaces : connectionStatus'[j] => connectionStatus[j]
      BY <1>0, <2>4 DEF TypeOK
    <3>2. \A j \in Writers \ {i} : writerPc'[j] = writerPc[j]
      BY <2>5 DEF TypeOK
    <3> QED  BY <2>2, <2>3, <3>1, <3>2 DEF ZeroMeansUntouched, Untouched, ncc, reader
  <2>8. ThreadsOK  BY <1>0, <2>3, <2>4, <2>5, <2>6 DEF TypeOK
  <2>9. CASE UNCHANGED kernel
    BY <1>2, <2>7, <2>8, <2>9 DEF kernel
  <2>10. CASE WriterCloseFd(i)
    <3>1. Close(socketObject[i])  BY <2>10 DEF WriterCloseFd
    <3>2. socketObject[i] \in Fds \cup {NoFd}  BY <1>0 DEF TypeOK
    <3> QED  BY <2>2, <2>7, <2>8, <3>1, <3>2, CloseTyped DEF StdinNeverClosed
  <2>11. ASSUME NEW w \in Wires, SendOk(socketObject[i]), Put(socketObject[i], w)
         PROVE  /\ fdTable' \in [Fds -> Socks \cup {NoFile, Stdin}]
                /\ sock' \in [Socks -> SockRecords]
                /\ fdTable'[0] = Stdin
    BY <1>2, <2>11, PutTyped
  <2>12. CASE WriterSend(i)
    <3>1. \/ UNCHANGED kernel
          \/ \E w \in Wires : SendOk(socketObject[i]) /\ Put(socketObject[i], w)
      BY <2>12 DEF WriterSend, SendSegment, Wires
    <3> QED  BY <2>7, <2>8, <2>9, <2>11, <3>1
  <2> QED
    BY <1>4, <2>9, <2>10, <2>12
       DEF Writer, WriterPoll, WriterSendData, WriterCloseStatus
<1> QED  BY <1>3, <1>4

LEMMA PeerStep ==
  ASSUME Inv, NEW s \in Socks, Peer(s)
  PROVE  Inv'
<1> USE DEF Inv
<1>1. \E r \in SockRecords : sock' = [sock EXCEPT ![s] = r]
  <2>1. sock[s] \in SockRecords  BY DEF TypeOK
  <2>2. /\ \A p \in {"pending", "fin", "rst"}, d \in {FALSE, sock[s].data} :
            [sock[s] EXCEPT !.peer = p, !.data = d] \in SockRecords
        /\ [sock[s] EXCEPT !.data = TRUE] \in SockRecords
        /\ \A p \in {"pending", "fin", "rst"} : [sock[s] EXCEPT !.peer = p] \in SockRecords
    BY <2>1 DEF SockRecords
  <2>3. \/ sock' = [sock EXCEPT ![s] = [@ EXCEPT !.peer = "pending"]]
        \/ sock' = [sock EXCEPT ![s] = [@ EXCEPT !.data = TRUE]]
        \/ sock' = [sock EXCEPT ![s] = [@ EXCEPT !.peer = "fin"]]
        \/ sock' = [sock EXCEPT ![s] = [@ EXCEPT !.peer = "rst", !.data = FALSE]]
    BY DEF Peer, PeerConnect, PeerSend, PeerClose, PeerReset, TypeOK
  <2> QED  BY <2>2, <2>3
<1>2. UNCHANGED <<threads, fdTable>>
  BY DEF Peer, PeerConnect, PeerSend, PeerClose, PeerReset
<1> QED
  BY <1>1, <1>2
     DEF threads, link, ncc, reader, writer, TypeOK, StdinNeverClosed, PlaceMatchesState,
         NoBuildSpin, ZeroMeansUntouched, Untouched

(* The inductive invariant of all links, whatever their threads do.           *)
THEOREM Inductive == Spec => []Inv
<1>1. Inv /\ [Next]_vars => Inv'
  <2> SUFFICES ASSUME Inv, [Next]_vars PROVE Inv'  OBVIOUS
  <2>1. CASE UNCHANGED vars
    BY <2>1 DEF vars, link, ncc, reader, writer, kernel, Inv, TypeOK, StdinNeverClosed,
                PlaceMatchesState, NoBuildSpin, ZeroMeansUntouched, Untouched
  <2> QED  BY <2>1, NccStep, ReaderStep, WriterStep, PeerStep DEF Next
<1> QED  BY InitInv, <1>1, PTL DEF Spec

(* Every variable keeps its type: descriptors stay in the table's range, no  *)
(* thread leaves its program and no queue outgrows its bound.                *)
THEOREM TypeCorrect == Spec => []TypeOK
BY Inductive, PTL DEF Inv

(* No interleaving of closes reaches standard input through the initial 0 of *)
(* socketObject.                                                             *)
THEOREM StandardInputSafe == Spec => []StdinNeverClosed
BY Inductive, PTL DEF Inv

(* A rebuild never waits for a flag that is stuck at true.                   *)
THEOREM BuildNeverSpins == Spec => []NoBuildSpin
BY Inductive, PTL DEF Inv

-----------------------------------------------------------------------------
(* Connection controllers alone: nobody else closes, so every socket in the  *)
(* descriptor table has one holder.                                          *)

(* What interface i knows of the sockets it holds. *)
Fit(i) ==
  /\ \A f \in Holds(i) : f \in Fds /\ IsSock(fdTable[f]) /\ sock[fdTable[f]].iface = i
  /\ nccPc[i] \in {"swapClose", "swap"} <=> temp[i] # NoFd
  /\ temp[i] # NoFd => KindOf(temp[i]) = "conn"
  /\ nccPc[i] = "swapClose" => socketObject[i] # temp[i]
  /\ nccPc[i] = "connected" => KindOf(socketObject[i]) = "conn"
  /\ connectionStatus[i] => KindOf(socketObject[i]) = "conn"
  /\ nccPc[i] \in {"ping", "send", "closeStatus"} => connectionStatus[i]
  /\ nccPc[i] = "closeFd" => ~connectionStatus[i]

(* A socket is in use as long as it is in the table, under one number. *)
TableFit ==
  \A f \in Fds : IsSock(fdTable[f]) =>
    /\ sock[fdTable[f]].kind # "free"
    /\ \A g \in Fds : fdTable[g] = fdTable[f] => g = f

Covered == \A f \in Fds : IsSock(fdTable[f]) => \E i \in Interfaces : f \in Holds(i)

Owned == (\A i \in Interfaces : Fit(i)) /\ TableFit /\ Covered

(* The step leaves the sockets of the other interfaces where and what they are. *)
OthersKept(i) ==
  /\ \A f \in Fds : IsSock(fdTable[f]) /\ sock[fdTable[f]].iface # i =>
       /\ fdTable'[f] = fdTable[f]
       /\ sock'[fdTable[f]].kind = sock[fdTable[f]].kind
       /\ sock'[fdTable[f]].iface = sock[fdTable[f]].iface

ThreadOf(j) == <<nccPc[j], state[j], temp[j], socketObject[j], connectionStatus[j]>>

LEMMA HolderOfUp ==
  ASSUME Inv, NEW j \in Interfaces, Fit(j), nccPc[j] = "connected" \/ connectionStatus[j]
  PROVE  socketObject[j] \in Holds(j)
<1>1. KindOf(socketObject[j]) = "conn"
  BY DEF Fit
<1>2. socketObject[j] # NoFd
  BY <1>1, LinkAssumption DEF KindOf, FileOf, IsSock, NoFd, Fds, NoFile
<1>3. ~Gone(j)
  BY DEF Gone, AtNcc, Inv, PlaceMatchesState, NoBuildSpin
<1> QED  BY <1>2, <1>3 DEF Holds

LEMMA OtherFit ==
  ASSUME Inv, NEW i \in Interfaces, NEW j \in Interfaces, i # j, Fit(j),
         OthersKept(i), UNCHANGED ThreadOf(j)
  PROVE  Fit(j)' /\ Holds(j)' = Holds(j)
<1>1. Holds(j)' = Holds(j)
  BY DEF ThreadOf, Holds, Gone, AtNcc
<1>2. \A f \in Holds(j) : /\ f \in Fds /\ IsSock(fdTable'[f]) /\ fdTable'[f] = fdTable[f]
                          /\ sock'[fdTable[f]].iface = j
                          /\ sock'[fdTable[f]].kind = sock[fdTable[f]].kind
  BY DEF Fit, OthersKept
<1>3. \A f \in Holds(j) : KindOf(f)' = KindOf(f)
  BY <1>2 DEF KindOf, FileOf
<1>4. temp[j] # NoFd => temp[j] \in Holds(j)
  BY DEF Holds
<1>5. temp[j]' # NoFd => KindOf(temp[j])' = "conn"
  BY <1>3, <1>4 DEF Fit, ThreadOf, KindOf, FileOf
<1>6. nccPc'[j] = "connected" \/ connectionStatus'[j] => KindOf(socketObject[j])' = "conn"
  BY <1>3, HolderOfUp DEF Fit, ThreadOf, KindOf, FileOf
<1> QED  BY <1>1, <1>2, <1>5, <1>6 DEF Fit, ThreadOf

(* What is left to show for a step of the controller of interface i. *)
LEMMA OwnedStep ==
  ASSUME Inv, Owned, NEW i \in Interfaces,
         \A j \in Interfaces \ {i} : UNCHANGED ThreadOf(j),
         OthersKept(i), TableFit', Fit(i)',
         \A f \in Fds : IsSock(fdTable'[f]) =>
            f \in Holds(i)' \/ (fdTable'[f] = fdTable[f] /\ f \notin Holds(i))
  PROVE  Owned'
<1>1. \A j \in Interfaces \ {i} : Fit(j)' /\ Holds(j)' = Holds(j)
  BY OtherFit DEF Owned
<1>2. ASSUME NEW f \in Fds, IsSock(fdTable'[f])
      PROVE  \E j \in Interfaces : f \in Holds(j)'
  <2>1. CASE f \in Holds(i)'
    BY <2>1
  <2>2. CASE fdTable'[f] = fdTable[f] /\ f \notin Holds(i)
    BY <1>1, <1>2, <2>2 DEF Owned, Covered
  <2> QED  BY <1>2, <2>1, <2>2
<1> QED  BY <1>1, <1>2 DEF Owned, Covered, IsSock

(* The table stays; at most the socket of socketObject[i] changes, which is no *)
(* connection unless it keeps its kind.                                        *)
Relabels(i) ==
  /\ fdTable' = fdTable
  /\ \A t \in Socks : sock'[t] = sock[t] \/
       /\ socketObject[i] \in Holds(i) /\ t = fdTable[socketObject[i]]
       /\ sock'[t].iface = sock[t].iface
       /\ \/ sock'[t].kind = sock[t].kind
          \/ sock[t].kind \in {"fresh", "bound"} /\ sock'[t].kind # "free"

LEMMA RelabelStep ==
  ASSUME Inv, Owned, NEW i \in Interfaces, Relabels(i)
  PROVE  /\ OthersKept(i) /\ TableFit'
         /\ \A f \in Fds : KindOf(f) = "conn" => KindOf(f)' = "conn"
         /\ \A f \in Holds(i) : f \in Fds /\ IsSock(fdTable'[f]) /\ sock'[fdTable'[f]].iface = i
<1>1. \A f \in Holds(i) : f \in Fds /\ IsSock(fdTable[f]) /\ sock[fdTable[f]].iface = i
  BY DEF Owned, Fit
<1>2. OthersKept(i)
  BY <1>1 DEF OthersKept, Relabels, IsSock
<1>3. TableFit'
  BY DEF TableFit, Relabels, IsSock, Owned
<1>4. \A f \in Fds : KindOf(f) = "conn" => KindOf(f)' = "conn"
  BY DEF KindOf, FileOf, Relabels, IsSock
<1>5. \A f \in Holds(i) : f \in Fds /\ IsSock(fdTable'[f]) /\ sock'[fdTable'[f]].iface = i
  BY <1>1 DEF Relabels, IsSock
<1> QED  BY <1>2, <1>3, <1>4, <1>5

(* A new socket gets a number. *)
LEMMA TakeStep ==
  ASSUME Inv, Owned, NEW i \in Interfaces, NEW f \in Fds, NEW s \in Socks, TakeFd(f, s),
         sock'[s].kind # "free",
         \A t \in Socks \ {s} : sock'[t].kind = sock[t].kind /\ sock'[t].iface = sock[t].iface
  PROVE  /\ OthersKept(i) /\ TableFit'
         /\ fdTable'[f] = s /\ \A g \in Fds \ {f} : fdTable'[g] = fdTable[g]
         /\ ~IsSock(fdTable[f]) /\ \A g \in Fds : fdTable[g] # s
<1>1. fdTable' = [fdTable EXCEPT ![f] = s] /\ fdTable[f] = NoFile /\ sock[s].kind = "free"
  BY DEF TakeFd, IsLowestFreeFd, IsLowestFreeSock
<1>2. fdTable \in [Fds -> Socks \cup {NoFile, Stdin}]
  BY DEF Inv, TypeOK
<1>3. NoFile \notin Socks
  BY LinkAssumption DEF NoFile
<1>4. \A g \in Fds : fdTable[g] # s
  BY <1>1 DEF Owned, TableFit, IsSock
<1>5. fdTable'[f] = s /\ \A g \in Fds \ {f} : fdTable'[g] = fdTable[g]
  BY <1>1, <1>2
<1>6. OthersKept(i)
  BY <1>1, <1>3, <1>4, <1>5 DEF OthersKept, IsSock
<1>7. TableFit'
  BY <1>4, <1>5 DEF Owned, TableFit, IsSock
<1> QED  BY <1>1, <1>3, <1>4, <1>5, <1>6, <1>7 DEF IsSock

(* The socket of interface i is closed; no recv holds it. *)
LEMMA CloseStep ==
  ASSUME Inv, Owned, Readers = {}, NEW i \in Interfaces, NEW fd \in Fds, fd \in Holds(i), Close(fd)
  PROVE  /\ OthersKept(i) /\ TableFit'
         /\ fdTable'[fd] = NoFile /\ \A g \in Fds \ {fd} : fdTable'[g] = fdTable[g]
         /\ \A g \in Fds \ {fd} : IsSock(fdTable[g]) => sock'[fdTable[g]] = sock[fdTable[g]]
<1>1. IsSock(fdTable[fd]) /\ sock[fdTable[fd]].iface = i
  BY DEF Owned, Fit
<1>2. NoFile \notin Socks
  BY LinkAssumption DEF NoFile
<1>3. /\ fdTable' = [fdTable EXCEPT ![fd] = NoFile]
      /\ sock' = [sock EXCEPT ![fdTable[fd]] = FreeSock]
  BY <1>1, <1>2 DEF Close, FileOf, IsSock, HeldByReader
<1>4. /\ fdTable \in [Fds -> Socks \cup {NoFile, Stdin}] /\ sock \in [Socks -> SockRecords]
  BY DEF Inv, TypeOK
<1>5. fdTable'[fd] = NoFile /\ \A g \in Fds \ {fd} : fdTable'[g] = fdTable[g]
  BY <1>3, <1>4
<1>6. \A g \in Fds \ {fd} : IsSock(fdTable[g]) =>
         fdTable[g] # fdTable[fd] /\ sock'[fdTable[g]] = sock[fdTable[g]]
  BY <1>1, <1>3, <1>4 DEF Owned, TableFit, IsSock
<1>7. OthersKept(i)
  BY <1>1, <1>5, <1>6 DEF OthersKept
<1>8. TableFit'
  BY <1>2, <1>5, <1>6 DEF Owned, TableFit, IsSock
<1> QED  BY <1>5, <1>6, <1>7, <1>8

(* The steps of a connection controller and who owns a socket.                *)
LEMMA NccOwned ==
  ASSUME Inv, Owned, Readers = {}, NEW i \in Interfaces, Ncc(i)
  PROVE  Owned'
<1> USE DEF NccTo, AtNcc
<1>0. /\ state \in [Interfaces -> States] /\ nccPc \in [Interfaces -> NccPcs]
      /\ connectionStatus \in [Interfaces -> BOOLEAN]
      /\ temp \in [Interfaces -> Fds \cup {NoFd}]
      /\ socketObject \in [Interfaces -> Fds \cup {NoFd}]
      /\ fdTable \in [Fds -> Socks \cup {NoFile, Stdin}] /\ sock \in [Socks -> SockRecords]
  BY DEF Inv, TypeOK
<1>a. NoFile \notin Socks /\ NoFd \notin Fds
  BY LinkAssumption DEF NoFile, NoFd, Fds
<1>b. Fit(i)
  BY DEF Owned
<1>c. /\ nccPc[i] \in {"bind", "listen"} => state[i] = "TO_BUILD"
      /\ nccPc[i] \in {"swapClose", "swap", "connected"} => state[i] = "TO_CONNECT"
      /\ nccPc[i] \in {"ping", "send", "closeStatus", "closeFd"} => state[i] = "CONNECTED"
      /\ state[i] # "CONNECTED" => ~connectionStatus[i]
  BY DEF Inv, PlaceMatchesState, NoBuildSpin
<1>d. \A j \in Interfaces \ {i} : UNCHANGED ThreadOf(j)
  BY <1>0
     DEF ThreadOf, Ncc, NccSocket, NccBind, NccListen, NccAccept, NccAcceptFails,
         NccAcceptRefused, NccSwapClose, NccSwap, NccConnected, NccCheck, NccPing,
         NccSend, NccCloseStatus, NccCloseFd, NccRebuild, vars, link, ncc
(* A step that closes and opens nothing. *)
<1>e. ASSUME Relabels(i), Fit(i)', Holds(i) \subseteq Holds(i)' PROVE Owned'
  BY <1>d, <1>e, RelabelStep, OwnedStep DEF Relabels
<1>f. ASSUME UNCHANGED kernel PROVE Relabels(i) /\ \A f : KindOf(f)' = KindOf(f)
  BY <1>f DEF Relabels, kernel, KindOf, FileOf
<1>1. CASE NccSocket(i)
  <2>1. Holds(i) = {} /\ temp[i] = NoFd
    BY <1>1, <1>b, <1>c DEF NccSocket, Holds, Gone, Fit
  <2>2. ASSUME NEW f \in Fds, NEW s \in Socks, TakeFd(f, s),
               sock' = [sock EXCEPT ![s] = NewSock("fresh", i, "none")],
               socketObject' = [socketObject EXCEPT ![i] = f]
        PROVE  Owned'
    <3>1. Holds(i)' = {f}
      BY <1>0, <1>1, <1>a, <2>1, <2>2 DEF NccSocket, Holds, Gone
    <3>2. /\ OthersKept(i) /\ TableFit' /\ fdTable'[f] = s
          /\ \A g \in Fds \ {f} : fdTable'[g] = fdTable[g]
      BY <1>0, <2>2, TakeStep DEF NewSock
    <3>3. sock'[s].iface = i
      BY <1>0, <2>2 DEF NewSock
    <3>4. Fit(i)'
      BY <1>0, <1>1, <1>c, <2>1, <3>1, <3>2, <3>3 DEF Fit, NccSocket, IsSock
    <3> QED  BY <1>d, <2>1, <3>1, <3>2, <3>4, OwnedStep
  <2>3. ASSUME socketObject' = [socketObject EXCEPT ![i] = NoFd], UNCHANGED kernel
        PROVE  Owned'
    <3>1. Holds(i)' = {}
      BY <1>0, <1>1, <2>1, <2>3 DEF NccSocket, Holds, Gone
    <3>2. Fit(i)'
      BY <1>0, <1>1, <1>c, <2>1, <3>1 DEF Fit, NccSocket
    <3> QED  BY <1>e, <1>f, <2>1, <2>3, <3>2
  <2> QED  BY <1>1, <2>2, <2>3 DEF NccSocket
<1>2. CASE NccBind(i) \/ NccListen(i)
  <2>1. Holds(i)' = Holds(i) /\ Holds(i) = {socketObject[i]} \ {NoFd} /\ temp[i] = NoFd
    BY <1>0, <1>2, <1>b, <1>c DEF NccBind, NccListen, Holds, Gone, Fit, link
  <2>2. Relabels(i)
    <3>1. CASE UNCHANGED sock
      BY <1>2, <3>1 DEF Relabels, NccBind, NccListen
    <3>2. CASE KindOf(socketObject[i]) \in {"fresh", "bound"} /\ sock' # sock
      <4>1. socketObject[i] \in Fds /\ FileOf(socketObject[i]) = fdTable[socketObject[i]]
            /\ fdTable[socketObject[i]] \in Socks
            /\ sock[fdTable[socketObject[i]]].kind \in {"fresh", "bound"}
        BY <3>2, KindIsSock DEF FileOf
      <4>2. \E k \in {"bound", "listening", "stray"} :
               sock' = [sock EXCEPT ![fdTable[socketObject[i]]] = [@ EXCEPT !.kind = k]]
        <5>1. CASE NccBind(i)
          BY <3>2, <4>1, <5>1 DEF NccBind
        <5>2. CASE NccListen(i)
          BY <1>0, <3>2, <4>1, <5>2 DEF NccListen
        <5> QED  BY <1>2, <5>1, <5>2
      <4>3. fdTable' = fdTable
        BY <1>2 DEF NccBind, NccListen
      <4>4. sock[fdTable[socketObject[i]]] \in SockRecords
        BY <1>0, <4>1
      <4> QED  BY <1>0, <1>a, <2>1, <4>1, <4>2, <4>3, <4>4 DEF Relabels, SockRecords
    <3> QED  BY <1>2, <3>1, <3>2 DEF NccBind, NccListen
  <2>3. Fit(i)'
    BY <1>0, <1>2, <1>b, <1>c, <2>1, <2>2, RelabelStep DEF Fit, NccBind, NccListen, link
  <2> QED  BY <1>e, <2>1, <2>2, <2>3
<1>4. CASE NccAccept(i)
  <2> DEFINE l == FileOf(socketObject[i])
  <2>1. l \in Socks /\ socketObject[i] \in Fds /\ l = fdTable[socketObject[i]]
        /\ sock[l].kind = "listening"
    BY <1>4, KindIsSock DEF NccAccept, ClientWaits, FileOf
  <2>2. temp[i] = NoFd /\ Holds(i) = {socketObject[i]}
    BY <1>4, <1>a, <1>b, <2>1 DEF NccAccept, Holds, Gone, Fit
  <2>3. sock[l].iface = i
    BY <1>b, <2>1, <2>2 DEF Fit
  <2>4. PICK f \in Fds, s \in Socks :
          /\ TakeFd(f, s)
          /\ sock' = [sock EXCEPT ![l].peer = "none",
                                  ![s] = NewSock("conn", sock[l].iface, "open")]
          /\ temp' = [temp EXCEPT ![i] = f]
    BY <1>4 DEF NccAccept
  <2>5. s # l
    BY <2>1, <2>4 DEF TakeFd, IsLowestFreeSock
  <2>6. /\ sock'[s].kind = "conn" /\ sock'[s].iface = i
        /\ \A t \in Socks \ {s} : sock'[t].kind = sock[t].kind /\ sock'[t].iface = sock[t].iface
    BY <1>0, <2>1, <2>3, <2>4, <2>5 DEF NewSock, SockRecords
  <2>7. /\ OthersKept(i) /\ TableFit' /\ fdTable'[f] = s
        /\ \A g \in Fds \ {f} : fdTable'[g] = fdTable[g]
        /\ ~IsSock(fdTable[f])
    BY <2>4, <2>6, TakeStep
  <2>8. f # socketObject[i]
    BY <2>1, <2>7 DEF IsSock
  <2>9. Holds(i)' = {socketObject[i], f}
    BY <1>0, <1>4, <1>a, <2>1, <2>4 DEF NccAccept, Holds, Gone, link
  <2>10. Fit(i)'
    <3>1. KindOf(f)' = "conn"
      BY <2>6, <2>7 DEF KindOf, FileOf, IsSock
    <3>2. temp'[i] = f /\ nccPc'[i] = "swapClose" /\ ~connectionStatus'[i] /\ socketObject'[i] = socketObject[i]
      BY <1>0, <1>4, <1>c, <2>4 DEF NccAccept, link
    <3>3. \A g \in Holds(i)' : g \in Fds /\ IsSock(fdTable'[g]) /\ sock'[fdTable'[g]].iface = i
      BY <2>1, <2>3, <2>6, <2>7, <2>8, <2>9, <2>5 DEF IsSock
    <3>4. KindOf(temp[i])' = "conn"
      BY <3>1, <3>2 DEF KindOf, FileOf
    <3> QED  BY <1>a, <2>8, <3>2, <3>3, <3>4 DEF Fit, IsSock
  <2> QED  BY <1>d, <2>2, <2>7, <2>9, <2>10, OwnedStep
<1>5. CASE NccAcceptRefused(i)
  <2> DEFINE l == FileOf(socketObject[i])
  <2>1. l \in Socks /\ socketObject[i] \in Fds /\ l = fdTable[socketObject[i]]
    BY <1>5, KindIsSock DEF NccAcceptRefused, ClientWaits, FileOf
  <2>2. socketObject[i] \in Holds(i) /\ Holds(i)' = Holds(i)
    BY <1>5, <1>a, <2>1 DEF NccAcceptRefused, Holds, Gone, link, ncc
  <2>3. sock' = [sock EXCEPT ![l] = [sock[l] EXCEPT !.peer = "none"]]
    BY <1>0, <1>5, <2>1 DEF NccAcceptRefused
  <2>4. Relabels(i)
    BY <1>0, <1>5, <2>1, <2>2, <2>3 DEF Relabels, NccAcceptRefused, SockRecords
  <2>5. Fit(i)'
    BY <1>5, <1>b, <1>c, <2>2, <2>4, RelabelStep DEF Fit, NccAcceptRefused, link, ncc
  <2> QED  BY <1>e, <2>2, <2>4, <2>5
<1>6. CASE NccSwapClose(i)
  <2> DEFINE fd == socketObject[i]
  <2>1. Holds(i) = {fd, temp[i]} \ {NoFd} /\ fd # temp[i] /\ temp[i] \in Fds
    BY <1>0, <1>6, <1>b, <1>c DEF NccSwapClose, Holds, Gone, Fit
  <2>2. Holds(i)' = {temp[i]} /\ temp' = temp /\ ~connectionStatus'[i] /\ nccPc'[i] = "swap"
    BY <1>0, <1>6, <1>a, <1>c, <2>1 DEF NccSwapClose, Holds, Gone, link
  <2>3. CASE fd = NoFd
    <3>1. UNCHANGED kernel
      BY <1>6, <1>a, <2>3 DEF NccSwapClose, Close, FileOf
    <3>2. Fit(i)'
      <4>1. KindOf(temp[i]) = "conn" /\ KindOf(temp[i])' = "conn"
        BY <1>a, <1>b, <2>1, <2>2, <3>1 DEF Fit, kernel, KindOf, FileOf
      <4>2. \A g \in Holds(i)' : g \in Fds /\ IsSock(fdTable'[g]) /\ sock'[fdTable'[g]].iface = i
        BY <1>a, <1>b, <2>1, <2>2, <3>1 DEF Fit, kernel
      <4> QED  BY <1>a, <2>1, <2>2, <4>1, <4>2 DEF Fit, IsSock
    <3> QED  BY <1>e, <1>f, <2>1, <2>2, <2>3, <3>1, <3>2
  <2>4. CASE fd # NoFd
    <3>1. fd \in Fds /\ fd \in Holds(i)
      BY <1>0, <2>1, <2>4
    <3>2. /\ OthersKept(i) /\ TableFit'
          /\ fdTable'[fd] = NoFile /\ \A g \in Fds \ {fd} : fdTable'[g] = fdTable[g]
          /\ \A g \in Fds \ {fd} : IsSock(fdTable[g]) => sock'[fdTable[g]] = sock[fdTable[g]]
      BY <1>6, <3>1, CloseStep DEF NccSwapClose
    <3>3. Fit(i)'
      <4>1. IsSock(fdTable[temp[i]]) /\ sock[fdTable[temp[i]]].iface = i
            /\ KindOf(temp[i]) = "conn" /\ temp[i] # NoFd
        BY <1>a, <1>b, <2>1 DEF Fit
      <4>2. KindOf(temp[i])' = "conn"
        BY <2>1, <2>2, <3>2, <4>1 DEF KindOf, FileOf
      <4>3. \A g \in Holds(i)' : g \in Fds /\ IsSock(fdTable'[g]) /\ sock'[fdTable'[g]].iface = i
        BY <2>1, <2>2, <3>2, <4>1
      <4> QED  BY <2>2, <4>1, <4>2, <4>3 DEF Fit, IsSock
    <3>4. \A f \in Fds : IsSock(fdTable'[f]) =>
             f \in Holds(i)' \/ (fdTable'[f] = fdTable[f] /\ f \notin Holds(i))
      BY <1>a, <2>1, <2>2, <3>2 DEF IsSock
    <3> QED  BY <1>d, <3>2, <3>3, <3>4, OwnedStep
  <2> QED  BY <2>3, <2>4
<1>7. CASE NccCloseFd(i)
  <2> DEFINE fd == socketObject[i]
  <2>1. Holds(i) = {fd} \ {NoFd} /\ temp[i] = NoFd /\ ~connectionStatus[i] /\ state[i] = "CONNECTED"
    BY <1>0, <1>7, <1>b, <1>c DEF NccCloseFd, Holds, Gone, Fit
  <2>2. Holds(i)' = {} /\ Fit(i)'
    BY <1>0, <1>7, <2>1 DEF NccCloseFd, Holds, Gone, link, Fit
  <2>3. CASE fd = NoFd
    <3>1. UNCHANGED kernel
      BY <1>7, <1>a, <2>3 DEF NccCloseFd, Close, FileOf
    <3> QED  BY <1>e, <1>f, <2>1, <2>2, <2>3, <3>1
  <2>4. CASE fd # NoFd
    <3>1. fd \in Fds /\ fd \in Holds(i)
      BY <1>0, <2>1, <2>4
    <3>2. /\ OthersKept(i) /\ TableFit'
          /\ fdTable'[fd] = NoFile /\ \A g \in Fds \ {fd} : fdTable'[g] = fdTable[g]
      BY <1>7, <3>1, CloseStep DEF NccCloseFd
    <3>3. \A f \in Fds : IsSock(fdTable'[f]) =>
             f \in Holds(i)' \/ (fdTable'[f] = fdTable[f] /\ f \notin Holds(i))
      BY <1>a, <2>1, <3>2 DEF IsSock
    <3> QED  BY <1>d, <2>2, <3>2, <3>3, OwnedStep
  <2> QED  BY <2>3, <2>4
<1>8. CASE NccSwap(i)
  <2>1. temp[i] \in Fds /\ temp[i] # NoFd /\ UNCHANGED kernel /\ ~connectionStatus[i] /\ state[i] = "TO_CONNECT"
    BY <1>0, <1>8, <1>b, <1>c DEF NccSwap, Fit
  <2>2. Holds(i) = {temp[i]} /\ Holds(i)' = {temp[i]}
    BY <1>0, <1>8, <1>a, <2>1 DEF NccSwap, Holds, Gone
  <2>3. /\ socketObject'[i] = temp[i] /\ temp'[i] = NoFd /\ nccPc'[i] = "connected"
        /\ ~connectionStatus'[i]
    BY <1>0, <1>8, <2>1 DEF NccSwap
  <2>4. KindOf(socketObject[i])' = "conn"
    BY <1>b, <2>1, <2>3 DEF Fit, kernel, KindOf, FileOf
  <2>5. Fit(i)'
    BY <1>b, <2>1, <2>2, <2>3, <2>4 DEF Fit, kernel
  <2> QED  BY <1>e, <1>f, <2>1, <2>2, <2>5
<1>9. CASE NccConnected(i) \/ NccCheck(i) \/ NccPing(i) \/ NccCloseStatus(i) \/ NccRebuild(i) \/ NccAcceptFails(i)
  <2>1. UNCHANGED <<kernel, temp, socketObject>>
    BY <1>9 DEF NccConnected, NccCheck, NccPing, NccCloseStatus, NccRebuild, NccAcceptFails, vars, link, ncc
  <2>2. Holds(i)' = Holds(i)
    BY <1>0, <1>9, <1>b, <1>c, <2>1
       DEF NccConnected, NccCheck, NccPing, NccCloseStatus, NccRebuild, NccAcceptFails,
           Holds, Gone, Fit, vars, link, ncc
  <2>3. Fit(i)'
    BY <1>0, <1>9, <1>b, <1>c, <1>f, <2>1, <2>2
       DEF NccConnected, NccCheck, NccPing, NccCloseStatus, NccRebuild, NccAcceptFails,
           Fit, vars, link, ncc, kernel, KindOf, FileOf
  <2> QED  BY <1>e, <1>f, <2>1, <2>2, <2>3
<1>10. CASE NccSend(i)
  <2>1. Holds(i)' = Holds(i) /\ connectionStatus[i]
    BY <1>0, <1>10, <1>b, <1>c DEF NccSend, Holds, Gone, link, Fit
  <2>2. socketObject[i] \in Holds(i) /\ KindOf(socketObject[i]) = "conn"
    BY <1>b, <2>1, HolderOfUp DEF Fit
  <2>3. Relabels(i)
    <3>1. CASE UNCHANGED kernel
      BY <1>f, <3>1
    <3>2. CASE SendOk(socketObject[i])
      <4>1. FileOf(socketObject[i]) \in Socks /\ FileOf(socketObject[i]) = fdTable[socketObject[i]]
        BY <2>2, KindIsSock DEF FileOf
      <4>2. /\ sock' = [sock EXCEPT ![FileOf(socketObject[i])] = [@ EXCEPT !.wire = "garbled"]]
            /\ fdTable' = fdTable
        BY <1>10, <3>2 DEF NccSend, Put
      <4> QED  BY <1>0, <2>2, <4>1, <4>2 DEF Relabels, SockRecords
    <3> QED  BY <1>10, <3>1, <3>2 DEF NccSend
  <2>4. Fit(i)'
    <3>1. socketObject[i] \in Fds
      BY <1>b, <2>2 DEF Fit
    <3>2. socketObject' = socketObject /\ KindOf(socketObject[i])' = "conn"
      BY <1>10, <2>2, <2>3, <3>1, RelabelStep DEF NccSend, link, KindOf, FileOf
    <3>3. \A g \in Holds(i)' : g \in Fds /\ IsSock(fdTable'[g]) /\ sock'[fdTable'[g]].iface = i
      BY <2>1, <2>3, RelabelStep
    <3>4. nccPc'[i] \in {"loop", "closeStatus"} /\ UNCHANGED <<temp, connectionStatus>> /\ temp[i] = NoFd
      BY <1>0, <1>10, <1>b DEF NccSend, link, Fit
    <3> QED  BY <2>1, <3>2, <3>3, <3>4 DEF Fit, IsSock
  <2> QED  BY <1>e, <2>1, <2>3, <2>4
<1> QED
  BY <1>1, <1>2, <1>4, <1>5, <1>6, <1>7, <1>8, <1>9, <1>10 DEF Ncc

LEMMA PeerOwned ==
  ASSUME Inv, Owned, NEW s \in Socks, Peer(s)
  PROVE  Owned'
<1>1. UNCHANGED <<connectionStatus, socketObject, state, nccPc, temp, fdTable>>
  BY DEF Peer, PeerConnect, PeerSend, PeerClose, PeerReset, threads, link, ncc
<1>2. \A t \in Socks : sock'[t].kind = sock[t].kind /\ sock'[t].iface = sock[t].iface
  <2>1. sock \in [Socks -> SockRecords]
    BY DEF Inv, TypeOK
  <2> QED  BY <2>1 DEF Peer, PeerConnect, PeerSend, PeerClose, PeerReset, SockRecords
<1>3. \A i \in Interfaces : Holds(i)' = Holds(i)
  BY <1>1 DEF Holds, Gone, AtNcc
<1>4. \A i \in Interfaces : Fit(i)'
  <2> TAKE i \in Interfaces
  <2>1. KindOf(temp[i])' = KindOf(temp[i]) /\ KindOf(socketObject[i])' = KindOf(socketObject[i])
    BY <1>1, <1>2 DEF KindOf, FileOf, IsSock
  <2>2. \A f \in Holds(i)' : f \in Fds /\ IsSock(fdTable'[f]) /\ sock'[fdTable'[f]].iface = i
    BY <1>1, <1>2, <1>3 DEF Owned, Fit, IsSock
  <2> QED  BY <1>1, <2>1, <2>2 DEF Owned, Fit, IsSock
<1>5. TableFit' /\ Covered'
  BY <1>1, <1>2, <1>3 DEF Owned, TableFit, Covered, IsSock
<1> QED  BY <1>4, <1>5 DEF Owned

LEMMA InitOwned == Init => Owned
<1> SUFFICES ASSUME Init PROVE Owned
  OBVIOUS
<1>1. \A i \in Interfaces : Holds(i) = {}
  BY DEF Init, Holds, Gone, AtNcc
<1>2. \A f \in Fds : ~IsSock(fdTable[f])
  BY LinkAssumption DEF Init, IsSock, NoFile, Stdin
<1>3. \A i \in Interfaces : Fit(i)
  BY <1>1 DEF Init, Fit
<1> QED  BY <1>2, <1>3 DEF Owned, TableFit, Covered

LEMMA OwnedInductive ==
  ASSUME Readers = {}, Writers = {}
  PROVE  Spec => []Owned
<1>1. Inv /\ Owned /\ [Next]_vars => Owned'
  <2> SUFFICES ASSUME Inv, Owned, [Next]_vars PROVE Owned'
    OBVIOUS
  <2>1. CASE UNCHANGED vars
    <3>1. UNCHANGED <<connectionStatus, socketObject, state, nccPc, temp, fdTable, sock>>
      BY <2>1 DEF vars, link, ncc, kernel
    <3> QED  BY <3>1 DEF Owned, Fit, TableFit, Covered, Holds, Gone, AtNcc, KindOf, FileOf
  <2> QED  BY <2>1, NccOwned, PeerOwned DEF Next
<1> QED  BY <1>1, InitOwned, Inductive, PTL DEF Spec

(* As long as the connection controllers are the only threads that close, no  *)
(* socket leaks and none is closed or used by an interface it was not made    *)
(* for, with any number of interfaces sharing the descriptor table and with   *)
(* set-up calls that fail.                                                    *)
THEOREM EverySocketOwned ==
  ASSUME Readers = {}, Writers = {}
  PROVE  Spec => []SocketsOwned
<1>1. Owned => SocketsOwned
  BY DEF Owned, Fit, Covered, SocketsOwned
<1> QED  BY <1>1, OwnedInductive, PTL

(* Under the same condition connectionStatus only says true of a connection.  *)
THEOREM UpIsConnected ==
  ASSUME Readers = {}, Writers = {}
  PROVE  Spec => []UpMeansConnected
<1>1. Owned => UpMeansConnected
  BY DEF Owned, Fit, UpMeansConnected
<1> QED  BY <1>1, OwnedInductive, PTL

-----------------------------------------------------------------------------
(* One interface with a reader and no writer.                               *)

(* Both threads close socketObject, each after it has looked at it: what the  *)
(* connection controller still closes then is not a connection, or one that   *)
(* was reset.                                                                 *)
CloserFit ==
  \A i \in Interfaces :
    /\ nccPc[i] \in {"closeStatus", "closeFd"} => ~SendOk(socketObject[i])
    /\ nccPc[i] = "swapClose" => KindOf(socketObject[i]) # "conn"

ConnsFit == \A s \in Socks : sock[s].kind = "conn" => sock[s].peer \in {"open", "fin", "rst"}

RecvFit ==
  \A i \in Readers :
    AtReader(i, "inRecv") => readerSock[i] \in Socks /\ sock[readerSock[i]].kind = "conn"

Heard == ConnsFit /\ RecvFit /\ CloserFit /\ ReaderNotStranded

(* A step that is no step of a reader keeps the socket of a recv. *)
LEMMA RecvUndisturbed ==
  ASSUME Inv, Heard, UNCHANGED reader,
         \A t \in Socks : sock[t].kind = "conn" /\ HeldByReader(t) =>
           /\ sock'[t].kind = "conn"
           /\ sock[t].peer = "rst" => sock'[t].peer = "rst",
         \A f \in Fds : IsSock(fdTable[f]) /\ SendOk(f) => fdTable'[f] = fdTable[f]
  PROVE  RecvFit' /\ ReaderNotStranded'
<1> SUFFICES ASSUME NEW i \in Readers, AtReader(i, "inRecv")
             PROVE  /\ readerSock[i] \in Socks /\ sock'[readerSock[i]].kind = "conn"
                    /\ \/ \E f \in Fds : fdTable'[f] = readerSock[i]
                       \/ sock'[readerSock[i]].peer = "rst"
  BY DEF RecvFit, ReaderNotStranded, reader, AtReader
<1> DEFINE s == readerSock[i]
<1>1. s \in Socks /\ sock[s].kind = "conn" /\ HeldByReader(s)
  BY DEF Heard, RecvFit, HeldByReader
<1>2. sock'[s].kind = "conn" /\ (sock[s].peer = "rst" => sock'[s].peer = "rst")
  BY <1>1
<1>3. CASE sock[s].peer = "rst"
  BY <1>1, <1>2, <1>3
<1>4. CASE sock[s].peer # "rst"
  <2>1. PICK f \in Fds : fdTable[f] = s
    BY <1>4 DEF Heard, ReaderNotStranded
  <2>2. SendOk(f)
    BY <1>1, <1>4, <2>1 DEF SendOk, KindOf, FileOf, IsSock, Heard, ConnsFit
  <2> QED  BY <1>1, <1>2, <2>1, <2>2 DEF IsSock
<1> QED  BY <1>3, <1>4

(* The steps of the connection controller and a recv in progress.             *)
LEMMA NccHeard ==
  ASSUME Inv, Heard, NEW i \in Interfaces, Interfaces = {i}, Ncc(i)
  PROVE  Heard'
<1> USE DEF NccTo, AtNcc
<1>0. /\ nccPc \in [Interfaces -> NccPcs] /\ socketObject \in [Interfaces -> Fds \cup {NoFd}]
      /\ fdTable \in [Fds -> Socks \cup {NoFile, Stdin}] /\ sock \in [Socks -> SockRecords]
  BY DEF Inv, TypeOK
<1>a. NoFile \notin Socks /\ NoFd \notin Fds
  BY LinkAssumption DEF NoFile, NoFd, Fds
<1>b. /\ nccPc[i] \in {"closeStatus", "closeFd"} => ~SendOk(socketObject[i])
      /\ nccPc[i] = "swapClose" => KindOf(socketObject[i]) # "conn"
  BY DEF Heard, CloserFit
<1>c. UNCHANGED reader
  BY DEF Ncc, NccSocket, NccBind, NccListen, NccAccept, NccAcceptFails,
         NccAcceptRefused, NccSwapClose, NccSwap, NccConnected, NccCheck, NccPing,
         NccSend, NccCloseStatus, NccCloseFd, NccRebuild, vars, reader
(* What is left to show. *)
<1> DEFINE
      Conns == /\ \A t \in Socks : sock'[t].kind = "conn" => sock'[t].peer \in {"open", "fin", "rst"}
               /\ \A t \in Socks : sock[t].kind = "conn" /\ HeldByReader(t) =>
                     /\ sock'[t].kind = "conn"
                     /\ sock[t].peer = "rst" => sock'[t].peer = "rst"
      Stays == \A f \in Fds : IsSock(fdTable[f]) /\ SendOk(f) => fdTable'[f] = fdTable[f]
      Closer == /\ nccPc'[i] \in {"closeStatus", "closeFd"} => ~SendOk(socketObject[i])'
                /\ nccPc'[i] = "swapClose" => KindOf(socketObject[i])' # "conn"
<1>d. SUFFICES Conns /\ Stays /\ Closer
  BY <1>c, RecvUndisturbed DEF Heard, ConnsFit, CloserFit
<1>e. ASSUME UNCHANGED kernel PROVE Conns /\ Stays
  BY <1>e DEF kernel, Heard, ConnsFit
<1>1. CASE NccSocket(i)
  <2>1. Closer
    BY <1>0, <1>1 DEF NccSocket
  <2>2. ASSUME NEW f \in Fds, NEW s \in Socks, TakeFd(f, s),
               sock' = [sock EXCEPT ![s] = NewSock("fresh", i, "none")]
        PROVE  Conns /\ Stays
    <3>1. fdTable' = [fdTable EXCEPT ![f] = s] /\ fdTable[f] = NoFile /\ sock[s].kind = "free"
      BY <2>2 DEF TakeFd, IsLowestFreeFd, IsLowestFreeSock
    <3>2. Conns
      BY <1>0, <2>2, <3>1 DEF NewSock, Heard, ConnsFit
    <3> QED  BY <1>0, <1>a, <3>1, <3>2 DEF IsSock
  <2> QED  BY <1>1, <1>e, <2>1, <2>2 DEF NccSocket
<1>2. CASE NccBind(i) \/ NccListen(i)
  <2>1. Closer
    BY <1>0, <1>2 DEF NccBind, NccListen
  <2>2. fdTable' = fdTable
    BY <1>2 DEF NccBind, NccListen
  <2>3. CASE UNCHANGED sock
    BY <1>e, <2>1, <2>2, <2>3 DEF kernel
  <2>4. CASE KindOf(socketObject[i]) \in {"fresh", "bound"} /\ sock' # sock
    <3> DEFINE l == FileOf(socketObject[i])
    <3>1. l \in Socks /\ sock[l].kind \in {"fresh", "bound"}
      BY <2>4, KindIsSock
    <3>2. \E k \in {"bound", "listening", "stray"} : sock' = [sock EXCEPT ![l] = [@ EXCEPT !.kind = k]]
      <4>1. CASE NccBind(i)
        BY <2>4, <3>1, <4>1 DEF NccBind
      <4>2. CASE NccListen(i)
        BY <1>0, <2>4, <3>1, <4>2 DEF NccListen
      <4> QED  BY <1>2, <4>1, <4>2
    <3>3. Conns
      BY <1>0, <3>1, <3>2 DEF SockRecords, Heard, ConnsFit
    <3> QED  BY <2>1, <2>2, <3>3
  <2> QED  BY <1>2, <2>3, <2>4 DEF NccBind, NccListen
<1>4. CASE NccAccept(i)
  <2> DEFINE l == FileOf(socketObject[i])
  <2>1. l \in Socks /\ socketObject[i] \in Fds /\ l = fdTable[socketObject[i]]
        /\ sock[l].kind = "listening"
    BY <1>4, KindIsSock DEF NccAccept, ClientWaits, FileOf
  <2>2. PICK f \in Fds, s \in Socks :
          /\ TakeFd(f, s)
          /\ sock' = [sock EXCEPT ![l].peer = "none",
                                  ![s] = NewSock("conn", sock[l].iface, "open")]
    BY <1>4 DEF NccAccept
  <2>3. fdTable' = [fdTable EXCEPT ![f] = s] /\ fdTable[f] = NoFile /\ sock[s].kind = "free"
    BY <2>2 DEF TakeFd, IsLowestFreeFd, IsLowestFreeSock
  <2>4. /\ s # l /\ f # socketObject[i]
        /\ sock'[s].kind = "conn" /\ sock'[s].peer = "open"
        /\ sock'[l].kind = "listening" /\ \A t \in Socks \ {s, l} : sock'[t] = sock[t]
    BY <1>0, <1>a, <2>1, <2>2, <2>3 DEF NewSock, SockRecords
  <2>5. Conns
    BY <2>1, <2>3, <2>4 DEF Heard, ConnsFit
  <2>6. Stays
    BY <1>0, <1>a, <2>3 DEF IsSock
  <2>7. Closer
    <3>1. nccPc'[i] = "swapClose" /\ socketObject' = socketObject
      BY <1>0, <1>4 DEF NccAccept, link
    <3>2. fdTable'[socketObject[i]] = l
      BY <1>0, <2>1, <2>3, <2>4
    <3> QED  BY <2>1, <2>4, <3>1, <3>2 DEF KindOf, FileOf
  <2> QED  BY <2>5, <2>6, <2>7
<1>5. CASE NccAcceptRefused(i)
  <2> DEFINE l == FileOf(socketObject[i])
  <2>1. l \in Socks /\ sock[l].kind = "listening"
    BY <1>5, KindIsSock DEF NccAcceptRefused, ClientWaits
  <2>2. sock' = [sock EXCEPT ![l] = [sock[l] EXCEPT !.peer = "none"]] /\ fdTable' = fdTable
    BY <1>0, <1>5, <2>1 DEF NccAcceptRefused
  <2>3. sock'[l].kind = "listening" /\ \A t \in Socks \ {l} : sock'[t] = sock[t]
    BY <1>0, <2>1, <2>2 DEF SockRecords
  <2>4. Conns /\ Stays
    BY <2>1, <2>2, <2>3 DEF Heard, ConnsFit
  <2>5. Closer
    BY <1>0, <1>5 DEF NccAcceptRefused, ncc
  <2> QED  BY <2>4, <2>5
<1>6. CASE NccSwapClose(i) \/ NccCloseFd(i)
  <2> DEFINE fd == socketObject[i]
  <2>1. Close(fd) /\ ~SendOk(fd)
    BY <1>6, <1>b DEF NccSwapClose, NccCloseFd, SendOk
  <2>2. Closer
    BY <1>0, <1>6 DEF NccSwapClose, NccCloseFd
  <2>3. CASE FileOf(fd) = NoFile
    BY <1>e, <2>1, <2>2, <2>3 DEF Close
  <2>4. CASE FileOf(fd) # NoFile
    <3>1. fd \in Fds /\ FileOf(fd) = fdTable[fd]
      BY <2>4 DEF FileOf
    <3>2. /\ fdTable' = [fdTable EXCEPT ![fd] = NoFile]
          /\ sock' = IF IsSock(fdTable[fd]) /\ ~HeldByReader(fdTable[fd])
                       THEN [sock EXCEPT ![fdTable[fd]] = FreeSock] ELSE sock
      BY <2>1, <2>4 DEF Close
    <3>3. Stays
      BY <1>0, <2>1, <3>1, <3>2
    <3>4. Conns
      BY <1>0, <3>2 DEF FreeSock, NewSock, IsSock, Heard, ConnsFit
    <3> QED  BY <2>2, <3>3, <3>4
  <2> QED  BY <2>3, <2>4
<1>7. CASE NccSwap(i) \/ NccConnected(i) \/ NccCheck(i) \/ NccPing(i) \/ NccRebuild(i) \/ NccAcceptFails(i)
  <2>1. UNCHANGED kernel
    BY <1>7 DEF NccSwap, NccConnected, NccCheck, NccPing, NccRebuild, NccAcceptFails, vars, kernel
  <2>2. Closer
    <3>1. nccPc'[i] \notin {"closeStatus", "closeFd", "swapClose"}
      BY <1>0, <1>7 DEF NccSwap, NccConnected, NccCheck, NccPing, NccRebuild, NccAcceptFails, vars, ncc
    <3> QED  BY <3>1
  <2> QED  BY <1>e, <2>1, <2>2
<1>8. CASE NccCloseStatus(i)
  <2>1. UNCHANGED kernel /\ UNCHANGED socketObject
    BY <1>8 DEF NccCloseStatus
  <2>2. Closer
    BY <1>0, <1>8, <1>b, <2>1 DEF NccCloseStatus, SendOk, KindOf, FileOf, kernel
  <2> QED  BY <1>e, <2>1, <2>2
<1>9. CASE NccSend(i)
  <2>1. CASE SendOk(socketObject[i])
    <3> DEFINE l == FileOf(socketObject[i])
    <3>1. l \in Socks
      BY <2>1, KindIsSock DEF SendOk
    <3>2. sock' = [sock EXCEPT ![l] = [@ EXCEPT !.wire = "garbled"]] /\ fdTable' = fdTable
          /\ nccPc'[i] = "loop"
      BY <1>0, <1>9, <2>1 DEF NccSend, Put
    <3>3. Conns
      BY <1>0, <3>1, <3>2 DEF SockRecords, Heard, ConnsFit
    <3> QED  BY <3>2, <3>3
  <2>2. CASE ~SendOk(socketObject[i])
    <3>1. UNCHANGED kernel /\ UNCHANGED socketObject /\ nccPc'[i] = "closeStatus"
      BY <1>0, <1>9, <2>2 DEF NccSend, link
    <3>2. Closer
      BY <2>2, <3>1 DEF SendOk, KindOf, FileOf, kernel
    <3> QED  BY <1>e, <3>1, <3>2
  <2> QED  BY <2>1, <2>2
<1> QED
  BY <1>1, <1>2, <1>4, <1>5, <1>6, <1>7, <1>8, <1>9 DEF Ncc

(* The steps of the reader itself.                                            *)
LEMMA ReaderHeard ==
  ASSUME Inv, Heard, NEW i \in Readers, Interfaces = {i}, Reader(i)
  PROVE  Heard'
<1> USE DEF ReaderTo, AtReader
<1>0. /\ readerPc \in [Readers -> ReaderPcs] /\ readerSock \in [Readers -> Socks \cup {NoFile}]
      /\ fdTable \in [Fds -> Socks \cup {NoFile, Stdin}] /\ sock \in [Socks -> SockRecords]
      /\ Readers = {i}
  BY LinkAssumption DEF Inv, TypeOK
<1>a. NoFile \notin Socks /\ NoFd \notin Fds
  BY LinkAssumption DEF NoFile, NoFd, Fds
<1>b. /\ nccPc[i] \in {"closeStatus", "closeFd"} => ~SendOk(socketObject[i])
      /\ nccPc[i] = "swapClose" => KindOf(socketObject[i]) # "conn"
  BY DEF Heard, CloserFit
<1>c. UNCHANGED <<nccPc, socketObject>>
  BY DEF Reader, ReaderPoll, ReaderReadData, ReaderRecv, ReaderRecvReturns,
         ReaderCloseStatus, ReaderCloseFd, ReaderRestart, link, ncc
(* The last socket of the link is not seen to turn into a good connection. *)
<1>d. ASSUME \A fd \in Fds : KindOf(fd)' = "conn" =>
                 KindOf(fd) = "conn" /\ FileOf(fd)' = FileOf(fd)
                 /\ sock'[FileOf(fd)].peer = sock[FileOf(fd)].peer
      PROVE  CloserFit'
  <2>1. KindOf(socketObject[i])' = "conn" => socketObject[i] \in Fds
    BY <1>a, <1>c DEF KindOf, FileOf, IsSock
  <2>2. KindOf(socketObject[i])' = "conn" =>
           /\ KindOf(socketObject[i]) = "conn"
           /\ FileOf(socketObject[i])' = FileOf(socketObject[i])
           /\ sock'[FileOf(socketObject[i])].peer = sock[FileOf(socketObject[i])].peer
    BY <1>c, <1>d, <2>1 DEF KindOf, FileOf
  <2> QED  BY <1>b, <1>c, <2>2 DEF CloserFit, SendOk
<1>1. CASE ReaderPoll(i) \/ ReaderReadData(i) \/ ReaderCloseStatus(i) \/ ReaderRestart(i)
  <2>1. UNCHANGED kernel /\ readerPc'[i] # "inRecv"
    BY <1>0, <1>1 DEF ReaderPoll, ReaderReadData, ReaderCloseStatus, ReaderRestart
  <2>2. CloserFit'
    BY <1>d, <2>1 DEF kernel, KindOf, FileOf
  <2> QED  BY <1>0, <2>1, <2>2 DEF Heard, ConnsFit, RecvFit, ReaderNotStranded, kernel
<1>2. CASE ReaderRecv(i)
  <2>1. UNCHANGED kernel
    BY <1>2 DEF ReaderRecv
  <2>2. CloserFit'
    BY <1>d, <2>1 DEF kernel, KindOf, FileOf
  <2>3. CASE KindOf(socketObject[i]) = "conn"
    <3>1. /\ FileOf(socketObject[i]) \in Socks /\ socketObject[i] \in Fds
          /\ sock[FileOf(socketObject[i])].kind = "conn"
          /\ fdTable[socketObject[i]] = FileOf(socketObject[i])
      BY <2>3, KindIsSock DEF FileOf
    <3>2. readerSock'[i] = FileOf(socketObject[i])
      BY <1>0, <1>2, <2>3 DEF ReaderRecv
    <3> QED  BY <1>0, <2>1, <2>2, <3>1, <3>2 DEF Heard, ConnsFit, RecvFit, ReaderNotStranded, kernel
  <2>4. CASE KindOf(socketObject[i]) # "conn"
    <3>1. readerPc'[i] = "closeStatus"
      BY <1>0, <1>2, <2>4 DEF ReaderRecv
    <3> QED  BY <1>0, <2>1, <2>2, <3>1 DEF Heard, ConnsFit, RecvFit, ReaderNotStranded, kernel
  <2> QED  BY <2>3, <2>4
<1>3. CASE ReaderRecvReturns(i)
  <2> DEFINE s == readerSock[i]
  <2>1. s \in Socks /\ fdTable' = fdTable
    BY <1>3 DEF ReaderRecvReturns, Heard, RecvFit
  <2>2. readerPc'[i] # "inRecv"
    BY <1>0, <1>3 DEF ReaderRecvReturns
  <2>3. \/ sock' = [sock EXCEPT ![s] = [@ EXCEPT !.data = FALSE]]
        \/ sock' = [sock EXCEPT ![s] = FreeSock]
    BY <1>3 DEF ReaderRecvReturns
  <2>4. \A t \in Socks : sock'[t].kind = "conn" => sock[t].kind = "conn" /\ sock'[t].peer = sock[t].peer
    BY <1>0, <2>1, <2>3 DEF SockRecords, FreeSock, NewSock
  <2>5. CloserFit'
    BY <1>d, <2>1, <2>4 DEF KindOf, FileOf, IsSock
  <2> QED  BY <1>0, <2>2, <2>4, <2>5 DEF Heard, ConnsFit, RecvFit, ReaderNotStranded
<1>4. CASE ReaderCloseFd(i)
  <2> DEFINE fd == socketObject[i]
  <2>1. Close(fd) /\ readerPc'[i] # "inRecv"
    BY <1>0, <1>4 DEF ReaderCloseFd
  <2>2. CASE UNCHANGED kernel
    <3>1. CloserFit'
      BY <1>d, <2>2 DEF kernel, KindOf, FileOf
    <3> QED  BY <1>0, <2>1, <2>2, <3>1 DEF Heard, ConnsFit, RecvFit, ReaderNotStranded, kernel
  <2>3. CASE FileOf(fd) # NoFile
    <3>1. fd \in Fds /\ FileOf(fd) = fdTable[fd]
      BY <2>3 DEF FileOf
    <3>2. /\ fdTable' = [fdTable EXCEPT ![fd] = NoFile]
          /\ \/ sock' = sock
             \/ sock' = [sock EXCEPT ![fdTable[fd]] = FreeSock]
      BY <2>1, <2>3 DEF Close
    <3>3. \A t \in Socks : sock'[t].kind = "conn" => sock'[t] = sock[t]
      BY <1>0, <3>2 DEF FreeSock, NewSock
    <3>4. \A g \in Fds : fdTable'[g] = fdTable[g] \/ fdTable'[g] = NoFile
      BY <1>0, <3>2
    <3>5. CloserFit'
      BY <1>a, <1>d, <3>3, <3>4 DEF KindOf, FileOf, IsSock
    <3> QED  BY <1>0, <2>1, <3>3, <3>5 DEF Heard, ConnsFit, RecvFit, ReaderNotStranded
  <2> QED  BY <2>1, <2>2, <2>3 DEF Close
<1> QED  BY <1>1, <1>2, <1>3, <1>4 DEF Reader

LEMMA PeerHeard ==
  ASSUME Inv, Heard, NEW s \in Socks, Peer(s)
  PROVE  Heard'
<1>1. UNCHANGED <<socketObject, nccPc, readerPc, readerSock, fdTable>> /\ UNCHANGED reader
  BY DEF Peer, PeerConnect, PeerSend, PeerClose, PeerReset, threads, link, ncc, reader
<1>2. sock \in [Socks -> SockRecords]
  BY DEF Inv, TypeOK
<1>3. \A t \in Socks \ {s} : sock'[t] = sock[t]
  BY <1>2 DEF Peer, PeerConnect, PeerSend, PeerClose, PeerReset
<1>4. /\ sock'[s].kind = sock[s].kind
      /\ sock[s].kind = "conn" => /\ sock'[s].peer \in {sock[s].peer, "fin", "rst"}
                                  /\ sock[s].peer = "rst" => sock'[s].peer = "rst"
                                  /\ sock'[s].peer = "fin" => sock[s].peer \in {"open", "fin"}
  BY <1>2 DEF Peer, PeerConnect, PeerSend, PeerClose, PeerReset, IsConn, SockRecords
<1>5. ConnsFit'
  BY <1>3, <1>4 DEF Heard, ConnsFit
<1>6. RecvFit' /\ ReaderNotStranded'
  BY <1>1, <1>3, <1>4, RecvUndisturbed
<1>7. CloserFit'
  BY <1>1, <1>3, <1>4 DEF Heard, CloserFit, SendOk, KindOf, FileOf, IsSock
<1> QED  BY <1>5, <1>6, <1>7 DEF Heard

LEMMA HeardInductive ==
  ASSUME NEW x, Interfaces = {x}, Writers = {}
  PROVE  Spec => []Heard
<1>1. Init => Heard
  BY DEF Init, Heard, ConnsFit, RecvFit, CloserFit, ReaderNotStranded, AtReader, FreeSock, NewSock
<1>2. Inv /\ Heard /\ [Next]_vars => Heard'
  <2> SUFFICES ASSUME Inv, Heard, [Next]_vars PROVE Heard'
    OBVIOUS
  <2>1. CASE UNCHANGED vars
    <3>1. UNCHANGED <<socketObject, nccPc, readerPc, readerSock, fdTable, sock>>
      BY <2>1 DEF vars, link, ncc, reader, kernel
    <3> QED
      BY <3>1 DEF Heard, ConnsFit, RecvFit, CloserFit, ReaderNotStranded, AtReader, SendOk, KindOf, FileOf
  <2>2. Readers \subseteq Interfaces
    BY LinkAssumption
  <2> QED  BY <2>1, <2>2, NccHeard, ReaderHeard, PeerHeard DEF Next
<1> QED  BY <1>1, <1>2, Inductive, PTL DEF Spec

(* With one interface and no writer, a recv never waits for a socket that was *)
(* closed under it and that nobody will ever write to again, whatever the     *)
(* order in which the reader and the connection controller give the link up.  *)
THEOREM RecvNotStranded ==
  ASSUME NEW x, Interfaces = {x}, Writers = {}
  PROVE  Spec => []ReaderNotStranded
<1>1. Heard => ReaderNotStranded
  BY DEF Heard
<1> QED  BY <1>1, HeardInductive, PTL

-----------------------------------------------------------------------------
(* One interface with a reader and a writer: what is on the wire.           *)

(* A stream that has kept to the message format so far is where the writer    *)
(* left it, and the next message begins at a boundary.                        *)
StreamFit(i) ==
  SendOk(socketObject[i]) =>
    LET w == sock[FileOf(socketObject[i])].wire
    IN /\ w \in {"boundary", "afterLength", "afterType"} => i \in Writers
       /\ w = "afterLength" => writerPc[i] = "type"
       /\ w = "afterType" => writerPc[i] = "payload"
       /\ w = "boundary" => writerPc[i] \notin {"type", "payload"}

(* Nobody has sent on the connection that acceptSocket is about to install.   *)
TempFit(i) ==
  nccPc[i] \in {"swapClose", "swap"} =>
    /\ temp[i] \in Fds /\ IsSock(fdTable[temp[i]]) /\ temp[i] # socketObject[i]
    /\ sock[fdTable[temp[i]]].wire = "start"

Streams == TableFit /\ \A i \in Interfaces : StreamFit(i) /\ TempFit(i)

(* Only an interface's own socketObject is written to or closed. *)
LEMMA TempKept ==
  ASSUME Inv, TableFit, NEW i \in Interfaces, TempFit(i), UNCHANGED <<nccPc, temp, socketObject>>,
         \A g \in Fds : g # socketObject[i] => fdTable'[g] = fdTable[g],
         \A t \in Socks : t # FileOf(socketObject[i]) => sock'[t].wire \in {sock[t].wire, "start"}
  PROVE  TempFit(i)'
<1> SUFFICES ASSUME nccPc[i] \in {"swapClose", "swap"} PROVE TempFit(i)'
  BY DEF TempFit
<1>1. /\ temp[i] \in Fds /\ IsSock(fdTable[temp[i]]) /\ temp[i] # socketObject[i]
      /\ sock[fdTable[temp[i]]].wire = "start"
  BY DEF TempFit
<1>2. NoFile \notin Socks
  BY LinkAssumption DEF NoFile
<1>3. fdTable[temp[i]] # FileOf(socketObject[i])
  BY <1>1, <1>2 DEF FileOf, TableFit, IsSock
<1> QED  BY <1>1, <1>3 DEF TempFit, IsSock

(* A number that may be sent to stays what it was. *)
LEMMA StreamKept ==
  ASSUME NEW i \in Interfaces, StreamFit(i), UNCHANGED <<socketObject, writerPc>>,
         \A fd : SendOk(fd)' => /\ SendOk(fd) /\ FileOf(fd)' = FileOf(fd)
                                /\ sock'[FileOf(fd)].wire = sock[FileOf(fd)].wire
  PROVE  StreamFit(i)'
<1>1. SendOk(socketObject[i])' => /\ SendOk(socketObject[i])
                                  /\ FileOf(socketObject[i])' = FileOf(socketObject[i])
                                  /\ sock'[FileOf(socketObject[i])].wire = sock[FileOf(socketObject[i])].wire
  BY DEF SendOk, KindOf, FileOf
<1> QED  BY <1>1 DEF StreamFit

(* close(socketObject) by whichever thread. *)
LEMMA ClosedFit ==
  ASSUME Inv, TableFit, NEW i \in Interfaces, Close(socketObject[i]), UNCHANGED socketObject
  PROVE  /\ TableFit' /\ ~SendOk(socketObject[i])'
         /\ \A g \in Fds : g # socketObject[i] => fdTable'[g] = fdTable[g]
         /\ \A t \in Socks : sock'[t].wire \in {sock[t].wire, "start"}
<1> DEFINE fd == socketObject[i]
<1>0. /\ fdTable \in [Fds -> Socks \cup {NoFile, Stdin}] /\ sock \in [Socks -> SockRecords]
      /\ NoFile \notin Socks
  BY LinkAssumption DEF Inv, TypeOK, NoFile
<1>1. CASE FileOf(fd) = NoFile
  <2>1. UNCHANGED <<fdTable, sock>>
    BY <1>1 DEF Close, kernel
  <2> QED  BY <1>0, <1>1, <2>1 DEF TableFit, SendOk, KindOf, FileOf, IsSock
<1>2. CASE FileOf(fd) # NoFile
  <2>1. fd \in Fds /\ FileOf(fd) = fdTable[fd]
    BY <1>2 DEF FileOf
  <2>2. /\ fdTable' = [fdTable EXCEPT ![fd] = NoFile]
        /\ \/ sock' = sock
           \/ sock' = [sock EXCEPT ![fdTable[fd]] = FreeSock]
    BY <1>2 DEF Close
  <2>3. \A t \in Socks : t # fdTable[fd] => sock'[t] = sock[t]
    BY <1>0, <2>2
  <2>4. fdTable'[fd] = NoFile /\ \A g \in Fds : g # fd => fdTable'[g] = fdTable[g]
    BY <1>0, <2>1, <2>2
  <2>5. TableFit'
    BY <1>0, <2>1, <2>3, <2>4 DEF TableFit, IsSock
  <2>6. \A t \in Socks : sock'[t].wire \in {sock[t].wire, "start"}
    BY <1>0, <2>2 DEF FreeSock, NewSock
  <2> QED  BY <1>0, <2>1, <2>4, <2>5, <2>6 DEF SendOk, KindOf, FileOf, IsSock
<1> QED  BY <1>1, <1>2

(* A descriptor handed out refers to a socket no other one refers to.         *)
LEMMA TakenFit ==
  ASSUME Inv, TableFit, NEW f \in Fds, NEW s \in Socks, TakeFd(f, s), sock'[s].kind # "free",
         \A t \in Socks : t # s => sock'[t].kind = sock[t].kind
  PROVE  /\ TableFit' /\ fdTable'[f] = s /\ fdTable[f] = NoFile
         /\ \A g \in Fds : g # f => fdTable'[g] = fdTable[g]
<1>0. /\ fdTable \in [Fds -> Socks \cup {NoFile, Stdin}] /\ NoFile \notin Socks
  BY LinkAssumption DEF Inv, TypeOK, NoFile
<1>1. fdTable' = [fdTable EXCEPT ![f] = s] /\ fdTable[f] = NoFile /\ sock[s].kind = "free"
  BY DEF TakeFd, IsLowestFreeFd, IsLowestFreeSock
<1>2. \A g \in Fds : fdTable[g] # s
  BY <1>1 DEF TableFit, IsSock
<1>3. fdTable'[f] = s /\ \A g \in Fds : g # f => fdTable'[g] = fdTable[g]
  BY <1>0, <1>1
<1>4. TableFit'
  BY <1>2, <1>3 DEF TableFit, IsSock
<1> QED  BY <1>1, <1>3, <1>4

(* The steps of the connection controller; only NccSend writes.               *)
LEMMA NccStreams ==
  ASSUME Inv, Streams, NEW i \in Interfaces, Interfaces = {i}, Ncc(i)
  PROVE  Streams'
<1> USE DEF NccTo, AtNcc
<1>0. /\ nccPc \in [Interfaces -> NccPcs] /\ socketObject \in [Interfaces -> Fds \cup {NoFd}]
      /\ temp \in [Interfaces -> Fds \cup {NoFd}]
      /\ fdTable \in [Fds -> Socks \cup {NoFile, Stdin}] /\ sock \in [Socks -> SockRecords]
  BY DEF Inv, TypeOK
<1>a. NoFile \notin Socks /\ NoFd \notin Fds
  BY LinkAssumption DEF NoFile, NoFd, Fds
<1>b. TableFit /\ StreamFit(i) /\ TempFit(i)
  BY DEF Streams
<1>c. UNCHANGED writerPc
  BY DEF Ncc, NccSocket, NccBind, NccListen, NccAccept, NccAcceptFails,
         NccAcceptRefused, NccSwapClose, NccSwap, NccConnected, NccCheck, NccPing,
         NccSend, NccCloseStatus, NccCloseFd, NccRebuild, vars, writer
<1>d. SUFFICES TableFit' /\ StreamFit(i)' /\ TempFit(i)'
  BY DEF Streams
<1>e. ASSUME UNCHANGED kernel PROVE TableFit'
  BY <1>b, <1>e DEF kernel, TableFit
<1>f. ASSUME ~SendOk(socketObject[i])' PROVE StreamFit(i)'
  BY <1>f DEF StreamFit
<1>g. ASSUME UNCHANGED kernel, UNCHANGED socketObject PROVE StreamFit(i)'
  BY <1>b, <1>c, <1>g DEF StreamFit, kernel, SendOk, KindOf, FileOf
<1>1. CASE NccSocket(i)
  <2>1. nccPc'[i] = "bind"
    BY <1>0, <1>1 DEF NccSocket
  <2>2. TempFit(i)'
    BY <2>1 DEF TempFit
  <2>3. ASSUME NEW f \in Fds, NEW s \in Socks, TakeFd(f, s),
               sock' = [sock EXCEPT ![s] = NewSock("fresh", i, "none")],
               socketObject' = [socketObject EXCEPT ![i] = f]
        PROVE  TableFit' /\ StreamFit(i)'
    <3>1. sock'[s].kind = "fresh" /\ \A t \in Socks : t # s => sock'[t].kind = sock[t].kind
      BY <1>0, <2>3 DEF NewSock
    <3>2. TableFit' /\ fdTable'[f] = s
      BY <1>b, <2>3, <3>1, TakenFit
    <3>3. ~SendOk(socketObject[i])'
      BY <1>0, <2>3, <3>1, <3>2 DEF SendOk, KindOf, FileOf, IsSock
    <3> QED  BY <1>f, <3>2, <3>3
  <2>4. ASSUME socketObject' = [socketObject EXCEPT ![i] = NoFd], UNCHANGED kernel
        PROVE  TableFit' /\ StreamFit(i)'
    <3>1. ~SendOk(socketObject[i])'
      BY <1>0, <1>a, <2>4 DEF SendOk, KindOf, FileOf, IsSock
    <3> QED  BY <1>e, <1>f, <2>4, <3>1
  <2> QED  BY <1>1, <2>2, <2>3, <2>4 DEF NccSocket
<1>2. CASE NccBind(i) \/ NccListen(i)
  <2>1. nccPc'[i] \in {"listen", "loop"} /\ fdTable' = fdTable /\ socketObject' = socketObject
    BY <1>0, <1>2 DEF NccBind, NccListen, link
  <2>2. TempFit(i)'
    BY <2>1 DEF TempFit
  <2>3. CASE UNCHANGED sock
    BY <1>e, <1>g, <2>1, <2>2, <2>3 DEF kernel
  <2>4. CASE KindOf(socketObject[i]) \in {"fresh", "bound"} /\ sock' # sock
    <3> DEFINE l == FileOf(socketObject[i])
    <3>1. l \in Socks /\ sock[l].kind \in {"fresh", "bound"}
      BY <2>4, KindIsSock
    <3>2. \E k \in {"bound", "listening", "stray"} : sock' = [sock EXCEPT ![l] = [@ EXCEPT !.kind = k]]
      <4>1. CASE NccBind(i)
        BY <2>4, <3>1, <4>1 DEF NccBind
      <4>2. CASE NccListen(i)
        BY <1>0, <2>4, <3>1, <4>2 DEF NccListen
      <4> QED  BY <1>2, <4>1, <4>2
    <3>3. sock'[l].kind \in {"bound", "listening", "stray"} /\ \A t \in Socks : t # l => sock'[t] = sock[t]
      BY <1>0, <3>1, <3>2 DEF SockRecords
    <3>4. TableFit'
      BY <1>b, <2>1, <3>3 DEF TableFit, IsSock
    <3>5. ~SendOk(socketObject[i])'
      BY <2>1, <3>1, <3>3 DEF SendOk, KindOf, FileOf
    <3> QED  BY <1>f, <2>2, <3>4, <3>5
  <2> QED  BY <1>2, <2>3, <2>4 DEF NccBind, NccListen
<1>4. CASE NccAccept(i)
  <2> DEFINE l == FileOf(socketObject[i])
  <2>1. l \in Socks /\ socketObject[i] \in Fds /\ l = fdTable[socketObject[i]]
        /\ sock[l].kind = "listening"
    BY <1>4, KindIsSock DEF NccAccept, ClientWaits, FileOf
  <2>2. PICK f \in Fds, s \in Socks :
          /\ TakeFd(f, s)
          /\ sock' = [sock EXCEPT ![l].peer = "none",
                                  ![s] = NewSock("conn", sock[l].iface, "open")]
          /\ temp' = [temp EXCEPT ![i] = f]
    BY <1>4 DEF NccAccept
  <2>3. fdTable[f] = NoFile /\ sock[s].kind = "free"
    BY <2>2 DEF TakeFd, IsLowestFreeFd, IsLowestFreeSock
  <2>4. /\ s # l /\ f # socketObject[i]
        /\ sock'[s].kind = "conn" /\ sock'[s].wire = "start"
        /\ sock'[l].kind = "listening" /\ \A t \in Socks : t # s => sock'[t].kind = sock[t].kind
    BY <1>0, <1>a, <2>1, <2>2, <2>3 DEF NewSock, SockRecords
  <2>5. /\ TableFit' /\ fdTable'[f] = s /\ \A g \in Fds : g # f => fdTable'[g] = fdTable[g]
    BY <1>b, <2>2, <2>4, TakenFit
  <2>6. socketObject' = socketObject /\ temp'[i] = f
    BY <1>0, <1>4, <2>2 DEF NccAccept, link
  <2>7. ~SendOk(socketObject[i])'
    BY <2>1, <2>4, <2>5, <2>6 DEF SendOk, KindOf, FileOf
  <2>8. TempFit(i)'
    BY <2>4, <2>5, <2>6 DEF TempFit, IsSock
  <2> QED  BY <1>f, <2>5, <2>7, <2>8
<1>5. CASE NccAcceptRefused(i)
  <2> DEFINE l == FileOf(socketObject[i])
  <2>1. l \in Socks /\ sock[l].kind = "listening"
    BY <1>5, KindIsSock DEF NccAcceptRefused, ClientWaits
  <2>2. sock' = [sock EXCEPT ![l] = [sock[l] EXCEPT !.peer = "none"]] /\ fdTable' = fdTable
        /\ UNCHANGED <<socketObject, nccPc>> /\ nccPc[i] = "loop"
    BY <1>0, <1>5, <2>1 DEF NccAcceptRefused, link, ncc
  <2>3. sock'[l].kind = "listening" /\ \A t \in Socks : t # l => sock'[t] = sock[t]
    BY <1>0, <2>1, <2>2 DEF SockRecords
  <2>4. TableFit'
    BY <1>b, <2>2, <2>3 DEF TableFit, IsSock
  <2>5. ~SendOk(socketObject[i])'
    BY <2>1, <2>2, <2>3 DEF SendOk, KindOf, FileOf
  <2>6. TempFit(i)'
    BY <2>2 DEF TempFit
  <2> QED  BY <1>f, <2>4, <2>5, <2>6
<1>6. CASE NccSwapClose(i) \/ NccCloseFd(i)
  <2>1. Close(socketObject[i]) /\ UNCHANGED <<socketObject, temp>>
    BY <1>6 DEF NccSwapClose, NccCloseFd, link
  <2>2. /\ TableFit' /\ ~SendOk(socketObject[i])'
        /\ \A g \in Fds : g # socketObject[i] => fdTable'[g] = fdTable[g]
        /\ \A t \in Socks : sock'[t].wire \in {sock[t].wire, "start"}
    BY <1>b, <2>1, ClosedFit
  <2>3. nccPc'[i] = "swap" => nccPc[i] = "swapClose"
    BY <1>0, <1>6 DEF NccSwapClose, NccCloseFd
  <2>4. nccPc'[i] \in {"swap", "loop"}
    BY <1>0, <1>6 DEF NccSwapClose, NccCloseFd
  <2>5. TempFit(i)'
    BY <1>b, <2>1, <2>2, <2>3, <2>4 DEF TempFit, IsSock
  <2> QED  BY <1>f, <2>2, <2>5
<1>7. CASE NccSwap(i)
  <2>1. UNCHANGED kernel /\ socketObject'[i] = temp[i] /\ nccPc'[i] = "connected"
    BY <1>0, <1>7 DEF NccSwap
  <2>2. temp[i] \in Fds /\ sock[fdTable[temp[i]]].wire = "start"
    BY <1>7, <1>b DEF NccSwap, TempFit
  <2>3. sock'[FileOf(socketObject[i])'].wire = "start"
    BY <2>1, <2>2 DEF FileOf, kernel
  <2>4. StreamFit(i)'
    BY <2>3 DEF StreamFit
  <2>5. TempFit(i)'
    BY <2>1 DEF TempFit
  <2> QED  BY <1>e, <2>1, <2>4, <2>5
<1>8. CASE NccConnected(i) \/ NccCheck(i) \/ NccPing(i) \/ NccRebuild(i) \/ NccAcceptFails(i) \/ NccCloseStatus(i)
  <2>1. UNCHANGED kernel /\ UNCHANGED socketObject
    BY <1>8 DEF NccConnected, NccCheck, NccPing, NccRebuild, NccAcceptFails, NccCloseStatus, vars, kernel, link
  <2>2. nccPc'[i] \notin {"swapClose", "swap"}
    BY <1>0, <1>8 DEF NccConnected, NccCheck, NccPing, NccRebuild, NccAcceptFails, NccCloseStatus, vars, ncc
  <2>3. TempFit(i)'
    BY <2>2 DEF TempFit
  <2> QED  BY <1>e, <1>g, <2>1, <2>3
<1>9. CASE NccSend(i)
  <2>1. nccPc'[i] \in {"loop", "closeStatus"} /\ UNCHANGED socketObject
    BY <1>0, <1>9 DEF NccSend, link
  <2>2. TempFit(i)'
    BY <2>1 DEF TempFit
  <2>3. CASE UNCHANGED kernel
    BY <1>e, <1>g, <2>1, <2>2, <2>3
  <2>4. CASE SendOk(socketObject[i])
    <3> DEFINE l == FileOf(socketObject[i])
    <3>1. l \in Socks
      BY <2>4, KindIsSock DEF SendOk
    <3>2. sock' = [sock EXCEPT ![l] = [@ EXCEPT !.wire = "garbled"]] /\ fdTable' = fdTable
      BY <1>9, <2>4 DEF NccSend, Put
    <3>3. sock'[l].wire = "garbled" /\ \A t \in Socks : sock'[t].kind = sock[t].kind
      BY <1>0, <3>1, <3>2 DEF SockRecords
    <3>4. TableFit'
      BY <1>b, <3>2, <3>3 DEF TableFit, IsSock
    <3>5. FileOf(socketObject[i])' = l
      BY <2>1, <3>2 DEF FileOf
    <3>6. StreamFit(i)'
      BY <3>3, <3>5 DEF StreamFit
    <3> QED  BY <2>2, <3>4, <3>6
  <2> QED  BY <1>9, <2>3, <2>4 DEF NccSend
<1> QED
  BY <1>1, <1>2, <1>4, <1>5, <1>6, <1>7, <1>8, <1>9 DEF Ncc

(* The steps of the reader, which writes nothing.                             *)
LEMMA ReaderStreams ==
  ASSUME Inv, Streams, NEW i \in Interfaces, Interfaces = {i}, i \in Readers, Reader(i)
  PROVE  Streams'
<1>0. /\ fdTable \in [Fds -> Socks \cup {NoFile, Stdin}] /\ sock \in [Socks -> SockRecords]
  BY DEF Inv, TypeOK
<1>a. NoFile \notin Socks
  BY LinkAssumption DEF NoFile
<1>b. TableFit /\ StreamFit(i) /\ TempFit(i)
  BY DEF Streams
<1>c. UNCHANGED <<socketObject, nccPc, temp, writerPc>>
  BY DEF Reader, ReaderPoll, ReaderReadData, ReaderRecv, ReaderRecvReturns,
         ReaderCloseStatus, ReaderCloseFd, ReaderRestart, link, ncc, writer
<1>d. SUFFICES TableFit' /\ StreamFit(i)' /\ TempFit(i)'
  BY DEF Streams
<1>1. CASE ReaderPoll(i) \/ ReaderReadData(i) \/ ReaderRecv(i) \/ ReaderCloseStatus(i) \/ ReaderRestart(i)
  <2>1. UNCHANGED kernel
    BY <1>1 DEF ReaderPoll, ReaderReadData, ReaderRecv, ReaderCloseStatus, ReaderRestart
  <2> QED
    BY <1>b, <1>c, <2>1 DEF TableFit, StreamFit, TempFit, kernel, SendOk, KindOf, FileOf
<1>2. CASE ReaderRecvReturns(i)
  <2> DEFINE s == readerSock[i]
  <2>1. /\ fdTable' = fdTable
        /\ \/ sock' = [sock EXCEPT ![s] = [@ EXCEPT !.data = FALSE]]
           \/ (\A f \in Fds : fdTable[f] # s) /\ sock' = [sock EXCEPT ![s] = FreeSock]
    BY <1>2 DEF ReaderRecvReturns
  <2>2. \A t \in Socks : \/ /\ sock'[t].kind = sock[t].kind /\ sock'[t].peer = sock[t].peer
                            /\ sock'[t].wire = sock[t].wire
                         \/ (\A f \in Fds : fdTable[f] # t) /\ sock'[t].wire = "start"
    BY <1>0, <2>1 DEF FreeSock, NewSock, SockRecords
  <2>3. TableFit'
    BY <1>b, <2>1, <2>2 DEF TableFit, IsSock
  <2>4. ASSUME NEW fd, SendOk(fd)'
        PROVE  /\ SendOk(fd) /\ FileOf(fd)' = FileOf(fd)
               /\ sock'[FileOf(fd)].wire = sock[FileOf(fd)].wire
    <3>1. FileOf(fd)' = FileOf(fd)
      BY <2>1 DEF FileOf
    <3>2. FileOf(fd) \in Socks /\ fd \in Fds /\ FileOf(fd) = fdTable[fd]
      BY <1>a, <2>4, <3>1 DEF SendOk, KindOf, IsSock, FileOf
    <3> QED  BY <2>2, <2>4, <3>1, <3>2 DEF SendOk, KindOf, IsSock
  <2>5. StreamFit(i)'
    BY <1>b, <1>c, <2>4, StreamKept
  <2>6. TempFit(i)'
    BY <1>b, <1>c, <2>1, <2>2, TempKept
  <2> QED  BY <2>3, <2>5, <2>6
<1>3. CASE ReaderCloseFd(i)
  <2>1. Close(socketObject[i])
    BY <1>3 DEF ReaderCloseFd
  <2>2. /\ TableFit' /\ ~SendOk(socketObject[i])'
        /\ \A g \in Fds : g # socketObject[i] => fdTable'[g] = fdTable[g]
        /\ \A t \in Socks : sock'[t].wire \in {sock[t].wire, "start"}
    BY <1>b, <1>c, <2>1, ClosedFit
  <2>3. TempFit(i)'
    BY <1>b, <1>c, <2>2, TempKept
  <2> QED  BY <2>2, <2>3 DEF StreamFit
<1> QED  BY <1>1, <1>2, <1>3 DEF Reader

(* One of the three sends of a message. *)
LEMMA SegmentStreams ==
  ASSUME Inv, Streams, NEW i \in Interfaces, Interfaces = {i}, i \in Writers, WriterSend(i)
  PROVE  Streams'
<1>0. /\ writerPc \in [Writers -> WriterPcs]
      /\ fdTable \in [Fds -> Socks \cup {NoFile, Stdin}] /\ sock \in [Socks -> SockRecords]
  BY DEF Inv, TypeOK
<1>b. TableFit /\ StreamFit(i) /\ TempFit(i)
  BY DEF Streams
<1>c. UNCHANGED <<socketObject, nccPc, temp>>
  BY DEF WriterSend, SendSegment, link, ncc
<1>d. SUFFICES TableFit' /\ StreamFit(i)' /\ TempFit(i)'
  BY DEF Streams
<1>1. CASE ~SendOk(socketObject[i])
  <2>1. UNCHANGED kernel
    BY <1>1 DEF WriterSend, SendSegment
  <2>2. ~SendOk(socketObject[i])' /\ TableFit' /\ TempFit(i)'
    BY <1>1, <1>b, <1>c, <2>1 DEF TableFit, TempFit, kernel, SendOk, KindOf, FileOf
  <2> QED  BY <2>2 DEF StreamFit
<1>2. CASE SendOk(socketObject[i])
  <2> DEFINE l == FileOf(socketObject[i])
             w == sock[l].wire
  <2>1. l \in Socks
    BY <1>2, KindIsSock DEF SendOk
  <2>2. PICK v \in Wires :
          /\ fdTable' = fdTable /\ sock' = [sock EXCEPT ![l] = [@ EXCEPT !.wire = v]]
          /\ \/ v = "garbled"
             \/ v = "afterLength" /\ writerPc'[i] = "type"
             \/ v = "afterType" /\ writerPc'[i] = "payload"
             \/ v = "boundary" /\ writerPc'[i] = "poll"
    BY <1>0, <1>2, <2>1 DEF WriterSend, SendSegment, Put, WriterTo, Wires
  <2>3. /\ sock'[l].wire = v /\ \A t \in Socks : sock'[t].kind = sock[t].kind
        /\ \A t \in Socks : t # l => sock'[t] = sock[t]
    BY <1>0, <2>1, <2>2 DEF SockRecords
  <2>4. TableFit'
    BY <1>b, <2>2, <2>3 DEF TableFit, IsSock
  <2>5. FileOf(socketObject[i])' = l
    BY <1>c, <2>2 DEF FileOf
  <2>6. StreamFit(i)'
    BY <2>2, <2>3, <2>5 DEF StreamFit
  <2>7. TempFit(i)'
    BY <1>b, <1>c, <2>2, <2>3, TempKept
  <2> QED  BY <2>4, <2>6, <2>7
<1> QED  BY <1>1, <1>2

(* The other steps of the writer, and the messages put in its queue.          *)
LEMMA WriterStreams ==
  ASSUME Inv, Streams, NEW i \in Interfaces, Interfaces = {i}, i \in Writers,
         Produce(i) \/ Writer(i)
  PROVE  Streams'
<1>0. writerPc \in [Writers -> WriterPcs]
  BY DEF Inv, TypeOK
<1>b. TableFit /\ StreamFit(i) /\ TempFit(i)
  BY DEF Streams
<1>1. CASE WriterSend(i)
  BY <1>1, SegmentStreams
<1>2. CASE Produce(i) \/ WriterPoll(i) \/ WriterSendData(i) \/ WriterCloseStatus(i)
  <2>1. UNCHANGED kernel /\ UNCHANGED <<socketObject, nccPc, temp>>
    BY <1>2 DEF Produce, WriterPoll, WriterSendData, WriterCloseStatus, link, ncc
  <2>2. writerPc'[i] = writerPc[i]
        \/ (writerPc[i] \notin {"type", "payload"} /\ writerPc'[i] \notin {"type", "payload"})
    BY <1>0, <1>2 DEF Produce, WriterPoll, WriterSendData, WriterCloseStatus, AtWriter, WriterTo
  <2>3. StreamFit(i)'
    BY <1>b, <2>1, <2>2 DEF StreamFit, kernel, SendOk, KindOf, FileOf
  <2> QED  BY <1>b, <2>1, <2>3 DEF Streams, TableFit, TempFit, kernel
<1>3. CASE WriterCloseFd(i)
  <2>1. Close(socketObject[i]) /\ UNCHANGED <<socketObject, nccPc, temp>>
    BY <1>3 DEF WriterCloseFd, link, ncc
  <2>2. /\ TableFit' /\ ~SendOk(socketObject[i])'
        /\ \A g \in Fds : g # socketObject[i] => fdTable'[g] = fdTable[g]
        /\ \A t \in Socks : sock'[t].wire \in {sock[t].wire, "start"}
    BY <1>b, <2>1, ClosedFit
  <2>3. TempFit(i)'
    BY <1>b, <2>1, <2>2, TempKept
  <2> QED  BY <2>2, <2>3 DEF Streams, StreamFit
<1> QED  BY <1>1, <1>2, <1>3 DEF Writer

LEMMA PeerStreams ==
  ASSUME Inv, Streams, NEW s \in Socks, Peer(s)
  PROVE  Streams'
<1>0. sock \in [Socks -> SockRecords]
  BY DEF Inv, TypeOK
<1>1. UNCHANGED <<socketObject, nccPc, temp, writerPc, fdTable>>
  BY DEF Peer, PeerConnect, PeerSend, PeerClose, PeerReset, threads, link, ncc, writer
<1>2. \A t \in Socks : /\ sock'[t].kind = sock[t].kind /\ sock'[t].wire = sock[t].wire
                       /\ sock[t].kind = "conn" /\ sock'[t].peer \in {"open", "fin"}
                            => sock[t].peer \in {"open", "fin"}
  BY <1>0 DEF Peer, PeerConnect, PeerSend, PeerClose, PeerReset, IsConn, SockRecords
<1>3. TableFit'
  BY <1>1, <1>2 DEF Streams, TableFit, IsSock
<1>4. ASSUME NEW fd, SendOk(fd)'
      PROVE  /\ SendOk(fd) /\ FileOf(fd)' = FileOf(fd)
             /\ sock'[FileOf(fd)].wire = sock[FileOf(fd)].wire
  <2>1. FileOf(fd)' = FileOf(fd)
    BY <1>1 DEF FileOf
  <2>2. FileOf(fd) \in Socks
    BY <1>4, <2>1 DEF SendOk, KindOf, IsSock
  <2> QED  BY <1>2, <1>4, <2>1, <2>2 DEF SendOk, KindOf, IsSock
<1>5. ASSUME NEW i \in Interfaces PROVE StreamFit(i)' /\ TempFit(i)'
  <2>1. StreamFit(i)'
    BY <1>1, <1>4, StreamKept DEF Streams
  <2>2. TempFit(i)'
    BY <1>1, <1>2, TempKept DEF Streams
  <2> QED  BY <2>1, <2>2
<1> QED  BY <1>3, <1>5 DEF Streams

LEMMA StreamsInductive ==
  ASSUME NEW x, Interfaces = {x}
  PROVE  Spec => []Streams
<1>1. Init => Streams
  <2>1. Init => \A f \in Fds : ~IsSock(fdTable[f])
    BY LinkAssumption DEF Init, IsSock, NoFile, Stdin
  <2>2. Init => \A fd : ~SendOk(fd)
    BY LinkAssumption DEF Init, SendOk, KindOf, IsSock, FileOf, FreeSock, NewSock, Stdin, NoFile
  <2> QED  BY <2>1, <2>2 DEF Init, Streams, TableFit, StreamFit, TempFit
<1>2. Inv /\ Streams /\ [Next]_vars => Streams'
  <2> SUFFICES ASSUME Inv, Streams, [Next]_vars PROVE Streams'
    OBVIOUS
  <2>1. CASE UNCHANGED vars
    <3>1. UNCHANGED <<socketObject, nccPc, temp, writerPc, fdTable, sock>>
      BY <2>1 DEF vars, link, ncc, writer, kernel
    <3> QED
      BY <3>1 DEF Streams, TableFit, StreamFit, TempFit, SendOk, KindOf, FileOf
  <2>2. Readers \subseteq Interfaces /\ Writers \subseteq Interfaces
    BY LinkAssumption
  <2>3. ASSUME NEW i \in Interfaces PROVE Interfaces = {i}
    OBVIOUS
  <2> QED  BY <2>1, <2>2, <2>3, NccStreams, ReaderStreams, WriterStreams, PeerStreams DEF Next
<1> QED  BY <1>1, <1>2, Inductive, PTL DEF Spec

(* Of a stream that has begun and kept to the message format, only a ping     *)
(* makes something else: every segment the writer adds is the one that is due.*)
LEMMA BreaksAtPing ==
  ASSUME Inv, Streams, NEW x, Interfaces = {x}, Next, NEW s \in Socks,
         sock[s].wire # "garbled", sock'[s].wire = "garbled", sock[s].wire # "start"
  PROVE  \E i \in Interfaces : AtNcc(i, "send") /\ AtNcc(i, "loop")'
<1>0. /\ nccPc \in [Interfaces -> NccPcs] /\ sock \in [Socks -> SockRecords]
      /\ Readers \subseteq Interfaces /\ Writers \subseteq Interfaces
  BY LinkAssumption DEF Inv, TypeOK
<1>c. ASSUME NEW fd, Close(fd) PROVE FALSE
  BY <1>0, <1>c DEF Close, kernel, FreeSock, NewSock
<1>1. CASE Ncc(x)
  <2>1. ~(NccConnected(x) \/ NccCheck(x) \/ NccPing(x) \/ NccRebuild(x) \/ NccCloseStatus(x)
          \/ NccSwap(x) \/ NccAcceptFails(x))
    BY DEF NccConnected, NccCheck, NccPing, NccRebuild, NccCloseStatus, NccSwap, NccAcceptFails, vars, kernel
  <2>2. ~(NccSwapClose(x) \/ NccCloseFd(x))
    BY <1>c DEF NccSwapClose, NccCloseFd
  <2>3. ~NccSocket(x)
    BY <1>0 DEF NccSocket, NewSock, kernel
  <2>4. ~(NccBind(x) \/ NccListen(x))
    BY <1>0 DEF NccBind, NccListen, SockRecords
  <2>5. ~(NccAccept(x) \/ NccAcceptRefused(x))
    BY <1>0 DEF NccAccept, NccAcceptRefused, NewSock, SockRecords
  <2>6. NccSend(x) => AtNcc(x, "send") /\ AtNcc(x, "loop")'
    BY <1>0 DEF NccSend, kernel, AtNcc, NccTo
  <2> QED  BY <1>1, <2>1, <2>2, <2>3, <2>4, <2>5, <2>6 DEF Ncc
<1>2. CASE x \in Readers /\ Reader(x)
  <2>1. ~(ReaderPoll(x) \/ ReaderReadData(x) \/ ReaderRecv(x) \/ ReaderCloseStatus(x) \/ ReaderRestart(x))
    BY DEF ReaderPoll, ReaderReadData, ReaderRecv, ReaderCloseStatus, ReaderRestart, kernel
  <2>2. ~ReaderRecvReturns(x)
    BY <1>0 DEF ReaderRecvReturns, FreeSock, NewSock, SockRecords
  <2>3. ~ReaderCloseFd(x)
    BY <1>c DEF ReaderCloseFd
  <2> QED  BY <1>2, <2>1, <2>2, <2>3 DEF Reader
<1>3. CASE x \in Writers /\ (Produce(x) \/ Writer(x))
  <2>1. ~(Produce(x) \/ WriterPoll(x) \/ WriterSendData(x) \/ WriterCloseStatus(x))
    BY DEF Produce, WriterPoll, WriterSendData, WriterCloseStatus, kernel
  <2>2. ~WriterCloseFd(x)
    BY <1>c DEF WriterCloseFd
  <2>3. ~WriterSend(x)
    <3> SUFFICES ASSUME WriterSend(x) PROVE FALSE
      OBVIOUS
    <3> DEFINE l == FileOf(socketObject[x])
    <3>1. SendOk(socketObject[x]) /\ l \in Socks
      BY KindIsSock DEF WriterSend, SendSegment, kernel, SendOk
    <3>2. s = l
      BY <1>0, <3>1 DEF WriterSend, SendSegment, Put
    <3>3. /\ sock[l].wire \in {"boundary", "afterLength", "afterType"}
          /\ sock[l].wire = "afterLength" => writerPc[x] = "type"
          /\ sock[l].wire = "afterType" => writerPc[x] = "payload"
          /\ sock[l].wire = "boundary" => writerPc[x] \notin {"type", "payload"}
      BY <1>0, <3>1, <3>2 DEF Streams, StreamFit, SockRecords, Wires
    <3>4. ASSUME NEW pc, NEW from, NEW to, NEW next, SendSegment(x, pc, from, to, next),
                 to # "garbled"
          PROVE  sock[l].wire # from
      <4> SUFFICES ASSUME sock[l].wire = from PROVE FALSE
        OBVIOUS
      <4>1. InPlace(sock[l].wire, from)
        BY DEF InPlace
      <4>2. sock' = [sock EXCEPT ![l] = [@ EXCEPT !.wire = to]]
        BY <3>1, <3>4, <4>1 DEF SendSegment, Put
      <4>3. sock'[l].wire = to
        BY <1>0, <3>1, <4>2 DEF SockRecords
      <4> QED  BY <3>2, <3>4, <4>3
    <3> QED  BY <3>3, <3>4, SMTT(20) DEF WriterSend, SendSegment, AtWriter
  <2> QED  BY <1>3, <2>1, <2>2, <2>3 DEF Writer
<1>4. ASSUME NEW t \in Socks, Peer(t) PROVE FALSE
  BY <1>0, <1>4 DEF Peer, PeerConnect, PeerSend, PeerClose, PeerReset, SockRecords
<1> QED  BY <1>0, <1>1, <1>2, <1>3, <1>4 DEF Next

(* With one interface, once the first bytes are out, only a ping breaks the   *)
(* message format of a stream; the writer never does, whichever thread closes *)
(* the link under it.                                                         *)
THEOREM OnlyPingsBreak ==
  ASSUME NEW x, Interfaces = {x}
  PROVE  Spec => BrokenOnlyByPing
<1> DEFINE Unbroken ==
      \A s \in Socks :
         sock[s].wire # "garbled" /\ sock'[s].wire = "garbled" =>
           \/ sock[s].wire = "start"
           \/ \E i \in Interfaces : AtNcc(i, "send") /\ AtNcc(i, "loop")'
<1>1. Inv /\ Streams /\ [Next]_vars => [Unbroken]_vars
  BY BreaksAtPing
<1> QED  BY <1>1, Inductive, StreamsInductive, PTL DEF Spec, BrokenOnlyByPing
=============================================================================
