----------------------------- MODULE FrameReader -----------------------------
(***************************************************************************)
(* TcpSocketClient::readData: the reader controller cuts the byte stream   *)
(* of a connection into messages, a length, a type and a payload, and puts *)
(* the payload into a Buffer through a BufferCursor.  recv may return less *)
(* than it was asked for.  Bytes are counted, not valued: a frame is the   *)
(* length of its payload, and a length that was not read in one piece from *)
(* the first byte of a frame is an arbitrary one.                          *)
(*                                                                         *)
(* A behaviour is one connection and one run of the reader controller: one *)
(* that is started again after a failure begins at Init, with the stream   *)
(* of another connection.                                                  *)
(***************************************************************************)
EXTENDS Integers, Sequences

CONSTANTS
  Lengths,         \* payload lengths the peer uses
  MaxPacketSize,   \* MAX_PACKET_SIZE: most payload bytes asked for at once
  HeadersWhole,    \* does TCP deliver each header field in one piece?
  MaxFrames,       \* bound: frames the peer sends
  WordSize         \* bound: number of values of size_t (2^64, scaled down)

SizeBytes == 8     \* sizeof(message->messageSize), a long
TypeBytes == 4     \* sizeof(message->messageType), an enum

ASSUME ReaderAssumption ==
  /\ Lengths \subseteq Nat
  /\ MaxPacketSize \in Nat \ {0}
  /\ HeadersWhole \in BOOLEAN
  /\ MaxFrames \in Nat
  /\ WordSize \in Nat /\ WordSize > SizeBytes
  /\ \A n \in Lengths : n < WordSize

VARIABLES
  sent,            \* frames the peer has sent
  consumed,        \* bytes of the stream that recv has returned
  state,           \* CurrentReadingState; "ALLOCATE" is the start of MESSAGE
  readRemaining, messageSize,
  offset, forwardLength, backwardLength,   \* BufferCursor
  capacity,        \* of the Buffer
  delivered        \* lengths of the messages readData has completed

cursor == <<offset, forwardLength, backwardLength, capacity>>
vars == <<sent, consumed, state, readRemaining, messageSize, cursor, delivered>>

Words == 0 .. WordSize - 1
TypeOK ==
  /\ sent \in Seq(Lengths) /\ delivered \in Seq(Lengths)
  /\ consumed \in Nat
  /\ state \in {"MESSAGE_SIZE", "MESSAGE_TYPE", "ALLOCATE", "MESSAGE",
               "closed", "terminated"}
  /\ readRemaining \in Words /\ messageSize \in Lengths \cup {0}
  /\ offset \in Nat
  /\ forwardLength \in Words /\ backwardLength \in Words /\ capacity \in Words

Init ==
  /\ sent = << >> /\ delivered = << >>
  /\ consumed = 0
  /\ state = "MESSAGE_SIZE" /\ readRemaining = SizeBytes /\ messageSize = 0
  /\ offset = 0 /\ forwardLength = 0 /\ backwardLength = 0 /\ capacity = 0

\* size_t arithmetic wraps around.
Wrap(x) == x % WordSize

-----------------------------------------------------------------------------
(* The stream.                                                              *)

FrameBytes(n) == SizeBytes + TypeBytes + n
\* Position in the stream after the first k frames.
EndOf[k \in 0 .. Len(sent)] ==
  IF k = 0 THEN 0 ELSE EndOf[k - 1] + FrameBytes(sent[k])
Available == EndOf[Len(sent)] - consumed

\* What recv may return when asked for so many bytes.
Received(asked) == {n \in 1 .. asked : n <= Available}
ReceivedHeader(asked) ==
  IF HeadersWhole THEN {n \in Received(asked) : n = asked} ELSE Received(asked)

\* The peer sends the length, the type and the payload of one more message.
PeerSends ==
  /\ Len(sent) < MaxFrames
  /\ \E n \in Lengths : sent' = Append(sent, n)
  /\ UNCHANGED <<consumed, state, readRemaining, messageSize, cursor, delivered>>

-----------------------------------------------------------------------------
(* readData.                                                                *)

\* The length field that starts at this position, if one does.
LengthsAt(position) ==
  {sent[k] : k \in {j \in 1 .. Len(sent) : EndOf[j - 1] = position}}

\* Each recv asks for the whole field again, at the same address.  A recv that
\* returns 0 changes nothing, and one that returns -1 is RecvFails.
RecvSize ==
  /\ state = "MESSAGE_SIZE"
  /\ \E n \in ReceivedHeader(SizeBytes) :
       /\ consumed' = consumed + n
       /\ IF n = SizeBytes /\ LengthsAt(consumed) # {}
            THEN messageSize' \in LengthsAt(consumed)
            ELSE messageSize' \in Lengths
       /\ IF Wrap(readRemaining - n) > 0
            THEN readRemaining' = Wrap(readRemaining - n) /\ UNCHANGED state
            ELSE readRemaining' = TypeBytes /\ state' = "MESSAGE_TYPE"
  /\ UNCHANGED <<sent, cursor, delivered>>

\* Mutant of RecvType: the length is taken to include the type.
RecvType_LengthIncludesType ==
  /\ state = "MESSAGE_TYPE"
  /\ \E n \in ReceivedHeader(TypeBytes) :
       /\ consumed' = consumed + n
       /\ readRemaining' = Wrap(messageSize - TypeBytes) /\ state' = "ALLOCATE"
  /\ UNCHANGED <<sent, messageSize, cursor, delivered>>

RecvType ==
  /\ state = "MESSAGE_TYPE"
  /\ \E n \in ReceivedHeader(TypeBytes) :
       /\ consumed' = consumed + n
       /\ IF Wrap(readRemaining - n) > 0
            THEN readRemaining' = Wrap(readRemaining - n) /\ UNCHANGED state
            ELSE readRemaining' = messageSize /\ state' = "ALLOCATE"
  /\ UNCHANGED <<sent, messageSize, cursor, delivered>>

\* Buffer::Allocate and getBufferCursor; a failing malloc throws a char const*,
\* which no handler of the reader catches.
Allocate ==
  /\ state = "ALLOCATE"
  /\ \/ /\ state' = "MESSAGE"
        /\ capacity' = messageSize
        /\ offset' = 0 /\ forwardLength' = messageSize /\ backwardLength' = 0
     \/ state' = "terminated" /\ UNCHANGED cursor
  /\ UNCHANGED <<sent, consumed, readRemaining, messageSize, delivered>>

\* Mutant of JumpForward: a jump to the very end wraps.
JumpForward_WrapsAtEnd(n) ==
  IF forwardLength > n
    THEN /\ offset' = offset + n
         /\ forwardLength' = Wrap(forwardLength - n)
         /\ backwardLength' = Wrap(backwardLength + n)
    ELSE /\ offset' = 0
         /\ forwardLength' = backwardLength
         /\ backwardLength' = 0

\* BufferCursor::jumpForward, and wrapBuffer when it would leave the buffer.
JumpForward(n) ==
  IF forwardLength >= n
    THEN /\ offset' = offset + n
         /\ forwardLength' = Wrap(forwardLength - n)
         /\ backwardLength' = Wrap(backwardLength + n)
    ELSE /\ offset' = 0
         /\ forwardLength' = backwardLength
         /\ backwardLength' = 0

\* Mutant of Asked: a full packet is asked for every time.
Asked_FullPacket == MaxPacketSize

Asked == IF readRemaining > MaxPacketSize THEN MaxPacketSize ELSE readRemaining

RecvPayload ==
  /\ state = "MESSAGE" /\ readRemaining > 0
  /\ \E n \in Received(Asked) :
       /\ consumed' = consumed + n
       /\ JumpForward(n)
       /\ readRemaining' = Wrap(readRemaining - n)
  /\ UNCHANGED <<sent, state, messageSize, capacity, delivered>>

\* Mutant of Complete: the length counts a terminator.
Complete_CountsTerminator ==
  /\ state = "MESSAGE" /\ readRemaining = 0
  /\ delivered' = Append(delivered, messageSize + 1)
  /\ state' = "MESSAGE_SIZE" /\ readRemaining' = SizeBytes /\ messageSize' = 0
  /\ UNCHANGED <<sent, consumed, cursor>>

\* readData returns, and the reader controller calls it again.
Complete ==
  /\ state = "MESSAGE" /\ readRemaining = 0
  /\ delivered' = Append(delivered, messageSize)
  /\ state' = "MESSAGE_SIZE" /\ readRemaining' = SizeBytes /\ messageSize' = 0
  /\ UNCHANGED <<sent, consumed, cursor>>

ReadData == RecvSize \/ RecvType \/ Allocate \/ RecvPayload \/ Complete

Receiving ==
  \/ state \in {"MESSAGE_SIZE", "MESSAGE_TYPE"}
  \/ state = "MESSAGE" /\ readRemaining > 0

\* Mutant of RecvFails: the result -1 is subtracted as a number of bytes.
RecvFails_NotChecked ==
  /\ Receiving
  /\ readRemaining' = Wrap(readRemaining + 1)
  /\ UNCHANGED <<sent, consumed, state, messageSize, cursor, delivered>>

\* Any of the three recv returns -1: readData closes the socket and throws, what it
\* has read of the message is gone with it, and startThread returns 1.
RecvFails ==
  /\ Receiving
  /\ state' = "closed"
  /\ UNCHANGED <<sent, consumed, readRemaining, messageSize, cursor, delivered>>

\* Another thread has given the connection up: readData reads nothing more of it.
NotConnected ==
  /\ state = "MESSAGE_SIZE" /\ readRemaining = SizeBytes
  /\ state' = "closed"
  /\ UNCHANGED <<sent, consumed, readRemaining, messageSize, cursor, delivered>>

Next == PeerSends \/ ReadData \/ RecvFails \/ NotConnected

Spec == Init /\ [][Next]_vars
\* The reader goes on reading what has arrived; nothing has to fail.
FairSpec == Spec /\ WF_vars(ReadData)

-----------------------------------------------------------------------------
\* The messages delivered are the frames sent, in order and once each, however
\* TCP cuts the payloads; one whose recv fails half way is not delivered.
Frames == INSTANCE Channel WITH
  Messages <- Lengths, received <- delivered
DeliversFrames == Frames!Spec

\* No recv is given more room than the Buffer still has behind the cursor.
WritesInBounds == state = "MESSAGE" => offset + Asked <= capacity

\* A message is complete exactly when its buffer is full: the cursor and the
\* byte count of readData never drift apart.
CursorTracksRemaining ==
  state = "MESSAGE" =>
    /\ forwardLength = readRemaining
    /\ backwardLength = offset
    /\ offset + forwardLength = capacity

\* Every frame sent is delivered in the end, unless the connection is closed, after a
\* recv that failed or by another thread, or an allocation fails.
AllFramesDelivered ==
  \A k \in 1 .. MaxFrames :
    Len(sent) >= k ~> Len(delivered) >= k \/ state \in {"closed", "terminated"}
=============================================================================
