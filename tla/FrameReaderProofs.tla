-------------------------- MODULE FrameReaderProofs --------------------------
(***************************************************************************)
(* Proofs about FrameReader, for any set of lengths and any packet size.   *)
(* The first part holds for any cutting of the stream, of the header       *)
(* fields too: whatever length readData has decoded, it never writes       *)
(* behind the end of its buffer.  The second, that it delivers the frames, *)
(* needs header fields that arrive whole.                                  *)
(***************************************************************************)
EXTENDS FrameReader, WellFoundedInduction, TLAPS

(* Behind the length field a length has been read, and the buffer is         *)
(* allocated for what remains to be read.                                    *)
AllocatesRemaining ==
  /\ state \in {"MESSAGE_TYPE", "ALLOCATE", "MESSAGE"} => messageSize \in Lengths
  /\ state = "ALLOCATE" => readRemaining = messageSize

Inv == TypeOK /\ AllocatesRemaining /\ CursorTracksRemaining

(* size_t arithmetic is exact as long as the result is representable. *)
LEMMA WrapExact == \A x \in Words : Wrap(x) = x
BY ReaderAssumption, SMTT(30) DEF Words, Wrap

LEMMA WrapInWords == \A x \in Int : Wrap(x) \in Words
BY ReaderAssumption, SMTT(30) DEF Words, Wrap, SizeBytes

LEMMA LengthsAreWords == Lengths \cup {0} \subseteq Words
BY ReaderAssumption DEF Words, SizeBytes

LEMMA FieldSizesAreWords == SizeBytes \in Words /\ TypeBytes \in Words
BY ReaderAssumption DEF Words, SizeBytes, TypeBytes

LEMMA InitInv == Init => Inv
<1> SUFFICES ASSUME Init PROVE Inv  OBVIOUS
<1>1. << >> \in Seq(Lengths)  OBVIOUS
<1>2. TypeOK
  BY <1>1, FieldSizesAreWords, LengthsAreWords DEF Init, TypeOK
<1> QED  BY <1>2 DEF Init, Inv, AllocatesRemaining, CursorTracksRemaining

(* Reading a header field leaves the buffer alone. *)
LEMMA HeaderStep ==
  ASSUME Inv, RecvSize \/ RecvType
  PROVE  Inv'
<1> USE DEF Inv
<1>1. PICK n \in Nat :
        /\ consumed' = consumed + n
        /\ \/ /\ readRemaining' = Wrap(readRemaining - n)
              /\ state' = state
           \/ readRemaining' = TypeBytes /\ state' = "MESSAGE_TYPE"
           \/ readRemaining' = messageSize /\ state' = "ALLOCATE" /\ UNCHANGED messageSize
  BY DEF RecvSize, RecvType, ReceivedHeader, Received, SizeBytes, TypeBytes
<1>2. messageSize' \in Lengths
  <2>1. CASE RecvSize
    <3>1. sent \in Seq(Lengths)  BY DEF TypeOK
    <3>2. LengthsAt(consumed) \subseteq Lengths  BY <3>1 DEF LengthsAt
    <3> QED  BY <2>1, <3>2 DEF RecvSize
  <2>2. CASE RecvType  BY <2>2 DEF RecvType, AllocatesRemaining
  <2> QED  BY <2>1, <2>2
<1>3. UNCHANGED <<sent, cursor, delivered>> /\ state \in {"MESSAGE_SIZE", "MESSAGE_TYPE"}
  BY DEF RecvSize, RecvType
<1>4. readRemaining - n \in Int  BY DEF TypeOK, Words
<1>5. readRemaining' \in Words
  BY <1>1, <1>4, WrapInWords, FieldSizesAreWords, LengthsAreWords DEF TypeOK
<1>6. TypeOK'
  BY <1>1, <1>2, <1>3, <1>5 DEF TypeOK, cursor
<1>7. AllocatesRemaining' /\ CursorTracksRemaining'
  BY <1>1, <1>2, <1>3 DEF AllocatesRemaining, CursorTracksRemaining
<1> QED  BY <1>6, <1>7

LEMMA PayloadStep ==
  ASSUME Inv, RecvPayload
  PROVE  Inv'
<1> USE DEF Inv
<1>1. PICK n \in Nat :
        /\ n <= Asked
        /\ consumed' = consumed + n
        /\ JumpForward(n)
        /\ readRemaining' = Wrap(readRemaining - n)
  BY DEF RecvPayload, Received
<1>2. /\ forwardLength = readRemaining /\ backwardLength = offset
      /\ offset + forwardLength = capacity
  BY DEF RecvPayload, CursorTracksRemaining
<1>3. /\ readRemaining \in 0 .. WordSize - 1 /\ capacity \in 0 .. WordSize - 1
      /\ offset \in Nat /\ WordSize \in Nat /\ MaxPacketSize \in Nat
  BY ReaderAssumption DEF TypeOK, Words
<1>4. n <= readRemaining  BY <1>1, <1>3 DEF Asked
<1>5. readRemaining - n \in Words /\ backwardLength + n \in Words
  BY <1>2, <1>3, <1>4 DEF Words
<1>6. /\ offset' = offset + n
      /\ forwardLength' = readRemaining - n
      /\ backwardLength' = offset + n
      /\ readRemaining' = readRemaining - n
  BY <1>1, <1>2, <1>4, <1>5, WrapExact DEF JumpForward
<1>7. UNCHANGED <<sent, state, messageSize, capacity, delivered>> /\ state = "MESSAGE"
  BY DEF RecvPayload
<1>8. TypeOK'
  BY <1>1, <1>2, <1>3, <1>5, <1>6, <1>7 DEF TypeOK
<1>9. AllocatesRemaining' /\ CursorTracksRemaining'
  BY <1>2, <1>3, <1>6, <1>7 DEF AllocatesRemaining, CursorTracksRemaining
<1> QED  BY <1>8, <1>9

LEMMA OtherSteps ==
  ASSUME Inv, PeerSends \/ Allocate \/ Complete \/ RecvFails \/ NotConnected \/ UNCHANGED vars
  PROVE  Inv'
<1> USE DEF Inv
<1>1. CASE PeerSends
  BY <1>1 DEF PeerSends, TypeOK, AllocatesRemaining, CursorTracksRemaining, cursor
<1>2. CASE Allocate
  <2>1. messageSize \in Words /\ 0 \in Words /\ messageSize \in Nat
    BY LengthsAreWords, ReaderAssumption DEF TypeOK
  <2> QED
    BY <1>2, <2>1
       DEF Allocate, TypeOK, AllocatesRemaining, CursorTracksRemaining, cursor
<1>3. CASE Complete
  <2>1. messageSize \in Lengths  BY <1>3 DEF Complete, AllocatesRemaining
  <2> QED
    BY <1>3, <2>1, FieldSizesAreWords
       DEF Complete, TypeOK, AllocatesRemaining, CursorTracksRemaining, cursor
<1>4. CASE RecvFails \/ NotConnected
  BY <1>4
     DEF RecvFails, NotConnected, TypeOK, AllocatesRemaining, CursorTracksRemaining, cursor
<1>5. CASE UNCHANGED vars
  BY <1>5 DEF vars, cursor, TypeOK, AllocatesRemaining, CursorTracksRemaining
<1> QED  BY <1>1, <1>2, <1>3, <1>4, <1>5

(* The inductive invariant: the buffer is allocated for the bytes that remain, *)
(* and the cursor keeps in step with them.                                    *)
THEOREM Inductive == Spec => []Inv
<1>1. Inv /\ [Next]_vars => Inv'
  BY HeaderStep, PayloadStep, OtherSteps DEF Next, ReadData
<1> QED  BY InitInv, <1>1, PTL DEF Spec

(* Every variable keeps its type, size_t underflow included. *)
THEOREM TypeCorrect == Spec => []TypeOK
BY Inductive, PTL DEF Inv

(* The cursor and the byte count of readData never drift apart. *)
THEOREM CursorInStep == Spec => []CursorTracksRemaining
BY Inductive, PTL DEF Inv

(* No recv may write behind the end of the buffer. *)
THEOREM BufferSafe == Spec => []WritesInBounds
<1>1. Inv => WritesInBounds
  <2> SUFFICES ASSUME Inv, state = "MESSAGE" PROVE offset + Asked <= capacity
    BY DEF WritesInBounds
  <2>1. /\ readRemaining \in Nat /\ offset \in Nat /\ MaxPacketSize \in Nat
        /\ offset + readRemaining = capacity
    BY ReaderAssumption DEF Inv, TypeOK, Words, CursorTracksRemaining
  <2> QED  BY <2>1 DEF Asked
<1> QED  BY Inductive, <1>1, PTL

-----------------------------------------------------------------------------
(* Positions in the stream.                                                 *)

(* Induction over frames goes by the least one that would be wrong.           *)
LEMMA LeastExists ==
  ASSUME NEW S \in SUBSET Nat, S # {}
  PROVE  \E i \in S : \A j \in S : i <= j
<1> DEFINE R == {p \in Nat \X Nat : p[1] < p[2]}
<1>1. IsWellFoundedOn(R, Nat)
  BY NatLessThanWellFounded DEF OpToRel
<1>2. \A i, j \in Nat : j < i => <<j, i>> \in R
  OBVIOUS
<1>3. \A i, j \in Nat : <<j, i>> \notin R => i <= j
  <2> HIDE DEF R
  <2> QED  BY <1>2
<1> HIDE DEF R
<1>4. \E i \in S : \A j \in S : <<j, i>> \notin R
  BY <1>1, WFMin, Zenon
<1> QED  BY <1>3, <1>4, Zenon

LEMMA FrameLengths ==
  ASSUME NEW frames \in Seq(Lengths)
  PROVE  /\ Len(frames) \in Nat
         /\ \A k \in 1 .. Len(frames) : frames[k] \in Nat /\ FrameBytes(frames[k]) \in Nat
<1>1. \A n \in Lengths : n \in Nat
  BY ReaderAssumption
<1>2. \A k \in 1 .. Len(frames) : frames[k] \in Lengths
  OBVIOUS
<1>3. \A n \in Nat : FrameBytes(n) \in Nat
  BY DEF FrameBytes, SizeBytes, TypeBytes
<1>4. Len(frames) \in Nat
  OBVIOUS
<1>5. ASSUME NEW k \in 1 .. Len(frames) PROVE frames[k] \in Nat /\ FrameBytes(frames[k]) \in Nat
  <2>1. frames[k] \in Nat
    BY <1>1, <1>2
  <2> QED  BY <2>1, <1>3
<1> QED  BY <1>4, <1>5

(* What the recursive definition of EndOf asks of a function. *)
Ends(g, frames, n) ==
  /\ g \in [0 .. n -> Nat] /\ g[0] = 0
  /\ \A k \in 1 .. n : g[k] = g[k - 1] + FrameBytes(frames[k])

(* There is such a function.                                                  *)
LEMMA EndsExist ==
  ASSUME NEW frames \in Seq(Lengths)
  PROVE  \E g : Ends(g, frames, Len(frames))
<1> DEFINE Bad == {n \in 0 .. Len(frames) : \A g : ~Ends(g, frames, n)}
<1>1. /\ Len(frames) \in Nat
      /\ \A k \in 1 .. Len(frames) : FrameBytes(frames[k]) \in Nat
  BY FrameLengths
<1>2. SUFFICES ASSUME Bad # {} PROVE FALSE
  BY <1>1
<1>3. PICK m \in Bad : \A n \in Bad : m <= n
  <2>1. Bad \in SUBSET Nat
    BY <1>1
  <2> HIDE DEF Bad
  <2> QED  BY <1>2, <2>1, LeastExists
<1>4. m # 0
  <2>1. Ends([k \in 0 .. 0 |-> 0], frames, 0)
    BY DEF Ends
  <2> QED  BY <1>3, <2>1
<1>5. m \in 1 .. Len(frames) /\ m - 1 \in 0 .. Len(frames) /\ m - 1 \notin Bad
  BY <1>1, <1>3, <1>4
<1>6. PICK h : Ends(h, frames, m - 1)
  BY <1>5
<1> DEFINE g == [k \in 0 .. m |-> IF k = m THEN h[m - 1] + FrameBytes(frames[m]) ELSE h[k]]
<1>7. Ends(g, frames, m)
  <2>1. g \in [0 .. m -> Nat]
    BY <1>1, <1>5, <1>6 DEF Ends
  <2>2. g[0] = 0
    BY <1>5, <1>6 DEF Ends
  <2>3. ASSUME NEW k \in 1 .. m PROVE g[k] = g[k - 1] + FrameBytes(frames[k])
    BY <1>5, <1>6 DEF Ends
  <2> QED  BY <2>1, <2>2, <2>3 DEF Ends
<1> QED  BY <1>3, <1>7

(* EndOf is what its definition says. *)
LEMMA EndOfUnfolds ==
  ASSUME sent \in Seq(Lengths)
  PROVE  Ends(EndOf, sent, Len(sent))
<1> DEFINE Unfolded(g) == [k \in 0 .. Len(sent) |->
                             IF k = 0 THEN 0 ELSE g[k - 1] + FrameBytes(sent[k])]
<1>0. Len(sent) \in Nat
  OBVIOUS
<1>1. PICK g : Ends(g, sent, Len(sent))
  BY EndsExist
<1>2. g = Unfolded(g)
  BY <1>0, <1>1 DEF Ends
<1>3. EndOf = CHOOSE f : f = Unfolded(f)
  BY DEF EndOf
<1>4. EndOf = Unfolded(EndOf)
  BY <1>2, <1>3
<1>5. DOMAIN EndOf = 0 .. Len(sent) /\ EndOf[0] = 0
      /\ \A k \in 1 .. Len(sent) : EndOf[k] = EndOf[k - 1] + FrameBytes(sent[k])
  BY <1>0, <1>4
<1> HIDE DEF Unfolded
<1>6. \A k \in 0 .. Len(sent) : EndOf[k] = g[k]
  <2> DEFINE Bad == {k \in 0 .. Len(sent) : EndOf[k] # g[k]}
  <2>1. SUFFICES ASSUME Bad # {} PROVE FALSE
    OBVIOUS
  <2>2. PICK m \in Bad : \A n \in Bad : m <= n
    <3>1. Bad \in SUBSET Nat
      BY <1>0
    <3> HIDE DEF Bad
    <3> QED  BY <2>1, <3>1, LeastExists
  <2>3. m # 0
    BY <1>1, <1>5, <2>2 DEF Ends
  <2>4. m \in 1 .. Len(sent) /\ m - 1 \in 0 .. Len(sent) /\ m - 1 \notin Bad
    BY <1>0, <2>2, <2>3
  <2>5. EndOf[m - 1] = g[m - 1]
    BY <2>4
  <2> QED  BY <1>1, <1>5, <2>2, <2>4, <2>5 DEF Ends
<1>7. \A k \in 0 .. Len(sent) : EndOf[k] \in Nat
  BY <1>1, <1>6 DEF Ends
<1>8. EndOf \in [0 .. Len(sent) -> Nat]
  <2>1. EndOf = [k \in 0 .. Len(sent) |-> EndOf[k]]
    BY <1>4 DEF Unfolded
  <2> QED  BY <1>7, <2>1
<1> QED  BY <1>5, <1>8 DEF Ends

(* A frame more at the end leaves the positions before it where they were.    *)
LEMMA EndsUnique ==
  ASSUME NEW f1 \in Seq(Lengths), NEW f2 \in Seq(Lengths), Len(f1) <= Len(f2),
         \A k \in 1 .. Len(f1) : f2[k] = f1[k],
         NEW g1, NEW g2, Ends(g1, f1, Len(f1)), Ends(g2, f2, Len(f2))
  PROVE  \A k \in 0 .. Len(f1) : g2[k] = g1[k]
<1> DEFINE Bad == {k \in 0 .. Len(f1) : g2[k] # g1[k]}
<1>0. Len(f1) \in Nat /\ Len(f2) \in Nat
  OBVIOUS
<1>1. SUFFICES ASSUME Bad # {} PROVE FALSE
  OBVIOUS
<1>2. PICK m \in Bad : \A n \in Bad : m <= n
  <2>1. Bad \in SUBSET Nat
    BY <1>0
  <2> HIDE DEF Bad
  <2> QED  BY <1>1, <2>1, LeastExists
<1>3. m # 0
  BY <1>2 DEF Ends
<1>4. m \in 1 .. Len(f1) /\ m \in 1 .. Len(f2) /\ m - 1 \in 0 .. Len(f1) /\ m - 1 \notin Bad
  BY <1>0, <1>2, <1>3
<1>5. g2[m - 1] = g1[m - 1]
  BY <1>4
<1>6. g1[m] = g1[m - 1] + FrameBytes(f1[m]) /\ g2[m] = g2[m - 1] + FrameBytes(f2[m]) /\ f2[m] = f1[m]
  BY <1>4 DEF Ends
<1> QED  BY <1>2, <1>5, <1>6

(* Frames are not empty: a position is the beginning of one frame at most.    *)
LEMMA EndsIncrease ==
  ASSUME sent \in Seq(Lengths), NEW j \in 0 .. Len(sent)
  PROVE  \A k \in j + 1 .. Len(sent) : EndOf[j] + SizeBytes + TypeBytes <= EndOf[k]
<1> DEFINE Bad == {k \in j + 1 .. Len(sent) : ~(EndOf[j] + SizeBytes + TypeBytes <= EndOf[k])}
<1>0. Len(sent) \in Nat /\ \A k \in 1 .. Len(sent) : sent[k] \in Nat
  BY FrameLengths
<1>a. /\ EndOf \in [0 .. Len(sent) -> Nat]
      /\ \A k \in 1 .. Len(sent) : EndOf[k] = EndOf[k - 1] + FrameBytes(sent[k])
  BY EndOfUnfolds DEF Ends
<1>1. SUFFICES ASSUME Bad # {} PROVE FALSE
  OBVIOUS
<1>2. PICK m \in Bad : \A n \in Bad : m <= n
  <2>1. Bad \in SUBSET Nat
    BY <1>0
  <2> HIDE DEF Bad
  <2> QED  BY <1>1, <2>1, LeastExists
<1>3. m \in j + 1 .. Len(sent) /\ m \in 1 .. Len(sent) /\ m - 1 \in 0 .. Len(sent) /\ m - 1 \in Nat /\ j \in Nat
      /\ ~(EndOf[j] + SizeBytes + TypeBytes <= EndOf[m])
  BY <1>0, <1>2
<1>b. \A n \in j + 1 .. Len(sent) : n \notin Bad => EndOf[j] + SizeBytes + TypeBytes <= EndOf[n]
  OBVIOUS
<1> HIDE DEF Bad
<1>4. EndOf[m] = EndOf[m - 1] + (SizeBytes + TypeBytes + sent[m])
      /\ sent[m] \in Nat /\ EndOf[m - 1] \in Nat /\ EndOf[j] \in Nat
  BY <1>0, <1>a, <1>3 DEF FrameBytes
<1>5. CASE m - 1 = j
  BY <1>3, <1>4, <1>5 DEF SizeBytes, TypeBytes
<1>6. CASE m - 1 # j
  <2>1. m - 1 \in j + 1 .. Len(sent) /\ m - 1 \notin Bad
    BY <1>0, <1>2, <1>3, <1>6
  <2>2. EndOf[j] + SizeBytes + TypeBytes <= EndOf[m - 1]
    BY <1>b, <2>1
  <2>3. EndOf[m - 1] <= EndOf[m] /\ EndOf[m] \in Int /\ EndOf[m - 1] \in Int
        /\ EndOf[j] + SizeBytes + TypeBytes \in Int
    BY <1>4 DEF SizeBytes, TypeBytes
  <2>4. ~(EndOf[j] + SizeBytes + TypeBytes <= EndOf[m])
    BY <1>3
  <2> QED  BY <2>2, <2>3, <2>4
<1> QED  BY <1>5, <1>6

-----------------------------------------------------------------------------
(* Delivery, when TCP does not cut the header fields.                       *)

(* Where the reader is in the stream. *)
InStream ==
  LET d == Len(delivered)
  IN /\ d <= Len(sent)
     /\ state \in {"MESSAGE_TYPE", "ALLOCATE", "MESSAGE"} =>
          d < Len(sent) /\ messageSize = sent[d + 1]
     /\ state = "MESSAGE_SIZE" => readRemaining = SizeBytes /\ consumed = EndOf[d]
     /\ state = "MESSAGE_TYPE" => readRemaining = TypeBytes /\ consumed = EndOf[d] + SizeBytes
     /\ state \in {"ALLOCATE", "MESSAGE"} => consumed + readRemaining = EndOf[d + 1]

(* A length field read whole at the beginning of a frame is that of the frame. *)
LEMMA LengthFound ==
  ASSUME Inv, InStream, HeadersWhole, RecvSize
  PROVE  /\ Len(delivered) < Len(sent) /\ consumed' = consumed + SizeBytes
         /\ messageSize' = sent[Len(delivered) + 1]
         /\ readRemaining' = TypeBytes /\ state' = "MESSAGE_TYPE"
<1> DEFINE d == Len(delivered)
<1>0. /\ sent \in Seq(Lengths) /\ delivered \in Seq(Lengths) /\ Len(sent) \in Nat /\ d \in Nat
      /\ consumed \in Nat
  BY DEF Inv, TypeOK
<1>1. d <= Len(sent) /\ readRemaining = SizeBytes /\ consumed = EndOf[d]
  BY DEF RecvSize, InStream
<1>2. EndOf \in [0 .. Len(sent) -> Nat]
  BY <1>0, EndOfUnfolds DEF Ends
<1>3. PICK n \in ReceivedHeader(SizeBytes) :
        /\ consumed' = consumed + n
        /\ IF n = SizeBytes /\ LengthsAt(consumed) # {}
             THEN messageSize' \in LengthsAt(consumed)
             ELSE messageSize' \in Lengths
        /\ IF Wrap(readRemaining - n) > 0
             THEN readRemaining' = Wrap(readRemaining - n) /\ UNCHANGED state
             ELSE readRemaining' = TypeBytes /\ state' = "MESSAGE_TYPE"
  BY DEF RecvSize
<1>4. n = SizeBytes /\ SizeBytes <= EndOf[Len(sent)] - consumed
  BY <1>3 DEF ReceivedHeader, Received, Available
<1>5. d # Len(sent)
  <2>1. EndOf[Len(sent)] \in Nat
    BY <1>0, <1>2
  <2> QED  BY <1>0, <1>1, <1>4, <2>1 DEF SizeBytes
<1>6. d \in 0 .. Len(sent) /\ d + 1 \in 1 .. Len(sent)
  BY <1>0, <1>1, <1>5
<1>7. Wrap(readRemaining - n) = 0
  BY <1>1, <1>4, WrapExact, FieldSizesAreWords, ReaderAssumption DEF Words, SizeBytes
<1>8. LengthsAt(consumed) = {sent[d + 1]}
  <2>1. sent[d + 1] \in LengthsAt(consumed)
    <3>1. EndOf[(d + 1) - 1] = consumed
      BY <1>0, <1>1
    <3> QED  BY <1>6, <3>1 DEF LengthsAt
  <2>2. ASSUME NEW j \in 1 .. Len(sent), EndOf[j - 1] = consumed PROVE j = d + 1
    <3>1. j - 1 \in 0 .. Len(sent)
      BY <1>0
    <3>2. EndOf[d] \in Nat /\ EndOf[j - 1] \in Nat
      BY <1>2, <1>6, <3>1
    <3>3. CASE j - 1 < d
      <4>1. d \in (j - 1) + 1 .. Len(sent)
        BY <1>0, <1>6, <3>3
      <4>2. EndOf[j - 1] + SizeBytes + TypeBytes <= EndOf[d]
        BY <1>0, <3>1, <4>1, EndsIncrease
      <4> QED  BY <1>1, <2>2, <3>2, <4>2 DEF SizeBytes, TypeBytes
    <3>4. CASE d < j - 1
      <4>1. j - 1 \in d + 1 .. Len(sent)
        BY <1>0, <3>1, <3>4
      <4>2. EndOf[d] + SizeBytes + TypeBytes <= EndOf[j - 1]
        BY <1>0, <1>6, <4>1, EndsIncrease
      <4> QED  BY <1>1, <2>2, <3>2, <4>2 DEF SizeBytes, TypeBytes
    <3> QED  BY <1>0, <3>1, <3>3, <3>4
  <2> QED  BY <2>1, <2>2 DEF LengthsAt
<1> QED  BY <1>0, <1>1, <1>3, <1>4, <1>5, <1>7, <1>8

(* Each step keeps the place in the stream, and is one of the channel or none. *)
LEMMA InStreamStep ==
  ASSUME Inv, InStream, HeadersWhole, [Next]_vars
  PROVE  InStream' /\ [Frames!Next]_<<sent, delivered>>
<1> DEFINE d == Len(delivered)
<1>0. /\ sent \in Seq(Lengths) /\ delivered \in Seq(Lengths) /\ Len(sent) \in Nat /\ d \in Nat
      /\ consumed \in Nat /\ readRemaining \in Words /\ d <= Len(sent)
  BY DEF Inv, TypeOK, InStream
<1>a. /\ EndOf \in [0 .. Len(sent) -> Nat]
      /\ \A k \in 1 .. Len(sent) : EndOf[k] = EndOf[k - 1] + FrameBytes(sent[k])
  BY <1>0, EndOfUnfolds DEF Ends
<1>b. ASSUME UNCHANGED sent PROVE EndOf' = EndOf
  BY <1>b DEF EndOf
<1>1. CASE PeerSends
  <2>1. UNCHANGED <<consumed, state, readRemaining, messageSize, delivered>>
    BY <1>1 DEF PeerSends
  <2>2. PICK n \in Lengths : sent' = Append(sent, n)
    BY <1>1 DEF PeerSends
  <2>3. /\ sent' \in Seq(Lengths) /\ Len(sent') = Len(sent) + 1
        /\ \A k \in 1 .. Len(sent) : sent'[k] = sent[k]
    BY <1>0, <2>2
  <2>4. Ends(EndOf, sent, Len(sent)) /\ Ends(EndOf, sent, Len(sent))'
    <3>1. (sent \in Seq(Lengths))'
      BY <2>3
    <3> QED  BY <1>0, <3>1, EndOfUnfolds, PTL
  <2>5. \A k \in 0 .. Len(sent) : EndOf'[k] = EndOf[k]
    BY <1>0, <2>3, <2>4, EndsUnique
  <2>6. InStream'
    BY <1>0, <2>1, <2>3, <2>5, SMTT(20) DEF InStream
  <2> QED  BY <2>1, <2>2, <2>6 DEF Frames!Next, Frames!Send
<1>2. CASE RecvSize
  <2>1. UNCHANGED <<sent, delivered>>
    BY <1>2 DEF RecvSize
  <2>2. consumed = EndOf[d]
    BY <1>2 DEF RecvSize, InStream
  <2>3. InStream'
    BY <1>0, <1>2, <1>b, <2>1, <2>2, LengthFound DEF InStream
  <2> QED  BY <2>1, <2>3
<1>3. CASE RecvType
  <2>1. UNCHANGED <<sent, delivered, messageSize>> /\ state = "MESSAGE_TYPE"
    BY <1>3 DEF RecvType
  <2>2. d < Len(sent) /\ messageSize = sent[d + 1] /\ readRemaining = TypeBytes
        /\ consumed = EndOf[d] + SizeBytes
    BY <2>1 DEF InStream
  <2>3. PICK n \in ReceivedHeader(TypeBytes) :
          /\ consumed' = consumed + n
          /\ IF Wrap(readRemaining - n) > 0
               THEN readRemaining' = Wrap(readRemaining - n) /\ UNCHANGED state
               ELSE readRemaining' = messageSize /\ state' = "ALLOCATE"
    BY <1>3 DEF RecvType
  <2>4. n = TypeBytes
    BY <2>3 DEF ReceivedHeader, Received
  <2>5. Wrap(readRemaining - n) = 0
    BY <2>2, <2>4, WrapExact, ReaderAssumption DEF Words, SizeBytes, TypeBytes
  <2>6. consumed' + readRemaining' = EndOf[d + 1] /\ state' = "ALLOCATE"
    <3>1. d + 1 \in 1 .. Len(sent) /\ EndOf[d] \in Nat /\ sent[d + 1] \in Nat /\ (d + 1) - 1 = d
      BY <1>0, <1>a, <2>2, FrameLengths
    <3>2. EndOf[d + 1] = EndOf[d] + (SizeBytes + TypeBytes + sent[d + 1])
      BY <1>a, <3>1 DEF FrameBytes
    <3>3. consumed' = consumed + TypeBytes /\ readRemaining' = messageSize /\ state' = "ALLOCATE"
      <4>1. ~(Wrap(readRemaining - n) > 0)
        BY <2>5
      <4> QED  BY <2>3, <2>4, <4>1
    <3>4. \A e, m \in Nat : (e + SizeBytes) + TypeBytes + m = e + (SizeBytes + TypeBytes + m)
      BY DEF SizeBytes, TypeBytes
    <3>5. (EndOf[d] + SizeBytes) + TypeBytes + sent[d + 1] = EndOf[d + 1]
      BY <3>1, <3>2, <3>4
    <3> QED  BY <2>2, <3>3, <3>5
  <2>7. InStream'
    BY <1>0, <1>b, <2>1, <2>2, <2>6 DEF InStream
  <2> QED  BY <2>1, <2>7
<1>4. CASE Allocate
  <2>1. UNCHANGED <<sent, delivered, messageSize, consumed, readRemaining>>
        /\ state = "ALLOCATE" /\ state' \in {"MESSAGE", "terminated"}
    BY <1>4 DEF Allocate
  <2>2. InStream'
    BY <1>b, <2>1 DEF InStream
  <2> QED  BY <2>1, <2>2
<1>5. CASE RecvPayload
  <2>1. UNCHANGED <<sent, delivered, messageSize, state>> /\ state = "MESSAGE"
    BY <1>5 DEF RecvPayload
  <2>2. PICK n \in Received(Asked) : consumed' = consumed + n /\ readRemaining' = Wrap(readRemaining - n)
    BY <1>5 DEF RecvPayload
  <2>3. n \in Nat /\ n <= readRemaining
    BY <1>0, <2>2, ReaderAssumption DEF Received, Asked, Words
  <2>4. readRemaining' = readRemaining - n
    <3>1. readRemaining - n \in Words
      BY <1>0, <2>3, ReaderAssumption DEF Words
    <3> QED  BY <2>2, <3>1, WrapExact
  <2>5. consumed' + readRemaining' = consumed + readRemaining
    BY <1>0, <2>2, <2>3, <2>4 DEF Words
  <2>6. InStream'
    BY <1>b, <2>1, <2>5 DEF InStream
  <2> QED  BY <2>1, <2>6
<1>6. CASE Complete
  <2>1. /\ state = "MESSAGE" /\ readRemaining = 0 /\ state' = "MESSAGE_SIZE" /\ readRemaining' = SizeBytes
        /\ delivered' = Append(delivered, messageSize) /\ UNCHANGED <<sent, consumed>>
    BY <1>6 DEF Complete
  <2>2. d < Len(sent) /\ messageSize = sent[d + 1] /\ consumed = EndOf[d + 1]
    BY <1>0, <2>1 DEF InStream
  <2>3. Len(delivered') = d + 1
    BY <1>0, <2>1
  <2>4. InStream'
    BY <1>0, <1>b, <2>1, <2>2, <2>3 DEF InStream
  <2> QED  BY <2>1, <2>2, <2>4 DEF Frames!Next, Frames!Receive
<1>7. CASE RecvFails \/ NotConnected
  <2>1. UNCHANGED <<sent, delivered>> /\ state' = "closed"
    BY <1>7 DEF RecvFails, NotConnected
  <2> QED  BY <1>b, <2>1 DEF InStream
<1>8. CASE UNCHANGED vars
  BY <1>8, <1>b DEF vars, InStream
<1> QED  BY <1>1, <1>2, <1>3, <1>4, <1>5, <1>6, <1>7, <1>8 DEF Next, ReadData

(* When no header field is cut, the messages readData returns are the frames  *)
(* that were sent, in order, once each and each with its own length, however  *)
(* TCP cuts the payloads.                                                     *)
THEOREM FramesDelivered ==
  ASSUME HeadersWhole
  PROVE  Spec => DeliversFrames
<1>1. Init => InStream /\ Frames!Init
  <2> SUFFICES ASSUME Init PROVE InStream /\ Frames!Init
    OBVIOUS
  <2>1. sent = << >> /\ delivered = << >> /\ sent \in Seq(Lengths)
    BY DEF Init
  <2>2. EndOf[0] = 0
    BY <2>1, EndOfUnfolds DEF Ends
  <2> QED  BY <2>1, <2>2 DEF Init, InStream, Frames!Init
<1>2. Inv /\ InStream /\ [Next]_vars => InStream' /\ [Frames!Next]_<<sent, delivered>>
  BY InStreamStep
<1> QED  BY <1>1, <1>2, Inductive, PTL DEF Spec, DeliversFrames, Frames!Spec
=============================================================================
