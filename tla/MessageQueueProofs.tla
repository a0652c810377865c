------------------------- MODULE MessageQueueProofs -------------------------
(***************************************************************************)
(* Proofs about MessageQueue, for any number of producers and any bound on *)
(* their pushes: the mutex makes overlapping accesses impossible, and the  *)
(* queue implements a channel.                                             *)
(***************************************************************************)
EXTENDS MessageQueue, TLAPS, SequenceTheorems

(* Who is inside an access holds the mutex and works on the current queue.   *)
LockInv ==
  /\ \A p \in Producers : pushPc[p] # "idle" <=> frontLock = p
  /\ popPc \in {"pop", "unlock"} <=> frontLock = Consumer
  /\ \A p \in Producers : pushPc[p] = "push" =>
       view[p] = safeQueue /\ pushes[p] < MaxPushes
  /\ popPc = "pop" => view[Consumer] = safeQueue

(* The consumer that has seen size() > 0 finds a message when it pops, or the *)
(* push it has seen still holds the mutex.                                    *)
SomethingToPop ==
  popPc \in {"lock", "pop"} => safeQueue # << >> \/ PushUnderWay

Inv == TypeOK /\ LockInv /\ SomethingToPop

(* Appending to the queue appends to what is sent. *)
LEMMA AppendSent ==
  ASSUME NEW T, NEW r \in Seq(T), NEW q \in Seq(T), NEW m \in T
  PROVE  r \o Append(q, m) = Append(r \o q, m)
OBVIOUS

(* Receiving the head of the queue leaves what is sent as it is. *)
LEMMA MoveHead ==
  ASSUME NEW T, NEW r \in Seq(T), NEW q \in Seq(T), q # << >>
  PROVE  /\ Append(r, Head(q)) \o Tail(q) = r \o q
         /\ Len(r) < Len(r \o q)
         /\ (r \o q)[Len(r) + 1] = Head(q)
         /\ Append(r, Head(q)) \in Seq(T) /\ Tail(q) \in Seq(T)
<1>1. Len(q) > 0 /\ Len(q) \in Nat /\ Len(r) \in Nat  BY EmptySeq, LenProperties
<1>2. Append(r, Head(q)) \in Seq(T) /\ Tail(q) \in Seq(T)  BY <1>1
<1>3. Append(r, Head(q)) \o Tail(q) = r \o q  BY <1>1, <1>2
<1> QED  BY <1>1, <1>2, <1>3

LEMMA InitInv == Init => Inv
<1> SUFFICES ASSUME Init PROVE Inv  OBVIOUS
<1>1. connectionStatus \in BOOLEAN  BY DEF Init
<1>2. TypeOK
  BY <1>1, QueueAssumption DEF Init, TypeOK
<1>3. LockInv /\ SomethingToPop
  BY QueueAssumption, NobodyAssumption DEF Init, LockInv, SomethingToPop, Threads
<1> QED  BY <1>2, <1>3 DEF Inv

LEMMA Stutter == Inv /\ UNCHANGED vars => Inv'
BY DEF vars, Inv, TypeOK, LockInv, SomethingToPop, PushUnderWay

LEMMA LinkStep ==
  ASSUME Inv, LinkUp \/ LinkDown
  PROVE  Inv'
<1>1. connectionStatus' \in BOOLEAN  BY DEF LinkUp, LinkDown
<1>2. UNCHANGED <<safeQueue, frontLock, view, pushPc, popPc, pushes, received>>
  BY DEF LinkUp, LinkDown
<1>3. TypeOK'  BY <1>1, <1>2 DEF Inv, TypeOK
<1>4. LockInv' /\ SomethingToPop'
  BY <1>2 DEF Inv, LockInv, SomethingToPop, PushUnderWay
<1> QED  BY <1>3, <1>4 DEF Inv

LEMMA PushStep ==
  ASSUME Inv, NEW p \in Producers, Push(p)
  PROVE  Inv'
<1> USE DEF Inv, LockInv, SomethingToPop, PushUnderWay
<1>0. /\ p \in Threads /\ p # Consumer /\ p # Nobody /\ Consumer # Nobody
      /\ \A q \in Producers : q # Consumer /\ q # Nobody /\ q \in Threads
      /\ Consumer \in Threads /\ MaxPushes \in Nat
  BY QueueAssumption, NobodyAssumption DEF Threads
<1>1. CASE PushLock(p)
  <2>1. TypeOK'  BY <1>0, <1>1 DEF PushLock, Lock, TypeOK
  <2>2. LockInv'  BY <1>0, <1>1 DEF PushLock, Lock, TypeOK
  <2>3. SomethingToPop'  BY <1>1 DEF PushLock, Lock, TypeOK
  <2> QED  BY <2>1, <2>2, <2>3
<1>2. CASE PushBody(p)
  <2> DEFINE m == <<p, pushes[p] + 1>>
  <2>1. pushes[p] \in 0 .. MaxPushes /\ pushes[p] < MaxPushes /\ view[p] = safeQueue
    BY <1>0, <1>2 DEF PushBody, TypeOK
  <2>2. m \in Messages  BY <1>0, <2>1 DEF Messages
  <2>3. safeQueue' = Append(safeQueue, m)  BY <1>2, <2>1 DEF PushBody
  <2>4. safeQueue' \in Seq(Messages) /\ safeQueue' # << >>
    BY <2>2, <2>3, AppendProperties DEF TypeOK
  <2>5. pushes' \in [Producers -> 0 .. MaxPushes]
    BY <1>0, <1>2, <2>1 DEF PushBody, TypeOK
  <2>6. view' \in [Threads -> Seq(Messages)]
    <3>1. << >> \in Seq(Messages)  BY EmptySeq
    <3> QED  BY <1>2, <3>1 DEF PushBody, TypeOK
  <2>7. TypeOK'
    BY <1>2, <2>4, <2>5, <2>6 DEF PushBody, TypeOK
  <2>8. frontLock = p  BY <1>2 DEF PushBody
  <2>9. LockInv'
    BY <1>0, <1>2, <2>8 DEF PushBody, TypeOK
  <2> QED  BY <2>4, <2>7, <2>9
<1>3. CASE PushUnlock(p)
  <2>1. frontLock = p  BY <1>3 DEF PushUnlock
  <2>2. TypeOK'  BY <1>3 DEF PushUnlock, Unlock, TypeOK
  <2>3. LockInv'  BY <1>0, <1>3, <2>1 DEF PushUnlock, Unlock, TypeOK
  <2>4. SomethingToPop'  BY <1>3 DEF PushUnlock, TypeOK
  <2> QED  BY <2>2, <2>3, <2>4
<1> QED  BY <1>1, <1>2, <1>3 DEF Push

LEMMA PopStep ==
  ASSUME Inv, Pop
  PROVE  Inv'
<1> USE DEF Inv, LockInv, SomethingToPop, PushUnderWay
<1>0. /\ Consumer \in Threads /\ Consumer # Nobody
      /\ \A q \in Producers : q # Consumer /\ q # Nobody /\ q \in Threads
  BY QueueAssumption, NobodyAssumption DEF Threads
<1>1. CASE Poll \/ Size \/ SizeZero \/ Send
  <2>1. UNCHANGED aside /\ popPc \notin {"pop", "unlock"}
        /\ popPc' \in {"poll", "size", "lock"} /\ (popPc' = "lock" => Size)
    BY <1>1 DEF Poll, Size, SizeZero, Send
  <2>2. TypeOK'  BY <2>1 DEF aside, TypeOK
  <2>3. LockInv'  BY <2>1 DEF aside
  <2>4. SomethingToPop'  BY <2>1 DEF Size, aside
  <2> QED  BY <2>2, <2>3, <2>4
<1>2. CASE PollDown
  BY <1>2, Stutter DEF PollDown
<1>3. CASE PopLock
  <2>1. TypeOK'  BY <1>0, <1>3 DEF PopLock, Lock, TypeOK
  <2>2. LockInv'  BY <1>0, <1>3 DEF PopLock, Lock, TypeOK
  <2>3. SomethingToPop'  BY <1>3 DEF PopLock
  <2> QED  BY <2>1, <2>2, <2>3
<1>4. CASE PopBody
  <2>1. view[Consumer] = safeQueue /\ frontLock = Consumer  BY <1>4 DEF PopBody
  <2>2. safeQueue' \in Seq(Messages) /\ received' \in Seq(Messages)
    <3>1. received \in Seq(Messages) /\ safeQueue \in Seq(Messages)  BY DEF TypeOK
    <3>2. CASE safeQueue = << >>  BY <1>4, <2>1, <3>1, <3>2 DEF PopBody
    <3>3. CASE safeQueue # << >>
      <4>1. safeQueue' = Tail(safeQueue) /\ received' = Append(received, Head(safeQueue))
        BY <1>4, <2>1, <3>3 DEF PopBody
      <4> QED  BY <3>1, <3>3, <4>1, MoveHead
    <3> QED  BY <3>2, <3>3
  <2>3. view' \in [Threads -> Seq(Messages)]
    <3>1. << >> \in Seq(Messages)  BY EmptySeq
    <3> QED  BY <1>4, <3>1 DEF PopBody, TypeOK
  <2>4. TypeOK'  BY <1>4, <2>2, <2>3 DEF PopBody, TypeOK
  <2>5. LockInv'  BY <1>0, <1>4, <2>1 DEF PopBody, TypeOK
  <2> QED  BY <1>4, <2>4, <2>5 DEF PopBody
<1>5. CASE PopUnlock
  <2>1. TypeOK'  BY <1>5 DEF PopUnlock, Unlock, TypeOK
  <2>2. LockInv'  BY <1>0, <1>5 DEF PopUnlock, Unlock, TypeOK
  <2> QED  BY <1>5, <2>1, <2>2 DEF PopUnlock
<1> QED  BY <1>1, <1>2, <1>3, <1>4, <1>5 DEF Pop

(* The inductive invariant: the lock excludes, and a seen message stays.      *)
THEOREM Inductive == Spec => []Inv
<1>1. Inv /\ [Next]_vars => Inv'
  BY Stutter, PushStep, PopStep, LinkStep DEF Next
<1> QED  BY InitInv, <1>1, PTL DEF Spec

(* Every variable keeps its type; in particular nothing but messages is ever *)
(* queued or received.                                                       *)
THEOREM TypeCorrect == Spec => []TypeOK
BY Inductive, PTL DEF Inv

(* The unlocked size() is enough: pop never meets an empty queue.            *)
THEOREM PopSafe == Spec => []PopsNonEmpty
<1>1. Inv => PopsNonEmpty
  <2>1. \A p \in Producers : p # Consumer  BY QueueAssumption
  <2> QED  BY <2>1 DEF Inv, LockInv, SomethingToPop, PushUnderWay, PopsNonEmpty
<1> QED  BY Inductive, <1>1, PTL

LEMMA StepRefines ==
  ASSUME Inv, [Next]_vars
  PROVE  [C!Next]_<<received \o safeQueue, received>>
<1> DEFINE sent == received \o safeQueue
<1>1. CASE UNCHANGED <<safeQueue, received>>
  BY <1>1
<1>2. ASSUME NEW p \in Producers, PushBody(p)
      PROVE  C!Send
  <2> DEFINE m == <<p, pushes[p] + 1>>
  <2>1. pushes[p] \in 0 .. MaxPushes /\ pushes[p] < MaxPushes /\ view[p] = safeQueue
    BY <1>2 DEF PushBody, TypeOK, Inv, LockInv
  <2>2. m \in Messages  BY <2>1, QueueAssumption DEF Messages
  <2>3. safeQueue' = Append(safeQueue, m) /\ received' = received
    BY <1>2, <2>1 DEF PushBody
  <2>4. received \in Seq(Messages) /\ safeQueue \in Seq(Messages)  BY DEF Inv, TypeOK
  <2>5. received' \o safeQueue' = Append(received \o safeQueue, m)
    BY <2>2, <2>3, <2>4, AppendSent
  <2> QED  BY <2>2, <2>3, <2>5 DEF C!Send
<1>3. ASSUME PopBody, ~UNCHANGED <<safeQueue, received>>
      PROVE  C!Receive
  <2>1. /\ view[Consumer] = safeQueue /\ safeQueue # << >>
        /\ safeQueue' = Tail(safeQueue)
        /\ received' = Append(received, Head(safeQueue))
    BY <1>3 DEF PopBody, Inv, LockInv
  <2>2. received \in Seq(Messages) /\ safeQueue \in Seq(Messages)  BY DEF Inv, TypeOK
  <2>3. /\ received' \o safeQueue' = received \o safeQueue
        /\ Len(received) < Len(received \o safeQueue)
        /\ (received \o safeQueue)[Len(received) + 1] = Head(safeQueue)
    BY <2>1, <2>2, MoveHead
  <2> QED  BY <2>1, <2>3 DEF C!Receive
<1>4. CASE UNCHANGED vars  BY <1>1, <1>4 DEF vars
<1>5. CASE Pop
  BY <1>1, <1>3, <1>4, <1>5
     DEF Pop, Poll, PollDown, Size, SizeZero, PopLock, PopUnlock, Send, aside, C!Next
<1>6. ASSUME NEW p \in Producers, Push(p)
      PROVE  [C!Next]_<<received \o safeQueue, received>>
  BY <1>1, <1>2, <1>6 DEF Push, PushLock, PushUnlock, C!Next
<1>7. CASE LinkUp \/ LinkDown
  BY <1>1, <1>7 DEF LinkUp, LinkDown
<1> QED  BY <1>4, <1>5, <1>6, <1>7 DEF Next

(* _Queue is a channel between the loggers and the writer: nothing is lost,  *)
(* duplicated or overtaken.                                                  *)
THEOREM Refinement == Spec => ChannelSpec
<1>1. Init => C!Init
  BY DEF Init, C!Init
<1>2. Inv /\ [Next]_vars => [C!Next]_<<received \o safeQueue, received>>
  BY StepRefines
<1> QED  BY Inductive, <1>1, <1>2, PTL DEF Spec, ChannelSpec, C!Spec
=============================================================================
