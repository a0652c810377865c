---------------------------- MODULE MessageQueue ----------------------------
(***************************************************************************)
(* _Queue::Queue as the engine uses it for a writeBuffer: any number of    *)
(* threads push (LoggingController::networkLog), and one thread, the       *)
(* writer controller of the interface, asks size() and then pops, as often *)
(* as it finds the link up; the link is one flag, see module SocketLink.   *)
(*                                                                         *)
(* push and pop hold frontLock around a std::queue that is not itself      *)
(* thread safe: an access begins by reading it and ends by writing it      *)
(* back, so two overlapping accesses would lose an update.  size() takes   *)
(* no lock: while a push is under way its result is arbitrary.             *)
(***************************************************************************)
EXTENDS Integers, Sequences

CONSTANTS
  Producers,   \* threads that push
  Consumer,    \* the writer controller
  MaxPushes    \* bound: messages each producer pushes

ASSUME QueueAssumption ==
  /\ Consumer \notin Producers
  /\ MaxPushes \in Nat

Threads == Producers \cup {Consumer}
Messages == Producers \X (1 .. MaxPushes)
Nobody == "nobody"
ASSUME NobodyAssumption == Nobody \notin Threads

VARIABLES
  safeQueue,   \* the std::queue
  frontLock,   \* the thread that holds the mutex, or Nobody
  view,        \* what a thread has read of safeQueue in its current access
  pushPc,      \* where each producer is in push
  popPc,       \* where the consumer is in its loop: size() > 0 and pop
  connectionStatus,   \* of the link; other threads write it
  pushes,      \* messages each producer has pushed
  received     \* history: what pop has returned

vars == <<safeQueue, frontLock, view, pushPc, popPc, connectionStatus, pushes, received>>

TypeOK ==
  /\ safeQueue \in Seq(Messages)
  /\ frontLock \in Threads \cup {Nobody}
  /\ view \in [Threads -> Seq(Messages)]
  /\ pushPc \in [Producers -> {"idle", "push", "unlock"}]
  /\ popPc \in {"poll", "size", "lock", "pop", "unlock", "send"}
  /\ connectionStatus \in BOOLEAN
  /\ pushes \in [Producers -> 0 .. MaxPushes]
  /\ received \in Seq(Messages)

Init ==
  /\ safeQueue = << >>
  /\ frontLock = Nobody
  /\ view = [t \in Threads |-> << >>]
  /\ pushPc = [p \in Producers |-> "idle"]
  /\ popPc = "poll"
  /\ connectionStatus = FALSE
  /\ pushes = [p \in Producers |-> 0]
  /\ received = << >>

\* frontLock.lock(), and the access to safeQueue begins.
Lock(t) ==
  /\ frontLock = Nobody
  /\ frontLock' = t
  /\ view' = [view EXCEPT ![t] = safeQueue]

\* frontLock.unlock()
Unlock == frontLock' = Nobody

-----------------------------------------------------------------------------
\* Mutant of PushLock: frontLock is not taken.
PushLock_NoLock(p) ==
  /\ pushPc[p] = "idle" /\ pushes[p] < MaxPushes
  /\ view' = [view EXCEPT ![p] = safeQueue]
  /\ pushPc' = [pushPc EXCEPT ![p] = "push"]
  /\ UNCHANGED <<safeQueue, frontLock, popPc, connectionStatus, pushes, received>>

PushLock(p) ==
  /\ pushPc[p] = "idle" /\ pushes[p] < MaxPushes
  /\ Lock(p)
  /\ pushPc' = [pushPc EXCEPT ![p] = "push"]
  /\ UNCHANGED <<safeQueue, popPc, connectionStatus, pushes, received>>

\* Mutant of PushBody: the message is numbered from 0.
PushBody_FromZero(p) ==
  /\ pushPc[p] = "push"
  /\ safeQueue' = Append(view[p], <<p, pushes[p]>>)
  /\ view' = [view EXCEPT ![p] = << >>]
  /\ pushes' = [pushes EXCEPT ![p] = @ + 1]
  /\ pushPc' = [pushPc EXCEPT ![p] = "unlock"]
  /\ UNCHANGED <<frontLock, popPc, connectionStatus, received>>

PushBody(p) ==
  /\ pushPc[p] = "push"
  /\ safeQueue' = Append(view[p], <<p, pushes[p] + 1>>)
  /\ view' = [view EXCEPT ![p] = << >>]
  /\ pushes' = [pushes EXCEPT ![p] = @ + 1]
  /\ pushPc' = [pushPc EXCEPT ![p] = "unlock"]
  /\ UNCHANGED <<frontLock, popPc, connectionStatus, received>>

PushUnlock(p) ==
  /\ pushPc[p] = "unlock"
  /\ Unlock
  /\ pushPc' = [pushPc EXCEPT ![p] = "idle"]
  /\ UNCHANGED <<safeQueue, view, popPc, connectionStatus, pushes, received>>

Push(p) == PushLock(p) \/ PushBody(p) \/ PushUnlock(p)

-----------------------------------------------------------------------------
(* The loop of the writer controller.                                       *)

aside == <<safeQueue, frontLock, view, pushPc, connectionStatus, pushes, received>>

\* getConnectionStatus() == true; nothing is asked again before sendData.
Poll ==
  /\ popPc = "poll" /\ connectionStatus
  /\ popPc' = "size"
  /\ UNCHANGED aside

\* The link is down: the writer sleeps and looks again.
PollDown ==
  /\ popPc = "poll" /\ ~connectionStatus
  /\ UNCHANGED vars

\* writeBuffer.size(), beside a push: either answer.
PushUnderWay == \E p \in Producers : pushPc[p] = "push"

\* Mutant of Size: the writer pops without asking.
Size_NotAsked ==
  /\ popPc = "size" /\ popPc' = "lock"
  /\ UNCHANGED aside

\* writeBuffer.size() > 0
Size ==
  /\ popPc = "size"
  /\ safeQueue # << >> \/ PushUnderWay
  /\ popPc' = "lock"
  /\ UNCHANGED aside

\* writeBuffer.size() == 0: the writer sleeps and begins its loop again.
SizeZero ==
  /\ popPc = "size"
  /\ safeQueue = << >> \/ PushUnderWay
  /\ popPc' = "poll"
  /\ UNCHANGED aside

PopLock ==
  /\ popPc = "lock"
  /\ Lock(Consumer)
  /\ popPc' = "pop"
  /\ UNCHANGED <<safeQueue, pushPc, connectionStatus, pushes, received>>

\* Mutant of PopBody: pop without front: the message is gone.
PopBody_NoFront ==
  /\ popPc = "pop" /\ view[Consumer] # << >>
  /\ safeQueue' = Tail(view[Consumer])
  /\ view' = [view EXCEPT ![Consumer] = << >>]
  /\ popPc' = "unlock"
  /\ UNCHANGED <<frontLock, pushPc, connectionStatus, pushes, received>>

\* front() and pop() of an empty std::queue are undefined: nothing is returned.
PopBody ==
  /\ popPc = "pop"
  /\ IF view[Consumer] = << >>
       THEN UNCHANGED <<safeQueue, received>>
       ELSE /\ safeQueue' = Tail(view[Consumer])
            /\ received' = Append(received, Head(view[Consumer]))
  /\ view' = [view EXCEPT ![Consumer] = << >>]
  /\ popPc' = "unlock"
  /\ UNCHANGED <<frontLock, pushPc, connectionStatus, pushes>>

PopUnlock ==
  /\ popPc = "unlock"
  /\ Unlock
  /\ popPc' = "send"
  /\ UNCHANGED <<safeQueue, view, pushPc, connectionStatus, pushes, received>>

\* sendData(mes), which sends it, fails or is refused; a failure is a LinkDown.
Send ==
  /\ popPc = "send"
  /\ popPc' = "poll"
  /\ UNCHANGED aside

Pop == Poll \/ PollDown \/ Size \/ SizeZero \/ PopLock \/ PopBody \/ PopUnlock \/ Send

\* acceptSocket, and closeSocket of whichever thread, at any moment.
LinkUp ==
  /\ connectionStatus' = TRUE
  /\ UNCHANGED <<safeQueue, frontLock, view, pushPc, popPc, pushes, received>>
LinkDown ==
  /\ connectionStatus' = FALSE
  /\ UNCHANGED <<safeQueue, frontLock, view, pushPc, popPc, pushes, received>>

Next == Pop \/ LinkUp \/ LinkDown \/ \E p \in Producers : Push(p)

Spec == Init /\ [][Next]_vars

\* Threads get on, and a send returns; nobody has to start a push, and the link need
\* not come up or stay up.  A size() that sees an unfinished push may answer 0.  The
\* mutex need not be fair: the pushes that could pass the consumer are finite.
Fairness ==
  /\ \A p \in Producers : WF_vars(PushBody(p) \/ PushUnlock(p))
  /\ WF_vars(Poll)
  /\ WF_vars(Size \/ SizeZero)
  /\ WF_vars(PopLock \/ PopBody \/ PopUnlock \/ Send)

FairSpec == Spec /\ Fairness

-----------------------------------------------------------------------------
\* pop never calls front() on an empty queue, although size() was asked without
\* the lock and may have answered in the middle of a push: the push it saw is
\* finished before pop gets the lock, and nobody else removes a message.
PopsNonEmpty == popPc = "pop" => view[Consumer] # << >>

\* If the link stays up from some moment on, every message pushed, before that moment
\* or after it, reaches the writer in the end.  A link that comes and goes for ever
\* may be down each time the writer looks.
AllDelivered ==
  <>[]connectionStatus =>
    \A p \in Producers, k \in 1 .. MaxPushes :
      pushes[p] >= k ~> \E n \in DOMAIN received : received[n] = <<p, k>>

\* No message is lost, duplicated or overtaken between push and pop.
C == INSTANCE Channel WITH sent <- received \o safeQueue
ChannelSpec == C!Spec
=============================================================================
