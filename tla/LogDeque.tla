------------------------------- MODULE LogDeque -------------------------------
(***************************************************************************)
(* LogQueue down to the std::deque under its std::queue.  push takes       *)
(* pushLock, pop and empty take popLock, so one pushing thread and one     *)
(* logging controller change the same deque at once.  The deque keeps its  *)
(* records in nodes of a fixed size and the nodes in a map; start and      *)
(* finish are iterators into both.  Every write the other thread can see   *)
(* is a step, in the order libstdc++ makes them.                           *)
(*                                                                         *)
(* Records are numbered in the order of their push; pushLock makes all     *)
(* pushing threads one.  Memory is sequentially consistent, as the         *)
(* unoptimised x86 build's is for these loads and stores.                  *)
(***************************************************************************)
EXTENDS Integers, Sequences

CONSTANTS
  NodeSize,     \* records in a node: 4 for an array of four strings
  MapSize,      \* places in the first map: 8
  MaxPush       \* bound: records pushed

ASSUME DequeAssumption ==
  /\ NodeSize \in Nat \ {0} /\ MaxPush \in Nat
  /\ MapSize \in Nat /\ MapSize > 2

VARIABLES
  map, mapSize,     \* node of each place of the map, and its length
  slots,            \* records in the nodes, by node and position
  live, nodes,      \* nodes not freed, and how many were allocated
  start, finish,    \* iterators
  pushPc, pushed,   \* the pushing thread, and the records it has pushed
  popPc, received,  \* the logging controller, and the records it has popped
  record,           \* what front() gave it
  moved             \* locals of _M_reallocate_map: the new place of the first node,
                    \* and the number of nodes

pusher == <<finish, pushPc, pushed, moved, map, mapSize, nodes>>
popper == <<popPc, received, record>>
dequeVars == <<pusher, popper, slots, live, start>>

popped == Len(received)

PushPcs == {"idle", "construct", "advance", "reallocate", "setStart", "setFinish",
            "allocate", "constructLast", "setNode", "setCur"}
PopPcs == {"empty", "front", "pop", "setNode", "setCur", "undefined"}

Nodes == 1 .. MaxPush + 1
\* A map is at most as long as the first one, or as the last doubling makes it.
Places == 1 .. MapSize + 4 * MaxPush + 6
\* _M_last is always _M_first + NodeSize, so it has no variable.
Iterators == [place : Places, first : Nodes, node : Nodes, slot : 1 .. NodeSize]

DequeTypeOK ==
  /\ map \in [Places -> Nodes \cup {0}] /\ mapSize \in Places
  /\ slots \in [Nodes -> [1 .. NodeSize -> 0 .. MaxPush]]
  /\ live \subseteq Nodes /\ nodes \in Nodes
  /\ start \in Iterators /\ finish \in Iterators
  /\ pushPc \in PushPcs /\ pushed \in 0 .. MaxPush
  /\ popPc \in PopPcs /\ received \in Seq(0 .. MaxPush) /\ popped <= MaxPush
  /\ record \in 0 .. MaxPush
  /\ moved \in [place : Places, count : Nodes]

\* One node in the middle of the map.
DequeInit ==
  LET middle == (MapSize - 1) \div 2 + 1
      begin == [place |-> middle, first |-> 1, node |-> 1, slot |-> 1]
  IN /\ map = [p \in Places |-> IF p = middle THEN 1 ELSE 0]
     /\ mapSize = MapSize
     /\ slots = [n \in Nodes |-> [k \in 1 .. NodeSize |-> 0]]
     /\ live = {1} /\ nodes = 1
     /\ start = begin /\ finish = begin
     /\ pushPc = "idle" /\ pushed = 0
     /\ popPc = "empty" /\ received = << >>
     /\ record = 0
     /\ moved = [place |-> middle, count |-> 1]

-----------------------------------------------------------------------------
(* push                                                                     *)

PushTo(from, to) == pushPc = from /\ pushPc' = to

\* Mutant of PushBegins: the last place of the map is taken for one before the end.
PushBegins_OffByOne ==
  /\ pushed < MaxPush
  /\ PushTo("idle", IF finish.slot # NodeSize THEN "construct"
                    ELSE IF finish.place > mapSize THEN "reallocate" ELSE "allocate")
  /\ UNCHANGED <<finish, pushed, moved, map, mapSize, nodes, popper, slots, live, start>>

\* push_back: is there room in the last node, and then in the map?
PushBegins ==
  /\ pushed < MaxPush
  /\ PushTo("idle", IF finish.slot # NodeSize THEN "construct"
                    ELSE IF finish.place = mapSize THEN "reallocate" ELSE "allocate")
  /\ UNCHANGED <<finish, pushed, moved, map, mapSize, nodes, popper, slots, live, start>>

Construct(from, to) ==
  /\ PushTo(from, to)
  /\ slots' = [slots EXCEPT ![finish.node][finish.slot] = pushed + 1]
  /\ UNCHANGED <<finish, pushed, moved, map, mapSize, nodes, popper, live, start>>

Advance ==
  /\ PushTo("advance", "idle")
  /\ finish' = [finish EXCEPT !.slot = @ + 1]
  /\ pushed' = pushed + 1
  /\ UNCHANGED <<moved, map, mapSize, nodes, popper, slots, live, start>>

\* _M_reallocate_map(1, false): the nodes in use are moved to the middle of the
\* map when it is more than twice as long as needed, or else to a longer one.
Reallocate ==
  LET inUse == finish.place - start.place + 1
      size == IF mapSize > 2 * (inUse + 1) THEN mapSize ELSE 2 * mapSize + 2
      begin == (size - (inUse + 1)) \div 2 + 1
  IN /\ PushTo("reallocate", "setStart")
     /\ map' = [p \in Places |->
                  IF p \in begin .. begin + inUse - 1 THEN map[start.place + (p - begin)]
                  ELSE IF size = mapSize THEN map[p] ELSE 0]
     /\ mapSize' = size
     /\ moved' = [place |-> begin, count |-> inUse]
     /\ UNCHANGED <<finish, pushed, nodes, popper, slots, live, start>>

SetStart ==
  /\ PushTo("setStart", "setFinish")
  /\ start' = [start EXCEPT !.place = moved.place, !.first = map[moved.place]]
  /\ UNCHANGED <<finish, pushed, moved, map, mapSize, nodes, popper, slots, live>>

SetFinish ==
  /\ PushTo("setFinish", "allocate")
  /\ LET last == moved.place + moved.count - 1
     IN finish' = [finish EXCEPT !.place = last, !.first = map[last]]
  /\ UNCHANGED <<pushed, moved, map, mapSize, nodes, popper, slots, live, start>>

AllocateNode ==
  /\ PushTo("allocate", "constructLast")
  /\ nodes' = nodes + 1
  /\ live' = live \cup {nodes'}
  /\ map' = [map EXCEPT ![finish.place + 1] = nodes']
  /\ UNCHANGED <<finish, pushed, moved, mapSize, popper, slots, start>>

FinishNode ==
  /\ PushTo("setNode", "setCur")
  /\ finish' = [finish EXCEPT !.place = @ + 1, !.first = map[finish.place + 1]]
  /\ UNCHANGED <<pushed, moved, map, mapSize, nodes, popper, slots, live, start>>

FinishCur ==
  /\ PushTo("setCur", "idle")
  /\ finish' = [finish EXCEPT !.node = finish.first, !.slot = 1]
  /\ pushed' = pushed + 1
  /\ UNCHANGED <<moved, map, mapSize, nodes, popper, slots, live, start>>

Push ==
  \/ PushBegins \/ Construct("construct", "advance") \/ Advance
  \/ Reallocate \/ SetStart \/ SetFinish
  \/ AllocateNode \/ Construct("constructLast", "setNode") \/ FinishNode \/ FinishCur

-----------------------------------------------------------------------------
(* empty and pop, as the loop of one logging controller calls them.         *)

PopTo(from, to) == popPc = from /\ popPc' = to

\* Mutant of SeesRecord: empty() is not asked.
SeesRecord_NotAsked ==
  /\ PopTo("empty", "front")
  /\ UNCHANGED <<pusher, received, record, slots, live, start>>

\* Mutant of SeesRecord: the last record is left for later.
SeesRecord_KeepsLast ==
  /\ pushed > popped + 1
  /\ PopTo("empty", "front")
  /\ UNCHANGED <<pusher, received, record, slots, live, start>>

\* empty(): the _M_cur of the two iterators are compared.
SeesRecord ==
  /\ <<start.node, start.slot>> # <<finish.node, finish.slot>>
  /\ PopTo("empty", "front")
  /\ UNCHANGED <<pusher, received, record, slots, live, start>>

Front ==
  /\ PopTo("front", "pop")
  /\ record' = slots[start.node][start.slot]
  /\ UNCHANGED <<pusher, received, slots, live, start>>

\* Mutant of PopInNode: an empty node is not given back.
PopInNode_KeepsNode ==
  /\ PopTo("pop", IF start.slot # NodeSize THEN "empty" ELSE "setNode")
  /\ slots' = [slots EXCEPT ![start.node][start.slot] = 0]
  /\ IF start.slot # NodeSize
       THEN start' = [start EXCEPT !.slot = @ + 1] /\ received' = Append(received, record)
       ELSE UNCHANGED <<start, received>>
  /\ UNCHANGED <<pusher, record, live>>

\* pop_front: the record is destroyed; the last one of a node takes the node along.
PopInNode ==
  /\ PopTo("pop", IF start.slot # NodeSize THEN "empty" ELSE "setNode")
  /\ slots' = [slots EXCEPT ![start.node][start.slot] = 0]
  /\ IF start.slot # NodeSize
       THEN /\ start' = [start EXCEPT !.slot = @ + 1]
            /\ received' = Append(received, record)
            /\ UNCHANGED live
       ELSE live' = live \ {start.first} /\ UNCHANGED <<start, received>>
  /\ UNCHANGED <<pusher, record>>

StartNode ==
  /\ PopTo("setNode", "setCur")
  /\ start' = [start EXCEPT !.place = @ + 1, !.first = map[start.place + 1]]
  /\ UNCHANGED <<pusher, received, record, slots, live>>

StartCur ==
  /\ PopTo("setCur", "empty")
  /\ start' = [start EXCEPT !.node = start.first, !.slot = 1]
  /\ received' = Append(received, record)
  /\ UNCHANGED <<pusher, record, slots, live>>

Pop == SeesRecord \/ Front \/ PopInNode \/ StartNode \/ StartCur

-----------------------------------------------------------------------------
\* The one race with consequences: start leaves a node while it is being moved
\* with the map.  Either thread then uses a place or a node that is gone.
Race == popPc = "setNode" /\ pushPc = "setStart"

\* What follows a race is undefined and not modelled.
Undefined ==
  /\ Race \/ popPc = "undefined"
  /\ popPc' = "undefined"
  /\ UNCHANGED <<pusher, received, record, slots, live, start>>

\* Everything is pushed and popped.
Done == pushed = MaxPush /\ popped = MaxPush /\ UNCHANGED dequeVars

DequeNext ==
  \/ ~Race /\ popPc # "undefined" /\ (Push \/ Pop)
  \/ Undefined
  \/ Done

DequeSpec == DequeInit /\ [][DequeNext]_dequeVars
DequeFairSpec ==
  DequeSpec /\ WF_dequeVars(popPc # "undefined" /\ Push) /\ WF_dequeVars(~Race /\ Pop)

-----------------------------------------------------------------------------
(* Properties.                                                              *)

\* Although the two threads exclude each other nowhere, the deque is a channel:
\* records are popped in the order of their push, none twice, none skipped and
\* none before it has been constructed: up to the first Race.
Fifo == INSTANCE Channel WITH Messages <- 1 .. MaxPush, sent <- [r \in 1 .. pushed |-> r]
ImplementsChannel == Fifo!Spec

\* Until they race, neither thread touches memory it does not have: each place of the
\* map that the step it is at reads or writes lies in the map as it is now, whichever
\* thread has moved or filled it, and each record that is made, read or destroyed is
\* in a node that is not freed.
InMap(place) == place \in 1 .. mapSize
MemorySafe ==
  ~Race /\ popPc # "undefined" =>
    /\ pushPc = "reallocate" => \A p \in start.place .. finish.place : InMap(p)
    /\ pushPc = "setStart" => InMap(moved.place)
    /\ pushPc = "setFinish" => InMap(moved.place + moved.count - 1)
    /\ pushPc \in {"allocate", "setNode"} => InMap(finish.place + 1)
    /\ popPc = "setNode" => InMap(start.place + 1)
    /\ pushPc \in {"construct", "constructLast"} => finish.node \in live
    /\ popPc \in {"front", "pop"} => start.node \in live

\* No node leaks and none in use is freed: between two operations the nodes that
\* are allocated are the ones from start to finish in the map.
NodesOwned ==
  pushPc = "idle" /\ popPc = "empty" =>
    live = {map[p] : p \in start.place .. finish.place}

\* Unless they race, the logging controller drains what is pushed.
Drains == <>(popped = MaxPush \/ popPc = "undefined")
=============================================================================
