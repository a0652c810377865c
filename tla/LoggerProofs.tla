---------------------------- MODULE LoggerProofs ----------------------------
(***************************************************************************)
(* Proofs about the logging controllers: the loop of one (LoggerLoop), for *)
(* any work, any settings and any word size, and the deque they take their *)
(* records from (LogDeque), for any node size, first map and number of     *)
(* records.                                                                *)
(***************************************************************************)
EXTENDS LoggerLoop, LogDeque, TLAPS

-----------------------------------------------------------------------------
(* LoggerLoop: the CPU share.                                               *)

LEMMA DivisionBounds ==
  ASSUME NEW n \in Nat, NEW d \in Nat \ {0}
  PROVE  /\ n \div d \in Nat
         /\ d * (n \div d) <= n
         /\ n < d * (n \div d) + d
  OBVIOUS

LEMMA SmallRemainder ==
  ASSUME NEW n \in Nat, NEW d \in Nat \ {0}, n < d
  PROVE  n % d = n
  OBVIOUS

(* A sleep is at most the share of the work, and short by less than one.      *)
LEMMA SleepBounds ==
  ASSUME NEW p \in 1 .. 99, NEW w \in Nat \ {0}, NEW s \in SleepTimes(p, w)
  PROVE  /\ s \in Nat
         /\ p * s <= (100 - p) * w
         /\ (100 - p) * w <= p * (s + 1)
<1> DEFINE n == w * (100 - p)
           q == n \div p
<1>1. n \in Nat \ {0} /\ n = (100 - p) * w
  OBVIOUS
<1>2. q \in Nat /\ p * q <= n /\ n < p * q + p
  BY <1>1, DivisionBounds
<1>3. s = q \/ (s = q - 1 /\ n % p = 0)
  BY DEF SleepTimes, Exact
<1>4. CASE s = q
  BY <1>1, <1>2, <1>4
<1>5. CASE s = q - 1 /\ n % p = 0
  <2>1. n = p * q  BY <1>1, <1>5
  <2>2. q # 0  BY <1>1, <2>1
  <2>3. p * s = n - p  BY <1>2, <1>5, <2>1
  <2> QED  BY <1>1, <1>2, <1>5, <2>1, <2>2, <2>3
<1> QED  BY <1>3, <1>4, <1>5

(* The promise in the middle of an iteration: it holds of the work that the   *)
(* limiter has seen.                                                          *)
Settled ==
  cpuPercentage \in 1 .. 99 /\ ~wrapped =>
    /\ cpuPercentage * slept <= (100 - cpuPercentage) * (worked - workflow)
    /\ (100 - cpuPercentage) * (worked - workflow) <= cpuPercentage * (slept + calls)

Inv ==
  /\ LimiterOK
  /\ workflow <= worked
  /\ pc = "route" /\ cpuPercentage \in 1 .. 99 => workflow = 0
  /\ Settled

LEMMA InitInv == Init => Inv
<1> SUFFICES ASSUME Init PROVE Inv  OBVIOUS
<1>1. cpuPercentage \in 0 .. 100
  BY LoopAssumption DEF Init, Percentage
<1>2. workflow = 0 /\ worked = 0 /\ slept = 0 /\ calls = 0 /\ wrapped = FALSE
  BY DEF Init
<1>3. cpuPercentage * 0 = 0 /\ (100 - cpuPercentage) * 0 = 0
  BY <1>1
<1>4. Settled
  BY <1>2, <1>3 DEF Settled
<1>5. LimiterOK
  <2>1. wrapped \in BOOLEAN  BY <1>2, Zenon
  <2> QED  BY <1>1, <1>2, <2>1 DEF LimiterOK
<1>6. workflow <= worked /\ (pc = "route" /\ cpuPercentage \in 1 .. 99 => workflow = 0)
  BY <1>2
<1> QED  BY <1>4, <1>5, <1>6 DEF Inv

(* Work that the limiter has not seen yet disturbs nothing. *)
LEMMA SpendingKeeps ==
  ASSUME Inv, NEW cpu \in Nat, Spends(cpu),
         UNCHANGED <<cpuPercentage, slept, calls, wrapped>>
  PROVE  /\ workflow' \in Nat /\ worked' \in Nat /\ workflow' <= worked'
         /\ Settled'
<1>1. worked' - workflow' = worked - workflow
  BY DEF Inv, LimiterOK, Spends
<1> QED  BY <1>1 DEF Inv, LimiterOK, Spends, Settled

(* A call of CalculateAndSleep turns the work not seen yet into sleep.        *)
LEMMA LimitKeeps ==
  ASSUME Inv, Limit
  PROVE  Inv'
<1> USE DEF Inv, LimiterOK
<1>1. CASE cpuPercentage = 100 \/ workflow = 0
  <2>1. UNCHANGED <<limiter, worked>> /\ pc' = "route"
    BY <1>1 DEF Limit
  <2> QED  BY <1>1, <2>1 DEF limiter, Settled
<1>2. CASE cpuPercentage # 100 /\ workflow # 0
  <2>1. PICK s \in SleepTimes(cpuPercentage, workflow), wait \in 0 .. MaxWait :
          /\ slept' = slept + (s % WordSize)
          /\ wrapped' = (wrapped \/ s >= WordSize)
          /\ calls' = calls + 1
          /\ workflow' = 0
          /\ UNCHANGED cpuPercentage
    BY <1>2 DEF Limit
  <2>2. worked' = worked /\ pc' = "route"
    BY DEF Limit
  <2>3. s \in Nat
    <3>1. CASE cpuPercentage = 0  BY <3>1 DEF SleepTimes
    <3>2. CASE cpuPercentage # 0
      BY <1>2, <3>2, SleepBounds, SMTT(20)
    <3> QED  BY <3>1, <3>2
  <2>4. s % WordSize \in Nat  BY <2>3, LoopAssumption
  <2>5. LimiterOK'
    BY <2>1, <2>2, <2>4
  <2>6. Settled'
    <3> DEFINE p == cpuPercentage
               seen == worked - workflow
    <3>1. SUFFICES ASSUME p \in 1 .. 99, ~wrapped'
          PROVE  /\ p * slept' <= (100 - p) * worked
                 /\ (100 - p) * worked <= p * (slept' + calls')
      BY <2>1, <2>2 DEF Settled
    <3>2. ~wrapped /\ s % WordSize = s
      <4>1. ~wrapped /\ ~(s >= WordSize)  BY <2>1, <3>1, Zenon
      <4> QED  BY <2>3, <4>1, SmallRemainder, LoopAssumption
    <3>3. p * s <= (100 - p) * workflow /\ (100 - p) * workflow <= p * (s + 1)
      BY <1>2, <3>1, SleepBounds
    <3>4. p * slept <= (100 - p) * seen /\ (100 - p) * seen <= p * (slept + calls)
      BY <3>1, <3>2 DEF Settled
    <3>5. p * (slept + s) = p * slept + p * s
          /\ p * (slept + s + (calls + 1)) = p * (slept + calls) + p * (s + 1)
          /\ (100 - p) * worked = (100 - p) * seen + (100 - p) * workflow
      BY <2>3
    <3> QED  BY <2>1, <2>3, <3>2, <3>3, <3>4, <3>5
  <2> QED  BY <2>1, <2>2, <2>5, <2>6
<1> QED  BY <1>1, <1>2

(* The inductive invariant: the share is kept of the work the limiter has seen. *)
THEOREM Inductive == Spec => []Inv
<1>1. Inv /\ [Next]_vars => Inv'
  <2> SUFFICES ASSUME Inv, [Next]_vars PROVE Inv'  OBVIOUS
  <2>1. CASE Route
    <3>1. PICK cpu \in 0 .. MaxWork : Spends(cpu)
      BY <2>1 DEF Route
    <3>2. UNCHANGED <<cpuPercentage, slept, calls, wrapped>> /\ pc' = "cut"
      BY <2>1 DEF Route
    <3> QED  BY <3>1, <3>2, SpendingKeeps, LoopAssumption DEF Inv, LimiterOK
  <2>2. CASE Cut
    <3>1. UNCHANGED <<cpuPercentage, slept, calls, wrapped>> /\ pc' = "limit"
      BY <2>2 DEF Cut
    <3>2. CASE age > Interval
      <4>1. PICK cpu \in 0 .. MaxWork : Spends(cpu)
        BY <2>2, <3>2 DEF Cut
      <4> QED  BY <3>1, <4>1, SpendingKeeps, LoopAssumption DEF Inv, LimiterOK
    <3>3. CASE ~(age > Interval)
      BY <2>2, <3>1, <3>3 DEF Cut, Inv, LimiterOK, Settled
    <3> QED  BY <3>2, <3>3
  <2>3. CASE Limit
    BY <2>3, LimitKeeps
  <2>4. CASE UNCHANGED vars
    BY <2>4 DEF vars, limiter, Inv, LimiterOK, Settled
  <2> QED  BY <2>1, <2>2, <2>3, <2>4 DEF Next, Bounded
<1> QED  BY InitInv, <1>1, PTL DEF Spec

(* Whatever an iteration costs and whatever the share, the loop has slept for *)
(* its work after each iteration, to a microsecond for each sleep.            *)
THEOREM ShareKept == Spec => []CpuShare
<1>1. Inv => CpuShare
  BY DEF Inv, LimiterOK, Settled, CpuShare
<1> QED  BY Inductive, <1>1, PTL

-----------------------------------------------------------------------------
(* What a report covers.                                                    *)

LEMMA DivisionMonotone ==
  ASSUME NEW m \in Nat, NEW n \in Nat, NEW d \in Nat \ {0}, m <= n
  PROVE  m \div d <= n \div d
<1> DEFINE a == m \div d
           b == n \div d
<1>1. a \in Nat /\ b \in Nat /\ d * a <= m /\ n < d * b + d
  BY DivisionBounds
<1>2. d * a < d * (b + 1)
  BY <1>1
<1> HIDE DEF a, b
<1>3. a < b + 1
  BY <1>1, <1>2
<1>4. a <= b
  BY <1>1, <1>3
<1> QED  BY <1>4 DEF a, b

LEMMA RemainderBound ==
  ASSUME NEW n \in Nat, NEW d \in Nat \ {0}
  PROVE  n % d \in Nat /\ n % d <= n
<1>1. n % d \in 0 .. d - 1
  OBVIOUS
<1>2. CASE n < d
  BY <1>2, SmallRemainder
<1>3. CASE ~(n < d)
  BY <1>1, <1>3
<1> QED  BY <1>2, <1>3

(* CPU time waits for the limiter for two steps at most, and then costs the   *)
(* longest sleep; the age is looked at in every iteration.                    *)
WorkBounded ==
  cpuPercentage \in 1 .. 99 =>
    /\ pc = "cut" => workflow <= MaxWork
    /\ pc = "limit" => workflow <= 2 * MaxWork

AgeBounded ==
  /\ pc = "route" => age <= Interval + LongestSleep + MaxWait
  /\ pc = "cut" => age <= Interval + LongestLoop
  /\ pc = "limit" => age <= Interval

CoverInv ==
  /\ TypeOK
  /\ WorkBounded
  /\ AgeBounded
  /\ ReportsCover

LEMMA LongestSleepNat ==
  ASSUME Inv
  PROVE  LongestSleep \in Nat
<1>1. CASE cpuPercentage = 0
  BY <1>1 DEF LongestSleep
<1>2. CASE cpuPercentage # 0
  <2>1. cpuPercentage \in Nat \ {0} /\ (2 * MaxWork) * (100 - cpuPercentage) \in Nat
    BY <1>2, LoopAssumption DEF Inv, LimiterOK
  <2> QED  BY <1>2, <2>1, DivisionBounds DEF LongestSleep, Exact
<1> QED  BY <1>1, <1>2

(* The sleep of an iteration, once it is an unsigned int. *)
LEMMA SleepAtMost ==
  ASSUME Inv, WorkBounded, pc = "limit", cpuPercentage # 100, workflow # 0,
         NEW s \in SleepTimes(cpuPercentage, workflow)
  PROVE  s % WordSize \in Nat /\ s % WordSize <= LongestSleep
<1> DEFINE p == cpuPercentage
<1>1. CASE p = 0
  <2>1. s = 0
    BY <1>1 DEF SleepTimes
  <2> QED  BY <1>1, <2>1, RemainderBound, LoopAssumption DEF LongestSleep
<1>2. CASE p # 0
  <2>1. p \in 1 .. 99 /\ workflow \in Nat \ {0} /\ workflow <= 2 * MaxWork /\ MaxWork \in Nat
    BY <1>2, LoopAssumption DEF Inv, LimiterOK, WorkBounded
  <2>2. s \in Nat
    BY <2>1, SleepBounds
  <2>3. s <= Exact(p, workflow)
    <3>1. Exact(p, workflow) \in Int
      <4>1. workflow * (100 - p) \in Nat /\ p \in Nat \ {0}
        BY <2>1
      <4> QED  BY <4>1, DivisionBounds DEF Exact
    <3> QED  BY <1>2, <3>1 DEF SleepTimes
  <2>4. Exact(p, workflow) <= LongestSleep
    <3>1. /\ workflow * (100 - p) \in Nat /\ (2 * MaxWork) * (100 - p) \in Nat
          /\ workflow * (100 - p) <= (2 * MaxWork) * (100 - p) /\ p \in Nat \ {0}
      BY <2>1
    <3> QED  BY <1>2, <3>1, DivisionMonotone DEF LongestSleep, Exact
  <2>5. Exact(p, workflow) \in Int /\ LongestSleep \in Int
    <3>1. workflow * (100 - p) \in Nat /\ p \in Nat \ {0}
      BY <2>1
    <3> QED  BY <3>1, DivisionBounds, LongestSleepNat DEF Exact
  <2>6. s % WordSize \in Nat /\ s % WordSize <= s
    BY <2>2, RemainderBound, LoopAssumption
  <2> QED  BY <2>2, <2>3, <2>4, <2>5, <2>6
<1> QED  BY <1>1, <1>2

LEMMA InitCover == Init => CoverInv
<1> SUFFICES ASSUME Init PROVE CoverInv  OBVIOUS
<1>1. Inv
  BY InitInv
<1>2. LongestSleep \in Nat
  BY <1>1, LongestSleepNat
<1>3. workflow = 0 /\ age = 0 /\ pc = "route" /\ lastAge = 0 /\ loops = 0
  BY DEF Init
<1>4. \A t \in Types : count[t] = 0 /\ routed[t] = 0 /\ reported[t] = 0
  BY DEF Init, NoRecords
<1>5. TypeOK
  <2>1. count \in [Types -> Nat] /\ routed \in [Types -> Nat] /\ reported \in [Types -> Nat]
    BY DEF Init, NoRecords
  <2> QED  BY <1>1, <1>3, <2>1 DEF TypeOK, Inv
<1>6. WorkBounded
  BY <1>3 DEF WorkBounded
<1>7. AgeBounded
  BY <1>2, <1>3, LoopAssumption DEF AgeBounded
<1>8. ReportsCover
  BY <1>3, <1>4 DEF ReportsCover
<1> QED  BY <1>5, <1>6, <1>7, <1>8 DEF CoverInv

LEMMA CoverInductive == Spec => []CoverInv
<1>1. Inv /\ Inv' /\ CoverInv /\ [Next]_vars => CoverInv'
  <2> SUFFICES ASSUME Inv, Inv', CoverInv, [Next]_vars PROVE CoverInv'
    OBVIOUS
  <2>0. LongestSleep \in Nat /\ TypeOK /\ WorkBounded /\ AgeBounded /\ ReportsCover
    BY LongestSleepNat DEF CoverInv
  <2>a. MaxWork \in Nat /\ MaxWait \in Nat /\ Interval \in Nat
    BY LoopAssumption
  <2>b. cpuPercentage' = cpuPercentage
    BY DEF Next, Route, Cut, Limit, Bounded, limiter, vars
  <2>c. LongestSleep' = LongestSleep /\ LongestLoop' = LongestLoop
    BY <2>b DEF LongestLoop, LongestSleep, Exact
  <2>1. CASE Route
    <3>1. PICK cpu \in 0 .. MaxWork, wait \in 0 .. MaxWait : Spends(cpu) /\ age' = age + cpu + wait
      BY <2>1 DEF Route
    <3>2. pc = "route" /\ pc' = "cut" /\ UNCHANGED <<reported, lastAge, loops>>
      BY <2>1 DEF Route
    <3>3. \/ UNCHANGED <<count, routed>>
          \/ \E t \in Types : /\ count' = [count EXCEPT ![t] = @ + 1]
                              /\ routed' = [routed EXCEPT ![t] = @ + 1]
      BY <2>1 DEF Route
    <3>4. /\ count' \in [Types -> Nat] /\ routed' \in [Types -> Nat]
          /\ \A t \in Types : routed'[t] = reported[t] + count'[t]
      BY <2>0, <3>3 DEF TypeOK, ReportsCover
    <3>5. TypeOK'
      BY <2>0, <2>a, <3>1, <3>2, <3>4 DEF TypeOK, Inv
    <3>6. WorkBounded'
      BY <2>a, <2>b, <3>1, <3>2 DEF WorkBounded, Inv, Spends
    <3>7. AgeBounded'
      BY <2>0, <2>a, <2>c, <3>1, <3>2 DEF AgeBounded, LongestLoop, TypeOK
    <3> QED  BY <2>0, <2>c, <3>2, <3>4, <3>5, <3>6, <3>7 DEF CoverInv, ReportsCover
  <2>2. CASE Cut
    <3>1. pc = "cut" /\ pc' = "limit" /\ UNCHANGED <<routed, loops>>
      BY <2>2 DEF Cut
    <3>2. CASE age > Interval
      <4>1. PICK cpu \in 0 .. MaxWork : Spends(cpu)
        BY <2>2, <3>2 DEF Cut
      <4>2. Report /\ lastAge' = age /\ count' = NoRecords /\ age' = 0
        BY <2>2, <3>2 DEF Cut
      <4>3. /\ count' \in [Types -> Nat] /\ reported' \in [Types -> Nat]
            /\ \A t \in Types : routed[t] = reported'[t] + count'[t]
        BY <2>0, <4>2 DEF TypeOK, ReportsCover, Report, NoRecords
      <4>4. TypeOK'
        BY <2>0, <3>1, <4>2, <4>3 DEF TypeOK, Inv
      <4>5. WorkBounded'
        BY <2>0, <2>a, <2>b, <3>1, <4>1 DEF WorkBounded, Inv, LimiterOK, Spends
      <4>6. AgeBounded'
        BY <2>a, <3>1, <4>2 DEF AgeBounded
      <4>7. lastAge' > Interval /\ lastAge' <= Interval + LongestLoop
        BY <2>0, <3>1, <3>2, <4>2 DEF AgeBounded
      <4> QED  BY <2>c, <3>1, <4>3, <4>4, <4>5, <4>6, <4>7 DEF CoverInv, ReportsCover
    <3>3. CASE ~(age > Interval)
      <4>1. UNCHANGED <<workflow, count, reported, lastAge, age>>
        BY <2>2, <3>3 DEF Cut, batchEntry
      <4>2. TypeOK'
        BY <2>0, <3>1, <4>1 DEF TypeOK, Inv
      <4>3. WorkBounded'
        BY <2>0, <2>a, <2>b, <3>1, <4>1 DEF WorkBounded, Inv, LimiterOK
      <4>4. AgeBounded'
        BY <2>0, <2>a, <3>1, <3>3, <4>1 DEF AgeBounded, TypeOK
      <4> QED  BY <2>0, <2>c, <3>1, <4>1, <4>2, <4>3, <4>4 DEF CoverInv, ReportsCover
    <3> QED  BY <3>2, <3>3
  <2>3. CASE Limit
    <3>1. pc = "limit" /\ pc' = "route" /\ loops' = loops + 1 /\ UNCHANGED <<count, reported, lastAge, routed>>
      BY <2>3 DEF Limit, batchEntry
    <3>2. age' \in Nat /\ age' <= age + LongestSleep + MaxWait
      <4>1. CASE cpuPercentage = 100 \/ workflow = 0
        BY <2>0, <2>3, <2>a, <4>1 DEF Limit, TypeOK
      <4>2. CASE cpuPercentage # 100 /\ workflow # 0
        <5>1. PICK s \in SleepTimes(cpuPercentage, workflow), wait \in 0 .. MaxWait :
                age' = age + (s % WordSize) + wait
          BY <2>3, <4>2 DEF Limit
        <5>2. s % WordSize \in Nat /\ s % WordSize <= LongestSleep
          BY <2>0, <3>1, <4>2, SleepAtMost
        <5> QED  BY <2>0, <2>a, <5>1, <5>2 DEF TypeOK
      <4> QED  BY <4>1, <4>2
    <3>3. TypeOK'
      BY <2>0, <3>1, <3>2 DEF TypeOK, Inv
    <3>4. WorkBounded'
      BY <3>1 DEF WorkBounded
    <3>5. AgeBounded'
      BY <2>0, <2>a, <2>c, <3>1, <3>2 DEF AgeBounded, TypeOK
    <3> QED  BY <2>0, <2>c, <3>1, <3>3, <3>4, <3>5 DEF CoverInv, ReportsCover
  <2>4. CASE UNCHANGED vars
    BY <2>0, <2>4, <2>c DEF vars, limiter, batchEntry, CoverInv, TypeOK, LimiterOK, WorkBounded, AgeBounded, ReportsCover
  <2> QED  BY <2>1, <2>2, <2>3, <2>4 DEF Next, Bounded
<1> QED  BY InitCover, <1>1, Inductive, PTL DEF Spec

(* Every record routed is counted by the next report, under its own type, and *)
(* a report comes at most one sleep of the limiter and one iteration after    *)
(* the interval, whatever the interval, the share and the cost of a step.     *)
THEOREM ReportsAreComplete == Spec => []ReportsCover
<1>1. CoverInv => ReportsCover
  BY DEF CoverInv
<1> QED  BY <1>1, CoverInductive, PTL

(* Every variable keeps its type. *)
THEOREM TypeCorrect == Spec => []TypeOK
<1>1. CoverInv => TypeOK
  BY DEF CoverInv
<1> QED  BY <1>1, CoverInductive, PTL

-----------------------------------------------------------------------------
(* LogDeque: numbers of records.                                            *)

(* The number of the record that slot k of node n is for.                   *)
Index(n, k) == (n - 1) * NodeSize + k

LEMMA IndexFacts ==
  ASSUME NEW n \in Nat \ {0}, NEW k \in 1 .. NodeSize
  PROVE  /\ Index(n, k) \in Nat \ {0}
         /\ k # NodeSize => Index(n, k + 1) = Index(n, k) + 1
         /\ Index(n + 1, 1) = Index(n, NodeSize) + 1
         /\ n <= Index(n, NodeSize)
<1>1. NodeSize \in Nat \ {0} /\ k \in Nat \ {0}
  BY DequeAssumption
<1>2. PICK N \in Nat \ {0} : N = NodeSize
  BY <1>1
<1>3. (n - 1) * N \in Nat
  BY <1>2
<1>4. ((n + 1) - 1) * N = (n - 1) * N + N
  BY <1>2
<1>5. n - 1 <= (n - 1) * N
  BY <1>2
<1> QED  BY <1>1, <1>2, <1>3, <1>4, <1>5 DEF Index

(* Nodes and slots are counted from 1, and so are records. *)
LEMMA IndexIsNumber ==
  ASSUME NEW n \in Nodes, NEW k \in 1 .. NodeSize
  PROVE  n \in Nat \ {0} /\ Index(n, k) \in Nat \ {0}
<1>1. n \in Nat \ {0}
  BY DequeAssumption DEF Nodes
<1>2. Index(n, k) \in Nat \ {0}
  BY <1>1, IndexFacts
<1> QED  BY <1>1, <1>2

(* Records are numbered node by node. *)
LEMMA IndexOrder ==
  ASSUME NEW n \in Nat \ {0}, NEW k \in 1 .. NodeSize, NEW m \in Nat \ {0}, NEW j \in 1 .. NodeSize
  PROVE  /\ n < m => Index(n, k) < Index(m, j)
         /\ Index(n, k) = Index(m, j) => n = m /\ k = j
<1>1. PICK N \in Nat \ {0} : N = NodeSize
  BY DequeAssumption
<1>2. ASSUME NEW a \in Nat, NEW b \in Nat, NEW x \in 1 .. N, NEW y \in 1 .. N, a < b
      PROVE  a * N + x < b * N + y
  <2>1. PICK c \in Nat : b = a + 1 + c
    BY <1>2
  <2>2. b * N = a * N + N + c * N
    BY <2>1
  <2>3. c * N \in Nat /\ a * N \in Nat
    BY <2>1
  <2> QED  BY <2>2, <2>3
<1>3. n < m => Index(n, k) < Index(m, j)
  BY <1>1, <1>2 DEF Index
<1>4. m < n => Index(m, j) < Index(n, k)
  BY <1>1, <1>2 DEF Index
<1>5. Index(n, k) \in Int /\ Index(m, j) \in Int
  BY IndexFacts
<1>6. n = m /\ Index(n, k) = Index(m, j) => k = j
  <2>1. (n - 1) * N \in Int
    BY <1>1
  <2> QED  BY <1>1, <2>1 DEF Index
<1> QED  BY <1>3, <1>4, <1>5, <1>6

-----------------------------------------------------------------------------
(* LogDeque: the invariant.  It holds of every step of push against every   *)
(* step of pop, as long as the two have not raced.                          *)

(* The iterators count the records; a pop under way has one to take. *)
Counted ==
  /\ Index(start.node, start.slot) = popped + 1
  /\ Index(finish.node, finish.slot) = pushed + 1
  /\ popped <= pushed
  /\ popPc # "empty" => popped < pushed
  /\ pushPc # "idle" => pushed < MaxPush

(* Which node an iterator is in, at each place of a push and of a pop. *)
PushNeedsNode == {"reallocate", "setStart", "setFinish", "allocate", "constructLast",
                  "setNode", "setCur"}
Pointers ==
  /\ start.first = IF popPc = "setCur" THEN start.node + 1 ELSE start.node
  /\ finish.first = IF pushPc = "setCur" THEN finish.node + 1 ELSE finish.node
  /\ popPc \in {"setNode", "setCur"} => start.slot = NodeSize
  /\ pushPc \in {"construct", "advance"} => finish.slot # NodeSize
  /\ pushPc \in PushNeedsNode => finish.slot = NodeSize
  /\ start.first <= finish.first

(* The places of the first and the last node, also while the iterators still  *)
(* have those of the map before it was moved.                                 *)
StartPlace == IF pushPc = "setStart" THEN moved.place ELSE start.place
FinishPlace ==
  IF pushPc \in {"setStart", "setFinish"} THEN moved.place + moved.count - 1 ELSE finish.place

(* The nodes lie in the map in the order of their allocation, and those that  *)
(* are allocated are the ones the iterators bound.                            *)
Attaching == pushPc \in {"constructLast", "setNode"}
MapFits ==
  /\ FinishPlace = StartPlace + (finish.first - start.first)
  /\ FinishPlace <= mapSize
  /\ \A n \in start.first .. finish.first : map[StartPlace + (n - start.first)] = n
  /\ pushPc \in {"setStart", "setFinish", "allocate"} => FinishPlace < mapSize
  /\ Attaching => FinishPlace < mapSize /\ map[FinishPlace + 1] = nodes
  /\ nodes = IF Attaching THEN finish.first + 1 ELSE finish.first
  /\ pushPc = "setStart" => moved.count = finish.first - start.first + 1
  /\ live = (IF popPc = "setNode" THEN start.first + 1 ELSE start.first) .. nodes

(* Each record that is in the deque lies where its number says. *)
Destroyed == IF popPc \in {"setNode", "setCur"} THEN popped + 1 ELSE popped
SlotsFit ==
  /\ \A n \in Nodes, k \in 1 .. NodeSize :
       Destroyed < Index(n, k) /\ Index(n, k) <= pushed => slots[n][k] = Index(n, k)
  /\ pushPc \in {"advance", "setNode", "setCur"} => slots[finish.node][finish.slot] = pushed + 1

(* What is popped so far, and what front() gave the pop under way. *)
Delivered ==
  /\ \A i \in 1 .. popped : received[i] = i
  /\ popPc \in {"pop", "setNode", "setCur"} => record = popped + 1

Fits == Counted /\ Pointers /\ MapFits /\ SlotsFit /\ Delivered

(* After a race nothing happens any more. *)
DequeInv == DequeTypeOK /\ (popPc # "undefined" => Fits)

-----------------------------------------------------------------------------
(* LogDeque: what the types say.                                            *)

LEMMA DequeConstants ==
  /\ NodeSize \in Nat /\ NodeSize >= 1 /\ MaxPush \in Nat /\ MapSize \in Nat /\ MapSize > 2
  /\ \A n : n \in Nodes <=> n \in Nat /\ 1 <= n /\ n <= MaxPush + 1
  /\ \A p : p \in Places <=> p \in Nat /\ 1 <= p /\ p <= MapSize + 4 * MaxPush + 6
BY DequeAssumption DEF Nodes, Places

LEMMA SlotSet ==
  ASSUME DequeTypeOK, NEW n \in Nodes, NEW k \in 1 .. NodeSize, NEW v \in 0 .. MaxPush,
         slots' = [slots EXCEPT ![n][k] = v]
  PROVE  /\ slots' \in [Nodes -> [1 .. NodeSize -> 0 .. MaxPush]]
         /\ slots'[n][k] = v
         /\ \A m \in Nodes, j \in 1 .. NodeSize :
              m # n \/ j # k => slots'[m][j] = slots[m][j]
BY DEF DequeTypeOK

(* The numbers of the places the two threads are at. *)
LEMMA DequeNumbers ==
  ASSUME DequeTypeOK
  PROVE  /\ start.node \in Nat \ {0} /\ start.first \in Nat \ {0} /\ start.place \in Nat \ {0}
         /\ finish.node \in Nat \ {0} /\ finish.first \in Nat \ {0} /\ finish.place \in Nat \ {0}
         /\ start.slot \in 1 .. NodeSize /\ finish.slot \in 1 .. NodeSize
         /\ start.node \in Nodes /\ finish.node \in Nodes
         /\ start.first \in Nodes /\ finish.first \in Nodes
         /\ start.place \in Places /\ finish.place \in Places
         /\ popped \in Nat /\ pushed \in Nat /\ popped <= MaxPush /\ pushed <= MaxPush
         /\ nodes \in Nodes /\ nodes \in Nat /\ mapSize \in Places /\ mapSize \in Nat
         /\ moved.place \in Places /\ moved.count \in Nodes
         /\ moved.place \in Nat \ {0} /\ moved.count \in Nat \ {0}
<1>1. start \in Iterators /\ finish \in Iterators /\ moved \in [place : Places, count : Nodes]
  BY DEF DequeTypeOK
<1>2. /\ start.node \in Nodes /\ start.first \in Nodes /\ start.place \in Places
      /\ start.slot \in 1 .. NodeSize
      /\ finish.node \in Nodes /\ finish.first \in Nodes /\ finish.place \in Places
      /\ finish.slot \in 1 .. NodeSize
      /\ moved.place \in Places /\ moved.count \in Nodes
  BY <1>1 DEF Iterators
<1>3. nodes \in Nodes /\ mapSize \in Places /\ pushed \in 0 .. MaxPush
      /\ popped \in Nat /\ popped <= MaxPush
  BY DEF DequeTypeOK, popped
<1>4. (\A n \in Nodes : n \in Nat \ {0}) /\ (\A p \in Places : p \in Nat \ {0})
  BY DequeConstants
<1>5. popped \in Nat /\ pushed \in Nat /\ popped <= MaxPush /\ pushed <= MaxPush
  BY <1>3, DequeConstants
<1> QED  BY <1>2, <1>3, <1>4, <1>5

LEMMA InitFits == DequeInit => DequeInv
<1> SUFFICES ASSUME DequeInit PROVE DequeInv
  OBVIOUS
<1> DEFINE middle == (MapSize - 1) \div 2 + 1
<1>1. middle \in 1 .. MapSize
  BY DequeConstants
<1>2. /\ start = [place |-> middle, first |-> 1, node |-> 1, slot |-> 1] /\ finish = start
      /\ map = [p \in Places |-> IF p = middle THEN 1 ELSE 0]
      /\ mapSize = MapSize /\ live = {1} /\ nodes = 1 /\ pushPc = "idle" /\ pushed = 0
      /\ popPc = "empty" /\ received = << >> /\ popped = 0 /\ record = 0 /\ moved = [place |-> middle, count |-> 1]
      /\ slots = [n \in Nodes |-> [k \in 1 .. NodeSize |-> 0]]
  BY DEF DequeInit, popped
<1> HIDE DEF middle
<1>3. middle \in Places /\ 1 \in Nodes /\ 1 \in 1 .. NodeSize /\ MapSize \in Places
  BY <1>1, DequeConstants
<1>4. DequeTypeOK
  BY <1>2, <1>3, DequeConstants DEF DequeTypeOK, Iterators, PushPcs, PopPcs
<1>5. Index(1, 1) = 1
  BY DequeConstants DEF Index
<1>6. Counted /\ Pointers /\ Delivered
  BY <1>2, <1>5 DEF Counted, Pointers, PushNeedsNode, Delivered
<1>7. MapFits
  BY <1>1, <1>2, <1>3, DequeConstants DEF MapFits, Attaching, StartPlace, FinishPlace
<1>8. SlotsFit
  <2>1. \A n \in Nodes, k \in 1 .. NodeSize : Index(n, k) \in Nat \ {0}
    BY IndexIsNumber
  <2> QED  BY <1>2, <2>1 DEF SlotsFit, Destroyed
<1> QED  BY <1>4, <1>6, <1>7, <1>8 DEF DequeInv, Fits

-----------------------------------------------------------------------------
(* LogDeque: the steps of push keep the invariant.                          *)

LEMMA PushBeginsFits ==
  ASSUME DequeTypeOK, Fits, PushBegins
  PROVE  DequeTypeOK' /\ Fits'
<1>1. /\ pushed < MaxPush /\ pushPc = "idle"
      /\ pushPc' = IF finish.slot # NodeSize THEN "construct"
                   ELSE IF finish.place = mapSize THEN "reallocate" ELSE "allocate"
      /\ UNCHANGED <<finish, pushed, moved, map, mapSize, nodes, popPc, received, popped, record, slots, live, start>>
  BY DEF PushBegins, PushTo, popper, popped
<1>2. DequeTypeOK'
  BY <1>1 DEF DequeTypeOK, PushPcs
<1>3. Counted' /\ Delivered' /\ SlotsFit'
  BY <1>1 DEF Fits, Counted, Delivered, SlotsFit, Destroyed
<1>4. Pointers'
  BY <1>1 DEF Fits, Pointers, PushNeedsNode
<1>5. MapFits'
  BY <1>1, DequeNumbers DEF Fits, MapFits, Attaching, StartPlace, FinishPlace
<1> QED  BY <1>2, <1>3, <1>4, <1>5 DEF Fits

LEMMA ConstructFits ==
  ASSUME DequeTypeOK, Fits, Construct("construct", "advance") \/ Construct("constructLast", "setNode")
  PROVE  DequeTypeOK' /\ Fits'
<1>1. /\ \/ pushPc = "construct" /\ pushPc' = "advance"
         \/ pushPc = "constructLast" /\ pushPc' = "setNode"
      /\ slots' = [slots EXCEPT ![finish.node][finish.slot] = pushed + 1]
      /\ UNCHANGED <<finish, pushed, moved, map, mapSize, nodes, popPc, received, popped, record, live, start>>
  BY DEF Construct, PushTo, popper, popped
<1>2. pushed + 1 \in 0 .. MaxPush
  BY <1>1, DequeNumbers, DequeConstants DEF Fits, Counted
<1>3. /\ slots' \in [Nodes -> [1 .. NodeSize -> 0 .. MaxPush]]
      /\ slots'[finish.node][finish.slot] = pushed + 1
      /\ \A m \in Nodes, j \in 1 .. NodeSize :
           m # finish.node \/ j # finish.slot => slots'[m][j] = slots[m][j]
  BY <1>1, <1>2, DequeNumbers DEF DequeTypeOK
<1>4. DequeTypeOK'
  BY <1>1, <1>3 DEF DequeTypeOK, PushPcs
<1>5. Counted' /\ Delivered'
  BY <1>1 DEF Fits, Counted, Delivered
<1>6. Pointers'
  BY <1>1 DEF Fits, Pointers, PushNeedsNode
<1>7. MapFits'
  BY <1>1 DEF Fits, MapFits, Attaching, StartPlace, FinishPlace
<1>8. SlotsFit'
  <2>1. Index(finish.node, finish.slot) = pushed + 1
    BY DEF Fits, Counted
  <2>2. ASSUME NEW n \in Nodes, NEW k \in 1 .. NodeSize, Destroyed < Index(n, k), Index(n, k) <= pushed
        PROVE  slots'[n][k] = Index(n, k)
    <3>1. n # finish.node \/ k # finish.slot
      BY <2>1, <2>2, DequeNumbers
    <3> QED  BY <1>3, <2>2, <3>1 DEF Fits, SlotsFit
  <2>3. Destroyed' = Destroyed
    BY <1>1 DEF Destroyed
  <2> QED  BY <1>1, <1>3, <2>2, <2>3 DEF SlotsFit
<1> QED  BY <1>4, <1>5, <1>6, <1>7, <1>8 DEF Fits

LEMMA AdvanceFits ==
  ASSUME DequeTypeOK, Fits, Advance
  PROVE  DequeTypeOK' /\ Fits'
<1>1. /\ pushPc = "advance" /\ pushPc' = "idle" /\ pushed' = pushed + 1
      /\ finish' = [finish EXCEPT !.slot = @ + 1]
      /\ UNCHANGED <<moved, map, mapSize, nodes, popPc, received, popped, record, slots, live, start>>
  BY DEF Advance, PushTo, popper, popped
<1>2. finish.slot # NodeSize /\ pushed < MaxPush /\ Index(finish.node, finish.slot) = pushed + 1
      /\ slots[finish.node][finish.slot] = pushed + 1
  BY <1>1 DEF Fits, Pointers, Counted, SlotsFit
<1>3. /\ finish'.slot = finish.slot + 1
      /\ finish'.node = finish.node /\ finish'.first = finish.first /\ finish'.place = finish.place
      /\ finish' \in Iterators
  <2>1. finish.slot + 1 \in 1 .. NodeSize
    BY <1>2, DequeNumbers, DequeConstants
  <2> QED  BY <1>1, <2>1 DEF DequeTypeOK, Iterators
<1>4. Index(finish'.node, finish'.slot) = pushed + 2
  <2>1. Index(finish.node, finish.slot + 1) = Index(finish.node, finish.slot) + 1
    BY <1>2, DequeNumbers, IndexFacts
  <2> QED  BY <1>2, <1>3, <2>1, DequeNumbers
<1>5. DequeTypeOK'
  <2>1. pushed' \in 0 .. MaxPush
    BY <1>1, <1>2, DequeNumbers, DequeConstants
  <2> QED  BY <1>1, <1>3, <2>1 DEF DequeTypeOK, PushPcs
<1>6. Counted' /\ Delivered'
  BY <1>1, <1>2, <1>4, DequeNumbers DEF Fits, Counted, Delivered
<1>7. Pointers'
  BY <1>1, <1>3 DEF Fits, Pointers, PushNeedsNode
<1>8. MapFits'
  BY <1>1, <1>3 DEF Fits, MapFits, Attaching, StartPlace, FinishPlace
<1>9. SlotsFit'
  <2>1. ASSUME NEW n \in Nodes, NEW k \in 1 .. NodeSize, Destroyed < Index(n, k), Index(n, k) <= pushed + 1
        PROVE  slots[n][k] = Index(n, k)
    <3>1. Index(n, k) \in Nat /\ n \in Nat \ {0}
      BY IndexIsNumber
    <3>2. CASE Index(n, k) = pushed + 1
      <4>1. n = finish.node /\ k = finish.slot
        BY <1>2, <3>1, <3>2, DequeNumbers, IndexOrder, SMTT(20)
      <4> QED  BY <1>2, <3>2, <4>1
    <3>3. CASE Index(n, k) <= pushed
      BY <2>1, <3>3 DEF Fits, SlotsFit
    <3> QED  BY <2>1, <3>1, <3>2, <3>3, DequeNumbers
  <2> QED  BY <1>1, <2>1 DEF SlotsFit, Destroyed
<1> QED  BY <1>5, <1>6, <1>7, <1>8, <1>9 DEF Fits

(* While a push needs a new node, the nodes allocated hold no more records    *)
(* than may be pushed.                                                        *)
LEMMA RoomForNode ==
  ASSUME DequeTypeOK, Fits, pushPc \in PushNeedsNode, pushPc # "setCur"
  PROVE  finish.first <= MaxPush
<1>1. finish.slot = NodeSize /\ finish.first = finish.node /\ pushed < MaxPush
      /\ Index(finish.node, finish.slot) = pushed + 1
  BY DEF Fits, Pointers, Counted, PushNeedsNode
<1>2. finish.node <= Index(finish.node, NodeSize)
  BY DequeNumbers, IndexFacts
<1> QED  BY <1>1, <1>2, DequeNumbers, DequeConstants

LEMMA ReallocateFits ==
  ASSUME DequeTypeOK, Fits, Reallocate
  PROVE  DequeTypeOK' /\ Fits'
<1> DEFINE inUse == finish.place - start.place + 1
           size == IF mapSize > 2 * (inUse + 1) THEN mapSize ELSE 2 * mapSize + 2
           begin == (size - (inUse + 1)) \div 2 + 1
<1>1. /\ pushPc = "reallocate" /\ pushPc' = "setStart"
      /\ map' = [p \in Places |->
                  IF p \in begin .. begin + inUse - 1 THEN map[start.place + (p - begin)]
                  ELSE IF size = mapSize THEN map[p] ELSE 0]
      /\ mapSize' = size
      /\ moved' = [place |-> begin, count |-> inUse]
      /\ UNCHANGED <<finish, pushed, nodes, popPc, received, popped, record, slots, live, start>>
  BY DEF Reallocate, PushTo, popper, popped
<1>2. /\ finish.place = start.place + (finish.first - start.first)
      /\ finish.place <= mapSize /\ start.first <= finish.first
      /\ \A n \in start.first .. finish.first : map[start.place + (n - start.first)] = n
  BY <1>1 DEF Fits, Pointers, MapFits, StartPlace, FinishPlace
<1>3. finish.first <= MaxPush
  BY <1>1, RoomForNode DEF PushNeedsNode
<1>4. inUse = finish.first - start.first + 1 /\ inUse \in Nodes /\ inUse \in Nat \ {0}
      /\ inUse <= mapSize /\ inUse <= MaxPush
  BY <1>2, <1>3, DequeNumbers, DequeConstants
<1>5. size \in Places /\ size \in Nat /\ inUse + 2 <= size
  BY <1>4, DequeNumbers, DequeConstants
<1> HIDE DEF size
<1>6. begin \in Nat \ {0} /\ begin + inUse - 1 < size /\ begin \in Places
  BY <1>4, <1>5, DequeConstants
<1> HIDE DEF begin, inUse
<1>7. \A p \in begin .. begin + inUse - 1 : start.place + (p - begin) \in Places /\ p \in Places
  BY <1>2, <1>4, <1>5, <1>6, DequeNumbers, DequeConstants
<1>8. map' \in [Places -> Nodes \cup {0}]
  BY <1>1, <1>7 DEF DequeTypeOK
<1>9. DequeTypeOK'
  BY <1>1, <1>4, <1>5, <1>6, <1>8 DEF DequeTypeOK, PushPcs
<1>10. Counted' /\ Delivered' /\ SlotsFit'
  BY <1>1 DEF Fits, Counted, Delivered, SlotsFit, Destroyed
<1>11. Pointers'
  BY <1>1 DEF Fits, Pointers, PushNeedsNode
<1>12. MapFits'
  <2>1. moved'.place = begin /\ moved'.count = inUse
    BY <1>1
  <2>2. ASSUME NEW n \in start.first .. finish.first
        PROVE  map'[begin + (n - start.first)] = n
    <3>1. begin + (n - start.first) \in begin .. begin + inUse - 1
      BY <1>4, <1>6, DequeNumbers
    <3>2. start.place + ((begin + (n - start.first)) - begin) = start.place + (n - start.first)
      BY <1>6, DequeNumbers
    <3> QED  BY <1>1, <1>2, <1>7, <3>1, <3>2
  <2>3. StartPlace' = begin /\ FinishPlace' = begin + inUse - 1
    BY <1>1, <2>1 DEF StartPlace, FinishPlace
  <2>4. FinishPlace' = StartPlace' + (finish.first - start.first) /\ FinishPlace' <= mapSize'
    BY <1>1, <1>4, <1>5, <1>6, <2>3, DequeNumbers
  <2>5. /\ nodes = finish.first
        /\ live = (IF popPc = "setNode" THEN start.first + 1 ELSE start.first) .. nodes
    BY <1>1 DEF Fits, MapFits, Attaching
  <2>6. FinishPlace' < mapSize'
    BY <1>1, <1>6, <2>3
  <2> QED  BY <1>1, <1>4, <2>1, <2>2, <2>3, <2>4, <2>5, <2>6 DEF MapFits, Attaching
<1> QED  BY <1>9, <1>10, <1>11, <1>12 DEF Fits

LEMMA SetStartFits ==
  ASSUME DequeTypeOK, Fits, SetStart
  PROVE  DequeTypeOK' /\ Fits'
<1>1. /\ pushPc = "setStart" /\ pushPc' = "setFinish"
      /\ start' = [start EXCEPT !.place = moved.place, !.first = map[moved.place]]
      /\ UNCHANGED <<finish, pushed, moved, map, mapSize, nodes, popPc, received, popped, record, slots, live>>
  BY DEF SetStart, PushTo, popper, popped
<1>2. map[moved.place] = start.first
  <2>1. start.first \in start.first .. finish.first
    BY DequeNumbers DEF Fits, Pointers
  <2>2. moved.place + (start.first - start.first) = moved.place
    BY DequeNumbers
  <2> QED  BY <1>1, <2>1, <2>2 DEF Fits, MapFits, StartPlace
<1>3. start' \in Iterators /\ start'.place = moved.place /\ start'.first = start.first
      /\ start'.node = start.node /\ start'.slot = start.slot
  BY <1>1, <1>2, DequeNumbers DEF DequeTypeOK, Iterators
<1>4. DequeTypeOK'
  BY <1>1, <1>3 DEF DequeTypeOK, PushPcs
<1>5. Counted' /\ Delivered' /\ SlotsFit' /\ Pointers'
  BY <1>1, <1>3 DEF Fits, Counted, Delivered, SlotsFit, Destroyed, Pointers, PushNeedsNode
<1>6. MapFits'
  BY <1>1, <1>3 DEF Fits, MapFits, Attaching, StartPlace, FinishPlace
<1> QED  BY <1>4, <1>5, <1>6 DEF Fits

LEMMA SetFinishFits ==
  ASSUME DequeTypeOK, Fits, SetFinish
  PROVE  DequeTypeOK' /\ Fits'
<1> DEFINE last == moved.place + moved.count - 1
<1>1. /\ pushPc = "setFinish" /\ pushPc' = "allocate"
      /\ finish' = [finish EXCEPT !.place = last, !.first = map[last]]
      /\ UNCHANGED <<pushed, moved, map, mapSize, nodes, popPc, received, popped, record, slots, live, start>>
  BY DEF SetFinish, PushTo, popper, popped
<1>2. last = start.place + (finish.first - start.first) /\ last < mapSize
  BY <1>1, DequeNumbers DEF Fits, MapFits, StartPlace, FinishPlace
<1>3. map[last] = finish.first
  <2>1. finish.first \in start.first .. finish.first
    BY DequeNumbers DEF Fits, Pointers
  <2> QED  BY <1>1, <1>2, <2>1 DEF Fits, MapFits, StartPlace
<1>4. last \in Places
  BY <1>2, DequeNumbers, DequeConstants
<1>5. finish' \in Iterators /\ finish'.place = last /\ finish'.first = finish.first
      /\ finish'.node = finish.node /\ finish'.slot = finish.slot
  BY <1>1, <1>3, <1>4, DequeNumbers DEF DequeTypeOK, Iterators
<1>6. DequeTypeOK'
  BY <1>1, <1>5 DEF DequeTypeOK, PushPcs
<1>7. Counted' /\ Delivered' /\ SlotsFit' /\ Pointers'
  BY <1>1, <1>5 DEF Fits, Counted, Delivered, SlotsFit, Destroyed, Pointers, PushNeedsNode
<1>8. MapFits'
  BY <1>1, <1>2, <1>5, DequeNumbers DEF Fits, MapFits, Attaching, StartPlace, FinishPlace
<1> QED  BY <1>6, <1>7, <1>8 DEF Fits

LEMMA AllocateNodeFits ==
  ASSUME DequeTypeOK, Fits, AllocateNode
  PROVE  DequeTypeOK' /\ Fits'
<1>1. /\ pushPc = "allocate" /\ pushPc' = "constructLast" /\ nodes' = nodes + 1
      /\ live' = live \cup {nodes'} /\ map' = [map EXCEPT ![finish.place + 1] = nodes']
      /\ UNCHANGED <<finish, pushed, moved, mapSize, popPc, received, popped, record, slots, start>>
  BY DEF AllocateNode, PushTo, popper, popped
<1>2. finish.place < mapSize /\ nodes = finish.first /\ start.first <= finish.first
      /\ finish.place = start.place + (finish.first - start.first)
  BY <1>1 DEF Fits, Pointers, MapFits, Attaching, StartPlace, FinishPlace
<1>3. nodes' \in Nodes /\ finish.place + 1 \in Places
  <2>1. finish.first <= MaxPush
    BY <1>1, RoomForNode DEF PushNeedsNode
  <2>2. nodes + 1 \in Nodes
    BY <1>2, <2>1, DequeNumbers, DequeConstants
  <2>3. finish.place + 1 \in Places
    BY <1>2, DequeNumbers, DequeConstants
  <2> QED  BY <1>1, <2>2, <2>3
<1>4. /\ map' \in [Places -> Nodes \cup {0}] /\ map'[finish.place + 1] = nodes'
      /\ \A p \in Places : p # finish.place + 1 => map'[p] = map[p]
  BY <1>1, <1>3 DEF DequeTypeOK
<1>5. live' = (IF popPc = "setNode" THEN start.first + 1 ELSE start.first) .. nodes'
  <2> DEFINE low == IF popPc = "setNode" THEN start.first + 1 ELSE start.first
  <2>1. low \in Nat /\ low <= nodes + 1
    BY <1>2, DequeNumbers
  <2>2. live = low .. nodes /\ live' = live \cup {nodes + 1} /\ nodes' = nodes + 1
    BY <1>1 DEF Fits, MapFits
  <2> HIDE DEF low
  <2>3. (low .. nodes) \cup {nodes + 1} = low .. nodes + 1
    BY <2>1, DequeNumbers
  <2>4. live' = low .. nodes'
    BY <2>2, <2>3
  <2> QED  BY <2>4 DEF low
<1>6. DequeTypeOK'
  <2>1. live' \subseteq Nodes
    BY <1>1, <1>3 DEF DequeTypeOK
  <2> QED  BY <1>1, <1>3, <1>4, <2>1 DEF DequeTypeOK, PushPcs
<1>7. Counted' /\ Delivered' /\ SlotsFit' /\ Pointers'
  BY <1>1 DEF Fits, Counted, Delivered, SlotsFit, Destroyed, Pointers, PushNeedsNode
<1>8. MapFits'
  <2>1. ASSUME NEW n \in start.first .. finish.first
        PROVE  map'[start.place + (n - start.first)] = n
    <3>1. start.place + (n - start.first) \in Places /\ start.place + (n - start.first) # finish.place + 1
      <4>1. start.place + (n - start.first) \in Nat /\ 1 <= start.place + (n - start.first)
            /\ start.place + (n - start.first) <= finish.place
        BY <1>2, DequeNumbers
      <4> QED  BY <4>1, DequeNumbers, DequeConstants
    <3>2. map[start.place + (n - start.first)] = n
      BY <1>1 DEF Fits, MapFits, StartPlace
    <3> QED  BY <1>4, <3>1, <3>2
  <2>2. StartPlace' = start.place /\ FinishPlace' = finish.place
    BY <1>1 DEF StartPlace, FinishPlace
  <2>3. Attaching' /\ StartPlace' = start.place /\ FinishPlace' = finish.place
        /\ map'[FinishPlace' + 1] = nodes' /\ nodes' = finish.first + 1
    BY <1>1, <1>2, <1>4, <2>2 DEF Attaching
  <2>4. FinishPlace' < mapSize /\ FinishPlace' <= mapSize
    BY <1>2, <2>2, DequeNumbers
  <2> QED  BY <1>1, <1>2, <1>5, <2>1, <2>2, <2>3, <2>4 DEF MapFits
<1> QED  BY <1>6, <1>7, <1>8 DEF Fits

LEMMA FinishNodeFits ==
  ASSUME DequeTypeOK, Fits, FinishNode
  PROVE  DequeTypeOK' /\ Fits'
<1>1. /\ pushPc = "setNode" /\ pushPc' = "setCur"
      /\ finish' = [finish EXCEPT !.place = @ + 1, !.first = map[finish.place + 1]]
      /\ UNCHANGED <<pushed, moved, map, mapSize, nodes, popPc, received, popped, record, slots, live, start>>
  BY DEF FinishNode, PushTo, popper, popped
<1>2. finish.place < mapSize /\ nodes = finish.first + 1 /\ map[finish.place + 1] = nodes
      /\ finish.place = start.place + (finish.first - start.first)
      /\ start.first <= finish.first /\ finish.first = finish.node
  BY <1>1 DEF Fits, Pointers, MapFits, Attaching, StartPlace, FinishPlace
<1>3. finish.place + 1 \in Places
  BY <1>2, DequeNumbers, DequeConstants
<1>4. finish' \in Iterators /\ finish'.place = finish.place + 1 /\ finish'.first = finish.first + 1
      /\ finish'.node = finish.node /\ finish'.slot = finish.slot
  BY <1>1, <1>2, <1>3, DequeNumbers DEF DequeTypeOK, Iterators
<1>5. DequeTypeOK'
  BY <1>1, <1>4 DEF DequeTypeOK, PushPcs
<1>6. Counted' /\ Delivered' /\ SlotsFit'
  BY <1>1, <1>4 DEF Fits, Counted, Delivered, SlotsFit, Destroyed
<1>7. Pointers'
  BY <1>1, <1>2, <1>4, DequeNumbers DEF Fits, Pointers, PushNeedsNode
<1>8. MapFits'
  <2>1. ASSUME NEW n \in start.first .. finish.first + 1
        PROVE  map[start.place + (n - start.first)] = n
    <3>1. CASE n = finish.first + 1
      <4>1. start.place + (n - start.first) = finish.place + 1
        BY <1>2, <3>1, DequeNumbers
      <4> QED  BY <1>2, <3>1, <4>1
    <3>2. CASE n \in start.first .. finish.first
      BY <1>1, <3>2 DEF Fits, MapFits, StartPlace
    <3> QED  BY <3>1, <3>2, DequeNumbers
  <2>2. StartPlace' = start.place /\ FinishPlace' = finish.place + 1
    BY <1>1, <1>4 DEF StartPlace, FinishPlace
  <2>3. live = (IF popPc = "setNode" THEN start.first + 1 ELSE start.first) .. nodes
    BY DEF Fits, MapFits
  <2>4. /\ FinishPlace' = StartPlace' + (finish'.first - start.first)
        /\ FinishPlace' <= mapSize
        /\ nodes = finish'.first
    BY <1>2, <1>4, <2>2, DequeNumbers
  <2>5. \A n \in start.first .. finish'.first : map[StartPlace' + (n - start.first)] = n
    BY <1>4, <2>1, <2>2
  <2> QED  BY <1>1, <2>3, <2>4, <2>5 DEF MapFits, Attaching
<1> QED  BY <1>5, <1>6, <1>7, <1>8 DEF Fits

LEMMA FinishCurFits ==
  ASSUME DequeTypeOK, Fits, FinishCur
  PROVE  DequeTypeOK' /\ Fits'
<1>1. /\ pushPc = "setCur" /\ pushPc' = "idle" /\ pushed' = pushed + 1
      /\ finish' = [finish EXCEPT !.node = finish.first, !.slot = 1]
      /\ UNCHANGED <<moved, map, mapSize, nodes, popPc, received, popped, record, slots, live, start>>
  BY DEF FinishCur, PushTo, popper, popped
<1>2. finish.slot = NodeSize /\ finish.first = finish.node + 1 /\ pushed < MaxPush
      /\ Index(finish.node, finish.slot) = pushed + 1 /\ slots[finish.node][finish.slot] = pushed + 1
  BY <1>1 DEF Fits, Pointers, Counted, SlotsFit, PushNeedsNode
<1>3. finish' \in Iterators /\ finish'.place = finish.place /\ finish'.first = finish.first
      /\ finish'.node = finish.first /\ finish'.slot = 1
  <2>1. 1 \in 1 .. NodeSize
    BY DequeConstants
  <2> QED  BY <1>1, <2>1 DEF DequeTypeOK, Iterators
<1>4. Index(finish'.node, finish'.slot) = pushed + 2
  <2>1. Index(finish.node + 1, 1) = Index(finish.node, NodeSize) + 1
    BY DequeNumbers, IndexFacts
  <2> QED  BY <1>2, <1>3, <2>1, DequeNumbers
<1>5. DequeTypeOK'
  <2>1. pushed' \in 0 .. MaxPush
    BY <1>1, <1>2, DequeNumbers, DequeConstants
  <2> QED  BY <1>1, <1>3, <2>1 DEF DequeTypeOK, PushPcs
<1>6. Counted' /\ Delivered'
  BY <1>1, <1>2, <1>4, DequeNumbers DEF Fits, Counted, Delivered
<1>7. Pointers'
  BY <1>1, <1>3 DEF Fits, Pointers, PushNeedsNode
<1>8. MapFits'
  BY <1>1, <1>3 DEF Fits, MapFits, Attaching, StartPlace, FinishPlace
<1>9. SlotsFit'
  <2>1. ASSUME NEW n \in Nodes, NEW k \in 1 .. NodeSize, Destroyed < Index(n, k), Index(n, k) <= pushed + 1
        PROVE  slots[n][k] = Index(n, k)
    <3>1. Index(n, k) \in Nat /\ n \in Nat \ {0}
      BY IndexIsNumber
    <3>2. CASE Index(n, k) = pushed + 1
      <4>1. n = finish.node /\ k = finish.slot
        BY <1>2, <3>1, <3>2, DequeNumbers, IndexOrder, SMTT(20)
      <4> QED  BY <1>2, <3>2, <4>1
    <3>3. CASE Index(n, k) <= pushed
      BY <2>1, <3>3 DEF Fits, SlotsFit
    <3> QED  BY <2>1, <3>1, <3>2, <3>3, DequeNumbers
  <2> QED  BY <1>1, <2>1 DEF SlotsFit, Destroyed
<1> QED  BY <1>5, <1>6, <1>7, <1>8, <1>9 DEF Fits

LEMMA PushFits ==
  ASSUME DequeTypeOK, Fits, Push
  PROVE  DequeTypeOK' /\ Fits'
BY PushBeginsFits, ConstructFits, AdvanceFits, ReallocateFits, SetStartFits, SetFinishFits,
   AllocateNodeFits, FinishNodeFits, FinishCurFits DEF Push

-----------------------------------------------------------------------------
(* LogDeque: the steps of empty and pop keep the invariant.                 *)

(* What a pop that ends has popped. *)
LEMMA RecordReceived ==
  ASSUME DequeTypeOK, Delivered, popPc \in {"pop", "setNode", "setCur"}, popped < pushed,
         received' = Append(received, record)
  PROVE  /\ popped' = popped + 1 /\ popped' <= MaxPush
         /\ received' \in Seq(0 .. MaxPush)
         /\ \A i \in 1 .. popped' : received'[i] = i
<1>1. received \in Seq(0 .. MaxPush) /\ record \in 0 .. MaxPush /\ record = popped + 1
  BY DEF DequeTypeOK, Delivered
<1>2. popped' = popped + 1 /\ received' \in Seq(0 .. MaxPush)
  BY <1>1 DEF popped
<1>3. /\ \A i \in 1 .. popped : received'[i] = received[i]
      /\ received'[popped + 1] = record
  BY <1>1 DEF popped
<1>4. popped \in Nat /\ pushed \in Nat /\ pushed <= MaxPush /\ MaxPush \in Nat
  BY DequeNumbers, DequeConstants
<1>5. popped + 1 <= MaxPush
  BY <1>4
<1>6. ASSUME NEW i \in 1 .. popped + 1 PROVE received'[i] = i
  <2>1. CASE i = popped + 1
    BY <1>1, <1>3, <2>1
  <2>2. CASE i \in 1 .. popped
    BY <1>3, <2>2 DEF Delivered
  <2>3. i = popped + 1 \/ i \in 1 .. popped
    BY <1>4
  <2> QED  BY <2>1, <2>2, <2>3
<1> QED  BY <1>2, <1>5, <1>6

(* An iterator that is behind the other in number is behind it in the deque. *)
LEMMA StartBehind ==
  ASSUME DequeTypeOK, Fits, popped < pushed
  PROVE  /\ start.node # finish.node \/ start.slot # finish.slot
         /\ start.slot = NodeSize => start.node + 1 <= finish.node
<1>1. Index(start.node, start.slot) < Index(finish.node, finish.slot)
  BY DequeNumbers DEF Fits, Counted
<1>2. Index(start.node, start.slot) \in Nat \ {0}
  BY DequeNumbers, IndexFacts
<1>3. start.node # finish.node \/ start.slot # finish.slot
  BY <1>1, <1>2
<1>4. ASSUME start.slot = NodeSize
      PROVE  start.node + 1 <= finish.node
  <2>1. ~(finish.node < start.node)
    <3> SUFFICES ASSUME finish.node < start.node PROVE FALSE
      OBVIOUS
    <3>1. Index(finish.node, finish.slot) < Index(start.node, start.slot)
      BY DequeNumbers, IndexOrder
    <3>2. Index(finish.node, finish.slot) \in Nat \ {0}
      BY DequeNumbers, IndexFacts
    <3> QED  BY <1>1, <1>2, <3>1, <3>2
  <2>2. finish.node # start.node
    <3> SUFFICES ASSUME finish.node = start.node PROVE FALSE
      OBVIOUS
    <3>1. PICK b \in Int : b = (start.node - 1) * NodeSize
      BY DequeNumbers, DequeConstants
    <3>2. b + start.slot < b + finish.slot
      BY <1>1, <3>1 DEF Index
    <3> QED  BY <1>4, <3>1, <3>2, DequeNumbers, DequeConstants
  <2> QED  BY <2>1, <2>2, DequeNumbers
<1> QED  BY <1>3, <1>4

LEMMA SeesRecordFits ==
  ASSUME DequeTypeOK, Fits, SeesRecord
  PROVE  DequeTypeOK' /\ Fits'
<1>1. /\ popPc = "empty" /\ popPc' = "front"
      /\ start.node # finish.node \/ start.slot # finish.slot
      /\ UNCHANGED <<finish, pushPc, pushed, moved, map, mapSize, nodes, received, popped, record, slots, live, start>>
  BY DEF SeesRecord, PopTo, pusher, popped
<1>2. popped < pushed
  <2>1. Index(start.node, start.slot) = popped + 1 /\ Index(finish.node, finish.slot) = pushed + 1
        /\ popped <= pushed
    BY DEF Fits, Counted
  <2>2. Index(start.node, start.slot) # Index(finish.node, finish.slot)
    BY <1>1, DequeNumbers, IndexOrder
  <2> QED  BY <2>1, <2>2, DequeNumbers
<1>3. DequeTypeOK'
  BY <1>1 DEF DequeTypeOK, PopPcs
<1>4. Counted' /\ Delivered' /\ Pointers'
  BY <1>1, <1>2 DEF Fits, Counted, Delivered, Pointers
<1>5. MapFits' /\ SlotsFit'
  BY <1>1 DEF Fits, MapFits, Attaching, StartPlace, FinishPlace, SlotsFit, Destroyed
<1> QED  BY <1>3, <1>4, <1>5 DEF Fits

LEMMA FrontFits ==
  ASSUME DequeTypeOK, Fits, Front
  PROVE  DequeTypeOK' /\ Fits'
<1>1. /\ popPc = "front" /\ popPc' = "pop" /\ record' = slots[start.node][start.slot]
      /\ UNCHANGED <<finish, pushPc, pushed, moved, map, mapSize, nodes, received, popped, slots, live, start>>
  BY DEF Front, PopTo, pusher, popped
<1>2. Index(start.node, start.slot) = popped + 1 /\ popped < pushed
  BY <1>1 DEF Fits, Counted
<1>3. record' = popped + 1
  <2>1. Destroyed = popped
    BY <1>1 DEF Destroyed
  <2>2. popped < popped + 1 /\ popped + 1 <= pushed
    BY <1>2, DequeNumbers
  <2> QED  BY <1>1, <1>2, <2>1, <2>2, DequeNumbers DEF Fits, SlotsFit
<1>4. DequeTypeOK'
  <2>1. record' \in 0 .. MaxPush
    BY <1>2, <1>3, DequeNumbers, DequeConstants
  <2> QED  BY <1>1, <2>1 DEF DequeTypeOK, PopPcs
<1>5. Counted' /\ Delivered' /\ Pointers'
  BY <1>1, <1>3 DEF Fits, Counted, Delivered, Pointers
<1>6. MapFits' /\ SlotsFit'
  BY <1>1 DEF Fits, MapFits, Attaching, StartPlace, FinishPlace, SlotsFit, Destroyed
<1> QED  BY <1>4, <1>5, <1>6 DEF Fits

LEMMA PopInNodeFits ==
  ASSUME DequeTypeOK, Fits, PopInNode
  PROVE  DequeTypeOK' /\ Fits'
<1>1. /\ popPc = "pop" /\ popPc' = IF start.slot # NodeSize THEN "empty" ELSE "setNode"
      /\ slots' = [slots EXCEPT ![start.node][start.slot] = 0]
      /\ UNCHANGED <<finish, pushPc, pushed, moved, map, mapSize, nodes, record>>
  BY DEF PopInNode, PopTo, pusher, popped
<1>2. /\ start.slot # NodeSize =>
           start' = [start EXCEPT !.slot = @ + 1] /\ received' = Append(received, record) /\ live' = live
      /\ start.slot = NodeSize =>
           live' = live \ {start.first} /\ start' = start /\ received' = received /\ popped' = popped
  BY DEF PopInNode, popped
<1>3. Index(start.node, start.slot) = popped + 1 /\ popped < pushed
  BY <1>1 DEF Fits, Counted
<1>4. /\ start.slot # NodeSize => popped' = popped + 1
      /\ received' \in Seq(0 .. MaxPush) /\ popped' <= MaxPush
      /\ \A n \in 1 .. popped' : received'[n] = n
  <2>1. CASE start.slot # NodeSize
    BY <1>1, <1>2, <1>3, <2>1, RecordReceived DEF Fits
  <2>2. CASE start.slot = NodeSize
    BY <1>2, <2>2, DequeNumbers DEF DequeTypeOK, Fits, Delivered
  <2> QED  BY <2>1, <2>2
<1>5. /\ slots' \in [Nodes -> [1 .. NodeSize -> 0 .. MaxPush]]
      /\ \A m \in Nodes, j \in 1 .. NodeSize :
           m # start.node \/ j # start.slot => slots'[m][j] = slots[m][j]
  <2>1. 0 \in 0 .. MaxPush
    BY DequeConstants
  <2> QED  BY <1>1, <2>1, DequeNumbers DEF DequeTypeOK
<1>6. /\ start'.node = start.node /\ start'.first = start.first /\ start'.place = start.place
      /\ start' \in Iterators
      /\ start'.slot = IF start.slot # NodeSize THEN start.slot + 1 ELSE start.slot
  <2>1. CASE start.slot # NodeSize
    <3>1. start.slot + 1 \in 1 .. NodeSize
      BY <2>1, DequeNumbers, DequeConstants
    <3> QED  BY <1>2, <2>1, <3>1 DEF DequeTypeOK, Iterators
  <2>2. CASE start.slot = NodeSize
    BY <1>2, <2>2 DEF DequeTypeOK
  <2> QED  BY <2>1, <2>2
<1>7. DequeTypeOK'
  <2>1. live' \subseteq Nodes
    BY <1>2 DEF DequeTypeOK
  <2> QED  BY <1>1, <1>4, <1>5, <1>6, <2>1 DEF DequeTypeOK, PopPcs
<1>8. Counted'
  <2>1. CASE start.slot # NodeSize
    <3>1. Index(start'.node, start'.slot) = popped + 2
      <4>1. Index(start.node, start.slot + 1) = Index(start.node, start.slot) + 1
        BY <2>1, DequeNumbers, IndexFacts
      <4> QED  BY <1>3, <1>6, <2>1, <4>1, DequeNumbers
    <3>2. popped' = popped + 1 /\ popped + 1 <= pushed
      BY <1>3, <1>4, <2>1, DequeNumbers
    <3>3. Index(start'.node, start'.slot) = popped' + 1
      BY <3>1, <3>2, DequeNumbers
    <3> QED  BY <1>1, <2>1, <3>2, <3>3 DEF Fits, Counted
  <2>2. CASE start.slot = NodeSize
    BY <1>1, <1>2, <1>3, <2>2 DEF Fits, Counted
  <2> QED  BY <2>1, <2>2
<1>9. Pointers' /\ Delivered'
  BY <1>1, <1>2, <1>4, <1>6 DEF Fits, Pointers, Delivered
<1>10. MapFits'
  <2>1. live' = (IF popPc' = "setNode" THEN start.first + 1 ELSE start.first) .. nodes
    <3>1. live = start.first .. nodes
      BY <1>1 DEF Fits, MapFits
    <3>2. CASE start.slot # NodeSize
      BY <1>1, <1>2, <3>1, <3>2
    <3>3. CASE start.slot = NodeSize
      <4>1. (start.first .. nodes) \ {start.first} = start.first + 1 .. nodes
        BY DequeNumbers
      <4> QED  BY <1>1, <1>2, <3>1, <3>3, <4>1
    <3> QED  BY <3>2, <3>3
  <2> QED  BY <1>1, <1>6, <2>1 DEF Fits, MapFits, Attaching, StartPlace, FinishPlace
<1>11. SlotsFit'
  <2>1. Destroyed = popped /\ Destroyed' = popped + 1
    BY <1>1, <1>2, <1>4 DEF Destroyed
  <2>2. ASSUME NEW n \in Nodes, NEW k \in 1 .. NodeSize, popped + 1 < Index(n, k), Index(n, k) <= pushed
        PROVE  slots'[n][k] = Index(n, k)
    <3>1. Index(n, k) \in Int
      BY IndexIsNumber
    <3>2. n # start.node \/ k # start.slot
      BY <1>3, <2>2, <3>1, DequeNumbers
    <3>3. popped < Index(n, k)
      BY <2>2, <3>1, DequeNumbers
    <3> QED  BY <1>5, <2>1, <2>2, <3>2, <3>3 DEF Fits, SlotsFit
  <2>3. slots'[finish.node][finish.slot] = slots[finish.node][finish.slot]
    BY <1>3, <1>5, StartBehind, DequeNumbers
  <2> QED  BY <1>1, <2>1, <2>2, <2>3 DEF Fits, SlotsFit
<1> QED  BY <1>7, <1>8, <1>9, <1>10, <1>11 DEF Fits

(* Without the race, the place after start's is that of the next node.        *)
LEMMA StartNodeFits ==
  ASSUME DequeTypeOK, Fits, ~Race, StartNode
  PROVE  DequeTypeOK' /\ Fits'
<1>1. /\ popPc = "setNode" /\ popPc' = "setCur" /\ pushPc # "setStart"
      /\ start' = [start EXCEPT !.place = @ + 1, !.first = map[start.place + 1]]
      /\ UNCHANGED <<finish, pushPc, pushed, moved, map, mapSize, nodes, received, popped, record, slots, live>>
  BY DEF StartNode, PopTo, Race, pusher, popped
<1>2. /\ start.slot = NodeSize /\ start.first = start.node /\ finish.node <= finish.first
      /\ popped < pushed
  BY <1>1, DequeNumbers DEF Fits, Pointers, Counted
<1>3. start.first + 1 <= finish.first
  <2>1. start.node + 1 <= finish.node
    BY <1>2, StartBehind
  <2> QED  BY <1>2, <2>1, DequeNumbers
<1>4. /\ FinishPlace = start.place + (finish.first - start.first) /\ FinishPlace <= mapSize
      /\ \A n \in start.first .. finish.first : map[start.place + (n - start.first)] = n
  BY <1>1 DEF Fits, MapFits, StartPlace
<1>5. map[start.place + 1] = start.first + 1
  <2>1. start.first + 1 \in start.first .. finish.first
        /\ start.place + ((start.first + 1) - start.first) = start.place + 1
    BY <1>3, DequeNumbers
  <2> QED  BY <1>4, <2>1
<1>6. start.place + 1 \in Places /\ start.first + 1 \in Nodes
  <2>1. start.place + 1 <= mapSize
    BY <1>3, <1>4, DequeNumbers
  <2> QED  BY <1>3, <2>1, DequeNumbers, DequeConstants
<1>7. start' \in Iterators /\ start'.place = start.place + 1 /\ start'.first = start.first + 1
      /\ start'.node = start.node /\ start'.slot = start.slot
  BY <1>1, <1>5, <1>6 DEF DequeTypeOK, Iterators
<1>8. DequeTypeOK'
  BY <1>1, <1>7 DEF DequeTypeOK, PopPcs
<1>9. Counted' /\ Delivered' /\ SlotsFit'
  BY <1>1, <1>7 DEF Fits, Counted, Delivered, SlotsFit, Destroyed
<1>10. Pointers'
  BY <1>1, <1>2, <1>3, <1>7 DEF Fits, Pointers, PushNeedsNode
<1>11. MapFits'
  <2>1. StartPlace' = start.place + 1 /\ FinishPlace' = FinishPlace
    BY <1>1, <1>7 DEF StartPlace, FinishPlace
  <2>2. FinishPlace' = StartPlace' + (finish.first - start'.first)
    BY <1>4, <1>7, <2>1, DequeNumbers
  <2>3. ASSUME NEW n \in start.first + 1 .. finish.first
        PROVE  map[(start.place + 1) + (n - (start.first + 1))] = n
    <3>1. (start.place + 1) + (n - (start.first + 1)) = start.place + (n - start.first)
          /\ n \in start.first .. finish.first
      BY DequeNumbers
    <3> QED  BY <1>4, <3>1
  <2>4. live = start.first + 1 .. nodes
    BY <1>1 DEF Fits, MapFits
  <2>5. /\ FinishPlace <= mapSize
        /\ pushPc \in {"setStart", "setFinish", "allocate"} => FinishPlace < mapSize
        /\ Attaching => FinishPlace < mapSize /\ map[FinishPlace + 1] = nodes
        /\ nodes = IF Attaching THEN finish.first + 1 ELSE finish.first
    BY DEF Fits, MapFits
  <2> QED  BY <1>1, <1>7, <2>1, <2>2, <2>3, <2>4, <2>5 DEF MapFits, Attaching
<1> QED  BY <1>8, <1>9, <1>10, <1>11 DEF Fits

LEMMA StartCurFits ==
  ASSUME DequeTypeOK, Fits, StartCur
  PROVE  DequeTypeOK' /\ Fits'
<1>1. /\ popPc = "setCur" /\ popPc' = "empty" /\ received' = Append(received, record)
      /\ start' = [start EXCEPT !.node = start.first, !.slot = 1]
      /\ UNCHANGED <<finish, pushPc, pushed, moved, map, mapSize, nodes, record, slots, live>>
  BY DEF StartCur, PopTo, pusher
<1>2. /\ start.slot = NodeSize /\ start.first = start.node + 1 /\ popped < pushed
      /\ Index(start.node, start.slot) = popped + 1
  BY <1>1 DEF Fits, Pointers, Counted
<1>3. start' \in Iterators /\ start'.place = start.place /\ start'.first = start.first
      /\ start'.node = start.first /\ start'.slot = 1
  <2>1. 1 \in 1 .. NodeSize
    BY DequeConstants
  <2> QED  BY <1>1, <2>1 DEF DequeTypeOK, Iterators
<1>4. Index(start'.node, start'.slot) = popped + 2
  <2>1. Index(start.node + 1, 1) = Index(start.node, NodeSize) + 1
    BY DequeNumbers, IndexFacts
  <2> QED  BY <1>2, <1>3, <2>1, DequeNumbers
<1>5. /\ popped' = popped + 1 /\ popped' <= MaxPush /\ received' \in Seq(0 .. MaxPush)
      /\ \A n \in 1 .. popped' : received'[n] = n
  BY <1>1, <1>2, RecordReceived DEF Fits
<1>6. DequeTypeOK'
  BY <1>1, <1>3, <1>5 DEF DequeTypeOK, PopPcs
<1>7. Counted' /\ Delivered'
  <2>1. Counted'
    <3>1. popped' = popped + 1 /\ popped + 1 <= pushed
      BY <1>2, <1>5, DequeNumbers
    <3>2. Index(start'.node, start'.slot) = popped' + 1
      BY <1>4, <3>1, DequeNumbers
    <3> QED  BY <1>1, <3>1, <3>2 DEF Fits, Counted
  <2> QED  BY <1>1, <1>5, <2>1 DEF Delivered
<1>8. Pointers'
  BY <1>1, <1>3 DEF Fits, Pointers
<1>9. MapFits' /\ SlotsFit'
  BY <1>1, <1>3, <1>5 DEF Fits, MapFits, Attaching, StartPlace, FinishPlace, SlotsFit, Destroyed
<1> QED  BY <1>6, <1>7, <1>8, <1>9 DEF Fits

LEMMA PopFits ==
  ASSUME DequeTypeOK, Fits, ~Race, Pop
  PROVE  DequeTypeOK' /\ Fits'
BY SeesRecordFits, FrontFits, PopInNodeFits, StartNodeFits, StartCurFits DEF Pop

-----------------------------------------------------------------------------
(* LogDeque: the theorems.                                                  *)

LEMMA StepFits ==
  ASSUME DequeInv, [DequeNext]_dequeVars
  PROVE  DequeInv'
<1>1. CASE ~Race /\ popPc # "undefined" /\ (Push \/ Pop)
  BY <1>1, PushFits, PopFits DEF DequeInv
<1>2. CASE Undefined
  <2>1. DequeTypeOK' /\ popPc' = "undefined"
    BY <1>2 DEF DequeInv, DequeTypeOK, Undefined, PopPcs, pusher, popped
  <2> QED  BY <2>1 DEF DequeInv
<1>3. CASE Done \/ UNCHANGED dequeVars
  <2>1. UNCHANGED dequeVars
    BY <1>3 DEF Done
  <2>2. /\ UNCHANGED <<finish, pushPc, pushed, moved, map, mapSize, nodes>>
        /\ UNCHANGED <<popPc, received, popped, record, slots, live, start>>
    BY <2>1 DEF dequeVars, pusher, popper, popped
  <2>3. DequeTypeOK' /\ (Fits => Fits')
    BY <2>2 DEF DequeInv, DequeTypeOK, Fits, Counted, Pointers, MapFits, Attaching, StartPlace, FinishPlace,
                SlotsFit, Destroyed, Delivered
  <2> QED  BY <2>2, <2>3 DEF DequeInv
<1> QED  BY <1>1, <1>2, <1>3 DEF DequeNext

(* The inductive invariant: until the threads race, each record lies where   *)
(* its number says, and the map holds the nodes from start to finish in order. *)
THEOREM DequeInductive == DequeSpec => []DequeInv
BY InitFits, StepFits, PTL DEF DequeSpec

(* Every variable of the deque keeps its type, for any node size, map and     *)
(* number of records.                                                         *)
THEOREM DequeTypeCorrect == DequeSpec => []DequeTypeOK
<1>1. DequeInv => DequeTypeOK
  BY DEF DequeInv
<1> QED  BY <1>1, DequeInductive, PTL

(* Until the threads race, every place either of them uses lies in the map as *)
(* it is at that moment, also while push has moved it and not yet both        *)
(* iterators, and every record used is in a node that is not freed.           *)
THEOREM MemoryStaysSafe == DequeSpec => []MemorySafe
<1>1. DequeInv => MemorySafe
  <2> SUFFICES ASSUME DequeInv, ~Race, popPc # "undefined" PROVE MemorySafe
    BY DEF MemorySafe
  <2>1. DequeTypeOK /\ Fits
    BY DEF DequeInv
  <2>2. /\ FinishPlace = StartPlace + (finish.first - start.first)
        /\ FinishPlace <= mapSize /\ start.first <= finish.first
    BY <2>1 DEF Fits, Pointers, MapFits
  <2>3. pushPc = "reallocate" => \A p \in start.place .. finish.place : InMap(p)
    BY <2>1, <2>2, DequeNumbers DEF InMap, FinishPlace
  <2>4. ASSUME pushPc = "setStart"
        PROVE  InMap(moved.place)
    BY <2>1, <2>2, <2>4, DequeNumbers DEF InMap, StartPlace, FinishPlace
  <2>5. ASSUME pushPc = "setFinish"
        PROVE  InMap(moved.place + moved.count - 1)
    BY <2>1, <2>2, <2>5, DequeNumbers DEF InMap, FinishPlace
  <2>6. ASSUME pushPc \in {"allocate", "setNode"}
        PROVE  InMap(finish.place + 1)
    <3>1. FinishPlace = finish.place  BY <2>6 DEF FinishPlace
    <3>2. FinishPlace < mapSize  BY <2>1, <2>6 DEF Fits, MapFits, Attaching
    <3> QED  BY <2>1, <3>1, <3>2, DequeNumbers DEF InMap
  <2>7. ASSUME popPc = "setNode"
        PROVE  InMap(start.place + 1)
    <3>1. start.slot = NodeSize /\ start.first = start.node /\ popped < pushed
          /\ finish.node <= finish.first
      BY <2>1, <2>7, DequeNumbers DEF Fits, Counted, Pointers
    <3>2. start.node + 1 <= finish.node
      BY <2>1, <3>1, StartBehind
    <3>3. StartPlace = start.place
      BY <2>7 DEF Race, StartPlace
    <3> QED  BY <2>1, <2>2, <3>1, <3>2, <3>3, DequeNumbers DEF InMap
  <2>8. live = (IF popPc = "setNode" THEN start.first + 1 ELSE start.first) .. nodes
        /\ finish.first <= nodes
    BY <2>1, DequeNumbers DEF Fits, MapFits
  <2>9. ASSUME pushPc \in {"construct", "constructLast"}
        PROVE  finish.node \in live
    <3>1. finish.node = finish.first
      BY <2>1, <2>9 DEF Fits, Pointers
    <3>2. popPc = "setNode" => start.first + 1 <= finish.first
      <4> SUFFICES ASSUME popPc = "setNode" PROVE start.first + 1 <= finish.first
        OBVIOUS
      <4>1. start.slot = NodeSize /\ start.first = start.node /\ popped < pushed
        BY <2>1 DEF Fits, Counted, Pointers
      <4> QED  BY <2>1, <3>1, <4>1, StartBehind
    <3> QED  BY <2>1, <2>2, <2>8, <3>1, <3>2, DequeNumbers
  <2>10. ASSUME popPc \in {"front", "pop"}
         PROVE  start.node \in live
    BY <2>1, <2>2, <2>8, <2>10, DequeNumbers DEF Fits, Pointers
  <2> QED  BY <2>3, <2>4, <2>5, <2>6, <2>7, <2>9, <2>10 DEF MemorySafe
<1> QED  BY <1>1, DequeInductive, PTL

(* What the channel has been sent: the records pushed so far. *)
Sent == [r \in 1 .. pushed |-> r]

LEMMA SentGrows ==
  ASSUME DequeTypeOK, pushed < MaxPush, pushed' = pushed + 1
  PROVE  pushed + 1 \in 1 .. MaxPush /\ Sent' = Append(Sent, pushed + 1)
<1>1. pushed \in Nat /\ MaxPush \in Nat
  BY DequeNumbers, DequeConstants
<1>2. Len(Sent) = pushed /\ Sent \in Seq(Int)
  BY <1>1 DEF Sent
<1>3. Sent' = [r \in 1 .. pushed + 1 |-> r]
  BY DEF Sent
<1> QED  BY <1>1, <1>2, <1>3 DEF Sent

(* Each step is one of the channel or none: a push sends where it moves        *)
(* finish, a pop receives where it moves start.                               *)
LEMMA ChannelStep ==
  ASSUME DequeInv, [DequeNext]_dequeVars
  PROVE  [Fifo!Next]_<<Sent, received>>
<1>1. ASSUME DequeTypeOK, Fits, Advance \/ FinishCur
      PROVE  Fifo!Send
  <2>1. pushPc # "idle" /\ pushed' = pushed + 1 /\ received' = received
    BY <1>1 DEF Advance, FinishCur, PushTo, popper
  <2>2. pushed < MaxPush
    BY <1>1, <2>1 DEF Fits, Counted
  <2> QED  BY <1>1, <2>1, <2>2, SentGrows DEF Fifo!Send, Sent
<1>2. ASSUME DequeTypeOK, Fits, PopInNode \/ StartCur, received' # received
      PROVE  Fifo!Receive
  <2>1. popPc \in {"pop", "setCur"} /\ pushed' = pushed /\ received' = Append(received, record)
    BY <1>2 DEF PopInNode, StartCur, PopTo, pusher
  <2>2. popped < pushed /\ record = popped + 1
    BY <1>2, <2>1 DEF Fits, Counted, Delivered
  <2>3. Len(Sent) = pushed /\ Sent[popped + 1] = popped + 1
    <3>1. popped + 1 \in 1 .. pushed /\ pushed \in Nat
      BY <1>2, <2>2, DequeNumbers
    <3> QED  BY <3>1 DEF Sent
  <2> QED  BY <2>1, <2>2, <2>3 DEF Fifo!Receive, Sent, popped
<1>3. ASSUME ~(Advance \/ FinishCur \/ PopInNode \/ StartCur)
      PROVE  pushed' = pushed /\ received' = received
  BY <1>3
     DEF DequeNext, Push, PushBegins, Construct, Reallocate, SetStart, SetFinish, AllocateNode, FinishNode,
         Pop, SeesRecord, Front, StartNode, Undefined, Done, dequeVars, pusher, popper
<1>4. PopInNode => pushed' = pushed
  BY DEF PopInNode, pusher
<1>5. CASE ~Race /\ popPc # "undefined" /\ (Push \/ Pop)
  <2>1. DequeTypeOK /\ Fits
    BY <1>5 DEF DequeInv
  <2> QED  BY <1>1, <1>2, <1>3, <1>4, <2>1 DEF Fifo!Next, Sent, StartCur, pusher
<1>6. CASE Undefined \/ Done \/ UNCHANGED dequeVars
  BY <1>6 DEF Undefined, Done, dequeVars, pusher, popper, Sent
<1> QED  BY <1>5, <1>6 DEF DequeNext

(* Although push and pop hold different locks, the deque is a channel: records *)
(* are popped in the order of their push, none twice, none skipped, none       *)
(* before it is constructed, for any node size and map, until start leaves a   *)
(* node while the map is moved.                                               *)
THEOREM DequeIsChannel == DequeSpec => ImplementsChannel
<1>1. DequeInit => Fifo!Init
  <2> SUFFICES ASSUME DequeInit PROVE Fifo!Init
    OBVIOUS
  <2>1. pushed = 0 /\ received = << >>
    BY DEF DequeInit
  <2>2. [r \in 1 .. 0 |-> r] = << >>
    OBVIOUS
  <2> QED  BY <2>1, <2>2 DEF Fifo!Init
<1>2. DequeInv /\ [DequeNext]_dequeVars => [Fifo!Next]_<<Sent, received>>
  BY ChannelStep
<1> QED  BY <1>1, <1>2, DequeInductive, PTL DEF DequeSpec, ImplementsChannel, Fifo!Spec, Sent

(* Between operations the nodes allocated are those the map has from start to  *)
(* finish, so none leaks and none in use was freed.                            *)
THEOREM NodesNeitherLostNorFreed == DequeSpec => []NodesOwned
<1>1. DequeInv => NodesOwned
  <2> SUFFICES ASSUME DequeInv, pushPc = "idle", popPc = "empty"
               PROVE  live = {map[p] : p \in start.place .. finish.place}
    BY DEF NodesOwned
  <2>1. DequeTypeOK /\ Fits
    BY DEF DequeInv
  <2>2. /\ finish.place = start.place + (finish.first - start.first)
        /\ \A n \in start.first .. finish.first : map[start.place + (n - start.first)] = n
        /\ start.first <= finish.first
    BY <2>1 DEF Pointers, Fits, MapFits, Attaching, StartPlace, FinishPlace
  <2>3. live = start.first .. finish.first
    BY <2>1 DEF Fits, MapFits, Attaching
  <2>4. \A p \in start.place .. finish.place :
          map[p] \in start.first .. finish.first
    <3> TAKE p \in start.place .. finish.place
    <3>1. start.first + (p - start.place) \in start.first .. finish.first
          /\ start.place + ((start.first + (p - start.place)) - start.first) = p
      BY <2>1, <2>2, DequeNumbers
    <3> QED  BY <2>2, <3>1
  <2>5. \A n \in start.first .. finish.first :
          \E p \in start.place .. finish.place : n = map[p]
    <3> TAKE n \in start.first .. finish.first
    <3>1. start.place + (n - start.first) \in start.place .. finish.place
      BY <2>1, <2>2, DequeNumbers
    <3> QED  BY <2>2, <3>1
  <2> QED  BY <2>4, <2>5, <2>3
<1> QED  BY <1>1, DequeInductive, PTL
=============================================================================
