------------------------------ MODULE LoggerLoop ------------------------------
(***************************************************************************)
(* One logging controller in time: the loop of startThread routes a record *)
(* if there is one, cuts a throughput report when the last one is older    *)
(* than the interval, and lets its CpuLimiter sleep until the CPU time of  *)
(* the iteration is the configured share.  Every controller's loop ends in *)
(* the same CpuLimiter.                                                    *)
(*                                                                         *)
(* Time is in microseconds.  Only differences matter, so the state has the *)
(* age of the batch entry for now() - startTime and the CPU time used      *)
(* since cpuStart for cpuStop - cpuStart.  What a step costs is input.     *)
(***************************************************************************)
EXTENDS Integers, FiniteSets

CONSTANTS
  Types,        \* types of records: Info, System, Debug, Warning, Error
  CpuUsages,    \* values of the Cpu-Usage setting
  Interval,     \* age above which a batch entry is reported: 60 s
  WordSize,     \* an unsigned int is below it: 2^32
  MaxWork,      \* bound: CPU time a step of the loop takes
  MaxWait,      \* bound: time a step is delayed by locks and the scheduler
  MaxLoops      \* bound: iterations

ASSUME LoopAssumption ==
  /\ IsFiniteSet(Types)
  /\ CpuUsages \subseteq Int
  /\ Interval \in Nat /\ WordSize \in Nat \ {0}
  /\ MaxWork \in Nat /\ MaxWait \in Nat /\ MaxLoops \in Nat

VARIABLES
  cpuPercentage,   \* CpuLimiter
  workflow,        \* CPU time since cpuStart
  count, age,      \* LogThroughput: records of each type, and time since startTime
  pc,              \* place in the loop
  worked, slept,   \* history: CPU time of the loop, time in usleep,
  calls, wrapped,  \* sleeps, and was one of them cut to an unsigned int?
  routed, reported, \* and records of each type routed, and counted by reports,
  lastAge,          \* and age of the batch entry at the last report
  loops

limiter == <<cpuPercentage, workflow, slept, calls, wrapped>>
batchEntry == <<count, reported, lastAge>>
vars == <<limiter, batchEntry, age, pc, worked, routed, loops>>

LimiterOK ==
  /\ cpuPercentage \in 0 .. 100
  /\ workflow \in Nat /\ worked \in Nat /\ slept \in Nat /\ calls \in Nat
  /\ wrapped \in BOOLEAN

TypeOK ==
  /\ LimiterOK
  /\ age \in Nat /\ count \in [Types -> Nat]
  /\ pc \in {"route", "cut", "limit"}
  /\ routed \in [Types -> Nat] /\ reported \in [Types -> Nat] /\ lastAge \in Nat
  /\ loops \in Nat

\* The constructor of CpuLimiter: 5 percent for a setting out of range.
Percentage(usage) == IF usage < 0 \/ usage > 100 THEN 5 ELSE usage
NoRecords == [t \in Types |-> 0]
\* What cutBatchEntry reports; the total it gives as well is the sum of these.
Report == reported' = [t \in Types |-> reported[t] + count[t]]

Init ==
  /\ \E usage \in CpuUsages : cpuPercentage = Percentage(usage)
  /\ workflow = 0 /\ age = 0 /\ count = NoRecords
  /\ pc = "route"
  /\ worked = 0 /\ slept = 0 /\ calls = 0 /\ wrapped = FALSE
  /\ routed = NoRecords /\ reported = NoRecords /\ lastAge = 0
  /\ loops = 0

\* A step of the loop uses cpu.
Spends(cpu) == workflow' = workflow + cpu /\ worked' = worked + cpu

\* pushInfoLog .. pushErrorLog; or the queue was empty.
Route ==
  /\ pc = "route" /\ loops < MaxLoops
  /\ \/ UNCHANGED <<count, routed>>
     \/ \E t \in Types : /\ count' = [count EXCEPT ![t] = @ + 1]
                         /\ routed' = [routed EXCEPT ![t] = @ + 1]
  /\ \E cpu \in 0 .. MaxWork, wait \in 0 .. MaxWait :
       Spends(cpu) /\ age' = age + cpu + wait
  /\ pc' = "cut"
  /\ UNCHANGED <<cpuPercentage, slept, calls, wrapped, reported, lastAge, loops>>

\* Mutant of Cut: the new batch entry keeps the start time of the old one.
Cut_KeepsStart ==
  /\ pc = "cut"
  /\ IF age > Interval
       THEN /\ \E cpu \in 0 .. MaxWork : Spends(cpu)
            /\ Report /\ lastAge' = age
            /\ count' = NoRecords /\ UNCHANGED age
       ELSE UNCHANGED <<workflow, worked, batchEntry, age>>
  /\ pc' = "limit"
  /\ UNCHANGED <<cpuPercentage, slept, calls, wrapped, routed, loops>>

\* cutBatchEntry, and a new batch entry that starts when the report is done.
Cut ==
  /\ pc = "cut"
  /\ IF age > Interval
       THEN /\ \E cpu \in 0 .. MaxWork : Spends(cpu)
            /\ Report /\ lastAge' = age
            /\ count' = NoRecords /\ age' = 0
       ELSE UNCHANGED <<workflow, worked, batchEntry, age>>
  /\ pc' = "limit"
  /\ UNCHANGED <<cpuPercentage, slept, calls, wrapped, routed, loops>>

\* workflow / (p / 100 * workflow) * workflow - workflow in doubles: when the
\* exact value is a whole number the double may be just below it.  For p = 0 it
\* is infinite, which the cast to unsigned int of this build makes 0.
Exact(p, w) == (w * (100 - p)) \div p
SleepTimes(p, w) ==
  IF p = 0 THEN {0}
  ELSE {Exact(p, w)} \cup {s \in {Exact(p, w) - 1} : (w * (100 - p)) % p = 0}

\* Mutant of Limit: cpuStart is not taken again after the sleep.
Limit_KeepsStart ==
  /\ pc = "limit" /\ pc' = "route" /\ loops' = loops + 1
  /\ IF cpuPercentage = 100 \/ workflow = 0
       THEN UNCHANGED <<limiter, age>>
       ELSE \E s \in SleepTimes(cpuPercentage, workflow), wait \in 0 .. MaxWait :
              /\ slept' = slept + (s % WordSize)
              /\ age' = age + (s % WordSize) + wait
              /\ wrapped' = (wrapped \/ s >= WordSize)
              /\ calls' = calls + 1
              /\ UNCHANGED <<cpuPercentage, workflow>>
  /\ UNCHANGED <<batchEntry, worked, routed>>

\* CalculateAndSleep.  The CPU time of the call itself is not counted.
Limit ==
  /\ pc = "limit" /\ pc' = "route" /\ loops' = loops + 1
  /\ IF cpuPercentage = 100 \/ workflow = 0
       THEN UNCHANGED <<limiter, age>>
       ELSE \E s \in SleepTimes(cpuPercentage, workflow), wait \in 0 .. MaxWait :
              /\ slept' = slept + (s % WordSize)
              /\ age' = age + (s % WordSize) + wait
              /\ wrapped' = (wrapped \/ s >= WordSize)
              /\ calls' = calls + 1
              /\ workflow' = 0
              /\ UNCHANGED cpuPercentage
  /\ UNCHANGED <<batchEntry, worked, routed>>

Bounded == loops = MaxLoops /\ UNCHANGED vars

Next == Route \/ Cut \/ Limit \/ Bounded
Spec == Init /\ [][Next]_vars

-----------------------------------------------------------------------------
(* Properties.                                                              *)

\* However work is spread over iterations, after each of them the loop has slept
\* for its work at the configured share: never longer, and shorter by less than
\* a microsecond for each sleep.  A setting of 0 never sleeps, one of 100 never
\* calls usleep, and a sleep of 2^32 microseconds or more is cut.
CpuShare ==
  pc = "route" /\ cpuPercentage \in 1 .. 99 /\ ~wrapped =>
    /\ cpuPercentage * slept <= (100 - cpuPercentage) * worked
    /\ (100 - cpuPercentage) * worked <= cpuPercentage * (slept + calls)

\* The longest time between two looks at the age of the batch entry: the sleep
\* that the work of an iteration costs, and the next iteration.
LongestSleep == IF cpuPercentage = 0 THEN 0 ELSE Exact(cpuPercentage, 2 * MaxWork)
LongestLoop == LongestSleep + MaxWork + 2 * MaxWait

\* Every record is counted by exactly one report, under its own type, and a
\* report, which divides by the interval, covers hardly more: the sleep of the
\* limiter delays it most.
ReportsCover ==
  /\ \A t \in Types : routed[t] = reported[t] + count[t]
  /\ lastAge > 0 => lastAge > Interval /\ lastAge <= Interval + LongestLoop
=============================================================================
