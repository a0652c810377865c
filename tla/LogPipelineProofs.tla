-------------------------- MODULE LogPipelineProofs --------------------------
(***************************************************************************)
(* Proofs about LogPipeline, for any number of logging controllers and any *)
(* number of records, reports and failures: when SYSTEM records are not    *)
(* sent over the network, what is logged is paid for.                      *)
(***************************************************************************)
EXTENDS LogPipeline, FiniteSetTheorems, TLAPS

(* The link has gone down on a message: it will become an ERROR record, which *)
(* weighs three more than the message.                                        *)
Debt == IF writerPc = "send" /\ ~connected THEN 3 ELSE 0

Paid == Work + Debt <= 4 * logs + 4 * ReportRecords * cuts + 7 * failures

Inv == TypeOK /\ Paid

-----------------------------------------------------------------------------
(* What the work consists of.                                               *)

Holders(t) == {l \in Loggers : loggerPc[l] = "route" /\ holder[l] = t}
Load(t) == mQueue[t] + Held(t)
Sum ==
  4 * (Load("Info") + Load("Debug") + Load("Warning") + Load("Error"))
    + Load("System") + writeBuffer + (IF writerPc = "send" THEN 1 ELSE 0)

LEMMA HeldIsNat == \A t : Held(t) \in Nat /\ IsFiniteSet(Holders(t)) /\ Held(t) = Cardinality(Holders(t))
<1> TAKE t
<1>1. Holders(t) \in SUBSET Loggers
  BY DEF Holders
<1>2. IsFiniteSet(Holders(t))
  BY <1>1, FS_Subset, PipelineAssumption
<1>3. Held(t) = Cardinality(Holders(t))
  BY DEF Held, Holders
<1> QED  BY <1>2, <1>3, FS_CardinalityType

Summed == Work = Sum /\ \A t \in Types : Load(t) \in Nat

LEMMA WorkSummed == TypeOK => Summed
<1> SUFFICES ASSUME TypeOK PROVE Work = Sum /\ \A t \in Types : Load(t) \in Nat
  BY DEF Summed
<1>1. \A t \in Types : Load(t) \in Nat
  BY HeldIsNat DEF Load, TypeOK
<1>2. /\ Load("Info") \in Nat /\ Load("Debug") \in Nat /\ Load("Warning") \in Nat
      /\ Load("Error") \in Nat /\ Load("System") \in Nat
  BY <1>1 DEF Types
<1>3. writeBuffer \in Nat
  BY DEF TypeOK
<1>4. Work = 4 * Load("Info") + 1 * Load("System") + 4 * Load("Debug")
               + 4 * Load("Warning") + 4 * Load("Error")
               + writeBuffer + (IF writerPc = "send" THEN 1 ELSE 0)
  BY DEF Work, Weight, RecordsPerMessage, Load
<1> HIDE DEF Load
<1> QED  BY <1>1, <1>2, <1>3, <1>4 DEF Sum

LEMMA WorkIsSum ==
  TypeOK => Work = Sum /\ \A t \in Types : Load(t) \in Nat
BY WorkSummed DEF Summed

LEMMA WorkIsSumAfter ==
  TypeOK' => Work' = Sum' /\ \A t \in Types : Load(t)' \in Nat
<1>1. TypeOK' => Summed'
  BY WorkSummed, PTL
<1> QED  BY <1>1 DEF Summed

(* n records of type x are pushed. *)
LEMMA PushedLoads ==
  ASSUME TypeOK, NEW x \in Types, NEW n \in Nat, mQueue' = Pushed(mQueue, x, n),
         UNCHANGED <<loggerPc, holder>>
  PROVE  /\ mQueue' \in [Types -> Nat]
         /\ \A t \in Types : Load(t)' = IF t = x THEN Load(t) + n ELSE Load(t)
<1>1. \A t : Held(t)' = Held(t) /\ Held(t) \in Nat
  BY HeldIsNat DEF Held
<1>2. mQueue' \in [Types -> Nat]
      /\ \A t \in Types : mQueue'[t] = IF t = x THEN mQueue[t] + n ELSE mQueue[t]
  BY DEF TypeOK, Pushed
<1> QED  BY <1>1, <1>2 DEF Load, TypeOK

(* A logging controller takes up a record, or is done with it. *)
LEMMA TakenUp ==
  ASSUME TypeOK, NEW l \in Loggers, NEW t \in Types, loggerPc[l] # "route",
         loggerPc' = [loggerPc EXCEPT ![l] = "route"], holder' = [holder EXCEPT ![l] = t]
  PROVE  \A u \in Types : Held(u)' = IF u = t THEN Held(u) + 1 ELSE Held(u)
<1> TAKE u \in Types
<1>1. Holders(u)' = IF u = t THEN Holders(u) \cup {l} ELSE Holders(u)
  BY DEF Holders, TypeOK
<1>2. l \notin Holders(u)
  BY DEF Holders
<1>3. IsFiniteSet(Holders(u)) /\ Held(u) = Cardinality(Holders(u))
  BY HeldIsNat
<1>4. Held(u)' = Cardinality(Holders(u)')
  BY DEF Held, Holders
<1> QED  BY <1>1, <1>2, <1>3, <1>4, FS_AddElement

LEMMA LaidDown ==
  ASSUME TypeOK, NEW l \in Loggers, loggerPc[l] = "route",
         loggerPc' = [loggerPc EXCEPT ![l] = "empty"], holder' = [holder EXCEPT ![l] = "System"]
  PROVE  \A u \in Types : Held(u)' = IF u = holder[l] THEN Held(u) - 1 ELSE Held(u)
<1> TAKE u \in Types
<1>1. Holders(u)' = IF u = holder[l] THEN Holders(u) \ {l} ELSE Holders(u)
  BY DEF Holders, TypeOK
<1>2. u = holder[l] => l \in Holders(u)
  BY DEF Holders
<1>3. IsFiniteSet(Holders(u)) /\ Held(u) = Cardinality(Holders(u))
  BY HeldIsNat
<1>4. Held(u)' = Cardinality(Holders(u)')
  BY DEF Held, Holders
<1> QED  BY <1>1, <1>2, <1>3, <1>4, FS_RemoveElement

LEMMA SameHeld ==
  ASSUME NEW l \in Loggers, TypeOK, loggerPc[l] # "route", NEW p, p # "route",
         loggerPc' = [loggerPc EXCEPT ![l] = p], UNCHANGED holder
  PROVE  \A u : Held(u)' = Held(u)
<1> TAKE u
<1>1. Holders(u)' = Holders(u)
  BY DEF Holders, TypeOK
<1> QED  BY <1>1 DEF Held, Holders

-----------------------------------------------------------------------------
(* The invariant.                                                           *)

LEMMA InitInv == Init => Inv
<1> SUFFICES ASSUME Init PROVE Inv
  OBVIOUS
<1>1. TypeOK
  <2>1. connected \in BOOLEAN
    BY Zenon DEF Init
  <2> QED  BY <2>1, PipelineAssumption DEF Init, TypeOK, Types
<1>2. \A t : Held(t) = 0
  <2> TAKE t
  <2>1. Holders(t) = {}
    BY DEF Init, Holders
  <2> QED  BY <2>1, HeldIsNat, FS_EmptySet
<1>3. Sum = 0
  BY <1>2 DEF Init, Sum, Load, Types
<1> QED  BY <1>1, <1>3, WorkIsSum DEF Inv, Paid, Debt, Init, ReportRecords

Counters == logs \in Nat /\ cuts \in Nat /\ failures \in Nat

LEMMA CountersTyped == TypeOK => Counters
  BY PipelineAssumption DEF TypeOK, Counters

(* What the counters of the bounds pay for. *)
Budget == 4 * logs + 4 * ReportRecords * cuts + 7 * failures

(* What a step adds to the budget.                                            *)
LEMMA BudgetStep ==
  ASSUME Counters, Counters'
  PROVE  /\ Budget \in Int /\ Budget' \in Int
         /\ Budget' - Budget = 4 * (logs' - logs) + 32 * (cuts' - cuts) + 7 * (failures' - failures)
BY DEF Budget, Counters, ReportRecords

(* A step keeps the invariant when what it adds is paid for by what it counts. *)
LEMMA PaidStep ==
  ASSUME TypeOK, TypeOK', Paid,
         Sum' + Debt' <= Sum + Debt + 4 * (logs' - logs) + 32 * (cuts' - cuts)
                           + 7 * (failures' - failures)
  PROVE  Inv'
<1>1. Work = Sum /\ Work' = Sum'
  BY WorkIsSum, WorkIsSumAfter
<1>2. Sum \in Int
  <2>1. \A t \in Types : Load(t) \in Nat
    BY WorkIsSum
  <2> QED  BY <2>1 DEF Sum, TypeOK, Types
<1>3. Sum' \in Int
  <2>1. \A t \in Types : Load(t)' \in Nat
    BY WorkIsSumAfter
  <2> QED  BY <2>1 DEF Sum, TypeOK, Types
<1>4. Debt \in Int /\ Debt' \in Int
  BY DEF Debt
<1>5. Counters /\ Counters'
  BY CountersTyped, PipelineAssumption DEF Counters, TypeOK
<1>6. /\ Budget \in Int /\ Budget' \in Int
      /\ Budget' - Budget = 4 * (logs' - logs) + 32 * (cuts' - cuts) + 7 * (failures' - failures)
  BY <1>5, BudgetStep
<1>7. Sum + Debt <= Budget
  BY <1>1 DEF Paid, Budget
<1> DEFINE before == Sum + Debt
           after  == Sum' + Debt'
           b0     == Budget
           b1     == Budget'
           n      == 4 * (logs' - logs) + 32 * (cuts' - cuts) + 7 * (failures' - failures)
<1>8. before \in Int /\ after \in Int /\ b0 \in Int /\ b1 \in Int
  BY <1>2, <1>3, <1>4, <1>6
<1>9. n \in Int
  BY <1>5 DEF Counters
<1>10. before <= b0 /\ b1 - b0 = n
  BY <1>6, <1>7
<1>11. after <= before + n
  <2> DEFINE e1 == 4 * (logs' - logs)
             e2 == 32 * (cuts' - cuts)
             e3 == 7 * (failures' - failures)
             s0 == Sum
             s1 == Sum'
             d0 == Debt
             d1 == Debt'
  <2>1. e1 \in Int /\ e2 \in Int /\ e3 \in Int
    BY <1>5 DEF Counters
  <2>2. s0 \in Int /\ s1 \in Int /\ d0 \in Int /\ d1 \in Int
    BY <1>2, <1>3, <1>4
  <2>3. s1 + d1 <= s0 + d0 + e1 + e2 + e3
    OBVIOUS
  <2>4. s1 + d1 <= (s0 + d0) + (e1 + e2 + e3)
    <3> HIDE DEF e1, e2, e3, s0, s1, d0, d1
    <3> QED  BY <2>1, <2>2, <2>3
  <2> QED  BY <2>4
<1>12. after <= b1
  <2> HIDE DEF before, after, b0, b1, n
  <2> QED  BY <1>8, <1>9, <1>10, <1>11
<1> QED  BY <1>1, <1>12 DEF Inv, Paid, Budget

(* The steps of the logging controller.                                       *)
LEMMA LoggerStep ==
  ASSUME "System" \notin NetworkFlags, Inv, NEW l \in Loggers, Logger(l)
  PROVE  Inv'
<1> USE DEF Inv, LoggerTo
<1>0. UNCHANGED <<writerPc, connected, logs, cuts, failures>> /\ Counters
  BY CountersTyped DEF Logger, SeesRecord, PopRecord, Route
<1>1. CASE SeesRecord(l)
  <2>1. TypeOK'
    BY <1>1 DEF SeesRecord, TypeOK
  <2>2. \A u : Held(u)' = Held(u)
    BY <1>1, SameHeld DEF SeesRecord
  <2>3. Sum' = Sum
    BY <1>1, <2>2 DEF Sum, Load, SeesRecord
  <2> QED  BY <1>0, <2>1, <2>3, WorkIsSum, WorkIsSumAfter DEF Paid, Debt
<1>2. CASE PopRecord(l)
  <2>1. CASE \E t \in Types :
                /\ mQueue[t] > 0
                /\ mQueue' = [mQueue EXCEPT ![t] = @ - 1]
                /\ holder' = [holder EXCEPT ![l] = t]
                /\ LoggerTo(l, "route")
    <3>1. PICK t \in Types :
                /\ mQueue[t] > 0
                /\ mQueue' = [mQueue EXCEPT ![t] = @ - 1]
                /\ holder' = [holder EXCEPT ![l] = t]
                /\ LoggerTo(l, "route")
      BY <2>1
    <3>2. mQueue' \in [Types -> Nat]
      BY <3>1 DEF TypeOK
    <3>3. TypeOK'
      BY <1>2, <3>1, <3>2 DEF PopRecord, TypeOK
    <3>4. \A u \in Types : Held(u)' = IF u = t THEN Held(u) + 1 ELSE Held(u)
      BY <1>2, <3>1, TakenUp DEF PopRecord
    <3>5. \A u \in Types : Load(u)' = Load(u)
      BY <3>1, <3>4, HeldIsNat DEF Load, TypeOK
    <3>6. Sum' = Sum
      BY <1>2, <3>5 DEF Sum, PopRecord, Types
    <3> QED  BY <1>0, <3>3, <3>6, WorkIsSum, WorkIsSumAfter DEF Paid, Debt
  <2>2. CASE QueueEmpty /\ LoggerTo(l, "undefined") /\ UNCHANGED <<mQueue, holder>>
    <3>1. TypeOK'
      BY <1>2, <2>2 DEF PopRecord, TypeOK
    <3>2. \A u : Held(u)' = Held(u)
      BY <1>2, <2>2, SameHeld DEF PopRecord
    <3>3. Sum' = Sum
      BY <1>2, <2>2, <3>2 DEF Sum, Load, PopRecord
    <3> QED  BY <1>0, <3>1, <3>3, WorkIsSum, WorkIsSumAfter DEF Paid, Debt
  <2> QED  BY <1>2, <2>1, <2>2 DEF PopRecord
<1>3. CASE Route(l)
  <2> DEFINE t == holder[l]
             n == IF ToNetwork(t) THEN 1 ELSE 0
  <2>1. t \in Types /\ (ToNetwork(t) => t # "System")
    BY DEF TypeOK, ToNetwork
  <2>2. \A u \in Types : Held(u)' = IF u = t THEN Held(u) - 1 ELSE Held(u)
    BY <1>3, LaidDown DEF Route
  <2>3. /\ mQueue' \in [Types -> Nat]
        /\ \A u \in Types : mQueue'[u] = IF u = "System" THEN mQueue[u] + 2 * n ELSE mQueue[u]
        /\ writeBuffer' = writeBuffer + n
    BY <1>3 DEF Route, TypeOK, Pushed, RecordsPerMessage, Types
  <2>4. TypeOK'
    BY <1>3, <2>3 DEF Route, TypeOK, Types
  <2>5. \A u \in Types :
          Load(u)' = Load(u) + (IF u = "System" THEN 2 * n ELSE 0) - (IF u = t THEN 1 ELSE 0)
    BY <2>2, <2>3, HeldIsNat DEF Load, TypeOK
  <2>6. \A u \in Types : Load(u) \in Nat
    BY WorkIsSum
  <2>7. Sum' <= Sum
    <3> HIDE DEF t
    <3>1. CASE ToNetwork(t)
      BY <1>0, <2>1, <2>3, <2>5, <2>6, <3>1 DEF Sum, Types, TypeOK
    <3>2. CASE ~ToNetwork(t)
      BY <1>0, <2>1, <2>3, <2>5, <2>6, <3>2 DEF Sum, Types, TypeOK
    <3> QED  BY <3>1, <3>2
  <2>8. Sum \in Int /\ Sum' \in Int
    BY <2>4, WorkIsSum, WorkIsSumAfter DEF Sum, Types, TypeOK
  <2>9. Debt' = Debt /\ Debt \in Int
    BY <1>0 DEF Debt
  <2>10. Sum' + Debt' <= Sum + Debt + 4 * (logs' - logs) + 32 * (cuts' - cuts) + 7 * (failures' - failures)
    <3>1. logs' - logs = 0 /\ cuts' - cuts = 0 /\ failures' - failures = 0
      BY <1>0 DEF Counters
    <3> QED  BY <2>7, <2>8, <2>9, <3>1
  <2> QED  BY <2>4, <2>10, PaidStep
<1> QED  BY <1>1, <1>2, <1>3 DEF Logger

(* Everything else pushes records without touching a logging controller. *)
LEMMA PushStep ==
  ASSUME Inv, UNCHANGED <<loggerPc, holder>>,
         \/ \E t \in Types : Log(t)
         \/ \E l \in Loggers : Cut(l)
         \/ SendSucceeds \/ SendRefused
  PROVE  Inv'
<1> USE DEF Inv
<1>0. Counters /\ \A t \in Types : Load(t) \in Nat
  BY CountersTyped, WorkIsSum
<1>1. writeBuffer \in Nat /\ Work = Sum
  BY WorkIsSum DEF TypeOK
<1>2. ASSUME NEW t \in Types, Log(t)
      PROVE  Inv'
  <2>1. mQueue' = Pushed(mQueue, t, 1)
    BY <1>2 DEF Log
  <2>2. /\ mQueue' \in [Types -> Nat]
        /\ \A u \in Types : Load(u)' = IF u = t THEN Load(u) + 1 ELSE Load(u)
    BY <2>1, PushedLoads
  <2>3. TypeOK'
    BY <1>0, <1>2, <2>2, PipelineAssumption DEF Log, TypeOK, Counters
  <2>4. Sum' <= Sum + 4
    BY <1>0, <1>1, <1>2, <2>2 DEF Sum, Log, Types
  <2>5. Sum' \in Int /\ Sum \in Int
    BY <1>0, <1>1, <1>2, <2>2 DEF Sum, Log, Types
  <2>6. Debt' = Debt /\ Debt \in Int
    BY <1>2 DEF Log, Debt
  <2>7. /\ logs \in Int /\ logs' = logs + 1
        /\ cuts' - cuts = 0 /\ failures' - failures = 0
    BY <1>0, <1>2 DEF Log, Counters
  <2>8. Sum' + Debt' <= Sum + Debt + 4 * (logs' - logs) + 32 * (cuts' - cuts) + 7 * (failures' - failures)
    BY <2>4, <2>5, <2>6, <2>7
  <2> QED  BY <2>3, <2>8, PaidStep
<1>3. ASSUME NEW l \in Loggers, Cut(l)
      PROVE  Inv'
  <2>1. mQueue' = Pushed(mQueue, "Info", 8) /\ "Info" \in Types
    BY <1>3 DEF Cut, ReportRecords, Types
  <2>2. /\ mQueue' \in [Types -> Nat]
        /\ \A u \in Types : Load(u)' = IF u = "Info" THEN Load(u) + 8 ELSE Load(u)
    BY <2>1, PushedLoads
  <2>3. TypeOK'
    BY <1>0, <1>3, <2>2, PipelineAssumption DEF Cut, TypeOK, Counters
  <2>4. Sum' = Sum + 32
    BY <1>0, <1>1, <1>3, <2>2 DEF Sum, Cut, Types
  <2>5. Sum \in Int
    BY <1>0, <1>1 DEF Sum, Types
  <2>6. Debt' = Debt /\ Debt \in Int
    BY <1>3 DEF Cut, Debt
  <2>7. /\ cuts \in Int /\ cuts' = cuts + 1
        /\ logs' - logs = 0 /\ failures' - failures = 0
    BY <1>0, <1>3 DEF Cut, Counters
  <2>8. Sum' + Debt' <= Sum + Debt + 4 * (logs' - logs) + 32 * (cuts' - cuts) + 7 * (failures' - failures)
    BY <2>4, <2>5, <2>6, <2>7
  <2> QED  BY <2>3, <2>8, PaidStep
<1>4. CASE SendSucceeds
  <2>1. mQueue' = Pushed(mQueue, "System", 1) /\ "System" \in Types
    BY <1>4 DEF SendSucceeds, Types
  <2>2. /\ mQueue' \in [Types -> Nat]
        /\ \A u \in Types : Load(u)' = IF u = "System" THEN Load(u) + 1 ELSE Load(u)
    BY <2>1, PushedLoads
  <2>3. TypeOK'
    BY <1>4, <2>2 DEF SendSucceeds, TypeOK
  <2>4. Sum' = Sum
    <3>1. /\ writeBuffer' = writeBuffer /\ writerPc = "send" /\ writerPc' = "poll"
          /\ Load("System")' = Load("System") + 1
          /\ \A u \in {"Info", "Debug", "Warning", "Error"} : Load(u)' = Load(u)
      BY <1>4, <2>2 DEF SendSucceeds, Types
    <3>2. \A u \in Types : Load(u) \in Nat
      BY <1>0
    <3> QED  BY <1>1, <3>1, <3>2 DEF Sum, Types
  <2>5. Debt' = 0 /\ Debt = 0
    BY <1>4 DEF Debt, SendSucceeds
  <2> QED
    BY <1>1, <1>4, <2>3, <2>4, <2>5, WorkIsSumAfter DEF Paid, SendSucceeds
<1>5. CASE SendRefused
  <2>1. mQueue' = Pushed(mQueue, "Error", 1) /\ "Error" \in Types
    BY <1>5 DEF SendRefused, Types
  <2>2. /\ mQueue' \in [Types -> Nat]
        /\ \A u \in Types : Load(u)' = IF u = "Error" THEN Load(u) + 1 ELSE Load(u)
    BY <2>1, PushedLoads
  <2>3. TypeOK'
    BY <1>5, <2>2 DEF SendRefused, TypeOK
  <2>4. Sum' = Sum + 3
    BY <1>0, <1>1, <1>5, <2>2 DEF Sum, SendRefused, Types
  <2>5. Debt' = 0 /\ Debt = 3
    BY <1>5 DEF Debt, SendRefused
  <2>6. Sum \in Int
    BY <1>0, <1>1 DEF Sum, Types
  <2> QED
    BY <1>1, <1>5, <2>3, <2>4, <2>5, <2>6, WorkIsSumAfter DEF Paid, SendRefused
<1> QED  BY <1>2, <1>3, <1>4, <1>5

(* A send that fails.                                                         *)
LEMMA FailStep ==
  ASSUME Inv, SendFails
  PROVE  Inv'
<1> USE DEF Inv
<1>0. Counters /\ \A t \in Types : Load(t) \in Nat
  BY CountersTyped, WorkIsSum
<1>1. writeBuffer \in Nat /\ Work = Sum
  BY WorkIsSum DEF TypeOK
<1>2. PICK t \in {"System", "Error"} : mQueue' = Pushed(Pushed(mQueue, "Error", 1), t, 1)
  BY DEF SendFails
<1>3. /\ mQueue' \in [Types -> Nat]
      /\ \A u \in Types : mQueue'[u] = mQueue[u] + (IF u = "Error" THEN 1 ELSE 0)
                                                + (IF u = t THEN 1 ELSE 0)
  BY <1>2 DEF Pushed, TypeOK, Types
<1>4. \A u \in Types : Load(u)' = Load(u) + (IF u = "Error" THEN 1 ELSE 0)
                                         + (IF u = t THEN 1 ELSE 0)
  <2>1. \A u : Held(u)' = Held(u) /\ Held(u) \in Nat
    BY HeldIsNat DEF Held, SendFails
  <2> QED  BY <1>3, <2>1 DEF Load, TypeOK
<1>5. TypeOK'
  <2>1. failures' \in 0 .. MaxFailures
    BY <1>0, PipelineAssumption DEF SendFails, Counters
  <2>2. connected' \in BOOLEAN
    BY Zenon DEF SendFails
  <2> QED  BY <1>3, <2>1, <2>2 DEF SendFails, TypeOK
<1>6. Sum' <= Sum + 7 /\ Sum' \in Int /\ Sum \in Int
  BY <1>0, <1>1, <1>4 DEF Sum, SendFails, Types
<1>7. Debt = 0 /\ Debt' = 0
  BY DEF Debt, SendFails
<1>8. logs' - logs = 0 /\ cuts' - cuts = 0 /\ failures' - failures = 1
  BY <1>0 DEF SendFails, Counters
<1>9. Sum' + Debt' <= Sum + Debt + 4 * (logs' - logs) + 32 * (cuts' - cuts) + 7 * (failures' - failures)
  BY <1>6, <1>7, <1>8
<1> QED  BY <1>5, <1>9, PaidStep

(* The writer takes a message, and the link going down and coming back.       *)
LEMMA LinkStep ==
  ASSUME Inv, WriterPops \/ Connect \/ Disconnect
  PROVE  Inv'
<1> USE DEF Inv
<1>0. Counters /\ \A t \in Types : Load(t) \in Nat
  BY CountersTyped, WorkIsSum
<1>1. writeBuffer \in Nat /\ Work = Sum
  BY WorkIsSum DEF TypeOK
<1>2. UNCHANGED <<mQueue, loggerPc, holder, logs, cuts>>
  BY DEF WriterPops, Connect, Disconnect
<1>3. TypeOK'
  <2>1. writeBuffer' \in Nat
    BY <1>1 DEF WriterPops, Connect, Disconnect
  <2>2. connected' \in BOOLEAN
    BY Zenon DEF WriterPops, Connect, Disconnect, TypeOK
  <2>3. failures' \in 0 .. MaxFailures
    BY <1>0, PipelineAssumption DEF WriterPops, Connect, Disconnect, TypeOK, Counters
  <2>4. writerPc' \in {"poll", "send"}
    BY DEF WriterPops, Connect, Disconnect, TypeOK
  <2> QED  BY <1>2, <2>1, <2>2, <2>3, <2>4 DEF TypeOK
<1>4. \A u : Load(u)' = Load(u)
  BY <1>2 DEF Load, Held
<1>5. Sum' = Sum /\ Sum \in Int
  BY <1>0, <1>1, <1>4 DEF Sum, WriterPops, Connect, Disconnect, Types
<1>6. logs' - logs = 0 /\ cuts' - cuts = 0
  BY <1>0, <1>2 DEF Counters
<1>7. CASE Disconnect
  <2>1. Debt = 0 /\ Debt' \in Int /\ Debt' <= 3
    BY <1>7 DEF Debt, Disconnect
  <2>2. failures' - failures = 1
    BY <1>0, <1>7 DEF Disconnect, Counters
  <2>3. Sum' + Debt' <= Sum + Debt + 4 * (logs' - logs) + 32 * (cuts' - cuts) + 7 * (failures' - failures)
    BY <1>5, <1>6, <2>1, <2>2
  <2> QED  BY <1>3, <2>3, PaidStep
<1>8. CASE WriterPops \/ Connect
  <2>1. Debt \in Int /\ Debt' \in Int /\ Debt' <= Debt
    BY <1>8 DEF Debt, WriterPops, Connect
  <2>2. failures' - failures = 0
    BY <1>0, <1>8 DEF WriterPops, Connect, Counters
  <2>3. Sum' + Debt' <= Sum + Debt + 4 * (logs' - logs) + 32 * (cuts' - cuts) + 7 * (failures' - failures)
    BY <1>5, <1>6, <2>1, <2>2
  <2> QED  BY <1>3, <2>3, PaidStep
<1> QED  BY <1>7, <1>8

LEMMA Inductive ==
  ASSUME "System" \notin NetworkFlags
  PROVE  Spec => []Inv
<1>1. Inv /\ [Next]_vars => Inv'
  <2> SUFFICES ASSUME Inv, [Next]_vars PROVE Inv'
    OBVIOUS
  <2>1. CASE UNCHANGED vars
    <3>1. TypeOK'
      BY <2>1 DEF vars, Inv, TypeOK
    <3>2. Work' = Work /\ Debt' = Debt
      BY <2>1 DEF vars, Work, Held, Debt
    <3> QED  BY <2>1, <3>1, <3>2 DEF Inv, Paid, vars
  <2>2. CASE Idle
    BY <2>1, <2>2 DEF Idle
  <2>3. ASSUME NEW t \in Types, Log(t) PROVE Inv'
    BY <2>3, PushStep DEF Log
  <2>4. ASSUME NEW l \in Loggers, Cut(l) PROVE Inv'
    BY <2>4, PushStep DEF Cut
  <2>5. CASE Send
    BY <2>5, PushStep, FailStep DEF Send, SendSucceeds, SendRefused
  <2> QED  BY <2>1, <2>2, <2>3, <2>4, <2>5, LoggerStep, LinkStep DEF Next
<1> QED  BY InitInv, <1>1, PTL DEF Spec

-----------------------------------------------------------------------------
(* The results.                                                             *)

(* Every variable keeps its type, whatever is sent over the network.          *)
THEOREM TypeCorrect == Spec => []TypeOK
<1>1. Init => TypeOK
  BY InitInv DEF Inv
<1>2. TypeOK /\ [Next]_vars => TypeOK'
  <2> SUFFICES ASSUME TypeOK, [Next]_vars PROVE TypeOK'
    OBVIOUS
  <2> USE CountersTyped, PipelineAssumption DEF Counters, TypeOK, Types
  <2>1. ASSUME NEW t \in Types, Log(t) PROVE TypeOK'
    BY <2>1 DEF Log, Pushed
  <2>2. ASSUME NEW l \in Loggers, SeesRecord(l) \/ PopRecord(l) PROVE TypeOK'
    BY <2>2 DEF SeesRecord, PopRecord, LoggerTo
  <2>3. ASSUME NEW l \in Loggers, Route(l) PROVE TypeOK'
    BY <2>3 DEF Route, LoggerTo, Pushed, RecordsPerMessage
  <2>4. ASSUME NEW l \in Loggers, Cut(l) PROVE TypeOK'
    BY <2>4 DEF Cut, Pushed, ReportRecords
  <2>5. CASE Send
    <3>1. CASE SendSucceeds \/ SendRefused
      BY <3>1 DEF SendSucceeds, SendRefused, Pushed
    <3>2. CASE SendFails
      <4>1. failures' \in 0 .. MaxFailures
        BY <3>2 DEF SendFails
      <4>2. connected' \in BOOLEAN
        BY <3>2, Zenon DEF SendFails
      <4>3. PICK t \in {"System", "Error"} : mQueue' = Pushed(Pushed(mQueue, "Error", 1), t, 1)
        BY <3>2 DEF SendFails
      <4>4. mQueue' \in [Types -> Nat]
        BY <4>3 DEF Pushed
      <4> QED  BY <3>2, <4>1, <4>2, <4>4 DEF SendFails
    <3> QED  BY <2>5, <3>1, <3>2 DEF Send
  <2>6. CASE WriterPops \/ Connect \/ Disconnect
    <3>1. connected' \in BOOLEAN
      BY <2>6, Zenon DEF WriterPops, Connect, Disconnect
    <3>2. failures' \in 0 .. MaxFailures /\ writeBuffer' \in Nat
      BY <2>6 DEF WriterPops, Connect, Disconnect
    <3>3. writerPc' \in {"poll", "send"}
      BY <2>6 DEF WriterPops, Connect, Disconnect
    <3> QED  BY <2>6, <3>1, <3>2, <3>3 DEF WriterPops, Connect, Disconnect
  <2>7. CASE UNCHANGED vars
    BY <2>7 DEF vars
  <2> QED  BY <2>1, <2>2, <2>3, <2>4, <2>5, <2>6, <2>7 DEF Next, Logger, Idle
<1> QED  BY <1>1, <1>2, PTL DEF Spec

(* As long as SYSTEM records are not sent, the work the pipeline still has to *)
(* do was paid for by the engine's records, the reports and the failures of   *)
(* the link, with any number of logging controllers and any other flags.      *)
THEOREM WorkIsPaid ==
  ASSUME "System" \notin NetworkFlags
  PROVE  Spec => []NoAmplification
<1>1. Inv => NoAmplification
  <2> SUFFICES ASSUME Inv PROVE NoAmplification
    OBVIOUS
  <2>1. Work \in Int
    BY WorkIsSum DEF Inv, Sum, Types, TypeOK
  <2>2. Counters /\ Debt \in Nat
    BY CountersTyped DEF Inv, Debt
  <2> QED  BY <2>1, <2>2 DEF Inv, Paid, NoAmplification, Counters, ReportRecords
<1> QED  BY Inductive, <1>1, PTL
-----------------------------------------------------------------------------
(* The pipeline runs down.                                                  *)

(* What Left adds up. *)
Waiting == mQueue["Info"] + mQueue["Debug"] + mQueue["Warning"] + mQueue["Error"]
Carried == Held("Info") + Held("Debug") + Held("Warning") + Held("Error")
Sending == IF writerPc = "send" THEN (IF connected THEN 5 ELSE 19) ELSE 0

Terms ==
  /\ Waiting \in Nat /\ Carried \in Nat
  /\ mQueue["System"] \in Nat /\ Held("System") \in Nat
  /\ Cardinality(At("empty")) \in Nat /\ Cardinality(At("pop")) \in Nat
  /\ writeBuffer \in Nat /\ Sending \in Nat

LEMMA LeftAdds ==
  Left = 18 * Waiting + 17 * Carried + 4 * mQueue["System"] + 3 * Held("System")
           + 2 * Cardinality(At("empty")) + Cardinality(At("pop")) + 6 * writeBuffer + Sending
BY Zenon DEF Left, Waiting, Carried, Sending

LEMMA AtIsFinite == \A p : IsFiniteSet(At(p)) /\ Cardinality(At(p)) \in Nat
<1> TAKE p
<1>1. At(p) \in SUBSET Loggers
  BY DEF At
<1>2. IsFiniteSet(At(p))
  BY <1>1, FS_Subset, PipelineAssumption
<1> QED  BY <1>2, FS_CardinalityType

LEMMA TermsTyped == TypeOK => Terms
<1> SUFFICES ASSUME TypeOK PROVE Terms
  OBVIOUS
<1>1. \A t \in Types : mQueue[t] \in Nat /\ Held(t) \in Nat
  BY HeldIsNat DEF TypeOK
<1>2. Waiting \in Nat /\ mQueue["System"] \in Nat
  BY <1>1 DEF Waiting, Types
<1>3. Carried \in Nat /\ Held("System") \in Nat
  BY <1>1 DEF Carried, Types
<1> QED  BY <1>2, <1>3, AtIsFinite DEF TypeOK, Terms, Sending

LEMMA LeftAddsAfter ==
  Left' = 18 * Waiting' + 17 * Carried' + 4 * mQueue'["System"] + 3 * Held("System")'
            + 2 * Cardinality(At("empty"))' + Cardinality(At("pop"))' + 6 * writeBuffer' + Sending'
BY Zenon DEF Left, Waiting, Carried, Sending

Bounds == Left \in Nat

LEMMA LeftIsNat == TypeOK => Bounds
BY LeftAdds, TermsTyped DEF Terms, Bounds

(* The sums, when n records of type t are added to the queue, or taken from it. *)
LEMMA QueueSums ==
  ASSUME TypeOK, NEW t \in Types, NEW n \in Int,
         \A u \in Types : mQueue'[u] = IF u = t THEN mQueue[u] + n ELSE mQueue[u]
  PROVE  IF t = "System"
           THEN Waiting' = Waiting /\ mQueue'["System"] = mQueue["System"] + n
           ELSE Waiting' = Waiting + n /\ mQueue'["System"] = mQueue["System"]
<1>1. \A u \in Types : mQueue[u] \in Nat
  BY DEF TypeOK
<1> QED  BY <1>1 DEF Waiting, Types

LEMMA HeldSums ==
  ASSUME NEW t \in Types, NEW n \in Int,
         \A u \in Types : Held(u)' = IF u = t THEN Held(u) + n ELSE Held(u)
  PROVE  IF t = "System"
           THEN Carried' = Carried /\ Held("System")' = Held("System") + n
           ELSE Carried' = Carried + n /\ Held("System")' = Held("System")
<1>1. \A u \in Types : Held(u) \in Nat
  BY HeldIsNat
<1> QED  BY <1>1 DEF Carried, Types

LEMMA SameSums ==
  /\ UNCHANGED mQueue => Waiting' = Waiting /\ mQueue'["System"] = mQueue["System"]
  /\ (\A u : Held(u)' = Held(u)) => Carried' = Carried /\ Held("System")' = Held("System")
BY DEF Waiting, Carried

(* A logging controller goes from one place of its loop to another.           *)
LEMMA PlacesMove ==
  ASSUME TypeOK, NEW l \in Loggers, NEW q, q # loggerPc[l],
         loggerPc' = [loggerPc EXCEPT ![l] = q]
  PROVE  \A p : Cardinality(At(p))' = IF p = q THEN Cardinality(At(p)) + 1
                                      ELSE IF p = loggerPc[l] THEN Cardinality(At(p)) - 1
                                      ELSE Cardinality(At(p))
<1> TAKE p
<1>1. IsFiniteSet(At(p)) /\ Cardinality(At(p)) \in Nat
  BY AtIsFinite
<1>2. Cardinality(At(p))' = Cardinality(At(p)')
  OBVIOUS
<1>3. CASE p = q
  <2>1. At(p)' = At(p) \cup {l} /\ l \notin At(p)
    BY <1>3 DEF At, TypeOK
  <2> QED  BY <1>1, <1>2, <1>3, <2>1, FS_AddElement
<1>4. CASE p # q /\ p = loggerPc[l]
  <2>1. At(p)' = At(p) \ {l} /\ l \in At(p)
    BY <1>4 DEF At, TypeOK
  <2> QED  BY <1>1, <1>2, <1>4, <2>1, FS_RemoveElement
<1>5. CASE p # q /\ p # loggerPc[l]
  <2>1. At(p)' = At(p)
    BY <1>5 DEF At, TypeOK
  <2> QED  BY <1>2, <1>5, <2>1
<1> QED  BY <1>3, <1>4, <1>5

LEMMA PopLeft ==
  ASSUME TypeOK, NEW l \in Loggers, loggerPc[l] = "pop", NEW q \in {"route", "undefined"},
         loggerPc' = [loggerPc EXCEPT ![l] = q]
  PROVE  /\ Cardinality(At("empty"))' = Cardinality(At("empty"))
         /\ Cardinality(At("pop"))' = Cardinality(At("pop")) - 1
<1>1. \A p : Cardinality(At(p))' = IF p = q THEN Cardinality(At(p)) + 1
                                   ELSE IF p = "pop" THEN Cardinality(At(p)) - 1
                                   ELSE Cardinality(At(p))
  <2>1. q # loggerPc[l]
    OBVIOUS
  <2> QED  BY <2>1, PlacesMove
<1>2. q # "pop" /\ q # "empty" /\ "pop" # "empty"
  OBVIOUS
<1> QED  BY <1>1, <1>2

LEMMA PlacesStay ==
  ASSUME UNCHANGED <<loggerPc, holder>>
  PROVE  /\ \A p : Cardinality(At(p))' = Cardinality(At(p))
         /\ \A t : Held(t)' = Held(t)
BY DEF At, Held

(* The steps of the logging controllers.                                      *)
LEMMA LoggerRunsDown ==
  ASSUME "System" \notin NetworkFlags, TypeOK, NEW l \in Loggers, Logger(l)
  PROVE  Left' < Left
<1> USE DEF LoggerTo
<1>0. Terms /\ Sending' = Sending
  BY TermsTyped DEF Logger, SeesRecord, PopRecord, Route, Sending
<1>1. CASE SeesRecord(l)
  <2>1. \A t : Held(t)' = Held(t)
    BY <1>1, SameHeld DEF SeesRecord
  <2>2. /\ Cardinality(At("empty"))' = Cardinality(At("empty")) - 1
        /\ Cardinality(At("pop"))' = Cardinality(At("pop")) + 1
    <3>1. "pop" # loggerPc[l] /\ loggerPc' = [loggerPc EXCEPT ![l] = "pop"]
      BY <1>1 DEF SeesRecord
    <3>2. \A p : Cardinality(At(p))' = IF p = "pop" THEN Cardinality(At(p)) + 1
                                       ELSE IF p = "empty" THEN Cardinality(At(p)) - 1
                                       ELSE Cardinality(At(p))
      BY <1>1, <3>1, PlacesMove DEF SeesRecord
    <3> QED  BY <3>2
  <2>3. mQueue' = mQueue /\ writeBuffer' = writeBuffer
    BY <1>1 DEF SeesRecord
  <2> QED  BY <1>0, <2>1, <2>2, <2>3, SameSums, LeftAdds, LeftAddsAfter DEF Terms
<1>2. CASE PopRecord(l)
  <2>1. writeBuffer' = writeBuffer /\ loggerPc[l] = "pop"
    BY <1>2 DEF PopRecord
  <2>2. ASSUME NEW t \in Types, mQueue[t] > 0, mQueue' = [mQueue EXCEPT ![t] = @ - 1],
               holder' = [holder EXCEPT ![l] = t], LoggerTo(l, "route")
        PROVE  Left' < Left
    <3>1. \A u \in Types : Held(u)' = IF u = t THEN Held(u) + 1 ELSE Held(u)
      BY <2>1, <2>2, TakenUp
    <3>2. /\ Cardinality(At("empty"))' = Cardinality(At("empty"))
          /\ Cardinality(At("pop"))' = Cardinality(At("pop")) - 1
      BY <2>1, <2>2, PopLeft
    <3>3. \A u \in Types : mQueue'[u] = IF u = t THEN mQueue[u] + (-1) ELSE mQueue[u]
      BY <2>2 DEF TypeOK
    <3>4. IF t = "System"
            THEN Waiting' = Waiting /\ mQueue'["System"] = mQueue["System"] + (-1)
            ELSE Waiting' = Waiting + (-1) /\ mQueue'["System"] = mQueue["System"]
      BY <3>3, QueueSums
    <3>5. IF t = "System"
            THEN Carried' = Carried /\ Held("System")' = Held("System") + 1
            ELSE Carried' = Carried + 1 /\ Held("System")' = Held("System")
      BY <3>1, HeldSums
    <3> QED  BY <1>0, <2>1, <3>2, <3>4, <3>5, LeftAdds, LeftAddsAfter DEF Terms
  <2>3. CASE LoggerTo(l, "undefined") /\ UNCHANGED <<mQueue, holder>>
    <3>1. \A t : Held(t)' = Held(t)
      BY <2>1, <2>3, SameHeld
    <3>2. /\ Cardinality(At("empty"))' = Cardinality(At("empty"))
          /\ Cardinality(At("pop"))' = Cardinality(At("pop")) - 1
      BY <2>1, <2>3, PopLeft
    <3> QED  BY <1>0, <2>1, <2>3, <3>1, <3>2, SameSums, LeftAdds, LeftAddsAfter DEF Terms
  <2> QED  BY <1>2, <2>2, <2>3 DEF PopRecord
<1>3. CASE Route(l)
  <2>1. holder[l] \in Types
    BY DEF TypeOK
  <2>2. IF holder[l] = "System"
          THEN Carried' = Carried /\ Held("System")' = Held("System") + (-1)
          ELSE Carried' = Carried + (-1) /\ Held("System")' = Held("System")
    <3>1. \A u \in Types : Held(u)' = IF u = holder[l] THEN Held(u) + (-1) ELSE Held(u)
      BY <1>3, LaidDown, HeldIsNat DEF Route
    <3> QED  BY <2>1, <3>1, HeldSums
  <2>3. /\ Cardinality(At("empty"))' = Cardinality(At("empty")) + 1
        /\ Cardinality(At("pop"))' = Cardinality(At("pop"))
    <3>1. "empty" # loggerPc[l] /\ loggerPc' = [loggerPc EXCEPT ![l] = "empty"]
      BY <1>3 DEF Route
    <3>2. \A p : Cardinality(At(p))' = IF p = "empty" THEN Cardinality(At(p)) + 1
                                       ELSE IF p = "route" THEN Cardinality(At(p)) - 1
                                       ELSE Cardinality(At(p))
      BY <1>3, <3>1, PlacesMove DEF Route
    <3> QED  BY <3>2
  <2>4. CASE ToNetwork(holder[l])
    <3>1. holder[l] # "System"
      BY <2>4 DEF ToNetwork
    <3>2. /\ \A u \in Types : mQueue'[u] = IF u = "System" THEN mQueue[u] + 2 ELSE mQueue[u]
          /\ writeBuffer' = writeBuffer + 1
      BY <1>3, <2>4 DEF Route, TypeOK, Pushed, RecordsPerMessage, Types
    <3>3. Waiting' = Waiting /\ mQueue'["System"] = mQueue["System"] + 2
      BY <3>2, QueueSums DEF Types
    <3> QED  BY <1>0, <2>2, <2>3, <3>1, <3>2, <3>3, LeftAdds, LeftAddsAfter DEF Terms
  <2>5. CASE ~ToNetwork(holder[l])
    <3>1. mQueue' = mQueue /\ writeBuffer' = writeBuffer
      BY <1>3, <2>5 DEF Route
    <3> QED  BY <1>0, <2>2, <2>3, <3>1, SameSums, LeftAdds, LeftAddsAfter DEF Terms
  <2> QED  BY <2>4, <2>5
<1> QED  BY <1>1, <1>2, <1>3 DEF Logger

(* The steps of the writer controller.                                        *)
LEMMA WriterRunsDown ==
  ASSUME TypeOK, WriterPops \/ SendSucceeds \/ SendRefused
  PROVE  Left' < Left
<1>0. /\ Terms
      /\ \A p : Cardinality(At(p))' = Cardinality(At(p))
      /\ Carried' = Carried /\ Held("System")' = Held("System")
  BY TermsTyped, PlacesStay, SameSums DEF WriterPops, SendSucceeds, SendRefused
<1>1. CASE WriterPops
  <2>1. Sending = 0 /\ Sending' = 5 /\ writeBuffer' = writeBuffer - 1 /\ UNCHANGED mQueue
    BY <1>1 DEF WriterPops, Sending
  <2> QED  BY <1>0, <2>1, SameSums, LeftAdds, LeftAddsAfter DEF Terms
<1>2. CASE SendSucceeds
  <2>1. \A t \in Types : mQueue'[t] = IF t = "System" THEN mQueue[t] + 1 ELSE mQueue[t]
    BY <1>2 DEF SendSucceeds, Pushed, TypeOK
  <2>2. Waiting' = Waiting /\ mQueue'["System"] = mQueue["System"] + 1
    BY <2>1, QueueSums DEF Types
  <2>3. Sending = 5 /\ Sending' = 0 /\ writeBuffer' = writeBuffer
    BY <1>2 DEF SendSucceeds, Sending
  <2> QED  BY <1>0, <2>2, <2>3, LeftAdds, LeftAddsAfter DEF Terms
<1>3. CASE SendRefused
  <2>1. \A t \in Types : mQueue'[t] = IF t = "Error" THEN mQueue[t] + 1 ELSE mQueue[t]
    BY <1>3 DEF SendRefused, Pushed, TypeOK
  <2>2. Waiting' = Waiting + 1 /\ mQueue'["System"] = mQueue["System"]
    BY <2>1, QueueSums DEF Types
  <2>3. Sending = 19 /\ Sending' = 0 /\ writeBuffer' = writeBuffer
    BY <1>3 DEF SendRefused, Sending
  <2> QED  BY <1>0, <2>2, <2>3, LeftAdds, LeftAddsAfter DEF Terms
<1> QED  BY <1>1, <1>2, <1>3

(* A client that connects spares the message under way its ERROR record.      *)
LEMMA ConnectRunsDown ==
  ASSUME TypeOK, Connect
  PROVE  Left' <= Left
<1>1. /\ Terms
      /\ \A p : Cardinality(At(p))' = Cardinality(At(p))
      /\ Carried' = Carried /\ Held("System")' = Held("System")
  BY TermsTyped, PlacesStay, SameSums DEF Connect
<1>2. Sending' \in Nat /\ Sending' <= Sending /\ UNCHANGED <<mQueue, writeBuffer>>
  BY DEF Connect, Sending
<1> QED  BY <1>1, <1>2, SameSums, LeftAdds, LeftAddsAfter DEF Terms

(* As long as SYSTEM records are not sent, logging runs down between two      *)
(* events, with any number of logging controllers and any other flags: Left   *)
(* is a natural number and bounds the steps the controllers can take, so they *)
(* cannot keep each other busy for ever.                                      *)
THEOREM LoggingRunsDown ==
  ASSUME "System" \notin NetworkFlags
  PROVE  Spec => RunsDown /\ []Bounds
<1>1. TypeOK' => Bounds'
  BY LeftIsNat, PTL
<1>2. TypeOK /\ TypeOK' /\ [Next]_vars => [(Works => Left' < Left) /\ (~Event => Left' <= Left)]_vars
  <2> SUFFICES ASSUME TypeOK, TypeOK', [Next]_vars
               PROVE  (Works => Left' < Left) /\ (~Event => Left' <= Left)
    OBVIOUS
  <2>1. Left \in Nat /\ Left' \in Nat
    BY <1>1, LeftIsNat DEF Bounds
  <2>2. Works => Left' < Left
    BY LoggerRunsDown, WriterRunsDown DEF Works
  <2>3. UNCHANGED vars => Left' = Left
    BY DEF vars, Left, At, Held
  <2>4. CASE Works
    BY <2>1, <2>2, <2>4
  <2>5. CASE Connect \/ Idle \/ UNCHANGED vars
    BY <2>1, <2>2, <2>3, <2>5, ConnectRunsDown DEF Idle
  <2>6. CASE Event
    BY <2>2, <2>6
  <2> QED
    BY <2>4, <2>5, <2>6 DEF Works, Event, Next, Send
<1> QED  BY <1>2, LeftIsNat, TypeCorrect, PTL DEF Spec, RunsDown
=============================================================================
