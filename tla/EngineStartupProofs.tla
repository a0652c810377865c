------------------------- MODULE EngineStartupProofs -------------------------
(***************************************************************************)
(* Proofs about EngineStartup, for any settings file: any number of        *)
(* interfaces and of controllers of each kind.                             *)
(***************************************************************************)
EXTENDS EngineStartup, FiniteSetTheorems, WellFoundedInduction, TLAPS

(* Controllers of the n-th kind that have been constructed. *)
MadeOf(n) ==
  IF n < kind THEN threadCount[Kinds[n]] ELSE IF n = kind THEN made ELSE 0
ExclusivePlaces == {2, 3, 4}

BeforeControllers == {"arguments", "load", "interfaces", "refused", "undefined"}
Places ==
  /\ phase \in BeforeControllers => kind = 1 /\ made = 0 /\ pool = << >>
  /\ phase = "running" => kind = 6
  /\ kind <= 5 => made <= threadCount[Kinds[kind]]
  /\ kind = 6 => made = 0

(* First fit: the interfaces that have a controller of an exclusive kind are *)
(* the first ones of the list, as many as there are such controllers.        *)
FirstFit ==
  \A n \in ExclusivePlaces :
    /\ MadeOf(n) <= Len(networkList)
    /\ \A i \in DOMAIN networkList : Kinds[n] \in attached[i] <=> i <= MadeOf(n)

(* The controllers of an exclusive kind have the interfaces of that kind, each *)
(* of them exactly one.                                                        *)
PoolFits ==
  \A n \in ExclusivePlaces :
    /\ \A m \in DOMAIN pool :
         pool[m].kind = Kinds[n] => pool[m].index \in 1 .. MadeOf(n)
    /\ \A i \in 1 .. MadeOf(n) :
         \E m \in DOMAIN pool : pool[m].kind = Kinds[n] /\ pool[m].index = i

(* What main has got past it could read and attach. *)
PastMeansFine ==
  \A n \in 1 .. 5 :
    /\ n < kind => Kinds[n] \notin missing
    /\ MadeOf(n) > 0 =>
         IF Kinds[n] \in unreadable THEN Kinds[n] = "Logging"
         ELSE n \in ExclusivePlaces \/ \E i \in DOMAIN networkList : networkList[i] = Wanted[Kinds[n]]

Inv ==
  /\ TypeOK
  /\ Places /\ FirstFit /\ PoolFits /\ PastMeansFine
  /\ AttachedOnce
  /\ phase = "terminated" => CannotStart

-----------------------------------------------------------------------------
(* Facts about the operators.                                               *)

(* Every set of naturals that is not empty has a least element. *)
LEMMA LeastExists ==
  ASSUME NEW S \in SUBSET Nat, S # {}
  PROVE  \E i \in S : \A j \in S : i <= j
<1> DEFINE R == {p \in Nat \X Nat : p[1] < p[2]}
<1>1. IsWellFoundedOn(R, Nat)
  BY NatLessThanWellFounded DEF OpToRel
<1>2. \A i, j \in Nat : j < i => <<j, i>> \in R
  OBVIOUS
<1>3. \A i, j \in Nat : <<j, i>> \notin R => i <= j
  <2> HIDE DEF R
  <2> QED  BY <1>2
<1> HIDE DEF R
<1>4. \E i \in S : \A j \in S : <<j, i>> \notin R
  BY <1>1, WFMin, Zenon
<1> QED  BY <1>3, <1>4, Zenon

(* And a greatest one when it has a bound. *)
LEMMA GreatestExists ==
  ASSUME NEW n \in Nat, NEW S \in SUBSET (0 .. n), S # {}
  PROVE  \E i \in S : \A j \in S : j <= i
<1> DEFINE T == {k \in 0 .. n : n - k \in S}
<1>1. T \in SUBSET Nat /\ \A j \in S : n - j \in T
  OBVIOUS
<1>2. PICK t \in T : \A u \in T : t <= u
  <2>1. T # {}
    BY <1>1
  <2> QED  BY <1>1, <2>1, LeastExists
<1>3. \A j \in S : j <= n - t
  <2> TAKE j \in S
  <2>1. t <= n - j
    BY <1>1, <1>2
  <2> QED  BY <2>1
<1> QED  BY <1>2, <1>3

Before(cuts, n) == {c \in cuts : c < n}

LEMMA BeforeFinite ==
  ASSUME NEW L \in Nat, NEW cuts \in SUBSET (1 .. L), NEW n
  PROVE  /\ IsFiniteSet(cuts) /\ Cardinality(cuts) \in Nat
         /\ IsFiniteSet(Before(cuts, n)) /\ Cardinality(Before(cuts, n)) \in Nat
         /\ Before(cuts, n) \in SUBSET (0 .. L)
<1>1. IsFiniteSet(1 .. L)
  BY FS_Interval
<1>2. IsFiniteSet(cuts)
  BY <1>1, FS_Subset
<1>3. Before(cuts, n) \in SUBSET cuts
  BY DEF Before
<1>4. IsFiniteSet(Before(cuts, n))
  BY <1>2, <1>3, FS_Subset
<1>5. Before(cuts, n) \in SUBSET (0 .. L)
  <2>1. \A c \in cuts : c \in 0 .. L
    OBVIOUS
  <2> QED  BY <1>3, <2>1
<1>6. Cardinality(cuts) \in Nat /\ Cardinality(Before(cuts, n)) \in Nat
  BY <1>2, <1>4, FS_CardinalityType
<1> QED  BY <1>2, <1>4, <1>5, <1>6

(* Some cut, or the end, has exactly k cuts before it. *)
LEMMA EndExists ==
  ASSUME NEW L \in Nat, NEW cuts \in SUBSET (1 .. L), NEW k \in 0 .. Cardinality(cuts)
  PROVE  \E e \in cuts \cup {L + 1} : Cardinality(Before(cuts, e)) = k
<1> DEFINE late == {e \in cuts \cup {L + 1} : Cardinality(Before(cuts, e)) >= k}
<1>0. \A n : Cardinality(Before(cuts, n)) \in Nat /\ Before(cuts, n) \in SUBSET (0 .. L)
  BY BeforeFinite
<1>1. Before(cuts, L + 1) = cuts
  <2>1. \A c \in cuts : c < L + 1
    OBVIOUS
  <2> QED  BY <2>1 DEF Before
<1>2. Cardinality(cuts) \in Nat /\ Cardinality(cuts) >= k
  BY BeforeFinite
<1>3. late \in SUBSET Nat /\ late # {}
  <2>1. \A e \in late : e \in Nat
    OBVIOUS
  <2>2. L + 1 \in late
    BY <1>1, <1>2
  <2> QED  BY <2>1, <2>2
<1>4. PICK e \in late : \A g \in late : e <= g
  <2> HIDE DEF late
  <2> QED  BY <1>3, LeastExists
<1>5. SUFFICES ASSUME Cardinality(Before(cuts, e)) > k PROVE FALSE
  BY <1>0, <1>4
<1>6. Before(cuts, e) # {}
  BY <1>0, <1>5, FS_EmptySet
<1>7. PICK m \in Before(cuts, e) : \A c \in Before(cuts, e) : c <= m
  BY <1>0, <1>6, GreatestExists
<1>8. m \in cuts /\ m < e /\ \A c \in cuts : c < e => c <= m
  BY <1>7 DEF Before
<1>9. Before(cuts, m) = Before(cuts, e) \ {m}
  <2>1. e \in Nat /\ m \in Nat /\ \A c \in cuts : c \in Nat
    BY <1>3, <1>8
  <2>2. \A c \in cuts : c < m <=> c < e /\ c # m
    BY <1>8, <2>1
  <2> QED  BY <2>2 DEF Before
<1>10. Cardinality(Before(cuts, m)) = Cardinality(Before(cuts, e)) - 1
  <2>1. IsFiniteSet(Before(cuts, e))
    BY BeforeFinite
  <2>2. Cardinality(Before(cuts, e) \ {m}) = Cardinality(Before(cuts, e)) - 1
    BY <1>7, <2>1, FS_RemoveElement
  <2> QED  BY <1>9, <2>2
<1>11. m \in late
  BY <1>0, <1>5, <1>8, <1>10
<1> QED  BY <1>4, <1>8, <1>11, <1>3

(* The field that stringSplit cuts out between two cuts has none in it. *)
LEMMA FieldsTyped ==
  ASSUME NEW argument \in Arguments
  PROVE  stringSplit(argument) \in Seq(Fields)
<1> DEFINE L == Len(argument)
           cuts == {n \in DOMAIN argument : argument[n] = "="}
           last(n) == CHOOSE c \in Before(cuts, n) \cup {0} : \A d \in Before(cuts, n) : d <= c
           end(f) == CHOOSE e \in cuts \cup {L + 1} : Cardinality(Before(cuts, e)) = f - 1
<1>1. L \in Nat /\ DOMAIN argument = 1 .. L /\ argument \in Seq(Tokens)
      /\ cuts \in SUBSET (1 .. L)
  BY DEF Arguments
<1>2. Cardinality(cuts) \in Nat
  BY <1>1, BeforeFinite
<1>3. \A n \in 1 .. L : n \notin cuts => argument[n] \in Tokens \ {"="}
  BY <1>1
<1>4. stringSplit(argument) = [f \in 1 .. Cardinality(cuts) + 1 |->
                                 SubSeq(argument, last(end(f)) + 1, end(f) - 1)]
  BY DEF stringSplit, Before
<1> HIDE DEF L, cuts
<1>5. ASSUME NEW f \in 1 .. Cardinality(cuts) + 1
      PROVE  end(f) \in cuts \cup {L + 1}
  <2> DEFINE k == f - 1
  <2>1. k \in 0 .. Cardinality(cuts)
    BY <1>2
  <2> HIDE DEF k
  <2>2. \E e \in cuts \cup {L + 1} : Cardinality(Before(cuts, e)) = k
    BY <1>1, <2>1, EndExists
  <2> QED  BY <2>2 DEF k
<1>6. ASSUME NEW e
      PROVE  last(e) \in Before(cuts, e) \cup {0} /\ \A d \in Before(cuts, e) : d <= last(e)
  <2>1. Before(cuts, e) \cup {0} \in SUBSET (0 .. L)
    BY <1>1, BeforeFinite
  <2>2. \E c \in Before(cuts, e) \cup {0} : \A d \in Before(cuts, e) \cup {0} : d <= c
    BY <1>1, <2>1, GreatestExists
  <2> QED  BY <2>2
<1> HIDE DEF last, end
<1>7. ASSUME NEW e \in cuts \cup {L + 1}
      PROVE  SubSeq(argument, last(e) + 1, e - 1) \in Fields
  <2> DEFINE b == last(e)
  <2>1. b \in Nat /\ e \in 1 .. L + 1 /\ e \in Nat
    <3>1. b \in cuts \cup {0}
      BY <1>6 DEF Before
    <3>2. \A c \in cuts : c \in 1 .. L
      BY <1>1
    <3> HIDE DEF b
    <3> QED  BY <1>1, <3>1, <3>2
  <2>2. ASSUME NEW n \in b + 1 .. e - 1
        PROVE  n \in 1 .. L /\ n \notin cuts
    <3>1. \A d \in cuts : d < e => d <= b
      BY <1>6 DEF Before
    <3> HIDE DEF b
    <3> QED  BY <1>1, <2>1, <3>1
  <2>3. \A n \in b + 1 .. e - 1 : argument[n] \in Tokens \ {"="}
    BY <1>3, <2>2
  <2> HIDE DEF b
  <2>4. SubSeq(argument, b + 1, e - 1) \in Seq(Tokens \ {"="})
    BY <1>1, <2>1, <2>3
  <2> QED  BY <2>4 DEF Fields, b
<1> DEFINE n == Cardinality(cuts) + 1
           field(f) == SubSeq(argument, last(end(f)) + 1, end(f) - 1)
<1>8. \A f \in 1 .. n : field(f) \in Fields
  BY <1>5, <1>7
<1>9. n \in Nat
  BY <1>2
<1> HIDE DEF n, field
<1>10. [f \in 1 .. n |-> field(f)] \in Seq(Fields)
  BY <1>8, <1>9
<1> QED  BY <1>4, <1>10 DEF n, field

LEMMA KindFacts ==
  /\ KindNames = {"Logging", "Connection", "Writer", "Reader", "CommandExecuter"}
  /\ \A n \in 1 .. 5 :
       /\ Kinds[n] \in KindNames
       /\ Kinds[n] \in Exclusive <=> n \in ExclusivePlaces
       /\ \A m \in 1 .. 5 : Kinds[m] = Kinds[n] => m = n
  /\ \A k \in KindNames : \E n \in 1 .. 5 : k = Kinds[n]
<1>1. /\ Kinds[1] = "Logging" /\ Kinds[2] = "Connection" /\ Kinds[3] = "Writer"
      /\ Kinds[4] = "Reader" /\ Kinds[5] = "CommandExecuter"
  BY DEF Kinds
<1>2. \A n \in 1 .. 5 : n = 1 \/ n = 2 \/ n = 3 \/ n = 4 \/ n = 5
  OBVIOUS
<1> QED  BY <1>1, <1>2 DEF KindNames, Exclusive, ExclusivePlaces

LEMMA ListFacts ==
  ASSUME NEW q \in Lists
  PROVE  /\ q \in Seq(Descriptions) /\ Len(q) \in 0 .. MaxInterfaces
         /\ DOMAIN q = 1 .. Len(q)
  BY StartupAssumption DEF Lists

LEMMA AppendFacts ==
  ASSUME NEW S, NEW q \in Seq(S), NEW e \in S
  PROVE  /\ Append(q, e) \in Seq(S) /\ Len(Append(q, e)) = Len(q) + 1
         /\ Len(q) \in Nat /\ DOMAIN q = 1 .. Len(q)
         /\ DOMAIN Append(q, e) = 1 .. Len(q) + 1
         /\ \A i \in 1 .. Len(q) : Append(q, e)[i] = q[i]
         /\ Append(q, e)[Len(q) + 1] = e
  OBVIOUS

LEMMA SequenceIsFunction ==
  ASSUME NEW S, NEW n \in Nat
  PROVE  \A q : q \in Seq(S) /\ Len(q) = n <=> q \in [1 .. n -> S]
  OBVIOUS

LEMMA ListAppend ==
  ASSUME NEW q \in Lists, Len(q) < MaxInterfaces, NEW d \in Descriptions
  PROVE  /\ Append(q, d) \in Lists /\ Len(Append(q, d)) = Len(q) + 1
         /\ \A i \in DOMAIN q : Append(q, d)[i] = q[i]
<1>0. q \in Seq(Descriptions) /\ Len(q) \in Nat /\ DOMAIN q = 1 .. Len(q)
  BY ListFacts
<1>1. Append(q, d) \in [1 .. Len(q) + 1 -> Descriptions]
  <2>1. Append(q, d) \in Seq(Descriptions) /\ Len(Append(q, d)) = Len(q) + 1
    BY <1>0, AppendFacts
  <2>2. Len(q) + 1 \in Nat
    BY <1>0
  <2> QED  BY <2>1, <2>2, SequenceIsFunction
<1>2. Len(q) + 1 \in 0 .. MaxInterfaces
  BY ListFacts, StartupAssumption
<1>3. Append(q, d) \in Lists
  BY <1>1, <1>2 DEF Lists
<1> QED  BY <1>0, <1>3, AppendFacts

(* The first candidate is one. *)
LEMMA FirstFound ==
  ASSUME TypeOK, NEW k, Candidates(k) # {}
  PROVE  /\ First(Candidates(k)) \in Candidates(k)
         /\ \A j \in Candidates(k) : First(Candidates(k)) <= j
         /\ Candidates(k) \subseteq 1 .. Len(networkList)
<1>1. Candidates(k) \subseteq 1 .. Len(networkList)
  BY ListFacts DEF Candidates, TypeOK
<1>2. Candidates(k) \in SUBSET Nat
  BY <1>1
<1>3. \E i \in Candidates(k) : \A j \in Candidates(k) : i <= j
  BY <1>2, LeastExists
<1> QED  BY <1>1, <1>3 DEF First

-----------------------------------------------------------------------------
(* The invariant.                                                           *)

LEMMA InitInv == Init => Inv
<1> SUFFICES ASSUME Init PROVE Inv  OBVIOUS
<1> USE DEF Init
<1>1. << >> \in Lists
  <2>1. << >> \in [1 .. 0 -> Descriptions]  OBVIOUS
  <2>2. 0 \in 0 .. MaxInterfaces  BY StartupAssumption
  <2> QED  BY <2>1, <2>2 DEF Lists
<1>2. TypeOK
  <2>1. attached \in [1 .. Len(networkList) -> SUBSET KindNames]
    OBVIOUS
  <2>2. pool \in Seq([kind : KindNames, index : {Unset} \cup 1 .. Len(networkList)])
    OBVIOUS
  <2>3. threadCount \in [KindNames -> 0 .. MaxThreads] /\ 0 \in 0 .. MaxThreads
    BY StartupAssumption
  <2>4. cli \in Seq(Fields)
    OBVIOUS
  <2>5. missing \subseteq KindNames /\ unreadable \subseteq KindNames
    OBVIOUS
  <2>6. kind \in 1 .. 6 /\ made \in 0 .. MaxThreads
    BY <2>3
  <2>7. mutex \in BOOLEAN
    BY Zenon
  <2> QED  BY <1>1, <2>1, <2>2, <2>3, <2>4, <2>5, <2>6, <2>7 DEF TypeOK
<1>3. \A n \in 1 .. 5 : MadeOf(n) = 0
  BY DEF MadeOf
<1>4. Places
  BY KindFacts DEF Places, BeforeControllers
<1>5. FirstFit /\ PoolFits
  BY <1>3 DEF FirstFit, PoolFits, ExclusivePlaces
<1>6. PastMeansFine
  BY <1>3 DEF PastMeansFine
<1>7. AttachedOnce
  BY DEF AttachedOnce
<1> QED  BY <1>2, <1>4, <1>5, <1>6, <1>7 DEF Inv

(* Before the controllers there is nothing in the pool. *)
LEMMA NothingMade ==
  ASSUME Inv, kind = 1, made = 0, pool = << >>
  PROVE  /\ \A n \in 1 .. 5 : MadeOf(n) = 0
         /\ \A n \in ExclusivePlaces, i \in DOMAIN networkList : Kinds[n] \notin attached[i]
<1>1. \A n \in 1 .. 5 : MadeOf(n) = 0
  BY DEF MadeOf
<1>2. \A n \in ExclusivePlaces : n \in 1 .. 5
  BY DEF ExclusivePlaces
<1>3. \A i \in DOMAIN networkList : i \in Nat \ {0}
  BY ListFacts DEF Inv, TypeOK
<1>4. \A n \in ExclusivePlaces, i \in DOMAIN networkList : Kinds[n] \in attached[i] <=> i <= 0
  BY <1>1, <1>2 DEF Inv, FirstFit
<1> QED  BY <1>1, <1>3, <1>4

(* And whatever the settings, the invariant then only asks for types. *)
LEMMA NothingMadeYet ==
  ASSUME TypeOK', (kind = 1)', (made = 0)', (pool = << >>)',
         (phase \in BeforeControllers \cup {"controllers"})',
         \A n \in ExclusivePlaces : \A i \in (DOMAIN networkList)' : Kinds[n] \notin attached'[i]
  PROVE  Inv'
<1>1. \A n \in 1 .. 5 : MadeOf(n)' = 0
  BY DEF MadeOf
<1>2. \A n \in ExclusivePlaces : n \in 1 .. 5
  BY DEF ExclusivePlaces
<1>3. Places'
  BY KindFacts DEF Places, BeforeControllers, TypeOK
<1>4. FirstFit' /\ PoolFits'
  <2>1. Len(networkList') \in Nat /\ DOMAIN networkList' = 1 .. Len(networkList')
    BY ListFacts DEF TypeOK
  <2>2. FirstFit'
    BY <1>1, <1>2, <2>1 DEF FirstFit
  <2>3. PoolFits'
    BY <1>1, <1>2 DEF PoolFits
  <2> QED  BY <2>2, <2>3
<1>5. PastMeansFine'
  BY <1>1 DEF PastMeansFine
<1>6. AttachedOnce'
  BY DEF AttachedOnce
<1>7. phase' # "terminated"
  BY DEF BeforeControllers
<1> QED  BY <1>3, <1>4, <1>5, <1>6, <1>7 DEF Inv

(* Reading the command line.                                                  *)
LEMMA ArgumentsStep ==
  ASSUME Inv, ReadCommandLineArgs \/ Load \/ LoadFails \/ ReadInterface \/ InterfacesDone
  PROVE  Inv'
<1>0. kind = 1 /\ made = 0 /\ pool = << >> /\ TypeOK
  BY DEF Inv, Places, BeforeControllers, ReadCommandLineArgs, Load, LoadFails,
         ReadInterface, InterfacesDone
<1>1. \A n \in ExclusivePlaces, i \in DOMAIN networkList : Kinds[n] \notin attached[i]
  BY <1>0, NothingMade
<1> USE DEF BeforeControllers
<1>2. CASE ReadCommandLineArgs
  <2>1. cli' \in Seq(Fields)
    BY <1>0, <1>2, FieldsTyped DEF ReadCommandLineArgs, TypeOK
  <2>2. UNCHANGED <<settings, interfaces, controllers>>
        /\ phase' \in {"refused", "undefined", "load"}
    BY <1>2 DEF ReadCommandLineArgs
  <2>3. TypeOK'
    BY <1>0, <2>1, <2>2 DEF TypeOK, settings, interfaces, controllers
  <2> QED  BY <1>0, <1>1, <2>2, <2>3, NothingMadeYet DEF settings, interfaces, controllers
<1>3. CASE Load
  <2>1. missing' \subseteq KindNames /\ unreadable' \subseteq KindNames
    BY <1>3 DEF Load
  <2>2. /\ listed' \in Lists /\ threadCount' \in [KindNames -> 0 .. MaxThreads]
        /\ cli' = << >> /\ phase' = "interfaces" /\ UNCHANGED <<interfaces, controllers>>
    BY <1>3 DEF Load
  <2>3. TypeOK'
    BY <1>0, <2>1, <2>2 DEF TypeOK, interfaces, controllers
  <2> QED  BY <1>0, <1>1, <2>2, <2>3, NothingMadeYet DEF interfaces, controllers
<1>4. CASE LoadFails \/ InterfacesDone
  <2>1. UNCHANGED <<cli, settings, interfaces, controllers>>
        /\ phase' \in {"refused", "controllers"}
    BY <1>4 DEF LoadFails, InterfacesDone, interfaces, controllers
  <2>2. TypeOK'
    BY <1>0, <2>1 DEF TypeOK, settings, interfaces, controllers
  <2> QED  BY <1>0, <1>1, <2>1, <2>2, NothingMadeYet DEF interfaces, controllers
<1>5. CASE ReadInterface
  <2> DEFINE n == Len(networkList)
  <2>1. /\ n \in Nat /\ DOMAIN networkList = 1 .. n /\ n < MaxInterfaces
        /\ n + 1 \in DOMAIN listed /\ listed[n + 1] \in Descriptions
        /\ UNCHANGED <<cli, settings, mutex, pool, kind, made, phase>>
        /\ phase = "interfaces"
    BY <1>0, <1>5, ListFacts, StartupAssumption DEF ReadInterface, TypeOK
  <2>2. networkList' \in Lists /\ Len(networkList') = n + 1
        /\ DOMAIN networkList' = 1 .. n + 1
    BY <1>0, <1>5, <2>1, ListAppend, ListFacts DEF ReadInterface, TypeOK
  <2>3. /\ attached' \in [1 .. n + 1 -> SUBSET KindNames]
        /\ \A i \in 1 .. n : attached'[i] = attached[i]
        /\ attached'[n + 1] = {}
    <3>1. attached \in [1 .. n -> SUBSET KindNames] /\ attached \in Seq(SUBSET KindNames)
          /\ Len(attached) = n
      BY <1>0, <2>1 DEF TypeOK
    <3>2. attached' = Append(attached, {})
      BY <1>5 DEF ReadInterface
    <3>3. {} \in SUBSET KindNames
      OBVIOUS
    <3> HIDE DEF n
    <3>4. attached' \in Seq(SUBSET KindNames) /\ Len(attached') = n + 1
      BY <3>1, <3>2, <3>3, AppendFacts
    <3>5. attached' \in [1 .. n + 1 -> SUBSET KindNames]
      BY <2>1, <3>4, SequenceIsFunction
    <3> QED  BY <3>1, <3>2, <3>3, <3>5, AppendFacts
  <2>4. TypeOK'
    BY <1>0, <2>1, <2>2, <2>3 DEF TypeOK, settings
  <2>5. \A m \in ExclusivePlaces, i \in DOMAIN networkList' : Kinds[m] \notin attached'[i]
    BY <1>1, <2>1, <2>2, <2>3
  <2> QED  BY <1>0, <2>1, <2>4, <2>5, NothingMadeYet
<1> QED  BY <1>2, <1>3, <1>4, <1>5

(* Constructing a controller and attaching it.                                *)
LEMMA ConstructStep ==
  ASSUME Inv, NEW k \in KindNames, Construct(k)
  PROVE  Inv'
<1> DEFINE i == First(Candidates(k))
           N == Len(networkList)
           e == [kind |-> k, index |-> i]
           Entries == [kind : KindNames, index : {Unset} \cup 1 .. N]
<1>1. /\ phase = "controllers" /\ kind \in 1 .. 5 /\ Kinds[kind] \notin missing
      /\ k = Kinds[kind] /\ made < threadCount[k] /\ k \notin unreadable
      /\ TypeOK
  BY DEF Construct, Constructing, Inv, TypeOK
<1>2. /\ attached' = [attached EXCEPT ![i] = @ \cup {k}] /\ pool' = Append(pool, e)
      /\ made' = made + 1
      /\ UNCHANGED <<cli, settings, networkList, mutex, kind, phase>>
  BY DEF Construct
<1>3. i \in Candidates(k) /\ (\A j \in Candidates(k) : i <= j) /\ i \in 1 .. N
  BY <1>1, FirstFound DEF Construct
<1>4. N \in Nat /\ DOMAIN networkList = 1 .. N /\ made \in Nat
      /\ threadCount[k] \in 0 .. MaxThreads
  BY <1>1, ListFacts, StartupAssumption DEF TypeOK
<1> HIDE DEF i, N
<1>5. /\ pool \in Seq(Entries) /\ e \in Entries
      /\ pool' \in Seq(Entries)
      /\ DOMAIN pool = 1 .. Len(pool) /\ DOMAIN pool' = 1 .. Len(pool) + 1
      /\ Len(pool) \in Nat
      /\ \A m \in DOMAIN pool : pool'[m] = pool[m]
      /\ pool'[Len(pool) + 1] = e
  <2>1. pool \in Seq(Entries)
    BY <1>1 DEF TypeOK, N
  <2>2. e \in Entries
    BY <1>3
  <2> HIDE DEF Entries, e
  <2> QED  BY <1>2, <2>1, <2>2, AppendFacts
<1>6. \A n \in 1 .. 5 : MadeOf(n)' = IF n = kind THEN MadeOf(n) + 1 ELSE MadeOf(n)
  BY <1>1, <1>2 DEF MadeOf, settings
<1>7. MadeOf(kind) = made /\ \A n \in 1 .. 5 : MadeOf(n) \in Nat
  <2>1. \A n \in 1 .. 5 : threadCount[Kinds[n]] \in 0 .. MaxThreads
    BY <1>1, KindFacts DEF TypeOK
  <2>2. \A n \in 1 .. 5 : threadCount[Kinds[n]] \in Nat
    BY <2>1, StartupAssumption
  <2> QED  BY <1>1, <1>4, <2>2 DEF MadeOf
<1>8. \A n \in ExclusivePlaces : n \in 1 .. 5
  BY DEF ExclusivePlaces
(* The first interface without a controller of this kind is the next one. *)
<1>9. kind \in ExclusivePlaces => i = made + 1
  <2> SUFFICES ASSUME kind \in ExclusivePlaces PROVE i = made + 1
    OBVIOUS
  <2>1. k \in Exclusive
    BY <1>1, KindFacts
  <2>2. \A j \in 1 .. N : j \in Candidates(k) <=> ~(j <= made)
    BY <1>1, <1>4, <1>7, <2>1 DEF Candidates, Inv, FirstFit
  <2> QED  BY <1>3, <1>4, <2>2
<1>10. TypeOK'
  <2>1. attached' \in [1 .. N -> SUBSET KindNames]
    BY <1>1, <1>2, <1>3 DEF TypeOK, N
  <2>2. made' \in 0 .. MaxThreads
    BY <1>1, <1>2, <1>4, StartupAssumption
  <2> QED  BY <1>1, <1>2, <1>5, <2>1, <2>2 DEF TypeOK, settings, N
<1>11. Places'
  BY <1>1, <1>2, <1>4 DEF Places, BeforeControllers, settings
<1>12. FirstFit'
  <2> SUFFICES ASSUME NEW n \in ExclusivePlaces
               PROVE  /\ MadeOf(n)' <= N
                      /\ \A j \in 1 .. N : Kinds[n] \in attached'[j] <=> j <= MadeOf(n)'
    BY <1>2, <1>4 DEF FirstFit, N
  <2>1. /\ MadeOf(n) <= N
        /\ \A j \in 1 .. N : Kinds[n] \in attached[j] <=> j <= MadeOf(n)
    BY <1>4 DEF Inv, FirstFit, N
  <2>2. \A j \in 1 .. N : attached'[j] = IF j = i THEN attached[j] \cup {k} ELSE attached[j]
    BY <1>1, <1>2, <1>3 DEF TypeOK, N
  <2>3. CASE n = kind
    <3>1. MadeOf(n) = made /\ MadeOf(n)' = made + 1 /\ i = made + 1 /\ Kinds[n] = k
      BY <1>1, <1>6, <1>7, <1>8, <1>9, <2>3
    <3>2. \A j \in 1 .. N : k \in attached'[j] <=> j = i \/ k \in attached[j]
      BY <2>2
    <3>3. \A j \in 1 .. N : k \in attached'[j] <=> j <= made + 1
      BY <1>4, <2>1, <3>1, <3>2
    <3> QED  BY <1>3, <3>1, <3>3
  <2>4. CASE n # kind
    <3>1. Kinds[n] # k /\ MadeOf(n)' = MadeOf(n)
      BY <1>1, <1>6, <1>8, <2>4, KindFacts
    <3>2. \A j \in 1 .. N : Kinds[n] \in attached'[j] <=> Kinds[n] \in attached[j]
      BY <2>2, <3>1
    <3> QED  BY <2>1, <3>1, <3>2
  <2> QED  BY <2>3, <2>4
<1>13. PoolFits'
  <2> SUFFICES ASSUME NEW n \in ExclusivePlaces
               PROVE  /\ \A m \in DOMAIN pool' :
                           pool'[m].kind = Kinds[n] => pool'[m].index \in 1 .. MadeOf(n)'
                      /\ \A j \in 1 .. MadeOf(n)' :
                           \E m \in DOMAIN pool' : pool'[m].kind = Kinds[n] /\ pool'[m].index = j
    BY DEF PoolFits
  <2>1. /\ \A m \in DOMAIN pool :
             pool[m].kind = Kinds[n] => pool[m].index \in 1 .. MadeOf(n)
        /\ \A j \in 1 .. MadeOf(n) :
             \E m \in DOMAIN pool : pool[m].kind = Kinds[n] /\ pool[m].index = j
    BY DEF Inv, PoolFits
  <2>2. e.kind = k /\ e.index = i
    OBVIOUS
  <2>3. MadeOf(n) \in Nat /\ MadeOf(n)' = IF n = kind THEN MadeOf(n) + 1 ELSE MadeOf(n)
    BY <1>6, <1>7, <1>8
  <2>4. k = Kinds[n] <=> n = kind
    BY <1>1, <1>8, KindFacts
  <2> HIDE DEF e
  <2>5. ASSUME NEW m \in DOMAIN pool', pool'[m].kind = Kinds[n]
        PROVE  pool'[m].index \in 1 .. MadeOf(n)'
    <3>1. CASE m \in DOMAIN pool
      <4>1. pool[m].index \in 1 .. MadeOf(n)
        BY <1>5, <2>1, <2>5, <3>1
      <4> QED  BY <1>5, <2>3, <3>1, <4>1
    <3>2. CASE m = Len(pool) + 1
      <4>1. n = kind /\ pool'[m].index = made + 1
        BY <1>5, <1>9, <2>2, <2>4, <2>5, <3>2
      <4> QED  BY <1>4, <1>7, <2>3, <4>1
    <3> QED  BY <1>5, <3>1, <3>2
  <2>6. ASSUME NEW j \in 1 .. MadeOf(n)'
        PROVE  \E m \in DOMAIN pool' : pool'[m].kind = Kinds[n] /\ pool'[m].index = j
    <3>1. CASE j \in 1 .. MadeOf(n)
      <4>1. PICK m \in DOMAIN pool : pool[m].kind = Kinds[n] /\ pool[m].index = j
        BY <2>1, <3>1
      <4> QED  BY <1>5, <4>1
    <3>2. CASE n = kind /\ j = made + 1
      BY <1>5, <1>9, <2>2, <2>4, <3>2
    <3> QED  BY <1>7, <2>3, <3>1, <3>2
  <2> QED  BY <2>5, <2>6
<1>14. PastMeansFine'
  <2> SUFFICES ASSUME NEW n \in 1 .. 5
               PROVE  /\ n < kind => Kinds[n] \notin missing
                      /\ MadeOf(n)' > 0 =>
                           IF Kinds[n] \in unreadable THEN Kinds[n] = "Logging"
                           ELSE \/ n \in ExclusivePlaces
                                \/ \E j \in DOMAIN networkList : networkList[j] = Wanted[Kinds[n]]
    BY <1>2 DEF PastMeansFine, settings
  <2>1. CASE n = kind
    <3>1. n \in ExclusivePlaces \/ networkList[i] = Wanted[k]
      BY <1>1, <1>3, <2>1, KindFacts DEF Candidates
    <3> QED  BY <1>1, <1>3, <1>4, <2>1, <3>1 DEF N
  <2>2. CASE n # kind
    BY <1>6, <2>2 DEF Inv, PastMeansFine
  <2> QED  BY <2>1, <2>2
<1>15. AttachedOnce'
  <2>1. ASSUME NEW m \in DOMAIN pool, pool[m].kind = k, k \in Exclusive
        PROVE  pool[m].index # i
    <3>1. kind \in ExclusivePlaces
      BY <1>1, <2>1, KindFacts
    <3>2. pool[m].index \in 1 .. made
      BY <1>1, <1>7, <2>1, <3>1 DEF Inv, PoolFits
    <3> QED  BY <1>4, <1>9, <3>1, <3>2
  <2>2. e.kind = k /\ e.index = i
    OBVIOUS
  <2> HIDE DEF e
  <2> SUFFICES ASSUME NEW m \in DOMAIN pool', NEW n \in DOMAIN pool', m # n,
                      pool'[m].kind = pool'[n].kind, pool'[m].kind \in Exclusive
               PROVE  pool'[m].index # pool'[n].index
    BY DEF AttachedOnce
  <2>3. CASE m \in DOMAIN pool /\ n \in DOMAIN pool
    BY <1>5, <2>3 DEF Inv, AttachedOnce
  <2>4. CASE m \in DOMAIN pool /\ n = Len(pool) + 1
    BY <1>5, <2>1, <2>2, <2>4
  <2>5. CASE m = Len(pool) + 1 /\ n \in DOMAIN pool
    BY <1>5, <2>1, <2>2, <2>5
  <2> QED  BY <1>5, <2>3, <2>4, <2>5
<1> QED  BY <1>1, <1>2, <1>10, <1>11, <1>12, <1>13, <1>14, <1>15 DEF Inv

(* A logging controller without an interface takes none from the others. *)
LEMMA ConstructUnattachedStep ==
  ASSUME Inv, NEW k \in KindNames, ConstructUnattached(k)
  PROVE  Inv'
<1> DEFINE e == [kind |-> k, index |-> Unset]
           Entries == [kind : KindNames, index : {Unset} \cup 1 .. Len(networkList)]
<1>1. /\ phase = "controllers" /\ kind = 1 /\ Kinds[kind] \notin missing
      /\ k = Kinds[kind] /\ k = "Logging" /\ made < threadCount[k] /\ k \in unreadable
      /\ TypeOK
  <2>1. Kinds[1] = "Logging"
    BY DEF Kinds
  <2>2. /\ phase = "controllers" /\ kind \in 1 .. 5 /\ Kinds[kind] \notin missing
        /\ k = Kinds[kind] /\ k = "Logging" /\ made < threadCount[k] /\ k \in unreadable
    BY DEF ConstructUnattached, Constructing, Inv, TypeOK
  <2>3. kind = 1
    <3>1. \A n \in 1 .. 5 : Kinds[n] = "Logging" => n = 1
      BY DEF Kinds
    <3> QED  BY <2>2, <3>1
  <2> QED  BY <2>2, <2>3 DEF Inv
<1>2. /\ pool' = Append(pool, e) /\ made' = made + 1
      /\ UNCHANGED <<cli, settings, networkList, attached, mutex, kind, phase>>
  BY DEF ConstructUnattached
<1>3. made \in Nat /\ threadCount[k] \in 0 .. MaxThreads /\ made' \in 0 .. MaxThreads
  BY <1>1, <1>2, StartupAssumption DEF TypeOK
<1>4. /\ pool' \in Seq(Entries)
      /\ DOMAIN pool = 1 .. Len(pool) /\ DOMAIN pool' = 1 .. Len(pool) + 1
      /\ \A m \in DOMAIN pool : pool'[m] = pool[m]
      /\ pool'[Len(pool) + 1] = e /\ Len(pool) \in Nat
  <2>1. pool \in Seq(Entries) /\ e \in Entries
    BY <1>1 DEF TypeOK
  <2> HIDE DEF Entries, e
  <2> QED  BY <1>2, <2>1, AppendFacts
<1>5. e.kind = "Logging" /\ "Logging" \notin Exclusive
  BY <1>1 DEF Exclusive
<1> HIDE DEF e
<1>6. \A n \in ExclusivePlaces : MadeOf(n)' = MadeOf(n) /\ n \in 1 .. 5 /\ Kinds[n] # "Logging"
  <2>1. \A n \in ExclusivePlaces : n \in 1 .. 5 /\ n # 1
    BY DEF ExclusivePlaces
  <2>2. \A n \in 1 .. 5 : n # 1 => MadeOf(n)' = MadeOf(n)
    BY <1>1, <1>2 DEF MadeOf, settings
  <2>3. \A n \in 1 .. 5 : n # 1 => Kinds[n] # "Logging"
    BY DEF Kinds
  <2> QED  BY <2>1, <2>2, <2>3
<1>7. TypeOK'
  BY <1>1, <1>2, <1>3, <1>4 DEF TypeOK, settings
<1>8. Places'
  <2>1. threadCount' = threadCount /\ kind' = 1 /\ Kinds[1] = k /\ phase' = "controllers"
    BY <1>1, <1>2 DEF settings
  <2>2. made' <= threadCount[k]
    BY <1>1, <1>2, <1>3
  <2> QED  BY <2>1, <2>2 DEF Places, BeforeControllers
<1>9. FirstFit'
  BY <1>2, <1>6 DEF Inv, FirstFit
<1>10. PoolFits'
  <2>1. \A n \in ExclusivePlaces, m \in DOMAIN pool' :
          pool'[m].kind = Kinds[n] => m \in DOMAIN pool
    BY <1>4, <1>5, <1>6
  <2>2. ASSUME NEW n \in ExclusivePlaces, NEW m \in DOMAIN pool', pool'[m].kind = Kinds[n]
        PROVE  pool'[m].index \in 1 .. MadeOf(n)'
    BY <1>4, <1>6, <2>1, <2>2 DEF Inv, PoolFits
  <2>3. ASSUME NEW n \in ExclusivePlaces, NEW i \in 1 .. MadeOf(n)'
        PROVE  \E m \in DOMAIN pool' : pool'[m].kind = Kinds[n] /\ pool'[m].index = i
    <3>1. PICK m \in DOMAIN pool : pool[m].kind = Kinds[n] /\ pool[m].index = i
      BY <1>6 DEF Inv, PoolFits
    <3> QED  BY <1>4, <3>1
  <2> QED  BY <2>2, <2>3 DEF PoolFits
<1>11. PastMeansFine'
  <2>1. \A n \in 1 .. 5 : n # 1 => MadeOf(n)' = MadeOf(n)
    BY <1>1, <1>2 DEF MadeOf, settings
  <2> QED  BY <1>1, <1>2, <2>1 DEF Inv, PastMeansFine, settings
<1>12. AttachedOnce'
  <2>1. \A m \in DOMAIN pool' : pool'[m].kind \in Exclusive => m \in DOMAIN pool
    BY <1>4, <1>5
  <2> QED  BY <1>4, <2>1 DEF Inv, AttachedOnce
<1> QED  BY <1>1, <1>2, <1>7, <1>8, <1>9, <1>10, <1>11, <1>12 DEF Inv

(* A step that leaves everything but the phase, and perhaps the mutex. *)
LEMMA PhaseStep ==
  ASSUME Inv, phase = "controllers",
         UNCHANGED <<cli, settings, networkList, attached, controllers>>,
         mutex' \in BOOLEAN,
         \/ phase' = "running" /\ kind = 6
         \/ phase' = "terminated" /\ CannotStart
  PROVE  Inv'
<1> USE DEF settings, controllers
<1>1. TypeOK'
  BY DEF Inv, TypeOK
<1>2. Places'
  BY DEF Inv, Places, BeforeControllers
<1>3. FirstFit' /\ PoolFits' /\ PastMeansFine' /\ AttachedOnce'
  BY DEF Inv, FirstFit, PoolFits, PastMeansFine, AttachedOnce, MadeOf
<1>4. CannotStart' <=> CannotStart
  BY DEF CannotStart, Oversubscribed
<1> QED  BY <1>1, <1>2, <1>3, <1>4 DEF Inv

(* A fetch that finds no interface.                                           *)
LEMMA ConstructThrowsStep ==
  ASSUME Inv, NEW k \in KindNames, ConstructThrows(k)
  PROVE  Inv'
<1>1. /\ phase = "controllers" /\ kind \in 1 .. 5 /\ k = Kinds[kind]
      /\ made < threadCount[k] /\ k \notin unreadable /\ Candidates(k) = {} /\ TypeOK
  BY DEF ConstructThrows, Constructing, Inv, TypeOK
<1>2. /\ Len(networkList) \in Nat /\ DOMAIN networkList = 1 .. Len(networkList)
      /\ made \in Nat /\ threadCount[k] \in Nat
  BY <1>1, ListFacts, StartupAssumption DEF TypeOK
<1>3. Oversubscribed(k)
  <2>1. CASE k \in Exclusive
    <3>1. kind \in ExclusivePlaces /\ MadeOf(kind) = made
      BY <1>1, <2>1, KindFacts DEF MadeOf
    <3>2. \A i \in 1 .. Len(networkList) : i <= made
      BY <1>1, <1>2, <2>1, <3>1 DEF Candidates, Inv, FirstFit
    <3>3. Len(networkList) <= made
      BY <1>2, <3>2
    <3> QED  BY <1>1, <1>2, <2>1, <3>3 DEF Oversubscribed
  <2>2. CASE k \notin Exclusive
    BY <1>1, <2>2 DEF Candidates, Oversubscribed
  <2> QED  BY <2>1, <2>2
<1>4. CannotStart
  BY <1>1, <1>2, <1>3 DEF CannotStart
<1> QED  BY <1>1, <1>4, PhaseStep DEF ConstructThrows, controllers

(* A constructor that fails, a kind with no Enabled, and the start of the      *)
(* orchestrator.                                                              *)
LEMMA EndsStep ==
  ASSUME Inv, \/ \E k \in KindNames : ConstructFails(k)
              \/ EnabledMissing \/ StartOrchestrator
  PROVE  Inv'
<1>1. mutex \in BOOLEAN
  BY DEF Inv, TypeOK
<1>2. ASSUME NEW k \in KindNames, ConstructFails(k)
      PROVE  Inv'
  <2>1. threadCount[k] > 0
    BY <1>2, StartupAssumption DEF ConstructFails, Constructing, Inv, TypeOK
  <2>2. CannotStart
    BY <1>2, <2>1 DEF ConstructFails, CannotStart
  <2> QED  BY <1>1, <1>2, <2>2, PhaseStep DEF ConstructFails, Constructing, controllers
<1>3. CASE EnabledMissing
  <2>1. CannotStart
    BY <1>3 DEF EnabledMissing, CannotStart
  <2> QED  BY <1>1, <1>3, <2>1, PhaseStep DEF EnabledMissing, interfaces
<1>4. CASE StartOrchestrator
  BY <1>1, <1>4, PhaseStep DEF StartOrchestrator, controllers
<1> QED  BY <1>2, <1>3, <1>4

(* All controllers of a kind are made.                                        *)
LEMMA NextKindStep ==
  ASSUME Inv, NextKind
  PROVE  Inv'
<1>1. /\ phase = "controllers" /\ kind \in 1 .. 5 /\ Kinds[kind] \notin missing
      /\ made = threadCount[Kinds[kind]] /\ kind' = kind + 1 /\ made' = 0
      /\ UNCHANGED <<cli, settings, networkList, attached, mutex, pool, phase>>
      /\ TypeOK
  BY DEF NextKind, Inv, TypeOK
<1>2. \A n \in 1 .. 5 : MadeOf(n)' = MadeOf(n)
  BY <1>1 DEF MadeOf, settings
<1>3. \A n \in ExclusivePlaces : n \in 1 .. 5
  BY DEF ExclusivePlaces
<1>4. TypeOK'
  BY <1>1, StartupAssumption DEF TypeOK, settings
<1>5. Places'
  <2>1. kind' <= 5 => 0 <= threadCount[Kinds[kind']]
    <3>1. SUFFICES ASSUME kind' <= 5 PROVE 0 <= threadCount[Kinds[kind']]
      OBVIOUS
    <3>2. kind' \in 1 .. 5
      BY <1>1, <3>1
    <3>3. Kinds[kind'] \in KindNames
      BY <3>2, KindFacts
    <3>4. threadCount \in [KindNames -> 0 .. MaxThreads]
      BY <1>1 DEF TypeOK
    <3>5. threadCount[Kinds[kind']] \in 0 .. MaxThreads
      BY <3>3, <3>4
    <3> QED  BY <3>5, StartupAssumption
  <2> QED  BY <1>1, <2>1 DEF Places, BeforeControllers, settings
<1>6. FirstFit' /\ PoolFits'
  <2>1. FirstFit'
    BY <1>1, <1>2, <1>3 DEF Inv, FirstFit
  <2>2. PoolFits'
    BY <1>1, <1>2, <1>3 DEF Inv, PoolFits
  <2> QED  BY <2>1, <2>2
<1>7. PastMeansFine'
  <2>1. \A n \in 1 .. 5 : n < kind' => n = kind \/ n < kind
    BY <1>1
  <2> QED  BY <1>1, <1>2, <2>1 DEF Inv, PastMeansFine, settings
<1>8. AttachedOnce'
  BY <1>1 DEF Inv, AttachedOnce
<1> QED  BY <1>1, <1>4, <1>5, <1>6, <1>7, <1>8 DEF Inv

(* The inductive invariant: in each phase of main the pool, the attached flags *)
(* and the counters fit what has been constructed so far.                     *)
THEOREM Inductive == Spec => []Inv
<1>1. Inv /\ [Next]_vars => Inv'
  <2> SUFFICES ASSUME Inv, [Next]_vars PROVE Inv'
    OBVIOUS
  <2>1. CASE UNCHANGED vars
    BY <2>1 DEF vars, settings, Inv, TypeOK, Places, FirstFit, PoolFits, PastMeansFine,
                AttachedOnce, MadeOf, CannotStart, Oversubscribed
  <2> QED
    BY <2>1, ArgumentsStep, ConstructStep, ConstructThrowsStep, ConstructUnattachedStep,
       EndsStep, NextKindStep
    DEF Next
<1> QED  BY InitInv, <1>1, PTL DEF Spec

-----------------------------------------------------------------------------
(* The results.                                                             *)

(* Every variable keeps its type, for any settings; above all the fields of   *)
(* the command line hold no "=" and no index is outside networkList.          *)
THEOREM TypeCorrect == Spec => []TypeOK
BY Inductive, PTL DEF Inv

(* However many controllers the settings ask for, no interface has two        *)
(* controllers of an exclusive kind.                                          *)
THEOREM NothingAttachedTwice == Spec => []AttachedOnce
BY Inductive, PTL DEF Inv

(* When main runs, all controllers were made. *)
LEMMA RunningMeansAllMade ==
  ASSUME Inv, phase = "running"
  PROVE  \A n \in 1 .. 5 : MadeOf(n) = threadCount[Kinds[n]]
BY DEF Inv, Places, MadeOf

(* main ends before it starts the orchestrator exactly when a kind has no      *)
(* Enabled, or a controller to be made cannot be attached or read its settings. *)
THEOREM StartsOrSaysWhy == Spec => []StartsUnlessOversubscribed
<1>1. Inv => StartsUnlessOversubscribed
  <2> SUFFICES ASSUME Inv, phase = "running", CannotStart
               PROVE  FALSE
    BY DEF StartsUnlessOversubscribed, Inv
  <2>1. kind = 6 /\ TypeOK
    BY DEF Inv, Places
  <2>2. missing = {}
    <3>1. \A n \in 1 .. 5 : Kinds[n] \notin missing
      BY <2>1 DEF Inv, PastMeansFine
    <3>2. missing \subseteq KindNames
      BY <2>1 DEF TypeOK
    <3>3. \A k \in KindNames : k \notin missing
      BY <3>1, KindFacts
    <3> QED  BY <3>2, <3>3
  <2>3. PICK n \in 1 .. 5 :
          /\ threadCount[Kinds[n]] > 0
          /\ IF Kinds[n] \in unreadable THEN Kinds[n] # "Logging" ELSE Oversubscribed(Kinds[n])
    BY <2>2, KindFacts DEF CannotStart
  <2>4. MadeOf(n) = threadCount[Kinds[n]]
    BY RunningMeansAllMade
  <2>5. Kinds[n] \notin unreadable /\ Oversubscribed(Kinds[n])
    BY <2>3, <2>4 DEF Inv, PastMeansFine
  <2>6. CASE n \in ExclusivePlaces
    <3>1. MadeOf(n) <= Len(networkList) /\ MadeOf(n) > Len(networkList)
      BY <2>4, <2>5, <2>6, KindFacts DEF Inv, FirstFit, Oversubscribed
    <3>2. MadeOf(n) \in Nat /\ Len(networkList) \in Nat
      <4>1. threadCount[Kinds[n]] \in 0 .. MaxThreads
        BY <2>1, KindFacts DEF TypeOK
      <4> QED  BY <2>1, <2>4, <4>1, ListFacts, StartupAssumption DEF TypeOK
    <3> QED  BY <3>1, <3>2
  <2>7. CASE n \notin ExclusivePlaces
    BY <2>3, <2>4, <2>5, <2>7, KindFacts DEF Inv, PastMeansFine, Oversubscribed
  <2> QED  BY <2>6, <2>7
<1> QED  BY Inductive, <1>1, PTL

(* First fit gives each writer and each reader an interface that has a        *)
(* connection controller, when there are enough of those.                     *)
THEOREM ConnectedToSomeone == Spec => []SomeoneConnects
<1>1. Inv => SomeoneConnects
  <2> SUFFICES ASSUME Inv, phase = "running", NEW m \in DOMAIN pool,
                      pool[m].kind \in {"Writer", "Reader"},
                      threadCount["Connection"] >= threadCount[pool[m].kind]
               PROVE  \E c \in DOMAIN pool :
                        pool[c].kind = "Connection" /\ pool[c].index = pool[m].index
    BY DEF SomeoneConnects
  <2>1. Kinds[2] = "Connection" /\ Kinds[3] = "Writer" /\ Kinds[4] = "Reader"
        /\ 2 \in ExclusivePlaces /\ 3 \in ExclusivePlaces /\ 4 \in ExclusivePlaces
    BY DEF Kinds, ExclusivePlaces
  <2>2. PICK n \in {3, 4} : pool[m].kind = Kinds[n]
    BY <2>1
  <2>3. pool[m].index \in 1 .. MadeOf(n)
    BY <2>1, <2>2 DEF Inv, PoolFits
  <2>4. MadeOf(n) = threadCount[Kinds[n]] /\ MadeOf(2) = threadCount["Connection"]
    BY <2>1, RunningMeansAllMade
  <2>5. threadCount["Connection"] \in Nat /\ threadCount[Kinds[n]] \in Nat
    <3>1. threadCount["Connection"] \in 0 .. MaxThreads /\ threadCount[Kinds[n]] \in 0 .. MaxThreads
      BY <2>1, KindFacts DEF Inv, TypeOK
    <3> QED  BY <3>1, StartupAssumption
  <2>6. pool[m].index \in 1 .. MadeOf(2)
    BY <2>2, <2>3, <2>4, <2>5
  <2> QED  BY <2>1, <2>6 DEF Inv, PoolFits
<1> QED  BY Inductive, <1>1, PTL
=============================================================================
