---------------------------- MODULE EngineStartup ----------------------------
(***************************************************************************)
(* main() up to the start of the orchestrator: the command line names the  *)
(* settings file, the network interfaces are read from the settings, then  *)
(* the controllers are constructed kind after kind, each of them attaching *)
(* to an interface of NetworkInterface in its constructor.  Connection,    *)
(* writer and reader controllers each take the first interface that no     *)
(* controller of their kind has; the logging and command controllers look  *)
(* theirs up by description.  A fetch that finds nothing throws a char     *)
(* const* out of main, with the mutex still locked.  So does a constructor *)
(* that cannot read its section of the settings, but for the logging       *)
(* controller: it goes on without having looked.                           *)
(*                                                                         *)
(* The command line and the contents of the file are input.                *)
(***************************************************************************)
EXTENDS Integers, Sequences, FiniteSets

CONSTANTS
  MaxInterfaces,   \* bound: entries of NetworkInterface in the settings
  MaxThreads,      \* bound: Thread-Count of one kind
  MaxTokens        \* bound: tokens of the command line argument

ASSUME StartupAssumption ==
  MaxInterfaces \in Nat /\ MaxThreads \in Nat /\ MaxTokens \in Nat

\* The order in which main constructs them.
Kinds == <<"Logging", "Connection", "Writer", "Reader", "CommandExecuter">>
KindNames == {Kinds[n] : n \in 1 .. 5}
Exclusive == {"Connection", "Writer", "Reader"}
\* What fetchNetworkDescription(desc) is asked for.
Wanted == [k \in {"Logging", "CommandExecuter"} |->
             IF k = "Logging" THEN "Logs" ELSE "Commands"]
Descriptions == {"Logs", "Commands", "Other"}
Unset == 0   \* a networkInterfaceIndex that was never assigned
\* An argument is cut at its "=": what is between them stays in one piece.
Tokens == {"--Config-File", "=", "path"}
Arguments == UNION {[1 .. n -> Tokens] : n \in 0 .. MaxTokens}
Fields == Seq(Tokens \ {"="})
Lists == UNION {[1 .. n -> Descriptions] : n \in 0 .. MaxInterfaces}

VARIABLES
  cli,          \* fields of the argument; forgotten when the file is loaded
  listed,       \* settings: descriptions of the interfaces, in order
  threadCount,  \* settings: Thread-Count of each kind, 0 when not Enabled, and
                \* when it is missing: no number is less than a json null
  missing,      \* settings: kinds with no Enabled
  unreadable,   \* settings: kinds whose section lacks what the constructor reads
  networkList,  \* descriptions of the interfaces read so far
  attached,     \* which kinds are attached to each interface
  mutex,        \* getDescriptionMutex: is it locked?
  pool,         \* threadContainerPool: kind and networkInterfaceIndex
  kind, made,   \* main's place: index into Kinds, controllers of it made
  phase         \* "arguments", "load", "interfaces", "controllers", "running",
                \* "refused", "terminated" or "undefined"

settings == <<listed, threadCount, missing, unreadable>>
vars == <<cli, settings, networkList, attached, mutex, pool, kind, made, phase>>

TypeOK ==
  /\ cli \in Seq(Fields)
  /\ listed \in Lists /\ networkList \in Lists
  /\ threadCount \in [KindNames -> 0 .. MaxThreads]
  /\ missing \subseteq KindNames /\ unreadable \subseteq KindNames
  /\ attached \in [1 .. Len(networkList) -> SUBSET KindNames]
  /\ mutex \in BOOLEAN
  /\ pool \in Seq([kind : KindNames, index : {Unset} \cup 1 .. Len(networkList)])
  /\ kind \in 1 .. 6 /\ made \in 0 .. MaxThreads
  /\ phase \in {"arguments", "load", "interfaces", "controllers", "running",
                "refused", "terminated", "undefined"}

Init ==
  /\ cli = << >>
  /\ listed = << >> /\ threadCount = [k \in KindNames |-> 0]
  /\ missing = {} /\ unreadable = {}
  /\ networkList = << >> /\ attached = << >>
  /\ mutex = FALSE
  /\ pool = << >>
  /\ kind = 1 /\ made = 0
  /\ phase = "arguments"

-----------------------------------------------------------------------------
(* The command line and the settings file.                                  *)

interfaces == <<networkList, attached, mutex>>
controllers == <<pool, kind, made>>

\* stringSplit(argument, "="): field f ends where f - 1 cuts have been passed, at a
\* cut or at the end, and begins after the last of them.
stringSplit(argument) ==
  LET cuts == {n \in DOMAIN argument : argument[n] = "="}
      before(n) == {c \in cuts : c < n}
      last(n) == CHOOSE c \in before(n) \cup {0} : \A d \in before(n) : d <= c
      end(f) == CHOOSE e \in cuts \cup {Len(argument) + 1} : Cardinality(before(e)) = f - 1
  IN [f \in 1 .. Cardinality(cuts) + 1 |->
        SubSeq(argument, last(end(f)) + 1, end(f) - 1)]

\* No argument at all is refused, and so is --Config-File without exactly one
\* "="; whatever else has an "=" passes, and what has none is read out of range.
ReadCommandLineArgs ==
  /\ phase = "arguments"
  /\ \/ phase' = "refused" /\ UNCHANGED cli
     \/ \E argument \in Arguments :
          LET parse == stringSplit(argument)
          IN /\ cli' = parse
             /\ phase' = IF Len(parse) # 2 /\ parse[1] = <<"--Config-File">> THEN "refused"
                         ELSE IF Len(parse) = 1 THEN "undefined"
                         ELSE "load"
  /\ UNCHANGED <<settings, interfaces, controllers>>

\* config.load(cli[1]) parses the file; one section at most lacks an entry that is
\* read with a conversion.
Load ==
  /\ phase = "load" /\ cli[2] = <<"path">>
  /\ listed' \in Lists
  /\ \E k \in KindNames :
       \/ missing' = {} /\ unreadable' \in {{}, {k}}
       \/ missing' = {k} /\ unreadable' = {}
  /\ threadCount' \in [KindNames -> 0 .. MaxThreads]
  /\ \A k \in missing' : threadCount'[k] = 0
  /\ phase' = "interfaces"
  /\ cli' = << >>
  /\ UNCHANGED <<interfaces, controllers>>

\* There is no such file, or it is no JSON: main returns 1.
LoadFails ==
  /\ phase = "load"
  /\ phase' = "refused"
  /\ UNCHANGED <<cli, settings, interfaces, controllers>>

-----------------------------------------------------------------------------
(* The interfaces and the controllers.                                      *)

\* iniNetworkInterface appends the next entry of the settings.
ReadInterface ==
  /\ phase = "interfaces" /\ Len(networkList) < Len(listed)
  /\ networkList' = Append(networkList, listed[Len(networkList) + 1])
  /\ attached' = Append(attached, {})
  /\ UNCHANGED <<cli, settings, mutex, pool, kind, made, phase>>

\* It returns at the end of the list, or earlier at an entry it cannot read;
\* main ignores the return code.
InterfacesDone ==
  /\ phase = "interfaces"
  /\ phase' = "controllers"
  /\ UNCHANGED <<cli, settings, networkList, attached, mutex, pool, kind, made>>

\* Mutant of Candidates: the reader fetch tests the flag of the writers.
Candidates_ReaderTestsWriter(k) ==
  {i \in DOMAIN networkList :
     IF k \in Exclusive
       THEN (IF k = "Reader" THEN "Writer" ELSE k) \notin attached[i]
       ELSE networkList[i] = Wanted[k]}

\* Mutant of Candidates: the loop stops before the last interface.
Candidates_SkipsLast(k) ==
  {i \in 1 .. Len(networkList) - 1 :
     IF k \in Exclusive THEN k \notin attached[i]
                        ELSE networkList[i] = Wanted[k]}

\* The interfaces a controller of kind k may attach to.
Candidates(k) ==
  {i \in DOMAIN networkList :
     IF k \in Exclusive THEN k \notin attached[i]
                        ELSE networkList[i] = Wanted[k]}
First(indices) == CHOOSE i \in indices : \A j \in indices : i <= j

\* Mutant of Constructing: one controller too many.
Constructing_OffByOne(k) ==
  /\ phase = "controllers" /\ kind <= 5 /\ Kinds[kind] \notin missing
  /\ k = Kinds[kind] /\ made <= threadCount[k]
  /\ ~mutex

Constructing(k) ==
  /\ phase = "controllers" /\ kind <= 5 /\ Kinds[kind] \notin missing
  /\ k = Kinds[kind] /\ made < threadCount[k]
  /\ ~mutex

\* Mutant of Construct: the attached flag is not set.
Construct_ForgetsFlag(k) ==
  /\ Constructing(k) /\ k \notin unreadable /\ Candidates(k) # {}
  /\ pool' = Append(pool, [kind |-> k, index |-> First(Candidates(k))])
  /\ made' = made + 1
  /\ UNCHANGED <<cli, settings, networkList, attached, mutex, kind, phase>>

\* A constructor that finds an interface, and pushControllerPool: the mutex is
\* locked and unlocked again.
Construct(k) ==
  /\ Constructing(k) /\ k \notin unreadable /\ Candidates(k) # {}
  /\ LET i == First(Candidates(k))
     IN /\ attached' = [attached EXCEPT ![i] = @ \cup {k}]
        /\ pool' = Append(pool, [kind |-> k, index |-> i])
  /\ made' = made + 1
  /\ UNCHANGED <<cli, settings, networkList, mutex, kind, phase>>

\* The fetch throws: no handler up to main catches a char const*.
ConstructThrows(k) ==
  /\ Constructing(k) /\ k \notin unreadable /\ Candidates(k) = {}
  /\ mutex' = TRUE
  /\ phase' = "terminated"
  /\ UNCHANGED <<cli, settings, networkList, attached, pool, kind, made>>

\* A json::exception on the way to the fetch is thrown on, out of main.
ConstructFails(k) ==
  /\ Constructing(k) /\ k \in unreadable \ {"Logging"}
  /\ phase' = "terminated"
  /\ UNCHANGED <<cli, settings, networkList, attached, mutex, pool, kind, made>>

\* LoggingController prints it and carries on without an interface.
ConstructUnattached(k) ==
  /\ Constructing(k) /\ k \in unreadable \cap {"Logging"}
  /\ pool' = Append(pool, [kind |-> k, index |-> Unset])
  /\ made' = made + 1
  /\ UNCHANGED <<cli, settings, networkList, attached, mutex, kind, phase>>

\* The conversion of a missing Enabled to bool: the json::exception leaves main.
EnabledMissing ==
  /\ phase = "controllers" /\ kind <= 5 /\ Kinds[kind] \in missing
  /\ phase' = "terminated"
  /\ UNCHANGED <<cli, settings, interfaces, controllers>>

NextKind ==
  /\ phase = "controllers" /\ kind <= 5 /\ Kinds[kind] \notin missing
  /\ made = threadCount[Kinds[kind]]
  /\ kind' = kind + 1 /\ made' = 0
  /\ UNCHANGED <<cli, settings, networkList, attached, mutex, pool, phase>>

\* threadOrchContainer->startThread(), and main sleeps from then on.
StartOrchestrator ==
  /\ phase = "controllers" /\ kind = 6
  /\ phase' = "running"
  /\ UNCHANGED <<cli, settings, networkList, attached, mutex, pool, kind, made>>

Next ==
  \/ ReadCommandLineArgs \/ Load \/ LoadFails
  \/ ReadInterface \/ InterfacesDone
  \/ \E k \in KindNames : Construct(k) \/ ConstructThrows(k)
                           \/ ConstructFails(k) \/ ConstructUnattached(k)
  \/ EnabledMissing \/ NextKind \/ StartOrchestrator

Spec == Init /\ [][Next]_vars

-----------------------------------------------------------------------------
\* No interface has two connection controllers, two writers or two readers:
\* the socket, the write queue and the stream each have one owner, which is
\* what the single-consumer arguments of the other modules rest on.
AttachedOnce ==
  \A m, n \in DOMAIN pool :
    m # n /\ pool[m].kind = pool[n].kind /\ pool[m].kind \in Exclusive
      => pool[m].index # pool[n].index

\* main ends exactly when a kind has no Enabled, or controllers of it are to be made
\* that cannot read their settings, are more than the interfaces that were read, or
\* ask for a description that was not; only a logging controller that cannot read
\* its settings looks for nothing.
Oversubscribed(k) ==
  IF k \in Exclusive THEN threadCount[k] > Len(networkList)
  ELSE \A i \in DOMAIN networkList : networkList[i] # Wanted[k]
CannotStart ==
  \/ missing # {}
  \/ \E k \in {c \in KindNames : threadCount[c] > 0} :
       IF k \in unreadable THEN k # "Logging" ELSE Oversubscribed(k)
StartsUnlessOversubscribed ==
  /\ phase = "running" => ~CannotStart
  /\ phase = "terminated" => CannotStart

\* With at least as many connection controllers as writers and readers, each
\* writer and reader shares its interface with a connection controller:
\* otherwise its connectionStatus would never become true.
SomeoneConnects ==
  phase = "running" =>
    \A n \in DOMAIN pool :
      /\ pool[n].kind \in {"Writer", "Reader"}
      /\ threadCount["Connection"] >= threadCount[pool[n].kind]
      => \E m \in DOMAIN pool :
           pool[m].kind = "Connection" /\ pool[m].index = pool[n].index
=============================================================================
