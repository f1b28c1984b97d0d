---------------------------- MODULE DaemonProofs ----------------------------
(***************************************************************************)
(* Proofs about the three specifications of Daemon, each under its own     *)
(* Spec: the life of main, the constructors of the store on one database,  *)
(* and the writes of an open store.                                        *)
(***************************************************************************)
EXTENDS Daemon, TLAPS

-----------------------------------------------------------------------------
(* The life of main, for any number of attempts and signals.               *)

\* The stages in which NVML is initialised, and those in which no longer.
Using == {"device", "config", "open", "migrate", "spawn", "connect", "listen",
          "handlers", "exec", "loop", "quitting", "waiting"}
Done == {"unwind", "returned"}
Stages == Using \cup Done \cup {"nvml", "aborted", "killed"}

\* The HTTP server listens from its start to aboutToQuit, and only then.
Serving == {"handlers", "exec", "loop", "quitting"}

LifeInv ==
  /\ stage \in Stages
  /\ nvml \in {0, 1} /\ server \in BOOLEAN
  /\ listening \in BOOLEAN /\ handlers \in BOOLEAN
  /\ stage \in Using => nvml = 1
  /\ stage \in Done \cup {"nvml"} => nvml = 0
  /\ listening => stage \in Serving \cup {"aborted", "killed"} /\ nvml = 1
  /\ stage \in Serving => listening
  /\ stage = "returned" => ~server
  /\ stage = "aborted" /\ server => listening
  /\ stage \in {"nvml", "device", "config", "open"} => ~server
  /\ stage = "killed" => ~handlers

LEMMA LifeInit == Init => LifeInv
<1> QED BY DEF Init, LifeInv, Stages, Using, Done, Serving

\* The start and its failure paths.
LEMMA StartStep ==
  ASSUME LifeInv,
         \/ InitNvml \/ Succeeds \/ Fails \/ StoreThrows \/ SpawnServer
         \/ Connects \/ NotConnected \/ Listens \/ NotListening
  PROVE  LifeInv'
<1> USE DEF LifeInv, Stages, Using, Done, Serving
<1>1. CASE InitNvml
  BY <1>1 DEF InitNvml
<1>2. CASE Succeeds
  <2>1. \/ stage = "device" /\ stage' = "config"
        \/ stage = "config" /\ stage' = "open"
        \/ stage = "open" /\ stage' = "migrate"
        \/ stage = "migrate" /\ stage' = "spawn"
    BY <1>2 DEF Succeeds, Following
  <2> QED BY <1>2, <2>1 DEF Succeeds
<1>3. CASE Fails
  BY <1>3 DEF Fails, GivesUp, Following
<1>4. CASE StoreThrows
  BY <1>4 DEF StoreThrows
<1>5. CASE SpawnServer
  BY <1>5 DEF SpawnServer
<1>6. CASE Connects
  BY <1>6 DEF Connects
<1>7. CASE NotConnected
  BY <1>7 DEF NotConnected, GivesUp
<1>8. CASE Listens
  BY <1>8 DEF Listens
<1>9. CASE NotListening
  BY <1>9 DEF NotListening, GivesUp
<1> QED BY <1>1, <1>2, <1>3, <1>4, <1>5, <1>6, <1>7, <1>8, <1>9

\* The loop, the way out, and the environment.
LEMMA LifeStep == LifeInv /\ [Next]_vars => LifeInv'
<1> SUFFICES ASSUME LifeInv, [Next]_vars PROVE LifeInv'
  OBVIOUS
<1> USE DEF LifeInv, Stages, Using, Done, Serving
<1>1. CASE \/ InitNvml \/ Succeeds \/ Fails \/ StoreThrows \/ SpawnServer
           \/ Connects \/ NotConnected \/ Listens \/ NotListening
  BY <1>1, StartStep
<1>2. CASE InstallSignalHandlers
  BY <1>2 DEF InstallSignalHandlers
<1>3. CASE Exec
  BY <1>3 DEF Exec
<1>4. CASE AboutToQuit
  BY <1>4 DEF AboutToQuit
<1>5. CASE Waited
  BY <1>5 DEF Waited
<1>6. CASE Unwinds
  BY <1>6 DEF Unwinds
<1>7. CASE Signal
  BY <1>7 DEF Signal, QuitOrDie, Ended
<1>8. CASE ServerEnds
  BY <1>8 DEF ServerEnds
<1>10. CASE HandlerThrows
  BY <1>10 DEF HandlerThrows
<1>9. CASE UNCHANGED vars
  BY <1>9 DEF vars
<1> QED
  BY <1>1, <1>2, <1>3, <1>4, <1>5, <1>6, <1>7, <1>8, <1>9, <1>10
  DEF Next, MainStep, MainGoesOn

LEMMA LifeInvariance == Spec => []LifeInv
BY LifeInit, LifeStep, PTL DEF Spec

\* NVML is shut down exactly as often as it was initialised, on every way out
\* of main that returns, for any number of attempts and signals.
THEOREM NvmlStaysBalanced == Spec => []NvmlBalanced
<1>1. LifeInv => NvmlBalanced
  BY DEF LifeInv, NvmlBalanced, Done
<1> QED
  BY <1>1, LifeInvariance, PTL

\* A llama server is left only by a signal before the handlers, or by an
\* exception while requests were served: never by a constructor that throws.
THEOREM ServerLeftOnlyThen == Spec => []ServerLeftOnlyByCrash
<1>1. LifeInv => ServerLeftOnlyByCrash
  BY DEF LifeInv, ServerLeftOnlyByCrash, Ended
<1> QED
  BY <1>1, LifeInvariance, PTL

-----------------------------------------------------------------------------
(* What SignalEnds asks of safety: that nothing leads back from the way    *)
(* out, and that it is finite. That its steps are taken is fairness.       *)

\* What main has left to do from each stage of the way out.
Left == [quitting |-> 3, waiting |-> 2, unwind |-> 1,
         returned |-> 0, aborted |-> 0, killed |-> 0]
StepsLeft == Left[stage]

\* A signal that is heard finds no handler, the loop, or main on its way out:
\* the handlers are there only from the moment before the loop on.
HeardInv ==
  /\ heard => stage \in DOMAIN Left
  /\ handlers => stage \in {"exec", "loop"} \cup DOMAIN Left

LEMMA OnlyWayOut ==
  ASSUME stage \in DOMAIN Left, MainStep
  PROVE  AboutToQuit \/ Waited \/ Unwinds
<1>1. stage \in {"quitting", "waiting", "unwind", "returned", "aborted", "killed"}
  BY DEF Left
<1> QED
  BY <1>1
  DEF MainStep, MainGoesOn, InitNvml, Succeeds, Fails, StoreThrows,
      SpawnServer, Connects, NotConnected, Listens, NotListening,
      InstallSignalHandlers, Exec, Following

LEMMA HeardStep ==
  ASSUME HeardInv, [Next]_vars
  PROVE  /\ HeardInv'
         /\ heard => /\ heard' /\ StepsLeft' <= StepsLeft
                     /\ MainStep => StepsLeft' = StepsLeft - 1
<1> USE DEF HeardInv, Left, StepsLeft
<1>1. CASE AboutToQuit \/ Waited \/ Unwinds
  BY <1>1 DEF AboutToQuit, Waited, Unwinds, MainStep
<1>2. CASE MainStep /\ ~(AboutToQuit \/ Waited \/ Unwinds)
  <2>1. ~heard
    BY <1>2, OnlyWayOut
  <2>2. HeardInv'
    <3>1. CASE InitNvml \/ Succeeds \/ Fails \/ StoreThrows
      BY <2>1, <3>1
      DEF InitNvml, Succeeds, Fails, StoreThrows, GivesUp, Following
    <3>2. CASE \/ SpawnServer \/ Connects \/ NotConnected \/ Listens
               \/ NotListening \/ InstallSignalHandlers \/ Exec
      BY <2>1, <3>2
      DEF SpawnServer, Connects, NotConnected, Listens, NotListening,
          GivesUp, InstallSignalHandlers, Exec
    <3> QED
      BY <1>2, <3>1, <3>2 DEF MainStep, MainGoesOn
  <2> QED
    BY <2>1, <2>2
<1>3. CASE ~MainStep
  <2>1. CASE Signal
    <3>0. heard => StepsLeft \in 0..3
      OBVIOUS
    <3>1. CASE ~handlers
      <4>1. stage' = "killed" /\ handlers' = handlers
        BY <2>1, <3>1 DEF Signal, QuitOrDie
      <4>2. StepsLeft' = 0 /\ HeardInv'
        BY <4>1, <3>1
      <4>3. heard => heard'
        BY <2>1 DEF Signal, QuitOrDie
      <4> QED
        BY <3>0, <4>2, <4>3, <1>3
    <3>2. CASE handlers /\ stage = "loop"
      BY <1>3, <2>1, <3>2 DEF Signal, QuitOrDie
    <3>3. CASE handlers /\ stage = "exec"
      BY <1>3, <2>1, <3>3 DEF Signal, QuitOrDie
    <3>4. CASE handlers /\ stage \in DOMAIN Left
      <4>1. stage' = stage /\ handlers' = handlers /\ (heard => heard')
        BY <2>1, <3>4 DEF Signal, QuitOrDie
      <4> QED
        BY <1>3, <3>0, <3>4, <4>1
    <3> QED
      BY <3>1, <3>2, <3>3, <3>4
  <2>2. CASE HandlerThrows \/ ServerEnds \/ UNCHANGED vars
    BY <2>2, <1>3 DEF HandlerThrows, ServerEnds, vars
  <2> QED
    BY <1>3, <2>1, <2>2 DEF Next
<1> QED
  BY <1>1, <1>2, <1>3

\* A signal that is heard sends main out: nothing leads back to the loop, each
\* step of main is one less of the three that are left, whatever the llama
\* server does and however many signals follow, and with none left it has ended.
THEOREM SignalLeadsOut ==
  Spec =>
    /\ [](heard => StepsLeft \in 0..3 /\ (StepsLeft = 0 <=> Ended))
    /\ [][heard => /\ heard' /\ StepsLeft' <= StepsLeft
                   /\ MainStep => StepsLeft' = StepsLeft - 1]_vars
<1>1. Init => HeardInv
  BY DEF Init, HeardInv
<1>2. HeardInv /\ [Next]_vars =>
        /\ HeardInv'
        /\ heard => /\ heard' /\ StepsLeft' <= StepsLeft
                    /\ MainStep => StepsLeft' = StepsLeft - 1
  BY HeardStep
<1>3. HeardInv => (heard => StepsLeft \in 0..3 /\ (StepsLeft = 0 <=> Ended))
  BY DEF HeardInv, StepsLeft, Left, Ended
<1> QED
  BY <1>1, <1>2, <1>3, PTL DEF Spec

-----------------------------------------------------------------------------
(* The constructor of the store, for any daemons and any schema: the first *)
(* statement of the schema works as a lock that is never released.         *)

\* Past the schema a daemon has executed all of it, before that not yet.
StageMatches ==
  \A d \in Daemons :
    /\ pc[d] = "new" => next[d] = 1
    /\ pc[d] = "schema" => next[d] <= Objects
    /\ pc[d] \in {"migrate", "version", "prepare", "open"}
         => next[d] = Objects + 1

\* A database with a part of the schema has its first object.
FirstExists == exists # {} => 1 \in exists

\* A late daemon did find something.
LateFoundSome == late # {} => exists # {}

StoreInv ==
  /\ Store!TypeOK /\ StageMatches /\ FirstExists /\ LateFoundSome
  /\ Store!VersionMeansComplete /\ Store!OneCreator /\ Store!NeverCompleted

\* The empty database satisfies the invariant.
LEMMA StoreInit == Store!Init => StoreInv
<1> USE DaemonAssumption DEF Store!StoreAssumption
<1> SUFFICES ASSUME Store!Init PROVE StoreInv
  OBVIOUS
<1>1. Store!TypeOK
  BY DEF Store!Init, Store!TypeOK, Store!Stages
<1>2. StageMatches /\ FirstExists /\ LateFoundSome
  BY DEF Store!Init, StageMatches, FirstExists, LateFoundSome
<1>3. Store!VersionMeansComplete /\ Store!OneCreator /\ Store!NeverCompleted
  BY DEF Store!Init, Store!VersionMeansComplete, Store!ExpectedSchemaVersion,
         Store!OneCreator, Store!NeverCompleted
<1> QED BY <1>1, <1>2, <1>3 DEF StoreInv

\* A statement of the schema preserves it: only the daemon that executed the
\* first one can execute another.
LEMMA CreatesInv ==
  ASSUME StoreInv, NEW d \in Daemons, Store!Creates(d)
  PROVE  StoreInv'
<1> USE DaemonAssumption DEF Store!StoreAssumption
<1>0. Store!TypeOK /\ next[d] \in 1..Objects /\ pc[d] = "schema"
  BY DEF StoreInv, Store!TypeOK, StageMatches, Store!Creates
<1>1. /\ next' \in [Daemons -> 1..(Objects + 1)]
      /\ next'[d] = next[d] + 1 /\ exists' = exists \cup {next[d]}
      /\ \A e \in Daemons \ {d} : next'[e] = next[e]
  BY <1>0 DEF Store!Creates, Store!TypeOK
<1>2. /\ pc' \in [Daemons -> Store!Stages]
      /\ pc'[d] = IF next[d] = Objects THEN "migrate" ELSE "schema"
      /\ \A e \in Daemons \ {d} : pc'[e] = pc[e]
  BY <1>0 DEF Store!Creates, Store!Goes, Store!TypeOK, Store!Stages
<1>3. \A e \in Daemons : 1..(next'[e] - 1) \subseteq exists'
  <2>1. 1..(next'[d] - 1) \subseteq exists'
    BY <1>0, <1>1 DEF Store!TypeOK
  <2>2. \A e \in Daemons \ {d} : 1..(next'[e] - 1) \subseteq exists'
    BY <1>0, <1>1 DEF Store!TypeOK
  <2> QED BY <2>1, <2>2
<1>4. Store!TypeOK'
  BY <1>0, <1>1, <1>2, <1>3 DEF Store!TypeOK, Store!Creates
<1>5. StageMatches'
  BY <1>0, <1>1, <1>2 DEF StageMatches, StoreInv
<1>6. next[d] > 1 => 1 \in exists
  BY <1>0 DEF Store!TypeOK
<1>7. FirstExists' /\ LateFoundSome'
  BY <1>0, <1>1, <1>6 DEF FirstExists, LateFoundSome, StoreInv, Store!Creates
<1>8. Store!VersionMeansComplete'
  BY <1>0, <1>1
  DEF Store!VersionMeansComplete, StoreInv, Store!TypeOK, Store!Creates
<1>9. Store!OneCreator'
  <2>1. \A e \in Daemons : next[e] > 1 => 1 \in exists
    BY DEF StoreInv, Store!TypeOK
  <2>2. \A e \in Daemons : next[e] > 1 => e = d
    BY <2>1, <1>0 DEF Store!OneCreator, StoreInv, Store!Creates, Store!TypeOK
  <2> QED BY <2>2, <1>1 DEF Store!OneCreator
<1>10. d \notin late
  BY <1>0
  DEF StoreInv, Store!NeverCompleted, LateFoundSome, FirstExists, Store!Creates
<1>11. Store!NeverCompleted'
  BY <1>10, <1>1, <1>2
  DEF Store!NeverCompleted, StoreInv, Store!TypeOK, Store!Creates
<1> QED BY <1>4, <1>5, <1>7, <1>8, <1>9, <1>11 DEF StoreInv

\* So does every other step: none of them executes a statement of the schema.
LEMMA OtherStepsInv ==
  ASSUME StoreInv, NEW d \in Daemons,
         \/ Store!Open(d) \/ Store!FindsExisting(d) \/ Store!ReadsVersion(d)
         \/ Store!SetsVersion(d) \/ Store!Prepares(d) \/ Store!Refused(d)
         \/ Store!Killed(d)
  PROVE  StoreInv'
<1> USE DaemonAssumption DEF Store!StoreAssumption
<1> DEFINE Moves == \A e \in Daemons \ {d} : pc'[e] = pc[e]
<1>1. next' = next /\ exists' = exists /\ Moves
  BY DEF Store!Open, Store!FindsExisting, Store!ReadsVersion,
         Store!SetsVersion, Store!Prepares, Store!Refused, Store!Killed,
         Store!Goes, StoreInv, Store!TypeOK
<1>2. /\ pc' \in [Daemons -> Store!Stages]
      /\ version' \in {0, Store!ExpectedSchemaVersion}
      /\ late' \subseteq Daemons /\ refused' \subseteq Daemons
  BY DEF Store!Open, Store!FindsExisting, Store!ReadsVersion,
         Store!SetsVersion, Store!Prepares, Store!Refused, Store!Killed,
         Store!Goes, StoreInv, Store!TypeOK, Store!Stages
<1>3. Store!TypeOK'
  BY <1>1, <1>2 DEF StoreInv, Store!TypeOK
<1>4. StageMatches'
  BY <1>1
  DEF StoreInv, StageMatches, Store!Open, Store!FindsExisting,
      Store!ReadsVersion, Store!SetsVersion, Store!Prepares, Store!Refused,
      Store!Killed, Store!Goes, Store!TypeOK
<1>5. FirstExists' /\ LateFoundSome' /\ Store!OneCreator'
  BY <1>1
  DEF StoreInv, FirstExists, LateFoundSome, Store!OneCreator, Store!Open,
      Store!FindsExisting, Store!ReadsVersion, Store!SetsVersion,
      Store!Prepares, Store!Refused, Store!Killed
<1>6. Store!VersionMeansComplete'
  <2>1. CASE Store!SetsVersion(d)
    <3>1. next[d] = Objects + 1
      BY <2>1 DEF StoreInv, StageMatches, Store!SetsVersion
    <3>2. 1..Objects \subseteq exists
      BY <3>1 DEF StoreInv, Store!TypeOK
    <3> QED BY <3>2, <1>1 DEF StoreInv, Store!TypeOK, Store!VersionMeansComplete
  <2>2. CASE ~Store!SetsVersion(d)
    <3>1. version' = version
      BY <2>2
      DEF Store!Open, Store!FindsExisting, Store!ReadsVersion, Store!Prepares,
          Store!Refused, Store!Killed
    <3> QED BY <3>1, <1>1 DEF StoreInv, Store!VersionMeansComplete
  <2> QED BY <2>1, <2>2
<1>7. Store!NeverCompleted'
  <2>1. CASE Store!Open(d)
    BY <2>1, <1>1
    DEF Store!NeverCompleted, StoreInv, StageMatches, Store!Open, Store!Goes,
        Store!TypeOK
  <2>2. CASE ~Store!Open(d)
    <3>1. late' = late
      BY <2>2
      DEF Store!FindsExisting, Store!ReadsVersion, Store!SetsVersion,
          Store!Prepares, Store!Refused, Store!Killed
    <3>2. d \in late => pc'[d] \in {"failed", "killed"}
      BY <2>2
      DEF Store!NeverCompleted, StoreInv, Store!TypeOK, Store!Goes,
          Store!FindsExisting, Store!ReadsVersion, Store!SetsVersion,
          Store!Prepares, Store!Refused, Store!Killed
    <3> QED BY <3>1, <3>2, <1>1 DEF Store!NeverCompleted, StoreInv, Store!TypeOK
  <2> QED BY <2>1, <2>2
<1> QED BY <1>3, <1>4, <1>5, <1>6, <1>7 DEF StoreInv

\* Every step and every stutter preserves the invariant.
LEMMA StoreStep == StoreInv /\ [Store!Next]_(Store!vars) => StoreInv'
<1> SUFFICES ASSUME StoreInv, [Store!Next]_(Store!vars) PROVE StoreInv'
  OBVIOUS
<1>1. CASE Store!Next
  <2> PICK d \in Daemons :
        \/ Store!Open(d) \/ Store!Creates(d) \/ Store!FindsExisting(d)
        \/ Store!ReadsVersion(d) \/ Store!SetsVersion(d) \/ Store!Prepares(d)
        \/ Store!Refused(d) \/ Store!Killed(d)
    BY <1>1 DEF Store!Next, Store!Constructs
  <2> QED BY CreatesInv, OtherStepsInv
<1>2. CASE UNCHANGED Store!vars
  BY <1>2
  DEF Store!vars, StoreInv, Store!TypeOK, StageMatches, FirstExists,
      LateFoundSome, Store!VersionMeansComplete, Store!OneCreator,
      Store!NeverCompleted
<1> QED BY <1>1, <1>2

LEMMA StoreInvariance == Store!Spec => []StoreInv
BY StoreInit, StoreStep, PTL DEF Store!Spec

\* The version in the database says that the whole schema is there, whichever
\* daemons were killed while they created it.
THEOREM VersionIsTrue == Store!Spec => []VersionMeansComplete
<1>1. StoreInv => VersionMeansComplete
  BY DEF StoreInv, VersionMeansComplete, Store!VersionMeansComplete,
         Store!ExpectedSchemaVersion
<1> QED
  BY <1>1, StoreInvariance, PTL

\* At most one daemon executes any statement of the schema.
THEOREM SingleCreator == Store!Spec => []Store!OneCreator
<1>1. StoreInv => Store!OneCreator
  BY DEF StoreInv
<1> QED
  BY <1>1, StoreInvariance, PTL

\* A database with a part of the schema is never completed.
THEOREM PartStaysPart == Store!Spec => []NeverCompleted
<1>1. StoreInv => NeverCompleted
  BY DEF StoreInv, Store!NeverCompleted, NeverCompleted
<1> QED
  BY <1>1, StoreInvariance, PTL

-----------------------------------------------------------------------------
(* The writes of the open store.                                           *)

\* One thread at a time is in a call, and what it bound and inserted is its
\* own until it returns.
WritesInv ==
  /\ \A t, u \in Threads : doing[t] # Writes!Idle /\ doing[u] # Writes!Idle => t = u
  /\ DOMAIN doing = Threads
  /\ DOMAIN bound = {"note", "window"}
  /\ notes \in Seq(Windows \cup {0})
  /\ \A t \in Threads :
       /\ doing[t] \in [at : {"idle", "note", "inserted", "window"},
                        window : Windows \cup {0}]
       /\ doing[t].at = "note" => bound.note = doing[t].window
       /\ doing[t].at = "inserted" =>
            /\ lastRow = Len(notes) /\ notes # <<>>
            /\ notes[lastRow] = doing[t].window

LEMMA WritesStep == WritesInv /\ Writes!Next => WritesInv'
<1> SUFFICES ASSUME WritesInv, NEW t \in Threads,
                    \/ \E w \in Windows : Writes!InsertNote(t, w)
                                            \/ Writes!InsertWindowEvent(t, w)
                    \/ Writes!StepNote(t) \/ Writes!ReturnsId(t)
                    \/ Writes!StepWindow(t) \/ Writes!Throws(t)
             PROVE  WritesInv'
  BY DEF Writes!Next
<1> USE DEF WritesInv, Writes!Idle
<1>1. ASSUME NEW w \in Windows, Writes!InsertNote(t, w)
      PROVE  WritesInv'
  BY <1>1 DEF Writes!InsertNote, Writes!MutexFree
<1>2. ASSUME NEW w \in Windows, Writes!InsertWindowEvent(t, w)
      PROVE  WritesInv'
  BY <1>2 DEF Writes!InsertWindowEvent, Writes!MutexFree
<1>3. CASE Writes!StepNote(t)
  <2>1. /\ doing' = [doing EXCEPT ![t].at = "inserted"]
        /\ notes' = Append(notes, bound.note) /\ lastRow' = Len(notes) + 1
        /\ bound' = bound /\ doing[t].at = "note"
    BY <1>3 DEF Writes!StepNote, Writes!Goes
  <2>2. bound.note = doing[t].window /\ doing[t].window \in Windows \cup {0}
    BY <2>1
  <2>3. /\ notes' \in Seq(Windows \cup {0}) /\ Len(notes') = Len(notes) + 1
        /\ notes'[Len(notes) + 1] = bound.note /\ notes' # <<>>
    BY <2>1, <2>2
  <2>4. /\ doing'[t] = [at |-> "inserted", window |-> doing[t].window]
        /\ \A u \in Threads \ {t} : doing'[u] = doing[u] /\ doing[u] = Writes!Idle
        /\ DOMAIN doing' = Threads
    BY <2>1
  <2> QED
    BY <2>1, <2>2, <2>3, <2>4
<1>4. CASE Writes!ReturnsId(t) \/ Writes!StepWindow(t) \/ Writes!Throws(t)
  <2>1. /\ doing' = [doing EXCEPT ![t] = Writes!Idle]
        /\ notes' = notes /\ bound' = bound /\ doing[t] # Writes!Idle
    BY <1>4 DEF Writes!ReturnsId, Writes!StepWindow, Writes!Throws,
                Writes!Returns
  <2>2. \A u \in Threads : doing'[u] = Writes!Idle
    BY <2>1
  <2> QED
    BY <2>1, <2>2
<1> QED
  BY <1>1, <1>2, <1>3, <1>4

\* The id that insertNote returns is that of its own row, for any number of
\* threads, windows and notes.
THEOREM IdOfOwnRow == Writes!Spec => OwnRow
<1>1. Writes!Init => WritesInv
  BY DEF Writes!Init, Writes!Idle, WritesInv
<1>2. WritesInv /\ UNCHANGED Writes!vars => WritesInv'
  BY DEF WritesInv, Writes!vars
<1>3. ASSUME WritesInv, [Writes!Next]_(Writes!vars)
      PROVE  \A t \in Threads : Writes!ReturnsId(t) =>
               lastRow \in DOMAIN notes /\ notes[lastRow] = doing[t].window
  BY <1>3 DEF WritesInv, Writes!ReturnsId
<1>4. Writes!Spec =>
        [][\A t \in Threads : Writes!ReturnsId(t) =>
             lastRow \in DOMAIN notes /\ notes[lastRow] = doing[t].window]_(Writes!vars)
  BY <1>1, <1>2, <1>3, WritesStep, PTL DEF Writes!Spec
<1> QED
  BY <1>4 DEF OwnRow, Writes!OwnRow
=============================================================================
