----------------------- MODULE LlamaConnectionProofs ------------------------
(***************************************************************************)
(* Proofs about LlamaConnection, for any number of passes of the loop of   *)
(* spawnServer and any number of requests. Which delays come out negative  *)
(* is arithmetic on powers of two, which the provers do not do: it is the  *)
(* assumption DelayAssumption of the module, which TLC computes.           *)
(***************************************************************************)
EXTENDS LlamaConnection, TLAPS

TypeOK ==
  /\ socket \in {"unconnected", "connecting", "connected", "destroyed"}
  /\ serving \in {"nobody", "own", "lingering", "other"}
  /\ attempts \in Nat /\ armed \in Nat /\ spawning \in 0..SpawnTries
  /\ requests \in Nat

\* Who asked for a connection and has none has a timer, or the loop of
\* spawnServer, or attempts too many.
KeepsTrying ==
  asked /\ socket = "unconnected" /\ armed = 0 /\ spawning = 0
    => attempts > FirstNegative

\* Only a connection goes stale.
StaleConnected == stale => socket = "connected"

\* A loop that is not excused began without a connection and without a server
\* from before, and neither comes about in it.
LoopClean ==
  spawning > 0 /\ ~excused => socket # "connected" /\ serving # "lingering"

IInv == TypeOK /\ KeepsTrying /\ StaleConnected /\ LoopClean

-----------------------------------------------------------------------------

\* The timers that will fire and the attempt under way.
LEMMA PendingValue ==
  ASSUME NEW timers \in Nat, NEW state
  PROVE  /\ Pending(timers, state) \in Nat
         /\ state = "connecting" => Pending(timers, state) = timers + 1
         /\ state # "connecting" => Pending(timers, state) = timers
BY DEF Pending

\* attemptReconnect arms a timer, or has done so too often already.
LEMMA Attempted ==
  ASSUME NEW n \in Int, armed - n \in Nat, attempts \in Nat, AttemptReconnect(n)
  PROVE  /\ armed' \in Nat /\ attempts' \in Nat
         /\ armed' \in {armed - n, armed - n + 1}
         /\ armed' = 0 => attempts' > FirstNegative
<1>1. /\ armed' \in {armed - n, armed - n + 1} /\ armed' \in Nat
      /\ attempts' \in Nat
  BY BoundsAssumption DEF AttemptReconnect, Capped
<1>2. ASSUME armed' = 0 PROVE attempts' > FirstNegative
  <2>1. ~Arms(attempts)
    BY <1>2 DEF AttemptReconnect
  <2>2. attempts >= FirstNegative
    BY <2>1, DelayAssumption DEF FirstNegative
  <2> QED
    BY <2>2, BoundsAssumption DEF AttemptReconnect, Capped, FirstNegative
<1> QED
  BY <1>1, <1>2

\* The calls.
LEMMA CallStep ==
  ASSUME IInv, \/ ConnectToServer
               \/ \E call \in {"spawn", "restart"} : SpawnFails(call) \/ SpawnStarts(call)
  PROVE  IInv' /\ requests' # requests /\ Chains' <= Chains + 1
<1> USE DEF IInv
<1>1. CASE ConnectToServer
  <2>1. /\ requests' = requests + 1
        /\ UNCHANGED <<socket, spawning, serverVars, excused>>
        /\ spawning = 0 /\ asked' = TRUE
    BY <1>1 DEF ConnectToServer, Counts, Idle
  <2>2. CASE socket = "connected" /\ StayConnected(0)
    <3>1. IInv'
      BY <2>1, <2>2
      DEF StayConnected, TypeOK, KeepsTrying, StaleConnected, LoopClean,
          serverVars
    <3>2. requests' # requests /\ Chains' <= Chains + 1
      BY <2>1, <2>2, PendingValue
      DEF StayConnected, TypeOK, Chains, serverVars
    <3> QED
      BY <3>1, <3>2
  <2>3. CASE socket # "connected" /\ AttemptReconnect(0)
    <3>1. IInv'
      BY <2>1, <2>3, Attempted
      DEF TypeOK, KeepsTrying, StaleConnected, LoopClean, serverVars
    <3>2. requests' # requests /\ Chains' <= Chains + 1
      BY <2>1, <2>3, Attempted, PendingValue DEF TypeOK, Chains, serverVars
    <3> QED
      BY <3>1, <3>2
  <2> QED
    BY <1>1, <2>2, <2>3 DEF ConnectToServer
<1>2. ASSUME NEW call \in {"spawn", "restart"}, SpawnFails(call) \/ SpawnStarts(call)
      PROVE  IInv' /\ requests' # requests /\ Chains' <= Chains + 1
  <2>1. /\ requests' = requests + 1 /\ socket' = socket /\ spawning = 0
        /\ serving' \in {"nobody", "own", "lingering", "other"}
        /\ stale' => socket = "connected"
        /\ serving' = "lingering" =>
             serving = "lingering" \/ (call = "spawn" /\ serving = "own")
    BY <1>2
    DEF SpawnFails, SpawnStarts, Counts, Idle, OldProcess, Leaves, TypeOK,
        StaleConnected
  <2>2. CASE SpawnFails(call)
    <3>1. IInv'
      BY <2>1, <2>2
      DEF SpawnFails, TypeOK, KeepsTrying, StaleConnected, LoopClean
    <3>2. requests' # requests /\ Chains' <= Chains + 1
      BY <2>1, <2>2, PendingValue DEF SpawnFails, TypeOK, Chains
    <3> QED
      BY <3>1, <3>2
  <2>3. CASE SpawnStarts(call)
    <3>1. /\ spawning' = 1 /\ asked' = TRUE
          /\ excused' = \/ socket = "connected" \/ serving = "lingering"
                        \/ call = "spawn" /\ serving' = "lingering"
      BY <2>3 DEF SpawnStarts
    <3>2. LoopClean' /\ StaleConnected' /\ KeepsTrying'
      BY <2>1, <3>1 DEF LoopClean, StaleConnected, KeepsTrying
    <3>3. /\ armed' \in Nat /\ attempts' \in Nat
          /\ armed' \in {armed, armed + 1}
      <4>1. CASE StayConnected(0)
        BY <4>1 DEF StayConnected, TypeOK
      <4>2. CASE AttemptReconnect(0)
        BY <4>2, Attempted DEF TypeOK
      <4> QED
        BY <2>3, <4>1, <4>2 DEF SpawnStarts
    <3>4. TypeOK'
      BY <2>1, <3>1, <3>3, BoundsAssumption DEF TypeOK
    <3>5. Chains' <= Chains + 1
      BY <2>1, <3>3, PendingValue DEF TypeOK, Chains
    <3> QED
      BY <2>1, <3>2, <3>4, <3>5 DEF TypeOK
  <2> QED
    BY <1>2, <2>2, <2>3
<1> QED
  BY <1>1, <1>2

\* The timers and the socket.
LEMMA SocketStep ==
  ASSUME IInv, TimerConnects \/ TimerCollides \/ Connects \/ Refused
  PROVE  IInv' /\ Chains' <= Chains
<1> USE DEF IInv
<1>1. CASE TimerConnects
  <2>1. IInv'
    BY <1>1
    DEF TimerConnects, Idle, TypeOK, KeepsTrying, StaleConnected, LoopClean,
        serverVars, history
  <2>2. Chains' <= Chains
    BY <1>1, PendingValue
    DEF TimerConnects, Idle, TypeOK, Chains, serverVars, history
  <2> QED
    BY <2>1, <2>2
<1>2. CASE TimerCollides
  <2>1. /\ UNCHANGED <<socket, spawning, serverVars, history>>
        /\ armed \in Nat \ {0} /\ armed - 1 \in Nat /\ attempts \in Nat
    BY <1>2 DEF TimerCollides, TypeOK
  <2>2. /\ socket # "unconnected" /\ armed' \in Nat /\ attempts' \in Nat
        /\ armed' \in {armed - 1, armed}
    <3>1. CASE socket = "connected" /\ StayConnected(1)
      BY <2>1, <3>1 DEF StayConnected
    <3>2. CASE socket = "connecting" /\ AttemptReconnect(1)
      BY <2>1, <3>2, Attempted
    <3> QED
      BY <1>2, <3>1, <3>2 DEF TimerCollides
  <2>3. TypeOK'
    BY <2>1, <2>2 DEF TypeOK, serverVars, history
  <2>4. KeepsTrying' /\ StaleConnected' /\ LoopClean'
    BY <2>1, <2>2
    DEF KeepsTrying, StaleConnected, LoopClean, serverVars, history
  <2>5. Chains' <= Chains
    BY <2>1, <2>2, PendingValue DEF Chains, TypeOK
  <2> QED
    BY <2>3, <2>4, <2>5
<1>3. CASE Connects
  <2>1. IInv'
    BY <1>3
    DEF Connects, Idle, TypeOK, KeepsTrying, StaleConnected, LoopClean,
        serverVars, history
  <2>2. Chains' <= Chains
    BY <1>3, PendingValue
    DEF Connects, Idle, TypeOK, Chains, serverVars, history
  <2> QED
    BY <2>1, <2>2
<1>4. CASE Refused
  <2>1. /\ UNCHANGED <<spawning, serverVars, history>>
        /\ spawning = 0 /\ socket = "connecting" /\ socket' = "unconnected"
    BY <1>4 DEF Refused, Fails, Idle
  <2>2. /\ armed' \in Nat /\ attempts' \in Nat /\ armed' \in {armed, armed + 1}
        /\ armed' = 0 => attempts' > FirstNegative
    BY <1>4, Attempted DEF Refused, TypeOK
  <2>3. TypeOK'
    BY <2>1, <2>2 DEF TypeOK, serverVars, history
  <2>4. KeepsTrying' /\ StaleConnected' /\ LoopClean'
    BY <2>1, <2>2
    DEF KeepsTrying, StaleConnected, LoopClean, serverVars, history
  <2>5. Chains' <= Chains
    BY <2>1, <2>2, PendingValue DEF Chains, TypeOK
  <2> QED
    BY <2>3, <2>4, <2>5
<1> QED
  BY <1>1, <1>2, <1>3, <1>4

\* The end of a connection and the loop of spawnServer.
LEMMA LoopStep ==
  ASSUME IInv, Closed \/ SpawnRefused \/ SpawnConnects
  PROVE  /\ IInv' /\ Chains' <= Chains + 1
         /\ SpawnConnects => Chains' <= Chains
<1> USE DEF IInv
<1>1. CASE Closed
  <2>1. /\ UNCHANGED <<spawning, process, serving, history>>
        /\ stale' = FALSE /\ socket' = "unconnected" /\ spawning = 0
        /\ socket = "connected"
    BY <1>1 DEF Closed, Drops, Idle, StaleConnected
  <2>2. /\ armed' \in Nat /\ attempts' \in Nat /\ armed' \in {armed, armed + 1}
        /\ armed' = 0 => attempts' > FirstNegative
    BY <1>1, Attempted DEF Closed, TypeOK
  <2>3. ~SpawnConnects
    BY <2>1 DEF SpawnConnects, TypeOK
  <2>4. TypeOK'
    BY <2>1, <2>2, <2>3 DEF TypeOK, serverVars, history
  <2>5. KeepsTrying' /\ StaleConnected' /\ LoopClean'
    BY <2>1, <2>2, <2>3
    DEF KeepsTrying, StaleConnected, LoopClean, serverVars, history
  <2>6. Chains' <= Chains + 1
    BY <2>1, <2>2, <2>3, PendingValue DEF Chains, TypeOK
  <2> QED
    BY <2>4, <2>5, <2>6, <2>3
<1>2. CASE SpawnRefused
  <2>1. /\ UNCHANGED <<serverVars, asked, requests>>
        /\ socket # "connected" /\ socket' = "unconnected" /\ spawning > 0
        /\ spawning' = IF spawning = SpawnTries THEN 0 ELSE spawning + 1
        /\ excused' = (excused /\ spawning < SpawnTries)
        /\ serving = "nobody"
    BY <1>2 DEF SpawnRefused
  <2>2. /\ armed' \in Nat /\ attempts' \in Nat /\ armed' \in {armed, armed + 1}
        /\ armed' = 0 => attempts' > FirstNegative
    BY <1>2, Attempted DEF SpawnRefused, TypeOK
  <2>3. ~SpawnConnects
    BY <1>2 DEF SpawnRefused, SpawnConnects
  <2>4. TypeOK'
    BY <2>1, <2>2, BoundsAssumption DEF TypeOK, serverVars
  <2>5. KeepsTrying' /\ StaleConnected' /\ LoopClean'
    BY <2>1, <2>2 DEF KeepsTrying, StaleConnected, LoopClean, serverVars
  <2>6. Chains' <= Chains + 1
    BY <2>1, <2>2, PendingValue DEF Chains, TypeOK
  <2> QED
    BY <2>3, <2>4, <2>5, <2>6
<1>3. CASE SpawnConnects
  <2>1. /\ spawning' = 0 /\ excused' = FALSE /\ socket' = "connected"
        /\ attempts' \in Nat /\ UNCHANGED <<armed, serverVars, asked, requests>>
    BY <1>3 DEF SpawnConnects, TypeOK
  <2>2. TypeOK'
    BY <2>1, BoundsAssumption DEF TypeOK, serverVars
  <2>3. KeepsTrying' /\ StaleConnected' /\ LoopClean'
    BY <2>1 DEF KeepsTrying, StaleConnected, LoopClean, serverVars
  <2>4. Chains' <= Chains
    BY <2>1, PendingValue DEF Chains, TypeOK
  <2>5. Chains \in Nat /\ Chains' \in Nat
    BY <2>2, PendingValue DEF Chains, TypeOK
  <2> QED
    BY <2>2, <2>3, <2>4, <2>5
<1> QED
  BY <1>1, <1>2, <1>3

\* The servers and the destructor.
LEMMA ServerStep ==
  ASSUME IInv, \/ ProcessEnds \/ DeleteLater \/ OtherEnds \/ Accepts
               \/ ServerCloses \/ Destroyed
  PROVE  IInv' /\ Chains' <= Chains
<1> USE DEF IInv
<1>1. ASSUME ServingEnds, requests' \in Nat
      PROVE  IInv' /\ Chains' <= Chains
  <2>1. IInv'
    BY <1>1 DEF ServingEnds, TypeOK, KeepsTrying, StaleConnected, LoopClean
  <2>2. Chains' <= Chains
    BY <1>1, PendingValue DEF ServingEnds, TypeOK, Chains
  <2> QED
    BY <2>1, <2>2
<1>2. CASE ProcessEnds
  <2>1. CASE serving = "own"
    BY <1>1, <1>2, <2>1 DEF ProcessEnds, CountsLoss, Counts, TypeOK
  <2>2. CASE serving # "own"
    <3>1. IInv'
      BY <1>2, <2>2
      DEF ProcessEnds, TypeOK, KeepsTrying, StaleConnected, LoopClean, history
    <3>2. Chains' <= Chains
      BY <1>2, <2>2, PendingValue DEF ProcessEnds, TypeOK, Chains, history
    <3> QED
      BY <3>1, <3>2
  <2> QED
    BY <2>1, <2>2
<1>3. CASE DeleteLater \/ OtherEnds
  BY <1>1, <1>3 DEF DeleteLater, OtherEnds, CountsLoss, Counts, TypeOK
<1>4. CASE Accepts
  <2>1. IInv'
    BY <1>4
    DEF Accepts, TypeOK, KeepsTrying, StaleConnected, LoopClean, history
  <2>2. Chains' <= Chains
    BY <1>4, PendingValue DEF Accepts, TypeOK, Chains, history
  <2> QED
    BY <2>1, <2>2
<1>5. CASE ServerCloses
  <2>1. IInv'
    BY <1>5
    DEF ServerCloses, Counts, TypeOK, KeepsTrying, StaleConnected, LoopClean
  <2>2. Chains' <= Chains
    BY <1>5, PendingValue DEF ServerCloses, Counts, TypeOK, Chains
  <2> QED
    BY <2>1, <2>2
<1>6. CASE Destroyed
  <2>1. IInv'
    BY <1>6
    DEF Destroyed, Idle, TypeOK, KeepsTrying, StaleConnected, LoopClean,
        history
  <2>2. Chains' <= Chains
    BY <1>6, PendingValue DEF Destroyed, Idle, TypeOK, Chains, history
  <2> QED
    BY <2>1, <2>2
<1> QED
  BY <1>2, <1>3, <1>4, <1>5, <1>6

-----------------------------------------------------------------------------

LEMMA InitIInv == Init => IInv
BY BoundsAssumption
DEF Init, IInv, TypeOK, KeepsTrying, StaleConnected, LoopClean

LEMMA Stutter == IInv /\ UNCHANGED vars => IInv' /\ Chains' = Chains
BY DEF vars, serverVars, history, IInv, TypeOK, KeepsTrying, StaleConnected,
       LoopClean, Chains

LEMMA NextIInv == IInv /\ [Next]_vars => IInv'
BY CallStep, SocketStep, LoopStep, ServerStep, Stutter DEF Next

LEMMA Invariance == Spec => []IInv
BY InitIInv, NextIInv, PTL DEF Spec

\* The client gives up on the server only when the delay has overflowed: after
\* 22 attempts in a row without a connection, however calls, timers, errors and
\* the loop of spawnServer follow one another.
THEOREM NeverGivesUpEarly == Spec => []GivesUpOnlyLate
<1>1. IInv => GivesUpOnlyLate
  BY DEF IInv, TypeOK, KeepsTrying, GivesUpOnlyLate, Idle
<1> QED
  BY <1>1, Invariance, PTL

\* Reconnection does not feed on itself: errors that overlapping attempts cause
\* each other start no further chain of attempts.
THEOREM NoStorm == Spec => NoReconnectStorm
<1>1. IInv /\ [Next]_vars =>
        [Chains' <= Chains + (IF FromOutside THEN 1 ELSE 0)]_vars
  <2> SUFFICES ASSUME IInv, Next
               PROVE  Chains' <= Chains + (IF FromOutside THEN 1 ELSE 0)
    OBVIOUS
  <2>1. Chains \in Nat /\ Chains' \in Nat
    BY NextIInv, PendingValue DEF IInv, TypeOK, Chains
  <2>2. Chains' <= Chains \/ (Chains' <= Chains + 1 /\ FromOutside)
    BY CallStep, SocketStep, LoopStep, ServerStep DEF Next, FromOutside
  <2> QED
    BY <2>1, <2>2
<1> QED
  BY <1>1, Invariance, PTL DEF Spec, NoReconnectStorm

\* When the loop of spawnServer or restartWithNgl reports success, there is a
\* server at the other end that is not the one before, unless the loop was
\* entered connected or with an old server alive.
THEOREM SuccessHolds == Spec => SuccessIsReal
<1>1. IInv /\ [Next]_vars =>
        [SpawnConnects => excused \/ (serving \in {"own", "other"} /\ ~stale)]_vars
  BY DEF SpawnConnects, IInv, TypeOK, StaleConnected, LoopClean
<1> QED
  BY <1>1, Invariance, PTL DEF Spec, SuccessIsReal
=============================================================================
