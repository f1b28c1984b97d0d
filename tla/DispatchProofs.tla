--------------------------- MODULE DispatchProofs ---------------------------
(***************************************************************************)
(* Proofs about DispatchControl: it implements both of the components it   *)
(* joins, so that what is proved of the queue for a guard that may change  *)
(* at any moment holds of the queue with the guard of the code; and a task *)
(* is let through only on values that were good together at some instant.  *)
(***************************************************************************)
EXTENDS DispatchControl, TLAPS

\* What is proved of the queue with an arbitrary guard.
Queue == INSTANCE TaskQueueProofs WITH accepts <- Accepts

\* The guard compares numbers.
LEMMA GuardNumbers ==
  /\ UtilThreshold \in Nat /\ VramHeadroom \in Nat
  /\ Utils \subseteq Nat /\ Frees \subseteq Nat
<1> QED
  BY DispatchAssumption DEF G!GuardAssumption

-----------------------------------------------------------------------------
(* The inductive invariant.                                                *)

\* What the proofs need of the types.
Numbers ==
  /\ tester \in Workers \cup {NoWorker}
  /\ pc \in [Workers -> {"outside", "blocked", "woken", "working"}]
  /\ DOMAIN held = Workers
  /\ vramFree \in Nat /\ sampleFree \in Nat
  /\ polls \in {0, 1}
  /\ throttled \in BOOLEAN /\ paused \in BOOLEAN

\* Only a worker at work holds a task, and the tester is not at work.
TesterIsFree ==
  /\ \A w \in Workers : pc[w] # "working" => held[w] = NoJob
  /\ tester # NoWorker => pc[tester] \in {"outside", "woken"}

\* The queue is paused exactly when the guard is throttled, but for the time
\* between the decision of pollGpu and its signal.
SignalDelivered ==
  phase \in {"constructed", "idle", "utilStored", "vramStored"} =>
    paused = throttled

\* Until the next store of m_vram_free, an unthrottled guard has memory.
MemoryDecided ==
  /\ phase = "constructed" => polls = 0
  /\ phase \in {"idle", "utilStored", "emitting"} /\ polls = 1 /\ ~throttled =>
       vramFree > VramHeadroom

\* A test without a good instant so far is one that would fail now. A poll
\* that would let it pass stores m_vram_free, and before that store either
\* the memory sufficed, so that the fault is in the loads already made, or
\* the queue was paused; and the pause outlasts the test. During the first
\* poll there is no such memory yet, but the loads made since its first store
\* are the values still there at its second.
FailsUnlessAllowed ==
  tester # NoWorker =>
    \/ allowed \/ early
    \/ polls = 1 /\ (paused \/ ~Accepts)
    \/ /\ polls = 0 /\ ~Accepts
       /\ phase \notin {"constructed", "idle"}
       /\ seenAvail = nvmlAvailable /\ seenUtil = utilization

DInv == /\ Numbers /\ TesterIsFree /\ SignalDelivered /\ MemoryDecided
        /\ FailsUnlessAllowed

LEMMA InitDInv == Init => DInv
<1> SUFFICES ASSUME Init PROVE DInv
  OBVIOUS
<1>1. /\ tester = NoWorker /\ vramFree = 0 /\ sampleFree = 0 /\ polls = 0
      /\ throttled = FALSE /\ paused = FALSE
  BY DEF Init, G!Init
<1>2. /\ pc = [w \in Workers |-> "outside"]
      /\ held = [w \in Workers |-> NoJob]
  BY DEF Init, Q!Init
<1>3. Numbers
  BY <1>1, <1>2 DEF Numbers
<1>4. TesterIsFree
  BY <1>1, <1>2 DEF TesterIsFree
<1>5. SignalDelivered /\ MemoryDecided
  <2>1. SignalDelivered
    BY <1>1, Zenon DEF SignalDelivered
  <2> QED
    BY <1>1, <2>1 DEF MemoryDecided
<1>6. FailsUnlessAllowed
  BY <1>1 DEF FailsUnlessAllowed
<1> QED
  BY <1>3, <1>4, <1>5, <1>6 DEF DInv

-----------------------------------------------------------------------------
(* Steps of the queue, which leave the guard alone.                        *)

\* What the guard's part of the invariant is about.
guardPart == <<nvmlAvailable, utilization, vramFree, sampleFree, polls,
               throttled, paused, phase>>

\* Waking workers puts none of them to work, and moves none that is not
\* asleep.
Wakes ==
  /\ pc' \in [Workers -> {"outside", "blocked", "woken", "working"}]
  /\ \A w \in Workers : pc'[w] = pc[w] \/ (pc[w] = "blocked" /\ pc'[w] = "woken")

LEMMA NotifyWakes ==
  ASSUME Numbers, Q!NotifyOne \/ Q!NotifyAll
  PROVE  Wakes
<1>1. CASE Q!NotifyOne
  BY <1>1 DEF Numbers, Wakes, Q!NotifyOne, Q!Blocked
<1>2. CASE Q!NotifyAll
  BY <1>2 DEF Numbers, Wakes, Q!NotifyAll, Q!WakeAll, Q!Blocked
<1> QED
  BY <1>1, <1>2

\* Waking workers preserves the invariant, with the rest of it unchanged.
LEMMA WakesStep ==
  ASSUME DInv, Wakes, UNCHANGED <<held, guardPart, loads, allowed>>
  PROVE  DInv'
<1> USE DEF DInv, guardPart, loads
<1>1. Numbers'
  BY DEF Numbers, Wakes
<1>2. TesterIsFree'
  BY DispatchAssumption DEF TesterIsFree, Numbers, Wakes
<1>3. SignalDelivered' /\ MemoryDecided'
  BY DEF SignalDelivered, MemoryDecided
<1>4. FailsUnlessAllowed'
  BY DEF FailsUnlessAllowed, Accepts
<1> QED
  BY <1>1, <1>2, <1>3, <1>4

\* A worker that leaves the predicate, to work or to sleep, or that completes
\* its task while nobody is inside.
LEMMA FreesStep ==
  ASSUME DInv, tester' = NoWorker, UNCHANGED guardPart,
         pc' \in [Workers -> {"outside", "blocked", "woken", "working"}],
         DOMAIN held' = Workers,
         \A w \in Workers : pc'[w] # "working" => held'[w] = NoJob
  PROVE  DInv'
<1> QED
  BY DEF DInv, guardPart, Numbers, TesterIsFree, SignalDelivered,
         MemoryDecided, FailsUnlessAllowed

LEMMA QueueStep ==
  ASSUME DInv,
         \/ \E j \in Jobs : Enqueue(j)
         \/ \E w \in Workers : TaskCompleted(w) \/ SpuriousWake(w)
         \/ SignalNotifies
  PROVE  DInv'
<1>0. Numbers
  BY DEF DInv
<1>1. ASSUME NEW j \in Jobs, Enqueue(j) PROVE DInv'
  <2>1. Wakes
    BY <1>0, <1>1, NotifyWakes DEF Enqueue, Q!Enqueue
  <2> QED
    BY <1>1, <2>1, WakesStep
    DEF Enqueue, Q!Enqueue, guardOnly, guardPart, loads
<1>2. ASSUME NEW w \in Workers, SpuriousWake(w) PROVE DInv'
  <2>1. Wakes
    BY <1>0, <1>2 DEF SpuriousWake, Q!SpuriousWake, Numbers, Wakes
  <2> QED
    BY <1>2, <2>1, WakesStep
    DEF SpuriousWake, Q!SpuriousWake, guardOnly, guardPart, loads
<1>3. CASE SignalNotifies
  <2>1. Wakes
    BY <1>0, <1>3, NotifyWakes DEF SignalNotifies, Q!SetPausedNotifies
  <2> QED
    BY <1>3, <2>1, WakesStep
    DEF SignalNotifies, Q!SetPausedNotifies, guardOnly, guardPart, loads
<1>4. ASSUME NEW w \in Workers, TaskCompleted(w) PROVE DInv'
  <2>1. /\ held' = [held EXCEPT ![w] = NoJob]
        /\ pc' = [Q!WakeAll EXCEPT ![w] = "outside"]
        /\ UNCHANGED guardPart /\ tester' = NoWorker
    BY <1>4 DEF TaskCompleted, Q!TaskCompleted, MutexFree, guardOnly,
                guardPart, loads
  <2>2. /\ pc' \in [Workers -> {"outside", "blocked", "woken", "working"}]
        /\ DOMAIN held' = Workers
        /\ \A v \in Workers : pc'[v] # "working" => held'[v] = NoJob
    BY <1>0, <2>1 DEF DInv, TesterIsFree, Numbers, Q!WakeAll, Q!Blocked
  <2> QED
    BY <2>1, <2>2, FreesStep
<1> QED
  BY <1>1, <1>2, <1>3, <1>4

-----------------------------------------------------------------------------
(* The predicate of dequeue.                                               *)

LEMMA TestStep ==
  ASSUME DInv, NEW w \in Workers, TestStarts(w) \/ TestPasses(w) \/ TestFails(w)
  PROVE  DInv'
<1>0. Numbers
  BY DEF DInv
<1>1. CASE TestStarts(w)
  <2> USE <1>1 DEF TestStarts, queueOnly, guardOnly, DInv
  <2>1. Numbers' /\ SignalDelivered' /\ MemoryDecided'
    BY DEF Numbers, SignalDelivered, MemoryDecided
  <2>2. TesterIsFree'
    BY DEF TesterIsFree, Q!TestsPredicate
  <2>3. FailsUnlessAllowed'
    BY <1>0 DEF FailsUnlessAllowed, Accepts, G!CanAcceptWork, Numbers
  <2> QED
    BY <2>1, <2>2, <2>3
<1>2. CASE TestPasses(w)
  <2>1. /\ pc' = [pc EXCEPT ![w] = "working"]
        /\ \E j : held' = [held EXCEPT ![w] = j]
        /\ UNCHANGED guardPart /\ tester' = NoWorker
    BY <1>2 DEF TestPasses, Q!DequeueTakes, guardOnly, guardPart
  <2>2. /\ pc' \in [Workers -> {"outside", "blocked", "woken", "working"}]
        /\ DOMAIN held' = Workers
        /\ \A v \in Workers : pc'[v] # "working" => held'[v] = NoJob
    BY <1>0, <2>1 DEF DInv, TesterIsFree, Numbers
  <2> QED
    BY <2>1, <2>2, FreesStep
<1>3. CASE TestFails(w)
  <2>1. /\ pc' = [pc EXCEPT ![w] = "blocked"] /\ held' = held
        /\ tester = w
        /\ UNCHANGED guardPart /\ tester' = NoWorker
    BY <1>3 DEF TestFails, Q!DequeueBlocks, guardOnly, guardPart
  <2>2. /\ pc' \in [Workers -> {"outside", "blocked", "woken", "working"}]
        /\ DOMAIN held' = Workers
        /\ \A v \in Workers : pc'[v] # "working" => held'[v] = NoJob
    BY <1>0, <2>1, DispatchAssumption DEF DInv, TesterIsFree, Numbers
  <2> QED
    BY <2>1, <2>2, FreesStep
<1> QED
  BY <1>1, <1>2, <1>3

-----------------------------------------------------------------------------
(* The Qt thread.                                                          *)

\* A step of the guard between signals, whoever is inside the predicate.
LEMMA GuardStepKeeps ==
  ASSUME DInv, GuardStep
  PROVE  DInv'
<1>0. /\ Numbers
      /\ UNCHANGED <<pc, held, loads>>
      /\ allowed' = (tester # NoWorker /\ (allowed \/ G!CanAcceptWork'))
  BY DEF DInv, GuardStep, queueOnly
<1>1. TesterIsFree'
  BY <1>0 DEF DInv, TesterIsFree, loads
<1>2. CASE G!InitializeWithoutDevice \/ G!InitializeWithDevice \/ G!PollFails
  <2> USE DEF G!InitializeWithoutDevice, G!InitializeWithDevice, G!PollFails,
              G!PollStarts
  <2>1. Numbers'
    BY <1>0, <1>2 DEF Numbers, loads
  <2>2. SignalDelivered' /\ MemoryDecided'
    BY <1>0, <1>2 DEF DInv, SignalDelivered, MemoryDecided, Numbers
  <2>3. FailsUnlessAllowed'
    BY <1>0, <1>2 DEF DInv, FailsUnlessAllowed, Accepts, loads
  <2> QED
    BY <1>1, <2>1, <2>2, <2>3 DEF DInv
<1>3. ASSUME NEW util \in Utils, NEW free \in Frees, G!PollStoresUtil(util, free)
      PROVE  DInv'
  <2> USE DEF G!PollStoresUtil, G!PollStarts
  <2>1. Numbers'
    BY <1>0, <1>3, GuardNumbers DEF Numbers, loads
  <2>2. SignalDelivered' /\ MemoryDecided'
    BY <1>0, <1>3 DEF DInv, SignalDelivered, MemoryDecided, Numbers
  <2>3. FailsUnlessAllowed'
    BY <1>0, <1>3 DEF DInv, FailsUnlessAllowed, Accepts, loads
  <2> QED
    BY <1>1, <2>1, <2>2, <2>3 DEF DInv
<1>4. CASE G!PollStoresVram
  <2> USE DEF G!PollStoresVram
  <2>1. Numbers'
    BY <1>0, <1>4 DEF Numbers, loads
  <2>2. SignalDelivered' /\ MemoryDecided'
    BY <1>0, <1>4 DEF DInv, SignalDelivered, MemoryDecided, Numbers
  <2>3. ASSUME tester # NoWorker, ~allowed, ~early, polls = 1
        PROVE  paused \/ ~Accepts'
    <3>1. paused \/ ~Accepts
      BY <1>0, <2>3 DEF DInv, FailsUnlessAllowed, Numbers
    <3>2. ASSUME ~paused
          PROVE  ~Accepts'
      <4>1. vramFree > VramHeadroom
        BY <1>0, <1>4, <2>3, <3>2
        DEF DInv, SignalDelivered, MemoryDecided, Numbers
      <4>2. ~(seenAvail /\ seenUtil < UtilThreshold)
        BY <3>1, <3>2, <4>1 DEF Accepts
      <4> QED
        BY <1>0, <4>2 DEF Accepts, loads
    <3> QED
      BY <3>1, <3>2
  <2>4. ASSUME tester # NoWorker, ~allowed, ~early, polls = 0
        PROVE  allowed' \/ ~Accepts'
    <3>1. seenAvail = nvmlAvailable /\ seenUtil = utilization
      BY <2>4 DEF DInv, FailsUnlessAllowed
    <3>2. Accepts' = G!CanAcceptWork'
      BY <1>0, <1>4, <3>1 DEF Accepts, G!CanAcceptWork, loads
    <3> QED
      BY <1>0, <2>4, <3>2
  <2>5. FailsUnlessAllowed'
    BY <1>0, <1>4, <2>3, <2>4 DEF DInv, FailsUnlessAllowed, Numbers, loads
  <2> QED
    BY <1>1, <2>1, <2>2, <2>5 DEF DInv
<1>5. CASE G!PollDecides
  <2>1. /\ throttled' = G!NextThrottled /\ throttled' \in BOOLEAN
        /\ phase' = IF throttled' # throttled THEN "emitting" ELSE "idle"
        /\ phase = "vramStored" /\ polls' = 1
        /\ UNCHANGED <<vramFree, sampleFree, paused>>
    BY <1>0, <1>5 DEF G!PollDecides, G!NextThrottled, Numbers
  <2>2. Numbers'
    BY <1>0, <2>1 DEF Numbers, loads
  <2>3. ~throttled' => vramFree > VramHeadroom
    BY <1>0, <2>1, GuardNumbers
    DEF G!NextThrottled, G!ShouldThrottle, Numbers
  <2>4. SignalDelivered' /\ MemoryDecided'
    BY <1>0, <2>1, <2>3 DEF DInv, SignalDelivered, MemoryDecided
  <2>5. FailsUnlessAllowed'
    BY <1>0, <2>1 DEF DInv, FailsUnlessAllowed, Accepts, loads
  <2> QED
    BY <1>1, <2>2, <2>4, <2>5 DEF DInv
<1> QED
  BY <1>2, <1>3, <1>4, <1>5 DEF GuardStep, G!PollStep

LEMMA SignalStep ==
  ASSUME DInv, Signal
  PROVE  DInv'
<1>1. /\ tester = NoWorker /\ paused' = throttled /\ phase' = "idle"
      /\ phase = "emitting"
      /\ UNCHANGED <<pc, held, loads, vramFree, sampleFree, polls, throttled>>
  BY DEF Signal, MutexFree, G!Emit
<1> QED
  BY <1>1 DEF DInv, Numbers, TesterIsFree, SignalDelivered, MemoryDecided,
              FailsUnlessAllowed, loads

LEMMA NextDInv == DInv /\ [Next]_vars => DInv'
<1> SUFFICES ASSUME DInv, [Next]_vars PROVE DInv'
  OBVIOUS
<1>1. CASE UNCHANGED vars
  BY <1>1 DEF vars, queueOnly, guardOnly, loads, DInv, Numbers, TesterIsFree,
              SignalDelivered, MemoryDecided, FailsUnlessAllowed, Accepts
<1> QED
  BY <1>1, QueueStep, TestStep, GuardStepKeeps, SignalStep DEF Next

\* The invariant holds in every reachable state.
LEMMA DispatchInvariance == Spec => []DInv
<1> QED
  BY InitDInv, NextDInv, PTL DEF Spec

-----------------------------------------------------------------------------
(* The results.                                                            *)

\* The two loads of canAcceptWork may straddle a poll, and yet a task is let
\* through only if the guard's values were both good at one moment of the
\* test, or the test loaded the utilization of the constructor, before the
\* first poll had stored one: for every threshold, every sample and any number
\* of workers.
THEOREM DispatchIsBacked == Spec => DispatchBacked
<1>1. ASSUME DInv, [Next]_vars
      PROVE  [\A w \in Workers :
                tester = w /\ held'[w] # NoJob => allowed \/ early]_vars
  <2> SUFFICES ASSUME Next, NEW w \in Workers, tester = w, held'[w] # NoJob
               PROVE  allowed \/ early
    BY <1>1
  <2>1. tester # NoWorker /\ held[w] = NoJob /\ ~MutexFree
    BY <1>1, DispatchAssumption DEF DInv, TesterIsFree, MutexFree
  <2>2. held' # held
    BY <2>1
  <2>3. PICK v \in Workers : TestPasses(v)
    BY <2>1, <2>2
    DEF Next, Enqueue, TestStarts, TestFails, TaskCompleted, SpuriousWake,
        GuardStep, Signal, SignalNotifies, queueOnly, Q!DequeueBlocks,
        Q!SpuriousWake, Q!SetPausedNotifies
  <2>4. ~paused /\ Accepts
    BY <2>3 DEF TestPasses, Q!DequeueTakes, Q!CanRun
  <2> QED
    BY <1>1, <2>1, <2>4 DEF DInv, FailsUnlessAllowed
<1> QED
  BY <1>1, DispatchInvariance, PTL DEF Spec, DispatchBacked

\* The guard within the composition is the guard of GpuGuard: nothing that the
\* queue does touches it, and its signal is what the queue's flag records.
THEOREM GuardImplemented == Spec => G!Spec
<1>1. Init => G!Init
  BY DEF Init
<1>2. [Next]_vars => [G!Next]_(G!guardVars)
  <2> SUFFICES ASSUME [Next]_vars PROVE [G!Next]_(G!guardVars)
    OBVIOUS
  <2>1. CASE GuardStep \/ Signal
    BY <2>1 DEF GuardStep, Signal, G!Next
  <2>2. CASE UNCHANGED <<guardOnly, paused>>
    BY <2>2 DEF guardOnly, G!guardVars
  <2>3. ASSUME \/ \E j \in Jobs : Enqueue(j)
               \/ \E w \in Workers : \/ TestStarts(w) \/ TestPasses(w)
                                     \/ TestFails(w) \/ TaskCompleted(w)
                                     \/ SpuriousWake(w)
               \/ SignalNotifies
        PROVE  UNCHANGED <<guardOnly, paused>>
    BY <2>3
    DEF Enqueue, TestStarts, TestPasses, TestFails, TaskCompleted,
        SpuriousWake, SignalNotifies, Q!Enqueue, Q!DequeueTakes,
        Q!DequeueBlocks, Q!TaskCompleted, Q!SpuriousWake, Q!SetPausedNotifies
  <2>4. CASE UNCHANGED vars
    BY <2>2, <2>4 DEF vars
  <2>5. Next \/ UNCHANGED vars
    OBVIOUS
  <2>6. CASE Next
    BY <2>1, <2>2, <2>3, <2>6 DEF Next
  <2> QED
    BY <2>4, <2>5, <2>6
<1> QED
  BY <1>1, <1>2, PTL DEF Spec, G!Spec

\* The queue within the composition is the queue of TaskQueue: what the worker
\* inside the predicate has loaded is one of the ways in which an arbitrary
\* guard may change. So the invariants proved of TaskQueue hold here.
THEOREM QueueImplemented == Spec => Q!Spec
<1>1. Init => Q!Init
  BY DEF Init
<1>2. DInv /\ [Next]_vars => [Q!Next]_(Q!vars)
  <2> SUFFICES ASSUME DInv, [Next]_vars PROVE [Q!Next]_(Q!vars)
    OBVIOUS
  <2>1. ASSUME UNCHANGED <<queueOnly, paused>>
        PROVE  [Q!Next]_(Q!vars)
    <3>1. Accepts' = Accepts \/ Accepts' = ~Accepts
      BY DEF Accepts
    <3>2. CASE Accepts' = Accepts
      BY <2>1, <3>2 DEF queueOnly, Q!vars
    <3>3. CASE Accepts' = ~Accepts
      <4>1. Q!GuardChanges
        BY <2>1, <3>3 DEF queueOnly, Q!GuardChanges, Q!queueVars,
                          Q!workerVars, Q!history
      <4> QED
        BY <4>1 DEF Q!Next
    <3> QED
      BY <3>1, <3>2, <3>3
  <2>2. CASE UNCHANGED vars
    BY <2>1, <2>2 DEF vars
  <2>3. CASE GuardStep
    BY <2>1, <2>3 DEF GuardStep, G!InitializeWithoutDevice,
      G!InitializeWithDevice, G!PollFails, G!PollStep, G!PollStoresUtil,
      G!PollStoresVram, G!PollDecides
  <2>4. CASE Signal
    <3>1. Q!SetPaused(throttled)
      BY <2>4 DEF Signal, QtFree, G!Emit, loads, Accepts, Q!SetPaused,
                  Q!queueVars, Q!workerVars, Q!history
    <3> QED
      BY <3>1 DEF DInv, Numbers, Q!Next
  <2>5. ASSUME NEW w \in Workers, TestStarts(w)
        PROVE  [Q!Next]_(Q!vars)
    BY <2>1, <2>5 DEF TestStarts
  <2>6. ASSUME \/ \E j \in Jobs : Enqueue(j)
               \/ \E w \in Workers : \/ TestPasses(w) \/ TestFails(w)
                                     \/ TaskCompleted(w) \/ SpuriousWake(w)
               \/ SignalNotifies
        PROVE  Q!Next
    BY <2>6 DEF Enqueue, TestPasses, TestFails, TaskCompleted, SpuriousWake,
                SignalNotifies, Q!Next
  <2>7. Next \/ UNCHANGED vars
    OBVIOUS
  <2>8. CASE Next
    BY <2>3, <2>4, <2>5, <2>6, <2>8 DEF Next
  <2> QED
    BY <2>2, <2>7, <2>8
<1> QED
  BY <1>1, <1>2, DispatchInvariance, PTL DEF Spec, Q!Spec

\* The same module, instantiated for its proofs.
LEMMA SameQueue == Q!Spec => Queue!Spec
<1> USE DEF Q!Priorities, Queue!Priorities, Q!queueVars, Queue!queueVars,
            Q!workerVars, Queue!workerVars, Q!history, Queue!history
<1>1. Q!Init => Queue!Init
  BY DEF Q!Init, Queue!Init, Q!Types, Queue!Types, Q!NoType, Queue!NoType
<1>2. ASSUME NEW j \in Jobs, Q!Enqueue(j) PROVE Queue!Enqueue(j)
  BY <1>2
  DEF Q!Enqueue, Queue!Enqueue, Q!Queued, Queue!Queued, Q!Holders,
      Queue!Holders, Q!Full, Queue!Full, Q!TotalQueued, Queue!TotalQueued,
      Q!LengthOf, Queue!LengthOf, Q!NotifyOne, Queue!NotifyOne, Q!Blocked,
      Queue!Blocked
<1>3. ASSUME NEW w \in Workers, Q!DequeueTakes(w) PROVE Queue!DequeueTakes(w)
  BY <1>3
  DEF Q!DequeueTakes, Queue!DequeueTakes, Q!TestsPredicate,
      Queue!TestsPredicate, Q!CanRun, Queue!CanRun, Q!HasReady,
      Queue!HasReady, Q!Ready, Queue!Ready, Q!LimitOf, Queue!LimitOf,
      Q!Served, Queue!Served, Q!FirstReady, Queue!FirstReady, Q!Erased,
      Queue!Erased, Q!RotatedFrom, Queue!RotatedFrom, Q!Other, Queue!Other,
      Q!SkippedCap, Queue!SkippedCap,
    Q!RemoveAt, Queue!RemoveAt
<1>4. ASSUME NEW w \in Workers, Q!DequeueBlocks(w) PROVE Queue!DequeueBlocks(w)
  BY <1>4
  DEF Q!DequeueBlocks, Queue!DequeueBlocks, Q!TestsPredicate,
      Queue!TestsPredicate, Q!CanRun, Queue!CanRun, Q!HasReady,
      Queue!HasReady, Q!Ready, Queue!Ready, Q!LimitOf, Queue!LimitOf
<1>5. ASSUME NEW w \in Workers, Q!TaskCompleted(w) PROVE Queue!TaskCompleted(w)
  BY <1>5
  DEF Q!TaskCompleted, Queue!TaskCompleted, Q!Released, Queue!Released,
      Q!NoType, Queue!NoType, Q!WakeAll, Queue!WakeAll, Q!Blocked,
      Queue!Blocked
<1>6. ASSUME NEW w \in Workers, Q!SpuriousWake(w) PROVE Queue!SpuriousWake(w)
  BY <1>6
  DEF Q!SpuriousWake, Queue!SpuriousWake
<1>7. ASSUME NEW b \in BOOLEAN, Q!SetPaused(b) PROVE Queue!SetPaused(b)
  BY <1>7 DEF Q!SetPaused, Queue!SetPaused
<1>8. Q!SetPausedNotifies => Queue!SetPausedNotifies
  BY
  DEF Q!SetPausedNotifies, Queue!SetPausedNotifies, Q!NotifyAll,
      Queue!NotifyAll, Q!WakeAll, Queue!WakeAll, Q!Blocked, Queue!Blocked
<1>9. Q!GuardChanges => Queue!GuardChanges
  BY DEF Q!GuardChanges, Queue!GuardChanges
<1>10. Q!vars' = Q!vars => Queue!vars' = Queue!vars
  BY DEF Q!vars, Queue!vars
<1>11. Q!Next => Queue!Next
  BY <1>2, <1>3, <1>4, <1>5, <1>6, <1>7, <1>8, <1>9
  DEF Q!Next, Queue!Next
<1>12. [Q!Next]_(Q!vars) => [Queue!Next]_(Queue!vars)
  BY <1>10, <1>11
<1> QED
  BY <1>1, <1>12, PTL DEF Q!Spec, Queue!Spec

\* What TaskQueue assumes of its constants, as DispatchControl does.
LEMMA QueueAssumptions == Queue!JobsAssumption /\ Queue!ConfigAssumption
BY DispatchAssumption
DEF Q!JobsAssumption, Queue!JobsAssumption, Q!ConfigAssumption,
    Queue!ConfigAssumption, Q!IsFiniteSet, Queue!IsFiniteSet, Q!Types,
    Queue!Types, Q!Priorities, Queue!Priorities

\* While the queue is not paused, a ready task and a sleeping worker mean a
\* worker on its way, unless the guard refused since the last notify_all.
LEMMA QueueWakes == Spec => []Queue!NoSleepingWork
<1>1. Queue!Spec => []Queue!NoSleepingWork
  BY QueueAssumptions, Queue!NoReadyTaskSleeps, PTL
<1> QED
  BY <1>1, SameQueue, QueueImplemented, PTL

\* With the guard's throttle and the loads of its predicate at any moment, the
\* queue is still a dispatcher: the tasks are taken in turn and no type gets
\* more workers than its limit, whatever the samples.
THEOREM GuardedQueueIsDispatcher ==
  ASSUME Queue!UniqueIds
  PROVE  Spec => Queue!ImplementsDispatcher /\ []Queue!LimitsRespected
<1>1. Queue!Spec => Queue!ImplementsDispatcher
  BY QueueAssumptions, Queue!QueueIsDispatcher
<1>2. Queue!Spec => []Queue!LimitsRespected
  BY QueueAssumptions, Queue!LimitsHold
<1> QED
  BY <1>1, <1>2, SameQueue, QueueImplemented, PTL

-----------------------------------------------------------------------------
(* A refusal is made good by the throttle that it is a sign of.            *)

\* The poll under way ends in a throttle.
WillThrottle ==
  \/ phase = "utilStored" /\ (utilization > UtilThreshold
                                \/ sampleFree <= VramHeadroom)
  \/ phase = "vramStored" /\ G!ShouldThrottle
  \/ phase = "emitting" /\ throttled

\* Between polls, an unthrottled guard is not above the threshold, and a
\* signal that is yet to come to an unpaused queue pauses it.
UseDecided ==
  /\ utilization \in Nat /\ seenUtil \in Nat
  /\ phase \in {"constructed", "idle", "emitting"} /\ ~throttled =>
       utilization <= UtilThreshold
  /\ phase = "emitting" /\ ~paused => throttled
  /\ phase \in {"constructed", "idle", "utilStored", "vramStored", "emitting"}

\* A utilization above the threshold that a tester has loaded is that of a
\* poll under way.
SeenInThisPoll ==
  tester # NoWorker /\ ~paused /\ seenUtil > UtilThreshold => WillThrottle

\* A refusal that no notify_all has followed was not signalled, or the signal
\* is on its way.
RefusalCovered ==
  refused /\ ~paused /\ ~notifying => unsignalled \/ WillThrottle

SInv == UseDecided /\ SeenInThisPoll /\ RefusalCovered

LEMMA InitSInv == Init => SInv
<1> SUFFICES ASSUME Init PROVE SInv
  OBVIOUS
<1>1. /\ tester = NoWorker /\ utilization = 0 /\ seenUtil = 0
      /\ phase = "constructed"
  BY DEF Init, G!Init
<1>2. ~refused
  BY DEF Init, Q!Init
<1> QED
  BY <1>1, <1>2, GuardNumbers
  DEF SInv, UseDecided, SeenInThisPoll, RefusalCovered

\* Without a signal, a poll that will throttle goes on to do so.
LEMMA ThrottleComes ==
  ASSUME DInv, SInv, GuardStep
  PROVE  /\ UseDecided'
         /\ WillThrottle /\ ~paused => WillThrottle'
<1>0. /\ Numbers /\ UseDecided /\ SignalDelivered
      /\ UNCHANGED seenUtil
  BY DEF DInv, SInv, GuardStep, loads
<1>1. CASE G!InitializeWithoutDevice \/ G!InitializeWithDevice \/ G!PollFails
  BY <1>0, <1>1
  DEF UseDecided, WillThrottle, G!InitializeWithoutDevice,
      G!InitializeWithDevice, G!PollFails, G!PollStarts
<1>2. ASSUME NEW util \in Utils, NEW free \in Frees, G!PollStoresUtil(util, free)
      PROVE  UseDecided' /\ ~WillThrottle
  BY <1>0, <1>2, GuardNumbers
  DEF UseDecided, WillThrottle, G!PollStoresUtil, G!PollStarts
<1>3. CASE G!PollStoresVram
  BY <1>0, <1>3, GuardNumbers
  DEF UseDecided, WillThrottle, G!PollStoresVram, G!ShouldThrottle, Numbers
<1>4. CASE G!PollDecides
  <2>1. /\ throttled' = G!NextThrottled /\ throttled' \in BOOLEAN
        /\ phase' = IF throttled' # throttled THEN "emitting" ELSE "idle"
        /\ phase = "vramStored" /\ paused = throttled
        /\ UNCHANGED <<utilization, vramFree, paused>>
    BY <1>0, <1>4
    DEF G!PollDecides, G!NextThrottled, Numbers, SignalDelivered
  <2>2. UseDecided'
    <3>1. ~throttled' => utilization <= UtilThreshold
      BY <1>0, <2>1, GuardNumbers
      DEF UseDecided, G!NextThrottled, G!ShouldThrottle
    <3>2. phase' = "emitting" /\ ~paused => throttled'
      BY <1>0, <2>1 DEF Numbers
    <3> QED
      BY <1>0, <2>1, <3>1, <3>2 DEF UseDecided
  <2>3. ASSUME WillThrottle, ~paused PROVE WillThrottle'
    BY <1>0, <2>1, <2>3 DEF WillThrottle, G!NextThrottled, Numbers
  <2> QED
    BY <2>2, <2>3
<1> QED
  BY <1>1, <1>2, <1>3, <1>4 DEF GuardStep, G!PollStep

\* The end of a test that fails on values that a signal will follow.
LEMMA AnnouncedRefusal ==
  ASSUME DInv, SInv, tester # NoWorker, ~paused, ~Accepts, ~Unannounced
  PROVE  WillThrottle
<1>1. /\ Numbers /\ UseDecided /\ polls = 1 /\ seenAvail
      /\ seenUtil # UtilThreshold
  BY DEF DInv, SInv, Numbers, Unannounced
<1>2. CASE seenUtil > UtilThreshold
  BY <1>2 DEF SInv, SeenInThisPoll
<1>3. CASE ~(seenUtil > UtilThreshold)
  <2>1. vramFree <= VramHeadroom
    BY <1>1, <1>3, GuardNumbers DEF Accepts, Numbers, UseDecided
  <2>2. phase \in {"vramStored", "emitting"}
    BY <1>1, <2>1, GuardNumbers
    DEF DInv, SignalDelivered, MemoryDecided, UseDecided, Numbers
  <2> QED
    BY <1>1, <2>1, <2>2 DEF WillThrottle, UseDecided, G!ShouldThrottle
<1> QED
  BY <1>2, <1>3

LEMMA NextSInv == DInv /\ SInv /\ [Next]_vars => SInv'
<1> SUFFICES ASSUME DInv, SInv, [Next]_vars PROVE SInv'
  OBVIOUS
<1>0. Numbers /\ UseDecided
  BY DEF DInv, SInv
<1> DEFINE Guard == <<utilization, vramFree, sampleFree, throttled, phase>>
<1>1. ASSUME UNCHANGED Guard PROVE WillThrottle' = WillThrottle
  BY <1>1 DEF WillThrottle, G!ShouldThrottle
<1>2. ASSUME NEW j \in Jobs, Enqueue(j) PROVE SInv'
  <2>1. UNCHANGED <<Guard, loads, paused, unsignalled, notifying>>
        /\ (refused' => refused)
    BY <1>2 DEF Enqueue, guardOnly, Q!Enqueue, Q!NotifyOne, Q!history
  <2> QED
    BY <1>1, <2>1 DEF SInv, UseDecided, SeenInThisPoll, RefusalCovered, loads
<1>3. ASSUME NEW w \in Workers, TestStarts(w) PROVE SInv'
  <2>1. UNCHANGED <<Guard, paused, unsignalled, notifying, refused>>
    BY <1>3 DEF TestStarts, guardOnly, queueOnly
  <2>2. seenUtil' = utilization
    BY <1>3 DEF TestStarts
  <2>3. UseDecided'
    BY <1>0, <2>1, <2>2 DEF UseDecided
  <2>4. SeenInThisPoll'
    BY <1>0, <1>1, <2>1, <2>2, GuardNumbers
    DEF SeenInThisPoll, WillThrottle, UseDecided, DInv, SignalDelivered,
        G!ShouldThrottle
  <2> QED
    BY <1>1, <2>1, <2>3, <2>4 DEF SInv, RefusalCovered
<1>4. ASSUME NEW w \in Workers, TestPasses(w) \/ TestFails(w) PROVE SInv'
  <2>1. /\ UNCHANGED <<Guard, seenUtil, paused, notifying>>
        /\ tester' = NoWorker /\ tester = w
    BY <1>4 DEF TestPasses, TestFails, guardOnly, Q!DequeueTakes,
                Q!DequeueBlocks
  <2>2. UseDecided' /\ SeenInThisPoll'
    BY <1>0, <2>1 DEF UseDecided, SeenInThisPoll
  <2>3. CASE TestPasses(w)
    <3>1. UNCHANGED <<refused, unsignalled>>
      BY <2>3 DEF TestPasses, Q!DequeueTakes
    <3> QED
      BY <1>1, <2>1, <2>2, <3>1 DEF SInv, RefusalCovered
  <2>4. CASE TestFails(w)
    <3>1. /\ refused' = (refused \/ (~paused /\ ~Accepts))
          /\ unsignalled' = (unsignalled \/ (~paused /\ ~Accepts /\ Unannounced))
      BY <2>4 DEF TestFails, Q!DequeueBlocks
    <3>2. tester # NoWorker
      BY <2>1, DispatchAssumption
    <3>3. ASSUME ~paused, ~Accepts, ~Unannounced PROVE WillThrottle
      BY <3>2, <3>3, AnnouncedRefusal
    <3> QED
      BY <1>1, <2>1, <2>2, <3>1, <3>3 DEF SInv, RefusalCovered
  <2> QED
    BY <1>4, <2>3, <2>4
<1>5. ASSUME NEW w \in Workers, TaskCompleted(w) PROVE SInv'
  <2>1. UNCHANGED <<Guard, loads, paused>> /\ ~refused'
    BY <1>5 DEF TaskCompleted, Q!TaskCompleted, guardOnly
  <2> QED
    BY <1>1, <2>1 DEF SInv, UseDecided, SeenInThisPoll, RefusalCovered, loads
<1>6. ASSUME NEW w \in Workers, SpuriousWake(w) PROVE SInv'
  <2>1. UNCHANGED <<Guard, loads, paused, unsignalled, notifying, refused>>
    BY <1>6 DEF SpuriousWake, Q!SpuriousWake, guardOnly, Q!history
  <2> QED
    BY <1>1, <2>1 DEF SInv, UseDecided, SeenInThisPoll, RefusalCovered, loads
<1>7. CASE GuardStep
  <2>1. /\ UNCHANGED <<loads, paused, unsignalled, notifying, refused>>
        /\ UseDecided'
        /\ WillThrottle /\ ~paused => WillThrottle'
    <3>1. UNCHANGED <<loads, paused, unsignalled, notifying, refused>>
      BY <1>7 DEF GuardStep, queueOnly, G!InitializeWithoutDevice,
        G!InitializeWithDevice, G!PollFails, G!PollStep, G!PollStoresUtil,
        G!PollStoresVram, G!PollDecides
    <3> QED
      BY <1>7, <3>1, ThrottleComes
  <2> QED
    BY <2>1 DEF SInv, SeenInThisPoll, RefusalCovered, loads
<1>8. CASE Signal
  <2>1. /\ tester = NoWorker /\ tester' = NoWorker /\ paused' = throttled
        /\ phase' = "idle" /\ phase = "emitting" /\ notifying'
        /\ UNCHANGED <<seenUtil, utilization, throttled>>
    BY <1>8 DEF Signal, MutexFree, G!Emit, loads
  <2> QED
    BY <1>0, <2>1 DEF SInv, UseDecided, SeenInThisPoll, RefusalCovered
<1>9. CASE SignalNotifies
  <2>1. UNCHANGED <<Guard, loads, paused>> /\ ~refused'
    BY <1>9 DEF SignalNotifies, Q!SetPausedNotifies, Q!NotifyAll, guardOnly
  <2> QED
    BY <1>1, <2>1 DEF SInv, UseDecided, SeenInThisPoll, RefusalCovered, loads
<1>10. CASE UNCHANGED vars
  BY <1>1, <1>10 DEF vars, queueOnly, guardOnly, loads, SInv, UseDecided,
                     SeenInThisPoll, RefusalCovered
<1> QED
  BY <1>2, <1>3, <1>4, <1>5, <1>6, <1>7, <1>8, <1>9, <1>10 DEF Next

\* Work that the guard would let through while a worker sleeps and nobody is
\* about to wake it was refused without a signal, before the first poll or at
\* the one utilization that pollGpu and canAcceptWork judge apart; in every
\* interleaving of any number of workers with the polls.
THEOREM OnlyUnannouncedStrands == Spec => []StrandedOnlyUnannounced
<1>1. SInv /\ Queue!NoSleepingWork => StrandedOnlyUnannounced
  <2> SUFFICES ASSUME SInv, Queue!NoSleepingWork, Stranded PROVE unsignalled
    BY DEF StrandedOnlyUnannounced
  <2>1. /\ phase = "idle" /\ ~notifying /\ ~paused
        /\ \E p \in Queue!Priorities : Queue!HasReady(p)
        /\ Queue!Blocked # {} /\ Queue!Woken = {}
    BY DEF Stranded, QtFree, Q!Priorities, Queue!Priorities, Q!HasReady,
           Queue!HasReady, Q!Ready, Queue!Ready, Q!LimitOf, Queue!LimitOf,
           Q!Blocked, Queue!Blocked, Q!Woken, Queue!Woken
  <2>2. refused
    BY <2>1 DEF Queue!NoSleepingWork
  <2> QED
    BY <2>1, <2>2 DEF SInv, RefusalCovered, WillThrottle
<1> QED
  BY <1>1, InitSInv, NextSInv, DispatchInvariance, QueueWakes, PTL DEF Spec
=============================================================================
