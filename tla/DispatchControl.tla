--------------------------- MODULE DispatchControl ---------------------------
(***************************************************************************)
(* TaskQueue and GpuGuard together, as the constructor of TaskQueue joins  *)
(* them (daemon/src/queue.cpp): the guard's throttle signal is a direct    *)
(* call of setPaused on the Qt thread, and the wait predicate of dequeue   *)
(* calls canAcceptWork, whose two relaxed loads may straddle a poll.       *)
(*                                                                         *)
(* A worker therefore tests the predicate in two steps, holding the mutex  *)
(* of the queue from the first to the second. The guard's stores need no   *)
(* mutex; its signal does, and the Qt thread waits for it.                 *)
(***************************************************************************)
EXTENDS Integers, FiniteSets, Sequences

CONSTANTS Jobs, Ids, Workers, IdOf, TypeOf, PriorityOf, MaxQueueDepth,
          MaxConcurrent, NoJob, UtilThreshold, VramHeadroom, Utils, Frees,
          ModelSizes, IntMax,
          NoWorker   \* nobody is inside the wait predicate

VARIABLES queues, running, inflight, paused, rrIndex, pc, held, notifying,
          skipped, refused,
          device, nvmlAvailable, timerActive, utilization, vramFree,
          throttled, phase, sampleFree, polls,
          tester,    \* the worker inside the predicate, holding mutex_
          seenAvail, \* its load of m_nvml_available
          seenUtil,  \* its load of m_utilization
          \* history:
          allowed,   \* the guard's values were good at some instant of the test
          early,     \* the test loaded a utilization that no poll had stored
          unsignalled \* a refusal the guard did not signal since notify_all

\* What the worker inside the predicate computes, or last computed.
Accepts == seenAvail /\ seenUtil < UtilThreshold /\ vramFree > VramHeadroom

Q == INSTANCE TaskQueue WITH accepts <- Accepts
G == INSTANCE GpuGuard WITH listener <- paused

\* What the two components assume, and that NoWorker is nobody.
ASSUME DispatchAssumption ==
  /\ NoWorker \notin Workers
  /\ Q!JobsAssumption /\ Q!ConfigAssumption
  /\ G!GuardAssumption

queueOnly == <<queues, running, inflight, rrIndex, pc, held, notifying,
               skipped, refused>>
guardOnly == <<device, nvmlAvailable, timerActive, utilization, vramFree,
               throttled, phase, sampleFree, polls>>
loads == <<tester, seenAvail, seenUtil, early>>
vars == <<queueOnly, paused, guardOnly, loads, allowed, unsignalled>>

Init ==
  /\ tester = NoWorker /\ seenAvail = FALSE /\ seenUtil = 0
  /\ allowed = FALSE /\ early = FALSE /\ unsignalled = FALSE
  /\ G!Init /\ Q!Init

MutexFree == tester = NoWorker

-----------------------------------------------------------------------------
(* The queue's operations, under the mutex.                                *)

Enqueue(j) ==
  /\ MutexFree
  /\ UNCHANGED <<guardOnly, loads, allowed, unsignalled>>
  /\ Q!Enqueue(j)

\* The predicate up to the load of m_utilization. The load of
\* m_nvml_available before it is made at the same moment: if that is TRUE and
\* the flag falls in between, no poll stores a utilization after the fall, so
\* the two loads are those of the moment before it; if it is FALSE, the other
\* load is not made.
TestStarts(w) ==
  /\ MutexFree
  /\ Q!TestsPredicate(w)
  /\ tester' = w
  /\ seenAvail' = nvmlAvailable
  /\ seenUtil' = utilization
  /\ allowed' = G!CanAcceptWork
  /\ early' = (polls = 0 /\ phase \in {"constructed", "idle"})
  /\ UNCHANGED <<queueOnly, paused, guardOnly, unsignalled>>

\* The load of m_vram_free, and the rest of dequeue.
TestPasses(w) ==
  /\ tester = w
  /\ tester' = NoWorker
  /\ allowed' = FALSE /\ early' = FALSE
  /\ UNCHANGED <<guardOnly, seenAvail, seenUtil, unsignalled>>
  /\ Q!DequeueTakes(w)

\* A refusal that no throttle signal precedes or follows: on values from
\* before the first poll, or at the one utilization that pollGpu and
\* canAcceptWork judge apart.
Unannounced ==
  polls = 0 \/ ~seenAvail \/ UtilThreshold \in {utilization, seenUtil}

TestFails(w) ==
  /\ tester = w
  /\ tester' = NoWorker
  /\ unsignalled' = (unsignalled \/ (~paused /\ ~Accepts /\ Unannounced))
  /\ allowed' = FALSE /\ early' = FALSE
  /\ UNCHANGED <<guardOnly, seenAvail, seenUtil>>
  /\ Q!DequeueBlocks(w)

TaskCompleted(w) ==
  /\ MutexFree
  /\ unsignalled' = FALSE
  /\ UNCHANGED <<guardOnly, loads, allowed>>
  /\ Q!TaskCompleted(w)

SpuriousWake(w) ==
  /\ UNCHANGED <<guardOnly, loads, allowed, unsignalled>>
  /\ Q!SpuriousWake(w)

-----------------------------------------------------------------------------
(* The Qt thread. pollGpu runs to its end, the slot included, before the   *)
(* timer can fire again.                                                   *)

QtFree == ~notifying

\* Stores by the Qt thread while a worker may be inside the predicate.
GuardStep ==
  /\ QtFree
  /\ \/ G!InitializeWithoutDevice \/ G!InitializeWithDevice
     \/ G!PollFails \/ G!PollStep
  /\ allowed' = (tester # NoWorker /\ (allowed \/ G!CanAcceptWork'))
  /\ UNCHANGED <<queueOnly, loads, unsignalled>>

\* emit throttleRequested: setPaused(m_throttled), which takes the mutex.
SignalDropped ==                                                 \* mutant
  /\ QtFree
  /\ G!EmitNothing
  /\ UNCHANGED <<queueOnly, loads, allowed, unsignalled>>
SignalWithoutNotify ==                                           \* mutant
  /\ QtFree
  /\ MutexFree
  /\ G!Emit
  /\ UNCHANGED <<queueOnly, loads, allowed, unsignalled>>
Signal ==
  /\ QtFree
  /\ MutexFree
  /\ G!Emit
  /\ notifying' = TRUE
  /\ UNCHANGED <<queues, running, inflight, rrIndex, pc, held, skipped,
                 refused, loads, allowed, unsignalled>>

SignalNotifies ==
  /\ unsignalled' = FALSE
  /\ UNCHANGED <<guardOnly, loads, allowed>>
  /\ Q!SetPausedNotifies

Next ==
  \/ \E j \in Jobs : Enqueue(j)
  \/ \E w \in Workers : \/ TestStarts(w) \/ TestPasses(w) \/ TestFails(w)
                        \/ TaskCompleted(w) \/ SpuriousWake(w)
  \/ GuardStep
  \/ Signal
  \/ SignalNotifies

Spec == Init /\ [][Next]_vars

\* Worker threads and the Qt thread run; the timer keeps firing.
FairSpec ==
  /\ Spec
  /\ \A w \in Workers :
       /\ WF_vars(TestPasses(w) \/ TestFails(w))
       /\ SF_vars(TestStarts(w))
       /\ SF_vars(TaskCompleted(w))
  /\ WF_vars(GuardStep) /\ SF_vars(Signal) /\ WF_vars(SignalNotifies)

-----------------------------------------------------------------------------
(* Properties.                                                             *)

\* The two loads are two moments, and yet a test lets a task through only if
\* the guard's values were both good at some one moment of it: a bad sample
\* throttles, and the signal must take the mutex that the test holds before
\* another sample can replace it. The exception is real: a test that loads the
\* utilization of the constructor, 0, and then the memory of the first sample
\* passes whatever utilization that sample has.
DispatchBacked ==
  [][\A w \in Workers :
       tester = w /\ held'[w] # NoJob => allowed \/ early]_vars

\* Work that the guard would now let through while a worker sleeps and nobody
\* is about to wake it.
Stranded ==
  /\ phase = "idle" /\ QtFree /\ MutexFree
  /\ G!CanAcceptWork /\ ~paused
  /\ \E p \in Q!Priorities : Q!HasReady(p)
  /\ Q!Blocked # {} /\ Q!Woken = {}

\* Every refusal followed by a throttle is made good by the release. Only a
\* refusal that was never signalled can leave work stranded.
StrandedOnlyUnannounced == Stranded => unsignalled

\* From some point on the guard accepts, and the throttle is off.
GoodForGood == <>[](G!CanAcceptWork /\ ~paused)

\* Then every queued task is dispatched, provided no worker sleeps on a
\* refusal that was never signalled.
DispatchedIfSignalled ==
  (GoodForGood /\ <>[](~unsignalled)) =>
    \A j \in Jobs : Q!Queued(j) ~> Q!Holders(j) # {}

\* What AGENT.md says of the queue: tasks are held until the utilization
\* drops below the threshold, and then they run.
DispatchedOnceAccepted ==
  GoodForGood => \A j \in Jobs : Q!Queued(j) ~> Q!Holders(j) # {}
=============================================================================
