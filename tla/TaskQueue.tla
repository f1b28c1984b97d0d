----------------------------- MODULE TaskQueue -----------------------------
(***************************************************************************)
(* vibenote::TaskQueue (daemon/src/queue.cpp): three priority deques under *)
(* one mutex and one condition variable, per-type concurrency limits, a    *)
(* pause flag set by the GPU guard, and the guard's admission test.        *)
(*                                                                         *)
(* Every member function holds mutex_ throughout, so it is one action;     *)
(* the exceptions are the two places where the code gives the mutex up:    *)
(* cv_.wait inside dequeue, and setPaused, which notifies after unlocking. *)
(*                                                                         *)
(* The clients of the queue are the loops of tests/daemon/test_queue.cpp:  *)
(* producers call enqueue, and each worker repeats dequeue, work,          *)
(* taskCompleted(id of the task it holds).                                 *)
(***************************************************************************)
EXTENDS Naturals, FiniteSets, SequencesExt

CONSTANTS
  Jobs,          \* the Task objects the producers submit
  Ids,           \* values of Task::id
  Workers,       \* threads calling dequeue
  IdOf,          \* Task::id of each job
  TypeOf,        \* Task::type of each job
  PriorityOf,    \* Task::priority of each job
  MaxQueueDepth, \* QueueConfig::max_queue_depth
  MaxConcurrent, \* QueueConfig::max_concurrent, a map that may lack a type
  NoJob          \* what a worker holds when it holds no task

Types == {"watch", "interactive", "export"}
Priorities == {"high", "normal", "low"}
NoType == "none"       \* inflight_ has no entry for the id

ASSUME JobsAssumption ==
  /\ IdOf \in [Jobs -> Ids]
  /\ TypeOf \in [Jobs -> Types]
  /\ PriorityOf \in [Jobs -> Priorities]
  /\ NoJob \notin Jobs
  /\ IsFiniteSet(Workers)

ASSUME ConfigAssumption ==
  /\ MaxQueueDepth \in Nat
  /\ DOMAIN MaxConcurrent \subseteq Types
  /\ \A ty \in DOMAIN MaxConcurrent : MaxConcurrent[ty] \in Nat

VARIABLES
  queues,    \* queues_: the deque of each priority
  running,   \* running_: number of tasks counted as running, per type
  inflight,  \* inflight_: the type recorded for an id, or NoType
  paused,    \* paused_
  rrIndex,   \* rr_index_: which of normal/low is probed first
  pc,        \* where each worker is
  held,      \* the task each worker is processing, or NoJob
  accepts,   \* what guard_->canAcceptWork() returns now
  notifying, \* setPaused has unlocked and not yet called notify_all
  \* The remaining variables are history: no action reads them.
  skipped,   \* times a ready class was passed over since it was last served
  refused    \* a worker went to sleep because of the guard since notify_all

queueVars == <<queues, running, inflight, rrIndex>>
workerVars == <<pc, held>>
history == <<skipped, refused>>
SkippedCap == 2   \* skipped need not count further
vars == <<queues, running, inflight, paused, rrIndex, pc, held, accepts,
          notifying, skipped, refused>>

-----------------------------------------------------------------------------
(* Scheduling decisions, all taken with mutex_ held. A definition marked   *)
(* "mutant" is a broken form of the one after it; it is used nowhere.      *)

LimitOf(ty) == IF ty \in DOMAIN MaxConcurrent THEN MaxConcurrent[ty] ELSE 0

ReadyAtLimit(j) == running[TypeOf[j]] <= LimitOf(TypeOf[j])      \* mutant
Ready(j) == running[TypeOf[j]] < LimitOf(TypeOf[j])

HasReady(p) == \E i \in DOMAIN queues[p] : Ready(queues[p][i])

LastReady(p) ==                                                  \* mutant
  CHOOSE i \in DOMAIN queues[p] :
    /\ Ready(queues[p][i])
    /\ \A k \in (i + 1)..Len(queues[p]) : ~Ready(queues[p][k])

\* findReadyTask: the first task of the deque whose type has a free slot.
FirstReady(p) ==
  CHOOSE i \in DOMAIN queues[p] :
    /\ Ready(queues[p][i])
    /\ \A k \in 1..(i - 1) : ~Ready(queues[p][k])

\* q.erase(it): the deques without the task at position i of deque p.
NotErased(p, i) == queues                                       \* mutant
Erased(p, i) == [queues EXCEPT ![p] = RemoveAt(@, i)]

\* canRunUnlocked, together with the test of paused_ in the wait predicate.
CanRun == ~paused /\ accepts /\ \E p \in Priorities : HasReady(p)

Other(p) == IF p = "normal" THEN "low" ELSE "normal"

\* popNextTaskUnlocked: high first, then rr_index_, then the other one.
Served ==
  IF HasReady("high") THEN "high"
  ELSE IF HasReady(rrIndex) THEN rrIndex ELSE Other(rrIndex)

\* rr_index_ is flipped at each probe: once when the first probe succeeds,
\* twice when the second does, never when a high task was found.
NeverRotated(p) == rrIndex                                       \* mutant
RotatedFrom(p) == IF p = "high" THEN rrIndex ELSE Other(p)

LengthOf(deques) ==
  Len(deques["high"]) + Len(deques["normal"]) + Len(deques["low"])
TotalQueued == LengthOf(queues)

Full == TotalQueued >= MaxQueueDepth

\* running_ after taskCompleted(id): nothing happens for an unknown id, and
\* the counter is not taken below zero.
ReleasedAboveOne(id) ==                                          \* mutant
  IF inflight[id] # NoType /\ running[inflight[id]] > 1
  THEN [running EXCEPT ![inflight[id]] = @ - 1] ELSE running
Released(id) ==
  IF inflight[id] # NoType /\ running[inflight[id]] > 0
  THEN [running EXCEPT ![inflight[id]] = @ - 1] ELSE running

-----------------------------------------------------------------------------
(* The condition variable: pc[w] = "blocked" is membership of its wait     *)
(* set, "woken" is a thread that must retake the mutex and test again.     *)

Blocked == {w \in Workers : pc[w] = "blocked"}
Woken == {w \in Workers : pc[w] = "woken"}

WakeAll == [w \in Workers |-> IF w \in Blocked THEN "woken" ELSE pc[w]]

NotifyNobody == pc' = pc                                         \* mutant
NotifyOne ==
  IF Blocked = {} THEN pc' = pc
  ELSE \E w \in Blocked : pc' = [pc EXCEPT ![w] = "woken"]

ForgetNotifyAll == pc' = pc /\ refused' = FALSE                  \* mutant
NotifyAll == pc' = WakeAll /\ refused' = FALSE

-----------------------------------------------------------------------------
Init ==
  /\ queues = [p \in Priorities |-> <<>>]
  /\ running = [ty \in Types |-> 0]
  /\ inflight = [id \in Ids |-> NoType]
  /\ paused = FALSE
  /\ rrIndex = "normal"
  /\ pc = [w \in Workers |-> "outside"]
  /\ held = [w \in Workers |-> NoJob]
  /\ accepts \in BOOLEAN
  /\ notifying = FALSE
  /\ skipped = [p \in {"normal", "low"} |-> 0]
  /\ refused = FALSE

Queued(j) == \E p \in Priorities : \E i \in DOMAIN queues[p] : queues[p][i] = j
Holders(j) == {w \in Workers : held[w] = j}

\* enqueue that returns true. A job is one Task object, so a producer submits
\* it only while it is nowhere in the queue's hands; it may do so again later.
Enqueue(j) ==
  /\ ~Queued(j) /\ Holders(j) = {}
  /\ ~Full
  /\ queues' = [queues EXCEPT ![PriorityOf[j]] = Append(@, j)]
  /\ NotifyOne
  /\ UNCHANGED <<running, inflight, paused, rrIndex, held, accepts,
                 notifying, history>>

\* A worker enters dequeue, or returns from a wait: both test the predicate.
TestsPredicate(w) == pc[w] \in {"outside", "woken"}

\* dequeue, predicate true: pop, count, record.
DequeueTakes(w) ==
  /\ TestsPredicate(w)
  /\ CanRun
  /\ LET p == Served
         i == FirstReady(p)
         j == queues[p][i]
         ty == TypeOf[j]
     IN /\ queues' = Erased(p, i)
        /\ rrIndex' = RotatedFrom(p)
        /\ running' = [running EXCEPT ![ty] = @ + 1]
        /\ inflight' = [inflight EXCEPT ![IdOf[j]] = ty]
        /\ held' = [held EXCEPT ![w] = j]
        /\ pc' = [pc EXCEPT ![w] = "working"]
        /\ skipped' =
             IF p = "high" THEN skipped
             ELSE [c \in {"normal", "low"} |->
                    IF c = p THEN 0
                    ELSE IF HasReady(c) /\ skipped[c] < SkippedCap
                         THEN skipped[c] + 1 ELSE skipped[c]]
  /\ UNCHANGED <<paused, accepts, notifying, refused>>

\* dequeue, predicate false: release the mutex and join the wait set.
DequeueBlocks(w) ==
  /\ TestsPredicate(w)
  /\ ~CanRun
  /\ pc' = [pc EXCEPT ![w] = "blocked"]
  /\ refused' = (refused \/ (~paused /\ ~accepts))
  /\ UNCHANGED <<queueVars, paused, held, accepts, notifying, skipped>>

\* taskCompleted(id), called by the worker that processed the task.
TaskCompleted(w) ==
  /\ pc[w] = "working"
  /\ running' = Released(IdOf[held[w]])
  /\ inflight' = [inflight EXCEPT ![IdOf[held[w]]] = NoType]
  /\ held' = [held EXCEPT ![w] = NoJob]
  /\ pc' = [WakeAll EXCEPT ![w] = "outside"]
  /\ refused' = FALSE
  /\ UNCHANGED <<queues, paused, rrIndex, accepts, notifying, skipped>>

\* setPaused, the part under the lock_guard. One thread, the one that
\* delivers the guard's signal, calls it, so the calls do not overlap.
SetPaused(b) ==
  /\ ~notifying
  /\ paused' = b
  /\ notifying' = TRUE
  /\ UNCHANGED <<queueVars, workerVars, accepts, history>>

\* setPaused, cv_.notify_all() after the mutex has been released.
SetPausedNotifies ==
  /\ notifying
  /\ NotifyAll
  /\ notifying' = FALSE
  /\ UNCHANGED <<queueVars, paused, held, accepts, skipped>>

\* A condition variable may wake a thread that nobody notified.
SpuriousWake(w) ==
  /\ pc[w] = "blocked"
  /\ pc' = [pc EXCEPT ![w] = "woken"]
  /\ UNCHANGED <<queueVars, paused, held, accepts, notifying, history>>

\* The guard's atomics change under the queue's feet and notify nobody.
GuardChanges ==
  /\ accepts' = ~accepts
  /\ UNCHANGED <<queueVars, workerVars, paused, notifying, history>>

Next ==
  \/ \E j \in Jobs : Enqueue(j)
  \/ \E w \in Workers :
       DequeueTakes(w) \/ DequeueBlocks(w) \/ TaskCompleted(w) \/ SpuriousWake(w)
  \/ \E b \in BOOLEAN : SetPaused(b)
  \/ SetPausedNotifies
  \/ GuardChanges

Spec == Init /\ [][Next]_vars

\* Threads that can run do run; producers, the guard, and spurious wakeups
\* are under no obligation.
Fairness ==
  /\ \A w \in Workers :
       WF_vars(DequeueTakes(w) \/ DequeueBlocks(w)) /\ WF_vars(TaskCompleted(w))
  /\ WF_vars(SetPausedNotifies)

FairSpec == Spec /\ Fairness

-----------------------------------------------------------------------------
(* Properties.                                                             *)

HoldersOf(ty) == {w \in Workers : held[w] # NoJob /\ TypeOf[held[w]] = ty}

\* Task ids tell tasks apart. The code relies on it (inflight_ is keyed by
\* id) and nothing in it establishes it: Task::id defaults to 0.
UniqueIds == \A i, j \in Jobs : IdOf[i] = IdOf[j] => i = j

\* Types of the variables; a working thread is one that holds a task.
TypeOK ==
  /\ queues \in [Priorities -> Seq(Jobs)]
  /\ running \in [Types -> Nat]
  /\ inflight \in [Ids -> Types \cup {NoType}]
  /\ paused \in BOOLEAN /\ accepts \in BOOLEAN
  /\ notifying \in BOOLEAN /\ refused \in BOOLEAN
  /\ rrIndex \in {"normal", "low"}
  /\ pc \in [Workers -> {"outside", "blocked", "woken", "working"}]
  /\ held \in [Workers -> Jobs \cup {NoJob}]
  /\ \A w \in Workers : (pc[w] = "working") <=> (held[w] # NoJob)
  /\ skipped \in [{"normal", "low"} -> Nat]

\* No task is in two places: not twice in the deques, not queued while a
\* worker holds it, not held by two workers (moves in findReadyTask/dequeue).
EachJobOnce ==
  /\ \A p, q \in Priorities : \A i \in DOMAIN queues[p], k \in DOMAIN queues[q] :
       queues[p][i] = queues[q][k] => p = q /\ i = k
  /\ \A j \in Jobs : Queued(j) => Holders(j) = {}
  /\ \A v, w \in Workers : held[v] = held[w] /\ held[v] # NoJob => v = w

\* enqueue's bound on what is waiting, over all three deques together.
QueueBounded == TotalQueued <= MaxQueueDepth

\* The per-type concurrency limit, counted on the threads that really hold
\* a task, not on the counter running_ that is meant to track them.
LimitsRespected ==
  \A ty \in Types : Cardinality(HoldersOf(ty)) <= LimitOf(ty)

\* running_ counts exactly the holders: no slot leaks and none is invented,
\* whatever the order of dequeues and completions.
RunningIsExact == \A ty \in Types : running[ty] = Cardinality(HoldersOf(ty))

\* Rotation between normal and low (rr_index_): a class with a ready task is
\* passed over at most once before it is served.
NoDoubleSkip == \A p \in {"normal", "low"} : skipped[p] <= 1

\* No lost wakeup: if a task could be dequeued and a worker sleeps, then some
\* thread has been notified or will be, unless the guard itself sent a worker
\* to sleep since the last notify_all.
NoStrandedWork ==
  CanRun /\ Blocked # {} /\ ~refused /\ ~notifying => Woken # {}

\* The queue implements the dispatcher it is meant to be: bounded, first come
\* first served within a priority and type, high first, and within the limits
\* counted on the workers. Holds only for unique ids.
D == INSTANCE Dispatcher WITH
       lanes <- queues,
       active <- held,
       Capacity <- MaxQueueDepth,
       Limit <- [ty \in Types |-> LimitOf(ty)]
ImplementsDispatcher == D!Spec

\* The guard and the pause flag let work through from some point on, and no
\* worker is asleep on an earlier refusal.
Settled == <>[](~paused /\ accepts /\ ~refused)

\* Every queued high-priority task is eventually dispatched, however much is
\* submitted at its own or lower priorities.
HighServed ==
  Settled => \A j \in Jobs :
    PriorityOf[j] = "high" => (Queued(j) ~> Holders(j) # {})

\* Once high-priority traffic stops, neither of normal and low starves: a
\* class is empty again and again or has tasks dispatched again and again.
DispatchFrom(p) ==
  \E w \in Workers :
    held[w] = NoJob /\ held'[w] # NoJob /\ PriorityOf[held'[w]] = p

ClassServed ==
  (Settled /\ <>[](queues["high"] = <<>>)) =>
    \A p \in {"normal", "low"} :
      []<>(queues[p] = <<>>) \/ []<><<DispatchFrom(p)>>_vars
=============================================================================
