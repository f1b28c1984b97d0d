-------------------------- MODULE TaskQueueProofs --------------------------
(***************************************************************************)
(* Theorems about TaskQueue, for every set of jobs, every finite set of    *)
(* workers, every depth and every table of limits.                         *)
(***************************************************************************)
EXTENDS TaskQueue, FiniteSetTheorems, SequenceTheorems, TLAPS

-----------------------------------------------------------------------------
(* What the scheduling operators return.                                   *)

\* A non-empty set of naturals has a least element.
LEMMA LeastElement ==
  ASSUME NEW T, T \subseteq Nat, T # {}
  PROVE  \E x \in T : \A y \in T : x <= y
<1> DEFINE R == {ss \in Nat \X Nat : ss[1] < ss[2]}
<1>1. IsWellFoundedOn(R, Nat)
  BY NatLessThanWellFounded DEF OpToRel
<1>2. PICK x \in T : \A y \in T : ~(<<y, x>> \in R)
  <2> HIDE DEF R
  <2> QED  BY <1>1, WFMin
<1>3. \A y \in T : ~(y < x)
  BY <1>2
<1> QED
  BY <1>3

\* Removing position i closes the gap and keeps the rest in order.
LEMMA RemoveAtProperties ==
  ASSUME NEW S, NEW s \in Seq(S), NEW i \in 1..Len(s)
  PROVE  /\ RemoveAt(s, i) \in Seq(S)
         /\ Len(RemoveAt(s, i)) = Len(s) - 1
         /\ \A k \in 1..(Len(s) - 1) :
              RemoveAt(s, i)[k] = IF k < i THEN s[k] ELSE s[k + 1]
<1> DEFINE left == SubSeq(s, 1, i - 1)
           right == SubSeq(s, i + 1, Len(s))
<1>1. Len(s) \in Nat /\ \A k \in 1..Len(s) : s[k] \in S
  BY LenProperties
<1>2. /\ left \in Seq(S) /\ Len(left) = i - 1
      /\ \A k \in 1..(i - 1) : left[k] = s[k]
  <2>1. \A k \in 1..(i - 1) : s[k] \in S
    BY <1>1
  <2> QED
    BY <1>1, <2>1, SubSeqProperties
<1>3. /\ right \in Seq(S) /\ Len(right) = Len(s) - i
      /\ \A k \in 1..(Len(s) - i) : right[k] = s[i + k]
  <2>1. \A k \in (i + 1)..Len(s) : s[k] \in S
    BY <1>1
  <2>2. /\ right \in Seq(S)
        /\ Len(right) = IF i + 1 <= Len(s) THEN Len(s) - (i + 1) + 1 ELSE 0
        /\ \A k \in 1..(Len(s) - (i + 1) + 1) : right[k] = s[(i + 1) + k - 1]
    BY <1>1, <2>1, SubSeqProperties
  <2> HIDE DEF right
  <2> QED
    BY <1>1, <2>2
<1>4. /\ left \o right \in Seq(S)
      /\ Len(left \o right) = Len(left) + Len(right)
      /\ \A k \in 1..(Len(left) + Len(right)) :
           (left \o right)[k] =
             IF k <= Len(left) THEN left[k] ELSE right[k - Len(left)]
  <2> HIDE DEF left, right
  <2> QED
    BY <1>2, <1>3, ConcatProperties
<1>5. RemoveAt(s, i) = left \o right
  BY DEF RemoveAt
<1> HIDE DEF left, right
<1>6. Len(left \o right) = Len(s) - 1
  BY <1>1, <1>2, <1>3, <1>4
<1>7. ASSUME NEW k \in 1..(Len(s) - 1)
      PROVE  (left \o right)[k] = IF k < i THEN s[k] ELSE s[k + 1]
  <2>1. (left \o right)[k] = IF k <= i - 1 THEN left[k] ELSE right[k - (i - 1)]
    BY <1>1, <1>2, <1>3, <1>4
  <2>2. CASE k < i
    BY <2>1, <2>2, <1>1, <1>2
  <2>3. CASE ~(k < i)
    <3>1. k - (i - 1) \in 1..(Len(s) - i) /\ i + (k - (i - 1)) = k + 1
      BY <2>3, <1>1
    <3>2. right[k - (i - 1)] = s[i + (k - (i - 1))]
      BY <3>1, <1>3
    <3> QED
      BY <2>1, <2>3, <3>1, <3>2, <1>1
  <2> QED
    BY <2>2, <2>3
<1> QED
  BY <1>4, <1>5, <1>6, <1>7

\* findReadyTask finds the first ready task of a deque that has one.
LEMMA FirstReadyFound ==
  ASSUME TypeOK, NEW p \in Priorities, HasReady(p)
  PROVE  /\ FirstReady(p) \in 1..Len(queues[p])
         /\ queues[p][FirstReady(p)] \in Jobs
         /\ Ready(queues[p][FirstReady(p)])
         /\ \A k \in 1..(FirstReady(p) - 1) : ~Ready(queues[p][k])
<1>1. /\ queues[p] \in Seq(Jobs) /\ Len(queues[p]) \in Nat
      /\ DOMAIN queues[p] = 1..Len(queues[p])
  BY LenProperties DEF TypeOK
<1> DEFINE R == {i \in 1..Len(queues[p]) : Ready(queues[p][i])}
<1>2. R \subseteq Nat /\ R # {}
  BY <1>1 DEF HasReady
<1>3. PICK i \in R : \A k \in R : i <= k
  <2> HIDE DEF R
  <2> QED  BY <1>2, LeastElement
<1>4. \A k \in 1..(i - 1) : ~Ready(queues[p][k])
  BY <1>1, <1>3
<1>5. \E n \in DOMAIN queues[p] :
        Ready(queues[p][n]) /\ \A k \in 1..(n - 1) : ~Ready(queues[p][k])
  BY <1>1, <1>3, <1>4
<1>6. /\ FirstReady(p) \in DOMAIN queues[p]
      /\ Ready(queues[p][FirstReady(p)])
      /\ \A k \in 1..(FirstReady(p) - 1) : ~Ready(queues[p][k])
  BY <1>5 DEF FirstReady
<1> QED
  BY <1>1, <1>6, ElementOfSeq

\* When the wait predicate holds, popNextTaskUnlocked finds a task ("
\* canRunUnlocked guarantees task", queue.cpp:106).
LEMMA ServedFound ==
  ASSUME TypeOK, CanRun
  PROVE  Served \in Priorities /\ HasReady(Served)
BY DEF TypeOK, CanRun, Served, Priorities, Other

-----------------------------------------------------------------------------
(* Type correctness.                                                       *)

LEMMA TypeInit == Init => TypeOK
<1> SUFFICES ASSUME Init PROVE TypeOK
  OBVIOUS
<1>1. [p \in Priorities |-> <<>>] \in [Priorities -> Seq(Jobs)]
  BY EmptySeq
<1>2. \A w \in Workers : (pc[w] = "working") <=> (held[w] # NoJob)
  BY DEF Init
<1> QED
  BY <1>1, <1>2 DEF Init, TypeOK

\* notify_one moves at most one worker, and only out of the wait set.
LEMMA NotifyOneType ==
  ASSUME TypeOK, NotifyOne
  PROVE  /\ pc' \in [Workers -> {"outside", "blocked", "woken", "working"}]
         /\ \A w \in Workers : (pc'[w] = "working") <=> (pc[w] = "working")
<1>1. CASE Blocked = {}
  BY <1>1 DEF NotifyOne, TypeOK
<1>2. CASE Blocked # {}
  <2>1. PICK w \in Blocked : pc' = [pc EXCEPT ![w] = "woken"]
    BY <1>2 DEF NotifyOne
  <2> QED
    BY <2>1 DEF Blocked, TypeOK
<1> QED
  BY <1>1, <1>2

LEMMA WakeAllType ==
  ASSUME TypeOK
  PROVE  /\ WakeAll \in [Workers -> {"outside", "blocked", "woken", "working"}]
         /\ \A w \in Workers : WakeAll[w] # "blocked"
         /\ \A w \in Workers : (WakeAll[w] = "working") <=> (pc[w] = "working")
         /\ \A w \in Workers : (WakeAll[w] = "outside") <=> (pc[w] = "outside")
BY DEF TypeOK, WakeAll, Blocked

LEMMA TypeStep == TypeOK /\ [Next]_vars => TypeOK'
<1> SUFFICES ASSUME TypeOK, [Next]_vars PROVE TypeOK'
  OBVIOUS
<1>1. ASSUME NEW j \in Jobs, Enqueue(j) PROVE TypeOK'
  <2>1. PriorityOf[j] \in Priorities
    BY JobsAssumption
  <2>2. Append(queues[PriorityOf[j]], j) \in Seq(Jobs)
    BY <2>1, AppendProperties DEF TypeOK
  <2>3. queues' \in [Priorities -> Seq(Jobs)]
    BY <1>1, <2>1, <2>2 DEF Enqueue, TypeOK
  <2> QED
    BY <1>1, <2>3, NotifyOneType DEF Enqueue, history, TypeOK
<1>2. ASSUME NEW w \in Workers, DequeueTakes(w) PROVE TypeOK'
  <2> DEFINE p == Served
             i == FirstReady(p)
             j == queues[p][i]
             ty == TypeOf[j]
  <2>1. p \in Priorities /\ HasReady(p)
    BY <1>2, ServedFound DEF DequeueTakes
  <2>2. i \in 1..Len(queues[p]) /\ j \in Jobs
    BY <2>1, FirstReadyFound
  <2>3. ty \in Types /\ IdOf[j] \in Ids /\ j # NoJob
    BY <2>2, JobsAssumption
  <2>4. RemoveAt(queues[p], i) \in Seq(Jobs)
    BY <2>1, <2>2, RemoveAtProperties DEF TypeOK
  <2>5. queues' = [queues EXCEPT ![p] = RemoveAt(queues[p], i)]
    BY <1>2 DEF DequeueTakes, Erased
  <2>6. rrIndex' \in {"normal", "low"}
    <3>1. rrIndex' = RotatedFrom(p)
      BY <1>2 DEF DequeueTakes
    <3> HIDE DEF p
    <3> QED  BY <3>1 DEF RotatedFrom, Other, TypeOK
  <2>7. /\ running' = [running EXCEPT ![ty] = @ + 1]
        /\ inflight' = [inflight EXCEPT ![IdOf[j]] = ty]
        /\ held' = [held EXCEPT ![w] = j]
        /\ pc' = [pc EXCEPT ![w] = "working"]
        /\ UNCHANGED <<paused, accepts, notifying, refused>>
    BY <1>2 DEF DequeueTakes
  <2>8. skipped' \in [{"normal", "low"} -> Nat]
    <3>1. skipped' = IF p = "high" THEN skipped
                     ELSE [c \in {"normal", "low"} |->
                            IF c = p THEN 0
                            ELSE IF HasReady(c) /\ skipped[c] < SkippedCap
                           THEN skipped[c] + 1 ELSE skipped[c]]
      BY <1>2 DEF DequeueTakes
    <3> HIDE DEF p
    <3> QED  BY <3>1 DEF TypeOK
  <2> HIDE DEF p, i, j, ty
  <2>9. queues' \in [Priorities -> Seq(Jobs)]
    BY <2>1, <2>4, <2>5 DEF TypeOK
  <2>10. /\ running' \in [Types -> Nat]
         /\ inflight' \in [Ids -> Types \cup {NoType}]
    BY <2>3, <2>7 DEF TypeOK
  <2>11. /\ held' \in [Workers -> Jobs \cup {NoJob}]
         /\ pc' \in [Workers -> {"outside", "blocked", "woken", "working"}]
         /\ \A v \in Workers : (pc'[v] = "working") <=> (held'[v] # NoJob)
    BY <2>2, <2>3, <2>7 DEF TypeOK
  <2> QED
    BY <2>6, <2>7, <2>8, <2>9, <2>10, <2>11 DEF TypeOK
<1>3. ASSUME NEW w \in Workers, DequeueBlocks(w) PROVE TypeOK'
  BY <1>3 DEF DequeueBlocks, TestsPredicate, queueVars, TypeOK
<1>4. ASSUME NEW w \in Workers, TaskCompleted(w) PROVE TypeOK'
  <2>1. held[w] \in Jobs
    BY <1>4 DEF TaskCompleted, TypeOK
  <2>2. IdOf[held[w]] \in Ids
    BY <2>1, JobsAssumption
  <2>3. running' \in [Types -> Nat]
    BY <1>4, <2>2 DEF TaskCompleted, Released, NoType, TypeOK
  <2>4. inflight' \in [Ids -> Types \cup {NoType}]
    BY <1>4, <2>2 DEF TaskCompleted, TypeOK
  <2>5. /\ held' \in [Workers -> Jobs \cup {NoJob}]
        /\ pc' \in [Workers -> {"outside", "blocked", "woken", "working"}]
        /\ \A v \in Workers : (pc'[v] = "working") <=> (held'[v] # NoJob)
    BY <1>4, WakeAllType DEF TaskCompleted, TypeOK
  <2> QED
    BY <1>4, <2>3, <2>4, <2>5 DEF TaskCompleted, TypeOK
<1>5. ASSUME NEW w \in Workers, SpuriousWake(w) PROVE TypeOK'
  BY <1>5 DEF SpuriousWake, queueVars, history, TypeOK
<1>6. ASSUME NEW b \in BOOLEAN, SetPaused(b) PROVE TypeOK'
  BY <1>6 DEF SetPaused, queueVars, workerVars, history, TypeOK
<1>7. CASE SetPausedNotifies
  BY <1>7, WakeAllType DEF SetPausedNotifies, NotifyAll, queueVars, TypeOK
<1>8. CASE GuardChanges
  BY <1>8 DEF GuardChanges, queueVars, workerVars, history, TypeOK
<1>9. CASE UNCHANGED vars
  BY <1>9 DEF vars, TypeOK
<1> QED
  BY <1>1, <1>2, <1>3, <1>4, <1>5, <1>6, <1>7, <1>8, <1>9 DEF Next

\* Every reachable state is well typed: the counters of running_ never go
\* below zero, and a worker is working exactly when it holds a task.
THEOREM TypeCorrect == Spec => []TypeOK
<1> QED
  BY TypeInit, TypeStep, PTL DEF Spec

-----------------------------------------------------------------------------
(* The bound on the deques, and the rotation.                              *)

\* A step of dequeue takes one task out of one deque.
LEMMA DequeuePops ==
  ASSUME TypeOK, NEW w \in Workers, DequeueTakes(w)
  PROVE  \E p \in Priorities, i \in Nat :
           /\ p = Served /\ HasReady(p) /\ i \in 1..Len(queues[p])
           /\ queues[p][i] \in Jobs /\ Ready(queues[p][i])
           /\ \A k \in 1..(i - 1) : ~Ready(queues[p][k])
           /\ queues' = Erased(p, i)
           /\ held' = [held EXCEPT ![w] = queues[p][i]]
           /\ running' = [running EXCEPT ![TypeOf[queues[p][i]]] = @ + 1]
           /\ inflight' = [inflight EXCEPT ![IdOf[queues[p][i]]] = TypeOf[queues[p][i]]]
           /\ pc' = [pc EXCEPT ![w] = "working"]
<1> DEFINE p == Served
           i == FirstReady(p)
<1>1. p \in Priorities /\ HasReady(p)
  BY ServedFound DEF DequeueTakes
<1>2. /\ i \in 1..Len(queues[p]) /\ queues[p][i] \in Jobs
      /\ Ready(queues[p][i])
      /\ \A k \in 1..(i - 1) : ~Ready(queues[p][k])
  BY <1>1, FirstReadyFound
<1>3. /\ queues' = Erased(p, i)
      /\ held' = [held EXCEPT ![w] = queues[p][i]]
      /\ running' = [running EXCEPT ![TypeOf[queues[p][i]]] = @ + 1]
      /\ inflight' = [inflight EXCEPT ![IdOf[queues[p][i]]] = TypeOf[queues[p][i]]]
      /\ pc' = [pc EXCEPT ![w] = "working"]
  BY DEF DequeueTakes
<1>4. i \in Nat
  <2>1. Len(queues[p]) \in Nat
    BY <1>1, LenProperties DEF TypeOK
  <2> HIDE DEF i, p
  <2> QED  BY <1>2, <2>1
<1> HIDE DEF i
<1> QED
  BY <1>1, <1>2, <1>3, <1>4

LEMMA LengthIsNat ==
  ASSUME NEW f \in [Priorities -> Seq(Jobs)]
  PROVE  LengthOf(f) \in Nat
BY DEF LengthOf, Priorities

\* The total changes by what one deque changes.
LEMMA LengthChange ==
  ASSUME NEW f \in [Priorities -> Seq(Jobs)], NEW g \in [Priorities -> Seq(Jobs)],
         NEW p \in Priorities, NEW d \in {1, -1},
         Len(g[p]) = Len(f[p]) + d,
         \A q \in Priorities : q # p => g[q] = f[q]
  PROVE  LengthOf(g) = LengthOf(f) + d
<1> DEFINE fh == Len(f["high"])  fn == Len(f["normal"])  fl == Len(f["low"])
           gh == Len(g["high"])  gn == Len(g["normal"])  gl == Len(g["low"])
<1>1. /\ fh \in Nat /\ fn \in Nat /\ fl \in Nat
      /\ gh \in Nat /\ gn \in Nat /\ gl \in Nat
  BY DEF Priorities
<1>3. \/ gh = fh + d /\ gn = fn /\ gl = fl
      \/ gh = fh /\ gn = fn + d /\ gl = fl
      \/ gh = fh /\ gn = fn /\ gl = fl + d
  BY DEF Priorities
<1>4. LengthOf(f) = fh + fn + fl /\ LengthOf(g) = gh + gn + gl
  BY DEF LengthOf
<1> HIDE DEF fh, fn, fl, gh, gn, gl
<1> QED
  BY <1>1, <1>3, <1>4

LEMMA BoundStep == TypeOK /\ QueueBounded /\ [Next]_vars => QueueBounded'
<1> SUFFICES ASSUME TypeOK, QueueBounded, [Next]_vars PROVE QueueBounded'
  OBVIOUS
<1>1. TypeOK'
  BY TypeStep
<1>2. ASSUME NEW j \in Jobs, Enqueue(j) PROVE QueueBounded'
  <2>1. PriorityOf[j] \in Priorities
    BY JobsAssumption
  <2>2. Len(Append(queues[PriorityOf[j]], j)) = Len(queues[PriorityOf[j]]) + 1
    BY <2>1, AppendProperties DEF TypeOK
  <2>3. /\ Len(queues'[PriorityOf[j]]) = Len(queues[PriorityOf[j]]) + 1
        /\ \A q \in Priorities : q # PriorityOf[j] => queues'[q] = queues[q]
    BY <1>2, <2>1, <2>2 DEF Enqueue, TypeOK
  <2>4. TotalQueued' = TotalQueued + 1
    <3>1. /\ queues \in [Priorities -> Seq(Jobs)]
          /\ queues' \in [Priorities -> Seq(Jobs)]
      BY <1>1 DEF TypeOK
    <3>2. LengthOf(queues') = LengthOf(queues) + 1
      BY <2>1, <2>3, <3>1, LengthChange
    <3> QED
      BY <3>2 DEF TotalQueued
  <2>5. TotalQueued \in Nat
    BY LengthIsNat DEF TotalQueued, TypeOK
  <2>6. ~(TotalQueued >= MaxQueueDepth)
    BY <1>2 DEF Enqueue, Full
  <2> QED
    BY <2>4, <2>5, <2>6, ConfigAssumption DEF QueueBounded
<1>3. ASSUME NEW w \in Workers, DequeueTakes(w) PROVE QueueBounded'
  <2>1. PICK p \in Priorities, i \in Nat :
          /\ i \in 1..Len(queues[p])
          /\ queues' = Erased(p, i)
    BY <1>3, DequeuePops
  <2>2. Len(RemoveAt(queues[p], i)) = Len(queues[p]) - 1
    BY <2>1, RemoveAtProperties DEF TypeOK
  <2>3. /\ Len(queues'[p]) = Len(queues[p]) + (-1)
        /\ \A q \in Priorities : q # p => queues'[q] = queues[q]
    BY <2>1, <2>2 DEF Erased, TypeOK
  <2>4. TotalQueued' = TotalQueued + (-1)
    <3>1. /\ queues \in [Priorities -> Seq(Jobs)]
          /\ queues' \in [Priorities -> Seq(Jobs)]
      BY <1>1 DEF TypeOK
    <3>2. LengthOf(queues') = LengthOf(queues) + (-1)
      BY <2>3, <3>1, LengthChange
    <3> QED
      BY <3>2 DEF TotalQueued
  <2>5. TotalQueued \in Nat
    BY LengthIsNat DEF TotalQueued, TypeOK
  <2> QED
    BY <2>4, <2>5, ConfigAssumption DEF QueueBounded
<1>4. CASE UNCHANGED queues
  BY <1>4 DEF QueueBounded, TotalQueued
<1> QED
  BY <1>2, <1>3, <1>4
  DEF Next, DequeueBlocks, TaskCompleted, SpuriousWake, SetPaused,
      SetPausedNotifies, GuardChanges, queueVars, vars

\* enqueue's test of max_queue_depth bounds the three deques together, in
\* every interleaving.
THEOREM DepthBound == Spec => []QueueBounded
<1>1. Init => QueueBounded
  <2>1. ASSUME Init PROVE TotalQueued = 0
    <3>1. /\ Len(queues["high"]) = 0 /\ Len(queues["normal"]) = 0
          /\ Len(queues["low"]) = 0
      BY <2>1 DEF Init, Priorities
    <3> QED
      BY <3>1 DEF TotalQueued, LengthOf
  <2> QED
    BY <2>1, ConfigAssumption DEF QueueBounded
<1> QED
  BY <1>1, TypeInit, TypeStep, BoundStep, PTL DEF Spec

\* A class that was passed over is the one rr_index_ points at: this is what
\* makes NoDoubleSkip inductive.
RotationInv ==
  \A p \in {"normal", "low"} :
    skipped[p] = 0 \/ (skipped[p] = 1 /\ rrIndex = p)

LEMMA RotationStep == TypeOK /\ RotationInv /\ [Next]_vars => RotationInv'
<1> SUFFICES ASSUME TypeOK, RotationInv, [Next]_vars PROVE RotationInv'
  OBVIOUS
<1>1. ASSUME NEW w \in Workers, DequeueTakes(w) PROVE RotationInv'
  <2>1. Served \in Priorities /\ HasReady(Served)
    BY <1>1, ServedFound DEF DequeueTakes
  <2>2. /\ rrIndex' = RotatedFrom(Served)
        /\ skipped' =
             IF Served = "high" THEN skipped
             ELSE [c \in {"normal", "low"} |->
                    IF c = Served THEN 0
                    ELSE IF HasReady(c) /\ skipped[c] < SkippedCap
                           THEN skipped[c] + 1 ELSE skipped[c]]
    BY <1>1 DEF DequeueTakes
  <2>3. CASE Served = "high"
    BY <2>2, <2>3 DEF RotatedFrom, RotationInv
  <2>4. CASE Served # "high" /\ HasReady(rrIndex)
    <3>1. Served = rrIndex
      BY <2>4 DEF Served
    <3> QED
      BY <2>2, <2>4, <3>1 DEF RotatedFrom, Other, RotationInv, TypeOK
  <2>5. CASE Served # "high" /\ ~HasReady(rrIndex)
    <3>1. Served = Other(rrIndex)
      BY <2>5 DEF Served
    <3> QED
      BY <2>2, <2>5, <3>1 DEF RotatedFrom, Other, RotationInv, TypeOK
  <2> QED
    BY <2>3, <2>4, <2>5
<1>2. CASE UNCHANGED <<rrIndex, skipped>>
  BY <1>2 DEF RotationInv
<1> QED
  BY <1>1, <1>2
  DEF Next, Enqueue, DequeueBlocks, TaskCompleted, SpuriousWake, SetPaused,
      SetPausedNotifies, GuardChanges, queueVars, history, vars

\* The rotation of rr_index_ passes a ready class over at most once, for any
\* number of workers and any traffic.
THEOREM RotationFair == Spec => []NoDoubleSkip
<1>1. Init => RotationInv
  BY DEF Init, RotationInv
<1>2. RotationInv => NoDoubleSkip
  BY DEF RotationInv, NoDoubleSkip
<1> QED
  BY <1>1, <1>2, TypeInit, TypeStep, RotationStep, PTL DEF Spec

-----------------------------------------------------------------------------
(* Every job is in one place.                                              *)

\* After enqueue, a position of a deque holds what it held, or the new job.
LEMMA EnqueuePositions ==
  ASSUME TypeOK, NEW j \in Jobs, Enqueue(j)
  PROVE  \A p \in Priorities : \A i \in DOMAIN queues'[p] :
           \/ i \in DOMAIN queues[p] /\ queues'[p][i] = queues[p][i]
           \/ /\ queues'[p][i] = j /\ p = PriorityOf[j]
              /\ i = Len(queues[p]) + 1
<1> SUFFICES ASSUME NEW p \in Priorities, NEW i \in DOMAIN queues'[p]
             PROVE  \/ i \in DOMAIN queues[p] /\ queues'[p][i] = queues[p][i]
                    \/ /\ queues'[p][i] = j /\ p = PriorityOf[j]
                       /\ i = Len(queues[p]) + 1
  OBVIOUS
<1>1. queues[p] \in Seq(Jobs) /\ PriorityOf[j] \in Priorities
  BY JobsAssumption DEF TypeOK
<1>2. CASE p = PriorityOf[j]
  <2>1. queues'[p] = Append(queues[p], j)
    BY <1>1, <1>2 DEF Enqueue, TypeOK
  <2>2. /\ Append(queues[p], j) \in Seq(Jobs)
        /\ Len(Append(queues[p], j)) = Len(queues[p]) + 1
        /\ \A k \in 1..Len(queues[p]) : Append(queues[p], j)[k] = queues[p][k]
        /\ Append(queues[p], j)[Len(queues[p]) + 1] = j
    BY <1>1, AppendProperties
  <2>3. /\ DOMAIN queues[p] = 1..Len(queues[p]) /\ Len(queues[p]) \in Nat
        /\ DOMAIN queues'[p] = 1..(Len(queues[p]) + 1)
    BY <1>1, <2>1, <2>2, LenProperties
  <2> QED
    BY <1>2, <2>1, <2>2, <2>3
<1>3. CASE p # PriorityOf[j]
  BY <1>1, <1>3 DEF Enqueue, TypeOK
<1> QED
  BY <1>2, <1>3

\* Where the task at position k of deque q was before position i of deque p
\* was erased.
Origin(p, i, q, k) == IF q = p /\ k >= i THEN k + 1 ELSE k

\* After dequeue, a position of a deque holds what some position other than
\* the erased one held, and distinct positions come from distinct ones.
LEMMA PopPositions ==
  ASSUME TypeOK, NEW p \in Priorities, NEW i \in 1..Len(queues[p]),
         queues' = Erased(p, i),
         NEW q \in Priorities, NEW k \in DOMAIN queues'[q]
  PROVE  /\ k \in Nat
         /\ Origin(p, i, q, k) \in DOMAIN queues[q]
         /\ ~(q = p /\ Origin(p, i, q, k) = i)
         /\ queues'[q][k] = queues[q][Origin(p, i, q, k)]
<1>1. /\ queues[q] \in Seq(Jobs) /\ DOMAIN queues[q] = 1..Len(queues[q])
      /\ Len(queues[q]) \in Nat
  BY LenProperties DEF TypeOK
<1>2. CASE q = p
  <2>1. queues'[q] = RemoveAt(queues[q], i)
    BY <1>2 DEF TypeOK, Erased
  <2>2. /\ RemoveAt(queues[q], i) \in Seq(Jobs)
        /\ Len(RemoveAt(queues[q], i)) = Len(queues[q]) - 1
        /\ \A n \in 1..(Len(queues[q]) - 1) :
              RemoveAt(queues[q], i)[n] =
                IF n < i THEN queues[q][n] ELSE queues[q][n + 1]
    BY <1>1, <1>2, RemoveAtProperties
  <2>3. k \in 1..(Len(queues[q]) - 1)
    BY <2>1, <2>2, LenProperties
  <2> QED
    BY <1>1, <1>2, <2>1, <2>2, <2>3 DEF Origin
<1>3. CASE q # p
  BY <1>1, <1>3 DEF TypeOK, Origin, Erased
<1> QED
  BY <1>2, <1>3

LEMMA OnceStep == TypeOK /\ EachJobOnce /\ [Next]_vars => EachJobOnce'
<1> SUFFICES ASSUME TypeOK, EachJobOnce, [Next]_vars PROVE EachJobOnce'
  OBVIOUS
<1>1. ASSUME NEW j \in Jobs, Enqueue(j) PROVE EachJobOnce'
  <2>1. ~Queued(j) /\ Holders(j) = {} /\ held' = held
    BY <1>1 DEF Enqueue
  <2>2. ASSUME NEW p \in Priorities, NEW q \in Priorities,
               NEW i \in DOMAIN queues'[p], NEW k \in DOMAIN queues'[q],
               queues'[p][i] = queues'[q][k]
        PROVE  p = q /\ i = k
    <3>1. \/ i \in DOMAIN queues[p] /\ queues'[p][i] = queues[p][i]
          \/ queues'[p][i] = j /\ p = PriorityOf[j] /\ i = Len(queues[p]) + 1
      BY <1>1, EnqueuePositions
    <3>2. \/ k \in DOMAIN queues[q] /\ queues'[q][k] = queues[q][k]
          \/ queues'[q][k] = j /\ q = PriorityOf[j] /\ k = Len(queues[q]) + 1
      BY <1>1, EnqueuePositions
    <3> QED
      BY <2>1, <2>2, <3>1, <3>2 DEF EachJobOnce, Queued
  <2>3. ASSUME NEW b \in Jobs, Queued(b)' PROVE Holders(b)' = {}
    <3>1. PICK p \in Priorities : \E i \in DOMAIN queues'[p] : queues'[p][i] = b
      BY <2>3 DEF Queued
    <3>2. b = j \/ Queued(b)
      BY <1>1, <3>1, EnqueuePositions DEF Queued
    <3> QED
      BY <2>1, <3>2 DEF EachJobOnce, Holders
  <2>4. \A v, w \in Workers : held'[v] = held'[w] /\ held'[v] # NoJob => v = w
    BY <2>1 DEF EachJobOnce
  <2> QED
    BY <2>2, <2>3, <2>4 DEF EachJobOnce
<1>2. ASSUME NEW w \in Workers, DequeueTakes(w) PROVE EachJobOnce'
  <2>1. PICK p \in Priorities, i \in Nat :
          /\ i \in 1..Len(queues[p]) /\ queues[p][i] \in Jobs
          /\ queues' = Erased(p, i)
          /\ held' = [held EXCEPT ![w] = queues[p][i]]
    BY <1>2, DequeuePops
  <2> DEFINE j == queues[p][i]
  <2>2. i \in DOMAIN queues[p]
    BY <2>1, LenProperties DEF TypeOK
  <2>3. Queued(j) /\ Holders(j) = {}
    BY <2>1, <2>2 DEF Queued, EachJobOnce
  <2>4. ASSUME NEW q \in Priorities, NEW r \in Priorities,
               NEW k \in DOMAIN queues'[q], NEW n \in DOMAIN queues'[r],
               queues'[q][k] = queues'[r][n]
        PROVE  q = r /\ k = n
    <3>1. /\ k \in Nat /\ Origin(p, i, q, k) \in DOMAIN queues[q]
          /\ queues'[q][k] = queues[q][Origin(p, i, q, k)]
      BY <2>1, PopPositions
    <3>2. /\ n \in Nat /\ Origin(p, i, r, n) \in DOMAIN queues[r]
          /\ queues'[r][n] = queues[r][Origin(p, i, r, n)]
      BY <2>1, PopPositions
    <3>3. q = r /\ Origin(p, i, q, k) = Origin(p, i, r, n)
      <4>1. queues[q][Origin(p, i, q, k)] = queues[r][Origin(p, i, r, n)]
        BY <2>4, <3>1, <3>2
      <4>2. \A x \in DOMAIN queues[q], y \in DOMAIN queues[r] :
              queues[q][x] = queues[r][y] => q = r /\ x = y
        BY DEF EachJobOnce
      <4> QED
        BY <3>1, <3>2, <4>1, <4>2
    <3> QED
      BY <2>1, <3>1, <3>2, <3>3 DEF Origin
  <2>5. ASSUME NEW b \in Jobs, Queued(b)' PROVE Queued(b) /\ b # j
    <3>0. PICK q \in Priorities : \E k \in DOMAIN queues'[q] : queues'[q][k] = b
      BY <2>5 DEF Queued
    <3>1. PICK k \in DOMAIN queues'[q] : queues'[q][k] = b
      BY <3>0
    <3>2. /\ Origin(p, i, q, k) \in DOMAIN queues[q]
          /\ ~(q = p /\ Origin(p, i, q, k) = i)
          /\ queues'[q][k] = queues[q][Origin(p, i, q, k)]
      BY <2>1, PopPositions
    <3> QED
      BY <2>2, <3>1, <3>2 DEF EachJobOnce, Queued
  <2>6. ASSUME NEW b \in Jobs, Queued(b)' PROVE Holders(b)' = {}
    BY <2>1, <2>5, <2>6 DEF EachJobOnce, Holders, TypeOK
  <2>7. \A v, u \in Workers : held'[v] = held'[u] /\ held'[v] # NoJob => v = u
    BY <2>1, <2>3 DEF EachJobOnce, Holders, TypeOK
  <2> QED
    BY <2>4, <2>6, <2>7 DEF EachJobOnce
<1>3. ASSUME NEW w \in Workers, TaskCompleted(w) PROVE EachJobOnce'
  <2>1. queues' = queues /\ held' = [held EXCEPT ![w] = NoJob]
    BY <1>3 DEF TaskCompleted
  <2>2. \A b \in Jobs : Holders(b)' \subseteq Holders(b)
    BY <2>1, JobsAssumption DEF Holders, TypeOK
  <2>3. \A v, u \in Workers : held'[v] = held'[u] /\ held'[v] # NoJob => v = u
    BY <2>1 DEF EachJobOnce, TypeOK
  <2> QED
    BY <2>1, <2>2, <2>3 DEF EachJobOnce, Queued
<1>4. CASE UNCHANGED <<queues, held>>
  BY <1>4 DEF EachJobOnce, Queued, Holders
<1> QED
  BY <1>1, <1>2, <1>3, <1>4
  DEF Next, DequeueBlocks, SpuriousWake, SetPaused, SetPausedNotifies,
      GuardChanges, queueVars, workerVars, vars

\* The moves of a task between producer, deque and worker neither duplicate
\* it nor lose track of it.
THEOREM JobInOnePlace == Spec => []EachJobOnce
<1>1. Init => EachJobOnce
  BY DEF Init, EachJobOnce, Queued, Holders
<1> QED
  BY <1>1, TypeInit, TypeStep, OnceStep, PTL DEF Spec

-----------------------------------------------------------------------------
(* The books: running_ and inflight_ against the workers.                  *)

\* inflight_ records the type of every task a worker holds.
Recorded ==
  \A w \in Workers :
    held[w] # NoJob => inflight[IdOf[held[w]]] = TypeOf[held[w]]

\* The counters stay within the limits.
Limited == \A ty \in Types : running[ty] <= LimitOf(ty)

BooksInv == Recorded /\ RunningIsExact /\ Limited

LEMMA LimitIsNat == \A ty \in Types : LimitOf(ty) \in Nat
BY ConfigAssumption DEF LimitOf

LEMMA HoldersFinite ==
  \A ty : IsFiniteSet(HoldersOf(ty)) /\ Cardinality(HoldersOf(ty)) \in Nat
<1> SUFFICES ASSUME NEW ty
             PROVE  IsFiniteSet(HoldersOf(ty)) /\ Cardinality(HoldersOf(ty)) \in Nat
  OBVIOUS
<1>1. HoldersOf(ty) \in SUBSET Workers
  BY DEF HoldersOf
<1> QED
  BY <1>1, FS_Subset, FS_CardinalityType, JobsAssumption

\* Ids tell the held tasks apart from one another and from a queued one.
LEMMA BooksStep ==
  ASSUME UniqueIds
  PROVE  TypeOK /\ EachJobOnce /\ BooksInv /\ [Next]_vars => BooksInv'
<1> SUFFICES ASSUME TypeOK, EachJobOnce, BooksInv, [Next]_vars PROVE BooksInv'
  OBVIOUS
<1>1. ASSUME NEW w \in Workers, DequeueTakes(w) PROVE BooksInv'
  <2>1. PICK p \in Priorities, i \in Nat :
          /\ i \in 1..Len(queues[p]) /\ queues[p][i] \in Jobs
          /\ Ready(queues[p][i])
          /\ held' = [held EXCEPT ![w] = queues[p][i]]
          /\ running' = [running EXCEPT ![TypeOf[queues[p][i]]] = @ + 1]
          /\ inflight' = [inflight EXCEPT ![IdOf[queues[p][i]]] = TypeOf[queues[p][i]]]
    BY <1>1, DequeuePops
  <2> DEFINE j == queues[p][i]
             tj == TypeOf[j]
  <2>2. j \in Jobs /\ j # NoJob /\ tj \in Types /\ IdOf[j] \in Ids
    BY <2>1, JobsAssumption
  <2>3. held[w] = NoJob
    BY <1>1 DEF DequeueTakes, TestsPredicate, TypeOK
  <2>4. Holders(j) = {}
    <3>1. i \in DOMAIN queues[p]
      BY <2>1, LenProperties DEF TypeOK
    <3> QED
      BY <2>2, <3>1 DEF Queued, EachJobOnce
  <2>5. /\ held' = [held EXCEPT ![w] = j]
        /\ running' = [running EXCEPT ![tj] = @ + 1]
        /\ inflight' = [inflight EXCEPT ![IdOf[j]] = tj]
        /\ running[tj] < LimitOf(tj)
    BY <2>1 DEF Ready
  <2> HIDE DEF j, tj
  <2>6. Recorded'
    <3> SUFFICES ASSUME NEW v \in Workers, held'[v] # NoJob
                 PROVE  inflight'[IdOf[held'[v]]] = TypeOf[held'[v]]
      BY DEF Recorded
    <3>1. CASE v = w
      BY <2>2, <2>5, <3>1 DEF TypeOK, tj
    <3>2. CASE v # w
      <4>1. held'[v] = held[v] /\ held[v] \in Jobs /\ held[v] # j
        BY <2>4, <2>5, <3>2 DEF Holders, TypeOK
      <4>2. IdOf[held[v]] # IdOf[j] /\ IdOf[held[v]] \in Ids
        BY <2>2, <4>1, JobsAssumption DEF UniqueIds
      <4> QED
        BY <2>2, <2>5, <4>1, <4>2 DEF BooksInv, Recorded, TypeOK
    <3> QED
      BY <3>1, <3>2
  <2>7. RunningIsExact'
    <3> SUFFICES ASSUME NEW ty \in Types
                 PROVE  running'[ty] = Cardinality(HoldersOf(ty)')
      BY DEF RunningIsExact
    <3>1. running[ty] = Cardinality(HoldersOf(ty)) /\ w \notin HoldersOf(ty)
      BY <2>3 DEF BooksInv, RunningIsExact, HoldersOf
    <3>2. CASE ty = tj
      <4>1. HoldersOf(ty)' = HoldersOf(ty) \cup {w}
        BY <2>2, <2>5, <3>2 DEF HoldersOf, TypeOK, tj
      <4>2. Cardinality(HoldersOf(ty) \cup {w}) = Cardinality(HoldersOf(ty)) + 1
        BY <3>1, HoldersFinite, FS_AddElement
      <4> QED
        BY <2>2, <2>5, <3>1, <3>2, <4>1, <4>2 DEF TypeOK
    <3>3. CASE ty # tj
      <4>1. HoldersOf(ty)' = HoldersOf(ty)
        BY <2>2, <2>3, <2>5, <3>3 DEF HoldersOf, TypeOK, tj
      <4> QED
        BY <2>5, <3>1, <3>3, <4>1 DEF TypeOK
    <3> QED
      BY <3>2, <3>3
  <2>8. Limited'
    <3> SUFFICES ASSUME NEW ty \in Types PROVE running'[ty] <= LimitOf(ty)
      BY DEF Limited, LimitOf
    <3>1. /\ running[ty] \in Nat /\ running[ty] <= LimitOf(ty)
          /\ LimitOf(ty) \in Nat
      BY LimitIsNat DEF BooksInv, Limited, TypeOK
    <3> QED
      BY <2>2, <2>5, <3>1 DEF TypeOK
  <2> QED
    BY <2>6, <2>7, <2>8 DEF BooksInv
<1>2. ASSUME NEW w \in Workers, TaskCompleted(w) PROVE BooksInv'
  <2> DEFINE j == held[w]
             tj == TypeOf[j]
  <2>1. j \in Jobs /\ j # NoJob /\ tj \in Types /\ IdOf[j] \in Ids
    BY <1>2, JobsAssumption DEF TaskCompleted, TypeOK
  <2>2. inflight[IdOf[j]] = tj
    BY <2>1 DEF BooksInv, Recorded
  <2>3. w \in HoldersOf(tj)
    BY <2>1 DEF HoldersOf
  <2>4. running[tj] = Cardinality(HoldersOf(tj)) /\ running[tj] > 0
    <3>1. running[tj] = Cardinality(HoldersOf(tj))
      BY <2>1 DEF BooksInv, RunningIsExact
    <3>2. Cardinality(HoldersOf(tj)) # 0
      BY <2>3, HoldersFinite, FS_EmptySet
    <3> QED
      BY <3>1, <3>2, HoldersFinite
  <2>5. /\ running' = [running EXCEPT ![tj] = @ - 1]
        /\ inflight' = [inflight EXCEPT ![IdOf[j]] = NoType]
        /\ held' = [held EXCEPT ![w] = NoJob]
    <3>1. tj # NoType
      BY <2>1 DEF Types, NoType
    <3> QED
      BY <1>2, <2>2, <2>4, <3>1 DEF TaskCompleted, Released
  <2> HIDE DEF tj
  <2>6. Recorded'
    <3> SUFFICES ASSUME NEW v \in Workers, held'[v] # NoJob
                 PROVE  inflight'[IdOf[held'[v]]] = TypeOf[held'[v]]
      BY DEF Recorded
    <3>1. v # w /\ held'[v] = held[v] /\ held[v] \in Jobs
      BY <2>5 DEF TypeOK
    <3>2. held[v] # j
      BY <2>1, <3>1 DEF EachJobOnce
    <3>3. IdOf[held[v]] # IdOf[j]
      BY <2>1, <3>1, <3>2 DEF UniqueIds
    <3> QED
      BY <2>5, <3>1, <3>3, JobsAssumption DEF BooksInv, Recorded, TypeOK
  <2>7. RunningIsExact'
    <3> SUFFICES ASSUME NEW ty \in Types
                 PROVE  running'[ty] = Cardinality(HoldersOf(ty)')
      BY DEF RunningIsExact
    <3>1. running[ty] = Cardinality(HoldersOf(ty))
      BY DEF BooksInv, RunningIsExact
    <3>2. CASE ty = tj
      <4>1. HoldersOf(ty)' = HoldersOf(ty) \ {w}
        BY <2>5 DEF HoldersOf, TypeOK
      <4>2. Cardinality(HoldersOf(ty) \ {w}) = Cardinality(HoldersOf(ty)) - 1
        BY <2>3, <3>2, HoldersFinite, FS_RemoveElement
      <4> QED
        BY <2>1, <2>5, <3>1, <3>2, <4>1, <4>2 DEF TypeOK
    <3>3. CASE ty # tj
      <4>1. w \notin HoldersOf(ty)
        BY <3>3 DEF HoldersOf, tj
      <4>2. HoldersOf(ty)' = HoldersOf(ty)
        BY <2>5, <4>1 DEF HoldersOf, TypeOK
      <4> QED
        BY <2>5, <3>1, <3>3, <4>2 DEF TypeOK
    <3> QED
      BY <3>2, <3>3
  <2>8. Limited'
    <3> SUFFICES ASSUME NEW ty \in Types PROVE running'[ty] <= LimitOf(ty)
      BY DEF Limited, LimitOf
    <3>1. /\ running[ty] \in Nat /\ running[ty] <= LimitOf(ty)
          /\ LimitOf(ty) \in Nat
      BY LimitIsNat DEF BooksInv, Limited, TypeOK
    <3> QED
      BY <2>1, <2>5, <3>1 DEF TypeOK
  <2> QED
    BY <2>6, <2>7, <2>8 DEF BooksInv
<1>3. CASE UNCHANGED <<running, inflight, held>>
  BY <1>3 DEF BooksInv, Recorded, RunningIsExact, Limited, HoldersOf, LimitOf
<1> QED
  BY <1>1, <1>2, <1>3
  DEF Next, Enqueue, DequeueBlocks, SpuriousWake, SetPaused,
      SetPausedNotifies, GuardChanges, queueVars, workerVars, vars

LEMMA BooksInit == Init => BooksInv
<1> SUFFICES ASSUME Init PROVE BooksInv
  OBVIOUS
<1>1. Recorded
  BY DEF Init, Recorded
<1>2. \A ty \in Types : HoldersOf(ty) = {} /\ running[ty] = 0
  BY DEF Init, HoldersOf
<1> QED
  BY <1>1, <1>2, LimitIsNat, FS_EmptySet DEF BooksInv, RunningIsExact, Limited

\* If ids are unique, running_ is the number of tasks of each type that
\* workers hold, and it never exceeds the configured limit.
THEOREM LimitsHold ==
  ASSUME UniqueIds
  PROVE  Spec => [](RunningIsExact /\ LimitsRespected)
<1>1. BooksInv => RunningIsExact /\ LimitsRespected
  BY HoldersFinite DEF BooksInv, RunningIsExact, Limited, LimitsRespected
<1> QED
  BY <1>1, TypeInit, TypeStep, BooksInit, BooksStep, JobInOnePlace, PTL DEF Spec

\* The count alone: running_[t] is the number of workers that hold a task of
\* type t, however dequeue, taskCompleted and the notifications interleave.
THEOREM BooksExact ==
  ASSUME UniqueIds
  PROVE  Spec => []RunningIsExact
  BY LimitsHold, PTL

-----------------------------------------------------------------------------
(* Wakeups.                                                                *)

ReadyJobs == {j \in Jobs : Queued(j) /\ Ready(j)}

\* While a worker sleeps, each task that could be dispatched has a woken
\* worker of its own. Counting is what makes NoStrandedWork inductive: one
\* worker woken for two tasks would leave the second stranded.
WakeupInv ==
  Blocked # {} /\ ~paused /\ ~refused /\ ~notifying =>
    IsFiniteSet(ReadyJobs) /\ Cardinality(ReadyJobs) <= Cardinality(Woken)

LEMMA WokenFinite == IsFiniteSet(Woken) /\ Cardinality(Woken) \in Nat
<1>1. Woken \in SUBSET Workers
  BY DEF Woken
<1> QED
  BY <1>1, FS_Subset, FS_CardinalityType, JobsAssumption

\* A ready task somewhere is a position findReadyTask would find.
LEMMA ReadyJobsFound ==
  ASSUME TypeOK
  PROVE  (\E p \in Priorities : HasReady(p)) <=> ReadyJobs # {}
<1>1. \A p \in Priorities : \A i \in DOMAIN queues[p] : queues[p][i] \in Jobs
  BY ElementOfSeq, LenProperties DEF TypeOK
<1> QED
  BY <1>1 DEF HasReady, ReadyJobs, Queued

LEMMA WakeupStep ==
  TypeOK /\ EachJobOnce /\ WakeupInv /\ [Next]_vars => WakeupInv'
<1> SUFFICES ASSUME TypeOK, EachJobOnce, WakeupInv, [Next]_vars PROVE WakeupInv'
  OBVIOUS
<1>0. TypeOK'
  BY TypeStep
<1>1. ASSUME NEW j \in Jobs, Enqueue(j) PROVE WakeupInv'
  <2> SUFFICES ASSUME Blocked' # {}, ~paused', ~refused', ~notifying'
               PROVE  /\ IsFiniteSet(ReadyJobs')
                      /\ Cardinality(ReadyJobs') <= Cardinality(Woken')
    BY DEF WakeupInv
  <2>1. /\ UNCHANGED <<running, paused, refused, notifying>>
        /\ NotifyOne
    BY <1>1 DEF Enqueue, history
  <2>2. Blocked # {}
    BY <2>1 DEF NotifyOne, Blocked
  <2>3. PICK v \in Blocked : pc' = [pc EXCEPT ![v] = "woken"]
    BY <2>1, <2>2 DEF NotifyOne
  <2>4. Woken' = Woken \cup {v} /\ v \notin Woken
    BY <2>3 DEF Woken, Blocked, TypeOK
  <2>5. Cardinality(Woken') = Cardinality(Woken) + 1
    BY <2>4, WokenFinite, FS_AddElement
  <2>6. ReadyJobs' \subseteq ReadyJobs \cup {j}
    <3>1. \A b \in Jobs : Queued(b)' => Queued(b) \/ b = j
      BY <1>1, EnqueuePositions DEF Queued
    <3> QED
      BY <2>1, <3>1 DEF ReadyJobs, Ready, LimitOf
  <2>7. IsFiniteSet(ReadyJobs) /\ Cardinality(ReadyJobs) <= Cardinality(Woken)
    BY <2>1, <2>2 DEF WakeupInv
  <2>8. /\ IsFiniteSet(ReadyJobs \cup {j})
        /\ Cardinality(ReadyJobs \cup {j}) <= Cardinality(ReadyJobs) + 1
    <3>1. Cardinality(ReadyJobs) \in Nat
      BY <2>7, FS_CardinalityType
    <3>2. /\ IsFiniteSet(ReadyJobs \cup {j})
          /\ Cardinality(ReadyJobs \cup {j}) =
               IF j \in ReadyJobs THEN Cardinality(ReadyJobs)
               ELSE Cardinality(ReadyJobs) + 1
      BY <2>7, FS_AddElement
    <3> QED
      BY <3>1, <3>2
  <2>9. /\ IsFiniteSet(ReadyJobs')
        /\ Cardinality(ReadyJobs') <= Cardinality(ReadyJobs \cup {j})
    BY <2>6, <2>8, FS_Subset
  <2>10. /\ Cardinality(ReadyJobs') \in Nat /\ Cardinality(ReadyJobs) \in Nat
         /\ Cardinality(ReadyJobs \cup {j}) \in Nat
    BY <2>7, <2>8, <2>9, FS_CardinalityType
  <2> QED
    BY <2>5, <2>7, <2>8, <2>9, <2>10, WokenFinite
<1>2. ASSUME NEW w \in Workers, DequeueTakes(w) PROVE WakeupInv'
  <2> SUFFICES ASSUME Blocked' # {}, ~paused', ~refused', ~notifying'
               PROVE  /\ IsFiniteSet(ReadyJobs')
                      /\ Cardinality(ReadyJobs') <= Cardinality(Woken')
    BY DEF WakeupInv
  <2>1. PICK p \in Priorities, i \in Nat :
          /\ i \in 1..Len(queues[p]) /\ queues[p][i] \in Jobs
          /\ Ready(queues[p][i])
          /\ queues' = Erased(p, i)
          /\ running' = [running EXCEPT ![TypeOf[queues[p][i]]] = @ + 1]
          /\ pc' = [pc EXCEPT ![w] = "working"]
    BY <1>2, DequeuePops
  <2> DEFINE j == queues[p][i]
  <2>2. i \in DOMAIN queues[p]
    BY <2>1, LenProperties DEF TypeOK
  <2>3. j \in ReadyJobs
    BY <2>1, <2>2 DEF ReadyJobs, Queued
  <2>4. \A b \in Jobs : Queued(b)' => Queued(b) /\ b # j
    <3> SUFFICES ASSUME NEW b \in Jobs, Queued(b)' PROVE Queued(b) /\ b # j
      OBVIOUS
    <3>1. PICK q \in Priorities : \E k \in DOMAIN queues'[q] : queues'[q][k] = b
      BY DEF Queued
    <3>2. PICK k \in DOMAIN queues'[q] : queues'[q][k] = b
      BY <3>1
    <3>3. /\ Origin(p, i, q, k) \in DOMAIN queues[q]
          /\ ~(q = p /\ Origin(p, i, q, k) = i)
          /\ queues'[q][k] = queues[q][Origin(p, i, q, k)]
      BY <2>1, PopPositions
    <3> QED
      BY <2>2, <3>2, <3>3 DEF EachJobOnce, Queued
  <2>5. \A b \in Jobs : Ready(b)' => Ready(b)
    <3> SUFFICES ASSUME NEW b \in Jobs, Ready(b)' PROVE Ready(b)
      OBVIOUS
    <3>1. TypeOf[b] \in Types /\ TypeOf[j] \in Types /\ LimitOf(TypeOf[b]) \in Nat
      BY <2>1, JobsAssumption, LimitIsNat
    <3>2. running[TypeOf[b]] \in Nat /\ running'[TypeOf[b]] \in Nat
      BY <1>0, <3>1 DEF TypeOK
    <3>3. running[TypeOf[b]] <= running'[TypeOf[b]]
      BY <2>1, <3>1, <3>2 DEF TypeOK
    <3>4. running'[TypeOf[b]] < LimitOf(TypeOf[b])
      BY DEF Ready, LimitOf
    <3> QED
      BY <3>1, <3>2, <3>3, <3>4 DEF Ready
  <2>6. ReadyJobs' \subseteq ReadyJobs \ {j}
    BY <2>4, <2>5 DEF ReadyJobs
  <2>7. Blocked # {} /\ ~paused /\ ~refused /\ ~notifying
    <3>1. UNCHANGED <<paused, refused, notifying>>
      BY <1>2 DEF DequeueTakes
    <3> QED
      BY <2>1, <3>1 DEF Blocked, TypeOK
  <2>8. IsFiniteSet(ReadyJobs) /\ Cardinality(ReadyJobs) <= Cardinality(Woken)
    BY <2>7 DEF WakeupInv
  <2>9. /\ IsFiniteSet(ReadyJobs \ {j})
        /\ Cardinality(ReadyJobs \ {j}) = Cardinality(ReadyJobs) - 1
    BY <2>3, <2>8, FS_RemoveElement
  <2>10. /\ IsFiniteSet(ReadyJobs')
         /\ Cardinality(ReadyJobs') <= Cardinality(ReadyJobs \ {j})
    BY <2>6, <2>9, FS_Subset
  <2>11. /\ Cardinality(ReadyJobs') \in Nat /\ Cardinality(ReadyJobs) \in Nat
         /\ Cardinality(ReadyJobs \ {j}) \in Nat
    BY <2>8, <2>9, <2>10, FS_CardinalityType
  <2>12. Woken' = Woken \ {w}
    BY <2>1 DEF Woken, TypeOK
  <2>13. Cardinality(Woken') >= Cardinality(Woken) - 1
    <3>1. Cardinality(Woken \ {w}) =
            IF w \in Woken THEN Cardinality(Woken) - 1 ELSE Cardinality(Woken)
      BY WokenFinite, FS_RemoveElement
    <3> QED
      BY <2>12, <3>1, WokenFinite
  <2>14. Cardinality(Woken') \in Nat
    BY <2>12, WokenFinite, FS_RemoveElement, FS_CardinalityType
  <2> HIDE DEF j
  <2> QED
    BY <2>8, <2>9, <2>10, <2>11, <2>13, <2>14, WokenFinite
<1>3. ASSUME NEW w \in Workers, DequeueBlocks(w) PROVE WakeupInv'
  <2> SUFFICES ASSUME ~paused', ~refused'
               PROVE  ReadyJobs' = {}
    BY <1>0, WokenFinite, FS_EmptySet, FS_Subset, FS_CardinalityType, JobsAssumption
    DEF WakeupInv, Woken
  <2>1. ~CanRun /\ ~paused /\ accepts /\ UNCHANGED <<queues, running>>
    BY <1>3 DEF DequeueBlocks, queueVars, TypeOK
  <2>2. ReadyJobs = {}
    BY <2>1, ReadyJobsFound DEF CanRun
  <2> QED
    BY <2>1, <2>2 DEF ReadyJobs, Queued, Ready, LimitOf
<1>4. ASSUME NEW w \in Workers, TaskCompleted(w) PROVE WakeupInv'
  <2>1. pc' = [WakeAll EXCEPT ![w] = "outside"]
    BY <1>4 DEF TaskCompleted
  <2>2. Blocked' = {}
    BY <2>1, WakeAllType DEF Blocked
  <2> QED
    BY <2>2 DEF WakeupInv
<1>5. ASSUME NEW w \in Workers, SpuriousWake(w) PROVE WakeupInv'
  <2>1. UNCHANGED <<queues, running, paused, notifying, refused>>
    BY <1>5 DEF SpuriousWake, queueVars, history
  <2>2. Blocked # {} /\ Woken' = Woken \cup {w}
    BY <1>5 DEF SpuriousWake, Blocked, Woken, TypeOK
  <2>3. Cardinality(Woken) <= Cardinality(Woken')
    BY <2>2, WokenFinite, FS_AddElement
  <2>4. ReadyJobs' = ReadyJobs
    BY <2>1 DEF ReadyJobs, Queued, Ready, LimitOf
  <2>5. Cardinality(Woken') \in Nat
    <3>1. IsFiniteSet(Woken')
      BY <2>2, WokenFinite, FS_AddElement
    <3> QED
      BY <3>1, FS_CardinalityType
  <2>6. IsFiniteSet(ReadyJobs) => Cardinality(ReadyJobs) \in Nat
    BY FS_CardinalityType
  <2> QED
    BY <2>1, <2>2, <2>3, <2>4, <2>5, <2>6, WokenFinite DEF WakeupInv
<1>6. ASSUME NEW b \in BOOLEAN, SetPaused(b) PROVE WakeupInv'
  BY <1>6 DEF SetPaused, WakeupInv
<1>7. CASE SetPausedNotifies
  <2>1. Blocked' = {}
    BY <1>7, WakeAllType DEF SetPausedNotifies, NotifyAll, Blocked
  <2> QED
    BY <2>1 DEF WakeupInv
<1>8. CASE UNCHANGED <<queues, running, pc, paused, notifying, refused>>
  BY <1>8 DEF WakeupInv, ReadyJobs, Queued, Ready, LimitOf, Blocked, Woken
<1> QED
  BY <1>1, <1>2, <1>3, <1>4, <1>5, <1>6, <1>7, <1>8
  DEF Next, GuardChanges, queueVars, workerVars, history, vars

\* What the guard would say now does not matter for the wakeups.
NoSleepingWork ==
  ~paused /\ (\E p \in Priorities : HasReady(p)) /\ Blocked # {}
    /\ ~refused /\ ~notifying => Woken # {}

\* While the queue is not paused, a ready task and a sleeping worker mean a
\* worker on its way, unless the guard refused since the last notify_all.
THEOREM NoReadyTaskSleeps == Spec => []NoSleepingWork
<1>1. Init => WakeupInv
  BY DEF Init, WakeupInv, Blocked
<1>2. TypeOK /\ WakeupInv => NoSleepingWork
  <2> SUFFICES ASSUME TypeOK, WakeupInv, \E p \in Priorities : HasReady(p),
                      ~paused, Blocked # {}, ~refused, ~notifying
               PROVE  Woken # {}
    BY DEF NoSleepingWork
  <2>1. ReadyJobs # {}
    BY ReadyJobsFound
  <2>2. IsFiniteSet(ReadyJobs) /\ Cardinality(ReadyJobs) <= Cardinality(Woken)
    BY <2>1 DEF WakeupInv
  <2>3. Cardinality(ReadyJobs) \in Nat /\ Cardinality(ReadyJobs) # 0
    BY <2>1, <2>2, FS_EmptySet, FS_CardinalityType
  <2>4. Cardinality(Woken) # 0
    BY <2>2, <2>3, WokenFinite
  <2> QED
    BY <2>4, FS_EmptySet
<1> QED
  BY <1>1, <1>2, TypeInit, TypeStep, WakeupStep, JobInOnePlace, PTL DEF Spec

\* No wakeup is lost inside the queue: with a dispatchable task and a sleeping
\* worker there is always a worker on its way, unless the guard refused since
\* the last notify_all.
THEOREM NoLostWakeup == Spec => []NoStrandedWork
<1>1. NoSleepingWork => NoStrandedWork
  BY DEF NoSleepingWork, NoStrandedWork, CanRun
<1> QED
  BY <1>1, NoReadyTaskSleeps, PTL
-----------------------------------------------------------------------------
(* The refinement of Dispatcher.                                           *)

\* The dispatcher's count of busy workers is the one running_ keeps, so a type
\* it has a worker to spare for is one with a free slot.
LEMMA FreeIsReady ==
  ASSUME RunningIsExact, NEW j \in Jobs
  PROVE  D!Free(TypeOf[j]) <=> Ready(j)
<1>1. TypeOf[j] \in Types
  BY JobsAssumption
<1>2. D!Busy(TypeOf[j]) = HoldersOf(TypeOf[j])
  BY DEF D!Busy, HoldersOf
<1>3. D!Free(TypeOf[j]) <=> Cardinality(HoldersOf(TypeOf[j])) < LimitOf(TypeOf[j])
  <2>1. Cardinality(HoldersOf(TypeOf[j])) = D!Cardinality(HoldersOf(TypeOf[j]))
    BY DEF D!Cardinality, Cardinality
  <2> QED
    BY <1>1, <1>2, <2>1 DEF D!Free
<1> QED
  BY <1>1, <1>3 DEF Ready, RunningIsExact

\* The initial states of the queue are initial states of the dispatcher.
LEMMA DispatcherInit == Init => D!Init
BY DEF Init, D!Init, Priorities, D!Priorities

\* enqueue submits, dequeue dispatches, taskCompleted completes, and all other
\* steps leave the dispatcher where it was.
LEMMA DispatcherStep ==
  TypeOK /\ RunningIsExact /\ [Next]_vars => [D!Next]_<<queues, held>>
<1> SUFFICES ASSUME TypeOK, RunningIsExact, [Next]_vars
             PROVE  [D!Next]_<<queues, held>>
  OBVIOUS
<1> USE DEF D!Next
<1>1. ASSUME NEW j \in Jobs, Enqueue(j) PROVE D!Submit(j)
  <2>1. TotalQueued \in Nat
    BY LengthIsNat DEF TotalQueued, TypeOK
  <2>2. D!Waiting = TotalQueued
    BY DEF D!Waiting, TotalQueued, LengthOf
  <2>3. D!Waiting < MaxQueueDepth
    BY <1>1, <2>1, <2>2, ConfigAssumption DEF Enqueue, Full
  <2> QED
    BY <1>1, <2>3 DEF Enqueue, D!Submit
<1>2. ASSUME NEW w \in Workers, DequeueTakes(w)
      PROVE  \E p \in D!Priorities : \E i \in DOMAIN queues[p] : D!Dispatch(w, p, i)
  <2>1. PICK p \in Priorities, i \in Nat :
          /\ p = Served /\ HasReady(p) /\ i \in 1..Len(queues[p])
          /\ queues[p][i] \in Jobs /\ Ready(queues[p][i])
          /\ \A k \in 1..(i - 1) : ~Ready(queues[p][k])
          /\ queues' = Erased(p, i)
          /\ held' = [held EXCEPT ![w] = queues[p][i]]
    BY <1>2, DequeuePops
  <2>2. \A q \in Priorities : /\ DOMAIN queues[q] = 1..Len(queues[q])
                             /\ Len(queues[q]) \in Nat
                             /\ \A k \in 1..Len(queues[q]) : queues[q][k] \in Jobs
    BY LenProperties, ElementOfSeq DEF TypeOK
  <2>3. held[w] = NoJob
    BY <1>2 DEF DequeueTakes, TestsPredicate, TypeOK
  <2>4. D!InTurn(p, i)
    <3>1. D!Free(TypeOf[queues[p][i]])
      BY <2>1, FreeIsReady
    <3>2. ASSUME NEW k \in 1..(i - 1)
          PROVE  TypeOf[queues[p][k]] # TypeOf[queues[p][i]]
      BY <2>1 DEF Ready
    <3> QED
      BY <3>1, <3>2 DEF D!InTurn
  <2>5. ASSUME p # "high", NEW k \in DOMAIN queues["high"]
        PROVE  ~D!InTurn("high", k)
    <3>1. ~HasReady("high")
      BY <2>1, <2>5 DEF Served
    <3>2. queues["high"][k] \in Jobs /\ ~Ready(queues["high"][k])
      BY <2>2, <3>1 DEF HasReady, Priorities
    <3> QED
      BY <3>2, FreeIsReady DEF D!InTurn
  <2>6. D!Dispatch(w, p, i)
    BY <2>1, <2>3, <2>4, <2>5 
    DEF D!Dispatch, Erased, RemoveAt, D!RemoveAt
  <2> QED
    BY <2>1, <2>2, <2>6 DEF Priorities, D!Priorities
<1>3. ASSUME NEW w \in Workers, TaskCompleted(w) PROVE D!Complete(w)
  BY <1>3 DEF TaskCompleted, TypeOK, D!Complete
<1>4. CASE UNCHANGED <<queues, held>>
  BY <1>4
<1> QED
  BY <1>1, <1>2, <1>3, <1>4
  DEF Next, DequeueBlocks, SpuriousWake, SetPaused, SetPausedNotifies,
      GuardChanges, queueVars, workerVars, vars

\* If ids are unique, the queue with its mutex, wakeups, counters and rotation
\* is a dispatcher: bounded, first come first served within a priority and
\* type, high before the rest, and within the limits counted on the workers.
THEOREM QueueIsDispatcher ==
  ASSUME UniqueIds
  PROVE  Spec => ImplementsDispatcher
<1> QED
  BY DispatcherInit, DispatcherStep, TypeInit, TypeStep, BooksExact, TypeCorrect,
     PTL DEF Spec, ImplementsDispatcher, D!Spec
=============================================================================
