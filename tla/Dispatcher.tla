----------------------------- MODULE Dispatcher -----------------------------
(***************************************************************************)
(* What a queue of typed, prioritised tasks promises its clients, with no  *)
(* mutex, wakeups, counters or rotation: a bounded number of waiting       *)
(* tasks, first come first served among tasks of one priority and type, a  *)
(* limit on the workers busy with each type, and high before the rest.     *)
(* TaskQueue implements it (property ImplementsDispatcher).                *)
(***************************************************************************)
EXTENDS Naturals, FiniteSets, SequencesExt

CONSTANTS Jobs, Workers, TypeOf, PriorityOf, NoJob,
          Capacity,  \* how many tasks may wait
          Limit      \* how many workers may be busy with each type

VARIABLES lanes,     \* lanes[p]: the waiting tasks of priority p, oldest first
          active     \* the task of each worker, or NoJob

Priorities == {"high", "normal", "low"}
Waiting == Len(lanes["high"]) + Len(lanes["normal"]) + Len(lanes["low"])
Busy(ty) == {w \in Workers : active[w] # NoJob /\ TypeOf[active[w]] = ty}
Free(ty) == Cardinality(Busy(ty)) < Limit[ty]

\* The task at place i of lane p is the oldest of its type there, and its
\* type has a worker to spare.
InTurn(p, i) ==
  /\ Free(TypeOf[lanes[p][i]])
  /\ \A k \in 1..(i - 1) : TypeOf[lanes[p][k]] # TypeOf[lanes[p][i]]

Init ==
  /\ lanes = [p \in Priorities |-> <<>>]
  /\ active = [w \in Workers |-> NoJob]

Submit(j) ==
  /\ Waiting < Capacity
  /\ lanes' = [lanes EXCEPT ![PriorityOf[j]] = Append(@, j)]
  /\ UNCHANGED active

Dispatch(w, p, i) ==
  /\ active[w] = NoJob
  /\ InTurn(p, i)
  /\ p # "high" => \A k \in DOMAIN lanes["high"] : ~InTurn("high", k)
  /\ active' = [active EXCEPT ![w] = lanes[p][i]]
  /\ lanes' = [lanes EXCEPT ![p] = RemoveAt(@, i)]

Complete(w) ==
  /\ active[w] # NoJob
  /\ active' = [active EXCEPT ![w] = NoJob]
  /\ UNCHANGED lanes

Next ==
  \/ \E j \in Jobs : Submit(j)
  \/ \E w \in Workers, p \in Priorities : \E i \in DOMAIN lanes[p] : Dispatch(w, p, i)
  \/ \E w \in Workers : Complete(w)

Spec == Init /\ [][Next]_<<lanes, active>>
=============================================================================
