---------------------------- MODULE MCTaskQueue ----------------------------
(* An instance of TaskQueue for TLC: its table of jobs.                    *)
EXTENDS TaskQueue

CONSTANTS a, b, c, d, w1, w2, w3

FourJobs == {a, b, c, d}

\* Two normal tasks of one type and a low one compete under the rotation, and
\* a high one shares its type, hence its limit, with the low one.
DistinctIds == a :> 1 @@ b :> 2 @@ c :> 3 @@ d :> 4
MixedTypes ==
  a :> "watch" @@ b :> "interactive" @@ c :> "interactive" @@ d :> "watch"
MixedPriorities == a :> "low" @@ b :> "normal" @@ c :> "normal" @@ d :> "high"
\* "export" is missing: such a type has limit 0.
TwoLimits == [watch |-> 1, interactive |-> 2]
=============================================================================
