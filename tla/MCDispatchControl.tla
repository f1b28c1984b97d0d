------------------------- MODULE MCDispatchControl -------------------------
(* Instances of DispatchControl: one type with one slot, two jobs.         *)
EXTENDS DispatchControl, TLC

CONSTANTS a, b, w1, w2

MCIdOf == a :> 1 @@ b :> 2
MCTypeOf == a :> "interactive" @@ b :> "interactive"
MCPriorityOf == a :> "normal" @@ b :> "normal"
MCMaxConcurrent == [interactive |-> 1]
=============================================================================
