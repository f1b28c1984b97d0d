------------------------------ MODULE MCDaemon ------------------------------
(***************************************************************************)
(* One run for the three specifications of Daemon. They share no variable, *)
(* so a behaviour is one of the part that is chosen at the start, while    *)
(* the variables of the others keep their initial values. The properties   *)
(* of a part are then checked on all of its behaviours.                    *)
(***************************************************************************)
EXTENDS Daemon

VARIABLE part

lifeVars == vars
storeVars == <<pc, next, exists, version, late, refused>>
noteVars == <<doing, bound, windows, notes, lastRow>>

MCInit ==
  /\ part \in {"life", "open", "writes"}
  /\ Init /\ Store!Init /\ Writes!Init

LivesOn == part = "life" /\ MainStep /\ UNCHANGED <<storeVars, noteVars, part>>

MCNext ==
  \/ part = "life" /\ Next /\ UNCHANGED <<storeVars, noteVars, part>>
  \/ part = "open" /\ Store!Next /\ UNCHANGED <<lifeVars, noteVars, part>>
  \/ part = "writes" /\ Writes!Next /\ UNCHANGED <<lifeVars, storeVars, part>>

\* The fairness of DaemonLife.
MCSpec ==
  /\ MCInit /\ [][MCNext]_<<lifeVars, storeVars, noteVars, part>>
  /\ WF_<<lifeVars, storeVars, noteVars, part>>(LivesOn)
=============================================================================
