------------------------------- MODULE MCGui -------------------------------
(***************************************************************************)
(* One run for the two specifications of the GUI process: GuiClient, what  *)
(* it shows of the daemon, and SettingsStore, what it keeps. They share no *)
(* variable, so a behaviour is one of the part that is chosen at the       *)
(* start, while the variables of the other keep their initial values. The  *)
(* properties of a part are then checked on all of its behaviours.         *)
(***************************************************************************)
EXTENDS GuiClient, SettingsStore, TLC

VARIABLE part

MCInit == part \in {"client", "settings"} /\ GuiInit /\ Init

MCNext ==
  \/ part = "client" /\ GuiNext /\ UNCHANGED <<vars, part>>
  \/ part = "settings" /\ Next /\ UNCHANGED <<guiVars, part>>

MCSpec == MCInit /\ [][MCNext]_<<guiVars, vars, part>>

Symmetry ==
  UNION {Permutations(S) : S \in {Queries, Analyses, Processes, Keys}}
=============================================================================
