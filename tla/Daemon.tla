------------------------------- MODULE Daemon -------------------------------
(***************************************************************************)
(* The three specifications of the daemon and its store that one run       *)
(* checks and one module of proofs is about: the life of main (DaemonLife, *)
(* extended), the constructor of the store (StoreOpen) and the writes of   *)
(* the open store (NoteStore).                                             *)
(*                                                                         *)
(* They share no variable. In main the constructor is one step of stage    *)
(* "open", which succeeds or throws; StoreOpen says what goes on in it, on *)
(* a database that several daemons use. With the schema and the statements *)
(* as they are it always throws, and main always ends there: the stages    *)
(* after it, and NoteStore, are the daemon once the two agree.             *)
(***************************************************************************)
EXTENDS DaemonLife, Sequences

CONSTANTS
  Daemons, Objects,            \* of StoreOpen
  Threads, Windows, MaxNotes   \* of NoteStore

VARIABLES
  pc, next, exists, version, late, refused,  \* of StoreOpen
  doing, bound, windows, notes, lastRow      \* of NoteStore

Store == INSTANCE StoreOpen
Writes == INSTANCE NoteStore

ASSUME DaemonAssumption ==
  /\ Store!StoreAssumption
  /\ Windows \subseteq Nat /\ MaxNotes \in Nat

-----------------------------------------------------------------------------
(* The properties of the store, under their names in its modules.          *)

\* The version is set only on a whole schema.
VersionMeansComplete == Store!VersionMeansComplete

\* A database with a part of the schema is never completed.
NeverCompleted == Store!NeverCompleted

\* insertNote returns the id of its own row.
OwnRow == Writes!OwnRow

\* The documented constructor, which the code does not have.
StatementsPrepared == Store!StatementsPrepared
=============================================================================
