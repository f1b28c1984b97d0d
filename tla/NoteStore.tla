----------------------------- MODULE NoteStore -----------------------------
(***************************************************************************)
(* The writes of an open SqliteStore (daemon/src/store/sqlite_store.cpp):  *)
(* insertNote and insertWindowEvent on one connection, with one prepared   *)
(* statement each, called from several threads under mutex_. What SQLite   *)
(* keeps for the connection is shared: the values bound to a statement and *)
(* the row that was inserted last, by either of them.                      *)
(*                                                                         *)
(* The constructor of StoreOpen never returns with the statements and the  *)
(* schema as they are: this is the store once they agree with each other,  *)
(* the column names of the schema replaced by those in the code. What is   *)
(* checked here, the work of the mutex, does not depend on the names.      *)
(* queryNotes, getStats and vacuum change none of this.                    *)
(***************************************************************************)
EXTENDS Naturals, Sequences

CONSTANTS
  Threads,  \* callers
  Windows,  \* ids of windows, numbers as those of notes are
  MaxNotes  \* bound on the number of notes

VARIABLES
  doing,    \* of each thread: where it is in a call, and its argument
  bound,    \* the window bound to insertNoteStmt_ and to insertWindowStmt_
  windows,  \* rows of windows
  notes,    \* rows of notes, by id (AUTOINCREMENT): the window of each
  lastRow   \* sqlite3_last_insert_rowid

vars == <<doing, bound, windows, notes, lastRow>>

Idle == [at |-> "idle", window |-> 0]

Init ==
  /\ doing = [t \in Threads |-> Idle]
  /\ bound = [note |-> 0, window |-> 0]
  /\ windows = {} /\ notes = <<>> /\ lastRow = 0

NoMutex == TRUE                                                  \* mutant
MutexFree == \A t \in Threads : doing[t] = Idle

Goes(t, at) == doing' = [doing EXCEPT ![t].at = at]
Returns(t) == doing' = [doing EXCEPT ![t] = Idle]

\* insertNote: take the mutex, reset and bind; the results of the calls of bind
\* are not looked at.
InsertNote(t, w) ==
  /\ doing[t] = Idle /\ MutexFree
  /\ doing' = [doing EXCEPT ![t] = [at |-> "note", window |-> w]]
  /\ bound' = [bound EXCEPT !.note = w]
  /\ UNCHANGED <<windows, notes, lastRow>>

\* sqlite3_step inserts, if the window is there: the schema says REFERENCES,
\* and turns foreign keys on for the connection that executes it.
StepNote(t) ==
  /\ doing[t].at = "note" /\ Len(notes) < MaxNotes
  /\ bound.note \in windows
  /\ notes' = Append(notes, bound.note)
  /\ lastRow' = Len(notes) + 1
  /\ Goes(t, "inserted")
  /\ UNCHANGED <<bound, windows>>

\* return sqlite3_last_insert_rowid, still under the mutex.
ReturnsId(t) ==
  /\ doing[t].at = "inserted"
  /\ Returns(t)
  /\ UNCHANGED <<bound, windows, notes, lastRow>>

InsertWindowEvent(t, w) ==
  /\ doing[t] = Idle /\ MutexFree
  /\ doing' = [doing EXCEPT ![t] = [at |-> "window", window |-> w]]
  /\ bound' = [bound EXCEPT !.window = w]
  /\ UNCHANGED <<windows, notes, lastRow>>

\* A new window is an insertion, a known one an update.
StepWindow(t) ==
  /\ doing[t].at = "window"
  /\ windows' = windows \cup {bound.window}
  /\ lastRow' = IF bound.window \in windows THEN lastRow ELSE bound.window
  /\ Returns(t)
  /\ UNCHANGED <<bound, notes>>

\* The step fails (no such window, a lock, a full disk): reset and throw, which
\* frees the mutex.
Throws(t) ==
  /\ doing[t].at \in {"note", "window"}
  /\ Returns(t)
  /\ UNCHANGED <<bound, windows, notes, lastRow>>

Next ==
  \E t \in Threads :
    \/ \E w \in Windows : InsertNote(t, w) \/ InsertWindowEvent(t, w)
    \/ StepNote(t) \/ ReturnsId(t) \/ StepWindow(t) \/ Throws(t)

Spec == Init /\ [][Next]_vars

-----------------------------------------------------------------------------
(* Property.                                                               *)

\* The id that insertNote returns is that of the row with the values it was
\* called with, whatever the other threads bind and insert at that time.
OwnRow ==
  [][\A t \in Threads :
       ReturnsId(t) => lastRow \in DOMAIN notes /\ notes[lastRow] = doing[t].window]_vars
=============================================================================
