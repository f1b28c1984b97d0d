--------------------------- MODULE SettingsStore ---------------------------
(***************************************************************************)
(* SettingsStore of the GUI (app/src/settings_store.cpp): a cache of all   *)
(* settings, loaded once from settings.json by the constructor and saved   *)
(* to it whole after every change and by the destructor.                   *)
(*                                                                         *)
(* A save opens the file, which truncates it, and writes the document when *)
(* the file is closed: two steps, and what happens in between is what this *)
(* module is about. The process may die there, the disk may be full, and   *)
(* nothing stops a second GUI process from using the same file.            *)
(*                                                                         *)
(* A document is as long as the number of its keys. A document that is     *)
(* written over a longer one leaves the end of that behind.                *)
(***************************************************************************)
EXTENDS Naturals, FiniteSets

CONSTANTS
  Processes,  \* GUI processes of the user
  Keys,
  Values,
  Absent,     \* the value of a key that is not set
  Garbage,    \* a text that is no JSON document, the empty text included
  MaxFaults   \* bound on the number of crashes and failed saves

ASSUME SettingsAssumption ==
  /\ Absent \notin Values
  /\ Garbage \notin [Keys -> Values \cup {Absent}]
  /\ IsFiniteSet(Keys)
  /\ MaxFaults \in Nat

VARIABLES
  state,       \* state[p]: "down", "up", or "saving" between open and close
  leaving,     \* the processes whose destructor runs
  cache,       \* d->cache
  file,        \* settings.json: its text and its length
  faults,      \* number of crashes and failed saves
  \* history:
  wanted,      \* the settings after the last change asked of any process
  interrupted, \* a save failed, and no complete one mended the file
  informed,    \* processes that loaded the file when it was not interrupted
  overlapped,  \* two processes have been up at the same time
  raced        \* two saves have been under way at the same time

vars == <<state, leaving, cache, file, faults, wanted, interrupted, informed,
          overlapped, raced>>

Settings == [Keys -> Values \cup {Absent}]
Nothing == [k \in Keys |-> Absent]
Size(s) == Cardinality({k \in Keys : s[k] # Absent})

Up == {p \in Processes : state[p] # "down"}
Saving == {p \in Processes : state[p] = "saving"}

LoadForgotten == Nothing                                         \* mutant
\* load: a file that is missing or is no JSON object gives an empty cache.
Loaded == IF file.text = Garbage THEN Nothing ELSE file.text

\* The file does not exist: like an empty one.
Init ==
  /\ state = [p \in Processes |-> "down"] /\ leaving = {}
  /\ cache = [p \in Processes |-> Nothing]
  /\ file = [text |-> Garbage, length |-> 0]
  /\ faults = 0
  /\ wanted = Nothing /\ interrupted = FALSE /\ informed = {}
  /\ overlapped = FALSE /\ raced = FALSE

-----------------------------------------------------------------------------
(* The two halves of save, as parts of the actions.                        *)

\* QFile::open with WriteOnly: the old text is gone.
OpenKeepsText == UNCHANGED file                                  \* mutant
OpenTruncates == file' = [text |-> Garbage, length |-> 0]

\* The document goes over what the file holds by now.
WriteOver(s) ==
  file' = [text   |-> IF Size(s) >= file.length THEN s ELSE Garbage,
           length |-> IF Size(s) >= file.length THEN Size(s) ELSE file.length]

SaveOpens(p) ==
  /\ state' = [state EXCEPT ![p] = "saving"]
  /\ OpenTruncates
  /\ raced' = (raced \/ Saving # {})
  /\ UNCHANGED <<faults, interrupted>>

\* The file cannot be opened: save does nothing and says nothing.
SaveRefused(p, then) ==
  /\ faults < MaxFaults /\ faults' = faults + 1
  /\ state' = [state EXCEPT ![p] = then]
  /\ interrupted' = TRUE
  /\ UNCHANGED <<file, raced>>

-----------------------------------------------------------------------------

\* The constructor.
Start(p) ==
  /\ state[p] = "down"
  /\ state' = [state EXCEPT ![p] = "up"]
  /\ cache' = [cache EXCEPT ![p] = Loaded]
  /\ informed' = IF interrupted THEN informed \ {p} ELSE informed \cup {p}
  /\ overlapped' = (overlapped \/ Up # {})
  /\ UNCHANGED <<leaving, file, faults, wanted, interrupted, raced>>

\* setValue, remove and clear change the cache, then save.
ChangeWithoutSave(p, new) ==                                     \* mutant
  /\ state[p] = "up"
  /\ cache' = [cache EXCEPT ![p] = new[cache[p]]]
  /\ wanted' = new[wanted]
  /\ UNCHANGED <<state, leaving, file, faults, interrupted, informed, overlapped,
                 raced>>
Change(p, new) ==
  /\ state[p] = "up"
  /\ cache' = [cache EXCEPT ![p] = new[cache[p]]]
  /\ wanted' = new[wanted]
  /\ UNCHANGED <<leaving, informed, overlapped>>
  /\ SaveOpens(p) \/ SaveRefused(p, "up")

SetValue(p, k, v) == Change(p, [s \in Settings |-> [s EXCEPT ![k] = v]])
Remove(p, k) == Change(p, [s \in Settings |-> [s EXCEPT ![k] = Absent]])
Clear(p) == Change(p, [s \in Settings |-> Nothing])

\* The destructor saves.
Leave(p) ==
  /\ state[p] = "up"
  /\ \/ SaveOpens(p) /\ leaving' = leaving \cup {p}
     \/ SaveRefused(p, "down") /\ UNCHANGED leaving
  /\ UNCHANGED <<cache, wanted, informed, overlapped>>

Closes(p) ==
  /\ state' = [state EXCEPT ![p] = IF p \in leaving THEN "down" ELSE "up"]
  /\ leaving' = leaving \ {p}

\* The file is closed and the document in it.
SaveCloses(p) ==
  /\ state[p] = "saving"
  /\ Closes(p)
  /\ WriteOver(cache[p])
  /\ interrupted' = (interrupted /\ p \notin informed)
  /\ UNCHANGED <<cache, faults, wanted, informed, overlapped, raced>>

\* The disk is full: a part of the document is written, with no error.
SaveFails(p) ==
  /\ state[p] = "saving"
  /\ faults < MaxFaults /\ faults' = faults + 1
  /\ Closes(p)
  /\ file' = [file EXCEPT !.text = Garbage]
  /\ interrupted' = TRUE
  /\ UNCHANGED <<cache, wanted, informed, overlapped, raced>>

Crash(p) ==
  /\ state[p] # "down"
  /\ faults < MaxFaults /\ faults' = faults + 1
  /\ state' = [state EXCEPT ![p] = "down"]
  /\ leaving' = leaving \ {p}
  /\ interrupted' = (interrupted \/ state[p] = "saving")
  /\ UNCHANGED <<cache, file, wanted, informed, overlapped, raced>>

Next ==
  \E p \in Processes :
    \/ Start(p) \/ Leave(p) \/ SaveCloses(p) \/ SaveFails(p) \/ Crash(p)
    \/ \E k \in Keys : Remove(p, k) \/ \E v \in Values : SetValue(p, k, v)
    \/ Clear(p)

Spec == Init /\ [][Next]_vars

-----------------------------------------------------------------------------
(* Properties.                                                             *)

\* As long as one process at a time uses the file, a restart finds the
\* settings as they were last changed: clean exits, crashes outside a save and
\* failed saves that a later one mended lose nothing.
SettingsKept ==
  ~overlapped /\ ~interrupted /\ Saving = {} => Loaded = wanted

\* A process that loaded an intact file has in memory what the user asked for,
\* whatever its saves do, and so its next complete save mends the file.
MemoryIsRight ==
  ~overlapped => \A p \in Up \cap informed : cache[p] = wanted

\* With no save under way, the file is unreadable only because of a save that
\* failed or of two that ran into each other.
GarbageIsExplained ==
  Saving = {} /\ file.text = Garbage => interrupted \/ raced \/ wanted = Nothing
=============================================================================
