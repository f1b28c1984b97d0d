------------------------------ MODULE GuiProofs ------------------------------
(***************************************************************************)
(* Proofs about the two modules of the GUI process. Of SettingsStore, for  *)
(* any number of processes, keys, values and faults: its properties follow *)
(* from four facts, what is true of the file while a save is under way     *)
(* (Truncated), that the only process of a user who runs one at a time     *)
(* remembers the right settings or knows nothing (Remembers, from Alone),  *)
(* and what is true of the file between saves (Kept, Explained). Of        *)
(* GuiClient, for any number of queries, analyses and calls for metrics.   *)
(***************************************************************************)
EXTENDS GuiClient, SettingsStore, FiniteSetTheorems, TLAPS

-----------------------------------------------------------------------------
(* The settings store.                                                     *)

TypeOK ==
  /\ state \in [Processes -> {"down", "up", "saving"}]
  /\ leaving \subseteq Processes
  /\ cache \in [Processes -> Settings]
  /\ file \in [text : Settings \cup {Garbage}, length : Nat]
  /\ faults \in Nat
  /\ wanted \in Settings
  /\ interrupted \in BOOLEAN
  /\ informed \subseteq Processes
  /\ overlapped \in BOOLEAN
  /\ raced \in BOOLEAN

\* A save that no other one runs into finds the file as its open left it.
Truncated ==
  ~raced => \A p \in Saving : file = [text |-> Garbage, length |-> 0] /\ Saving = {p}

\* One process at a time.
Alone == ~overlapped => ~raced /\ \A p, q \in Up : p = q

\* That process has the settings in memory, or loaded an interrupted file.
Remembers ==
  ~overlapped =>
    \A p \in Up : IF p \in informed THEN cache[p] = wanted ELSE interrupted

IInv ==
  /\ TypeOK /\ Truncated /\ Alone /\ Remembers
  /\ SettingsKept /\ GarbageIsExplained

-----------------------------------------------------------------------------
(* The document and its length.                                            *)

LEMMA GarbageIsNoSettings == Garbage \notin Settings /\ Nothing \in Settings
BY SettingsAssumption DEF Settings, Nothing

LEMMA SizeIsNat == \A s : Size(s) \in Nat
<1> TAKE s
<1>1. {k \in Keys : s[k] # Absent} \subseteq Keys
  OBVIOUS
<1> QED
  BY <1>1, FS_Subset, FS_CardinalityType, SettingsAssumption DEF Size

LEMMA LoadedIsSettings == TypeOK => Loaded \in Settings
BY GarbageIsNoSettings DEF TypeOK, Loaded

\* A document that goes over an empty file is the file.
LEMMA WrittenWhole ==
  ASSUME NEW s \in Settings, file.length = 0, WriteOver(s)
  PROVE  file' = [text |-> s, length |-> Size(s)]
BY SizeIsNat DEF WriteOver

-----------------------------------------------------------------------------

LEMMA InitIInv == Init => IInv
<1> SUFFICES ASSUME Init PROVE IInv
  OBVIOUS
<1>1. Up = {} /\ Saving = {}
  BY DEF Init, Up, Saving
<1>2. TypeOK
  BY GarbageIsNoSettings DEF Init, TypeOK
<1> QED
  BY <1>1, <1>2
  DEF IInv, Init, Truncated, Alone, Remembers, SettingsKept, GarbageIsExplained,
      Loaded

\* A process starts.
LEMMA StartIInv ==
  ASSUME IInv, NEW p \in Processes, Start(p)
  PROVE  IInv'
<1>1. TypeOK'
  BY LoadedIsSettings DEF IInv, Start, TypeOK
<1>2. Saving' = Saving /\ Up' = Up \cup {p} /\ p \notin Up
  BY DEF IInv, TypeOK, Start, Saving, Up
<1>3. /\ UNCHANGED <<file, wanted, interrupted, raced>>
      /\ cache' = [cache EXCEPT ![p] = Loaded]
  BY DEF Start
<1>4. Truncated'
  BY <1>2, <1>3 DEF IInv, Truncated
<1>5. ~overlapped' => ~overlapped /\ Up = {}
  BY DEF IInv, TypeOK, Start
<1>6. Alone'
  BY <1>2, <1>3, <1>5 DEF IInv, Alone
<1>7. Remembers'
  <2> SUFFICES ASSUME ~overlapped'
               PROVE  IF p \in informed' THEN cache'[p] = wanted' ELSE interrupted'
    BY <1>2, <1>5 DEF Remembers
  <2>1. Saving = {}
    BY <1>5 DEF Saving, Up
  <2>2. cache'[p] = Loaded
    BY <1>3 DEF IInv, TypeOK
  <2>3. CASE interrupted
    BY <1>3, <2>3 DEF Start
  <2>4. CASE ~interrupted
    BY <1>3, <1>5, <2>1, <2>2, <2>4 DEF IInv, SettingsKept, Start
  <2> QED
    BY <2>3, <2>4
<1>8. SettingsKept'
  BY <1>2, <1>3, <1>5 DEF IInv, SettingsKept, Loaded
<1>9. GarbageIsExplained'
  BY <1>2, <1>3 DEF IInv, GarbageIsExplained
<1> QED
  BY <1>1, <1>4, <1>6, <1>7, <1>8, <1>9 DEF IInv

\* The first half of a save, with what the caller did to the cache.
LEMMA OpensIInv ==
  ASSUME IInv, TypeOK', NEW p \in Processes, state[p] = "up", SaveOpens(p),
         \A q \in Processes \ {p} : cache'[q] = cache[q],
         cache[p] = wanted => cache'[p] = wanted',
         UNCHANGED <<informed, overlapped>>
  PROVE  IInv'
<1>1. /\ Up' = Up /\ p \in Up /\ Saving' = Saving \cup {p} /\ p \notin Saving
      /\ Saving \subseteq Up
  BY DEF IInv, TypeOK, SaveOpens, Saving, Up
<1>2. file' = [text |-> Garbage, length |-> 0]
  BY DEF SaveOpens, OpenTruncates
<1>3. raced' = (raced \/ Saving # {}) /\ interrupted' = interrupted
  BY DEF SaveOpens
<1>4. Truncated'
  BY <1>1, <1>2, <1>3 DEF Truncated
<1>5. Alone'
  BY <1>1, <1>3 DEF IInv, Alone
<1>6. Remembers'
  <2> SUFFICES ASSUME ~overlapped, NEW q \in Up
               PROVE  IF q \in informed THEN cache'[q] = wanted' ELSE interrupted
    BY <1>1, <1>3 DEF Remembers
  <2>1. q = p
    BY <1>1 DEF IInv, Alone
  <2> QED
    BY <2>1 DEF IInv, Remembers
<1>7. SettingsKept' /\ GarbageIsExplained'
  BY <1>1 DEF SettingsKept, GarbageIsExplained
<1> QED
  BY <1>4, <1>5, <1>6, <1>7 DEF IInv

\* The file could not be opened.
LEMMA RefusedIInv ==
  ASSUME IInv, TypeOK', NEW p \in Processes, NEW then \in {"up", "down"},
         state[p] = "up", SaveRefused(p, then),
         \A q \in Processes \ {p} : cache'[q] = cache[q],
         cache[p] = wanted => cache'[p] = wanted',
         UNCHANGED <<informed, overlapped>>
  PROVE  IInv'
<1>1. Up' \subseteq Up /\ p \in Up /\ Saving' = Saving
  BY DEF IInv, TypeOK, SaveRefused, Saving, Up
<1>2. UNCHANGED <<file, raced>> /\ interrupted' = TRUE
  BY DEF SaveRefused
<1>3. Truncated' /\ Alone'
  BY <1>1, <1>2 DEF IInv, Truncated, Alone
<1>4. Remembers'
  <2> SUFFICES ASSUME ~overlapped, NEW q \in Up
               PROVE  q \in informed => cache'[q] = wanted'
    BY <1>1, <1>2 DEF Remembers
  <2>1. q = p
    BY <1>1 DEF IInv, Alone
  <2> QED
    BY <2>1 DEF IInv, Remembers
<1>5. SettingsKept' /\ GarbageIsExplained'
  BY <1>2 DEF SettingsKept, GarbageIsExplained
<1> QED
  BY <1>3, <1>4, <1>5 DEF IInv

\* setValue, remove and clear: the same function changes the cache and what the
\* user wants.
LEMMA ChangeIInv ==
  ASSUME IInv, NEW p \in Processes, NEW new \in [Settings -> Settings],
         Change(p, new)
  PROVE  IInv'
<1>1. /\ state[p] = "up"
      /\ cache' = [cache EXCEPT ![p] = new[cache[p]]]
      /\ wanted' = new[wanted]
      /\ UNCHANGED <<leaving, informed, overlapped>>
  BY DEF Change
<1>2. cache[p] \in Settings /\ wanted \in Settings
  BY DEF IInv, TypeOK
<1>3. /\ cache' \in [Processes -> Settings] /\ wanted' \in Settings
      /\ \A q \in Processes \ {p} : cache'[q] = cache[q]
      /\ cache[p] = wanted => cache'[p] = wanted'
  BY <1>1, <1>2 DEF IInv, TypeOK
<1>4. CASE SaveOpens(p)
  <2>1. TypeOK'
    BY <1>1, <1>3, <1>4 DEF IInv, TypeOK, SaveOpens, OpenTruncates
  <2> QED
    BY <1>1, <1>3, <1>4, <2>1, OpensIInv
<1>5. CASE SaveRefused(p, "up")
  <2>1. TypeOK'
    BY <1>1, <1>3, <1>5 DEF IInv, TypeOK, SaveRefused
  <2> QED
    BY <1>1, <1>3, <1>5, <2>1, RefusedIInv
<1> QED
  BY <1>4, <1>5 DEF Change

LEMMA LeaveIInv ==
  ASSUME IInv, NEW p \in Processes, Leave(p)
  PROVE  IInv'
<1>1. CASE SaveOpens(p) /\ leaving' = leaving \cup {p}
  <2>1. TypeOK'
    BY <1>1 DEF IInv, TypeOK, Leave, SaveOpens, OpenTruncates
  <2> QED
    BY <1>1, <2>1, OpensIInv DEF Leave
<1>2. CASE SaveRefused(p, "down") /\ UNCHANGED leaving
  <2>1. TypeOK'
    BY <1>2 DEF IInv, TypeOK, Leave, SaveRefused
  <2> QED
    BY <1>2, <2>1, RefusedIInv DEF Leave
<1> QED
  BY <1>1, <1>2 DEF Leave

\* A save ends: the whole document goes into the file.
LEMMA ClosesIInv ==
  ASSUME IInv, NEW p \in Processes, SaveCloses(p)
  PROVE  IInv'
<1>1. /\ p \in Saving /\ Saving' = Saving \ {p} /\ Up' \subseteq Up /\ p \in Up
      /\ UNCHANGED <<cache, wanted, informed, overlapped, raced>>
      /\ interrupted' = (interrupted /\ p \notin informed)
  BY DEF IInv, TypeOK, SaveCloses, Closes, Saving, Up
<1>2. cache[p] \in Settings /\ Size(cache[p]) \in Nat
  BY SizeIsNat DEF IInv, TypeOK
<1>3. TypeOK'
  BY <1>1, <1>2 DEF IInv, TypeOK, SaveCloses, Closes, WriteOver
<1>4. ~raced => Saving' = {} /\ file'.text = cache[p]
  <2> SUFFICES ASSUME ~raced PROVE Saving' = {} /\ file'.text = cache[p]
    OBVIOUS
  <2>1. file.length = 0 /\ Saving = {p}
    BY <1>1 DEF IInv, Truncated
  <2> QED
    BY <1>1, <1>2, <2>1, WrittenWhole DEF SaveCloses
<1>5. Truncated' /\ Alone'
  BY <1>1, <1>4 DEF IInv, Truncated, Alone
<1>6. ~overlapped => ~raced /\ Up = {p}
  BY <1>1 DEF IInv, Alone
<1>7. Remembers'
  BY <1>1, <1>6 DEF IInv, Remembers
<1>8. SettingsKept'
  <2> SUFFICES ASSUME ~overlapped, ~interrupted' PROVE Loaded' = wanted
    BY <1>1 DEF SettingsKept
  <2>1. cache[p] = wanted
    BY <1>1, <1>6 DEF IInv, Remembers
  <2> QED
    BY <1>2, <1>4, <1>6, <2>1, GarbageIsNoSettings DEF Loaded
<1>9. GarbageIsExplained'
  BY <1>1, <1>2, <1>4, GarbageIsNoSettings DEF GarbageIsExplained
<1> QED
  BY <1>3, <1>5, <1>7, <1>8, <1>9 DEF IInv

\* A save that goes wrong, and a death, interrupt what is under way.
LEMMA FaultIInv ==
  ASSUME IInv, NEW p \in Processes, SaveFails(p) \/ Crash(p)
  PROVE  IInv'
<1>1. /\ Saving' = Saving \ {p} /\ Up' \subseteq Up
      /\ UNCHANGED <<cache, wanted, informed, overlapped, raced>>
      /\ interrupted' = (interrupted \/ p \in Saving)
  BY DEF IInv, TypeOK, SaveFails, Crash, Closes, Saving, Up
<1>2. TypeOK' /\ (p \notin Saving => file' = file)
  <2>1. CASE SaveFails(p)
    BY <2>1 DEF IInv, TypeOK, SaveFails, Closes, Saving
  <2>2. CASE Crash(p)
    BY <2>2 DEF IInv, TypeOK, Crash
  <2> QED
    BY <2>1, <2>2
<1>3. Truncated'
  BY <1>1, <1>2 DEF IInv, Truncated
<1>4. Alone' /\ Remembers'
  BY <1>1 DEF IInv, Alone, Remembers
<1>5. CASE p \in Saving
  BY <1>1, <1>2, <1>3, <1>4, <1>5 DEF IInv, SettingsKept, GarbageIsExplained
<1>6. CASE p \notin Saving
  <2>1. Saving' = Saving /\ Loaded' = Loaded
    BY <1>1, <1>2, <1>6 DEF Loaded
  <2>2. SettingsKept' /\ GarbageIsExplained'
    BY <1>1, <1>2, <1>6, <2>1 DEF IInv, SettingsKept, GarbageIsExplained
  <2> QED
    BY <1>2, <1>3, <1>4, <2>2 DEF IInv
<1> QED
  BY <1>5, <1>6

LEMMA NextIInv == IInv /\ [Next]_vars => IInv'
<1> SUFFICES ASSUME IInv, [Next]_vars PROVE IInv'
  OBVIOUS
<1>1. CASE UNCHANGED vars
  BY <1>1
  DEF IInv, vars, TypeOK, Truncated, Alone, Remembers, SettingsKept,
      GarbageIsExplained, Loaded, Up, Saving
<1>2. ASSUME NEW p \in Processes, NEW k \in Keys, NEW v \in Values,
             SetValue(p, k, v)
      PROVE  IInv'
  <2>1. [s \in Settings |-> [s EXCEPT ![k] = v]] \in [Settings -> Settings]
    BY DEF Settings
  <2> QED
    BY <1>2, <2>1, ChangeIInv DEF SetValue
<1>3. ASSUME NEW p \in Processes, NEW k \in Keys, Remove(p, k)
      PROVE  IInv'
  <2>1. [s \in Settings |-> [s EXCEPT ![k] = Absent]] \in [Settings -> Settings]
    BY DEF Settings
  <2> QED
    BY <1>3, <2>1, ChangeIInv DEF Remove
<1>4. ASSUME NEW p \in Processes, Clear(p)
      PROVE  IInv'
  <2>1. [s \in Settings |-> Nothing] \in [Settings -> Settings]
    BY GarbageIsNoSettings
  <2> QED
    BY <1>4, <2>1, ChangeIInv DEF Clear
<1> QED
  BY <1>1, <1>2, <1>3, <1>4, StartIInv, LeaveIInv, ClosesIInv, FaultIInv DEF Next

LEMMA Invariance == Spec => []IInv
BY InitIInv, NextIInv, PTL DEF Spec

-----------------------------------------------------------------------------

\* With one process at a time, a restart finds the settings as they were last
\* changed, whatever crashed outside a save and whichever saves failed before a
\* later one succeeded.
THEOREM RestartFindsSettings == Spec => []SettingsKept
<1>1. IInv => SettingsKept
  BY DEF IInv
<1> QED
  BY <1>1, Invariance, PTL

\* A process that loaded an intact file remembers what the user asked for.
THEOREM MemoryHolds == Spec => []MemoryIsRight
<1>1. IInv => MemoryIsRight
  BY DEF IInv, Remembers, MemoryIsRight
<1> QED
  BY <1>1, Invariance, PTL

\* Between saves, an unreadable file has an interrupted save or two racing ones
\* as its cause, also when several processes are up.
THEOREM OnlyTwoCausesOfGarbage == Spec => []GarbageIsExplained
<1>1. IInv => GarbageIsExplained
  BY DEF IInv
<1> QED
  BY <1>1, Invariance, PTL

-----------------------------------------------------------------------------
(* The overlay.                                                            *)

\* As long as no analysis was answered in place of a query, at most one query
\* is on its way: the one the overlay is waiting for.
OneAsked ==
  ~crossed => \A q \in asking \cap Queries : q = current /\ loading

\* Waiting, the overlay listens, and shows nothing.
WaitsEmpty == loading => subscribed /\ response = Nobody

OverlayInv ==
  /\ asking \subseteq Queries \cup Analyses
  /\ loading \in BOOLEAN
  /\ OneAsked /\ WaitsEmpty /\ AnswerMatchesQuery /\ StuckOnlyAfterError

LEMMA OverlayInit == GuiInit => OverlayInv
BY GuiAssumption
DEF GuiInit, OverlayInv, OneAsked, WaitsEmpty, AnswerMatchesQuery, StuckOnlyAfterError

\* The overlay, and the replies it gets.
LEMMA OverlayStep ==
  ASSUME OverlayInv,
         \/ \E q \in Queries : SubmitQuery(q)
         \/ \E c \in Queries \cup Analyses : SummarizeFinished(c) \/ SummarizeFails(c)
  PROVE  OverlayInv'
<1> USE GuiAssumption
    DEF OverlayInv, OneAsked, WaitsEmpty, AnswerMatchesQuery, StuckOnlyAfterError
<1>1. ASSUME NEW q \in Queries, SubmitQuery(q) PROVE OverlayInv'
  BY <1>1 DEF SubmitQuery
<1>2. ASSUME NEW c \in Queries \cup Analyses, SummarizeFinished(c) PROVE OverlayInv'
  <2>1. CASE subscribed
    BY <1>2, <2>1 DEF SummarizeFinished, OnSummarizeResponse
  <2>2. CASE ~subscribed
    BY <1>2, <2>2 DEF SummarizeFinished, OnSummarizeResponse
  <2> QED BY <2>1, <2>2
<1>3. ASSUME NEW c \in Queries \cup Analyses, SummarizeFails(c) PROVE OverlayInv'
  BY <1>3 DEF SummarizeFails
<1> QED BY <1>1, <1>2, <1>3

LEMMA OverlayNext == OverlayInv /\ [GuiNext]_guiVars => OverlayInv'
<1> SUFFICES ASSUME OverlayInv, [GuiNext]_guiVars PROVE OverlayInv'
  OBVIOUS
<1>1. ASSUME NEW a \in Analyses, RequestAiAnalysis(a) PROVE OverlayInv'
  BY <1>1, GuiAssumption
  DEF RequestAiAnalysis, OverlayInv, OneAsked, WaitsEmpty, AnswerMatchesQuery,
      StuckOnlyAfterError
<1>2. CASE UNCHANGED overlayVars
  BY <1>2
  DEF overlayVars, OverlayInv, OneAsked, WaitsEmpty, AnswerMatchesQuery,
      StuckOnlyAfterError
<1>3. \/ \E q \in Queries : SubmitQuery(q)
      \/ \E c \in Queries \cup Analyses : SummarizeFinished(c) \/ SummarizeFails(c)
      \/ \E a \in Analyses : RequestAiAnalysis(a)
      \/ UNCHANGED overlayVars
  BY DEF GuiNext, ToggleOverlay, RefreshMetrics, MetricsReceived, MetricsWithoutRate,
         ClearHistory, guiVars
<1> QED BY <1>1, <1>2, <1>3, OverlayStep

LEMMA OverlayInvariance == GuiSpec => []OverlayInv
BY OverlayInit, OverlayNext, PTL DEF GuiSpec

\* Before the first analysis that is answered while a query is loading, the
\* overlay never displays the answer to another query.
THEOREM AnswerMatches == GuiSpec => []AnswerMatchesQuery
<1>1. OverlayInv => AnswerMatchesQuery
  BY DEF OverlayInv
<1> QED BY <1>1, OverlayInvariance, PTL

\* And only an error leaves it loading with nothing on its way.
THEOREM StuckIsExplained == GuiSpec => []StuckOnlyAfterError
<1>1. OverlayInv => StuckOnlyAfterError
  BY DEF OverlayInv
<1> QED BY <1>1, OverlayInvariance, PTL

-----------------------------------------------------------------------------
(* The metrics view.                                                       *)

HistoryInv ==
  /\ rates \in Seq(Nat) /\ received \in Seq(Nat)
  /\ fetching \subseteq Nat /\ fetches \in Nat
  /\ HistoryIsLatest

\* A rate is appended, and what is over the limit dropped from the front.
LEMMA ReceivedStep ==
  ASSUME HistoryInv, NEW n \in Nat, MetricsReceived(n)
  PROVE  HistoryInv'
<1> USE GuiAssumption
<1> DEFINE longer == Append(rates, n)
<1> DEFINE have == Len(rates)
           seen == Len(received)
<1>0. /\ have \in Nat /\ seen \in Nat /\ have <= HistoryLimit /\ have <= seen
      /\ have = IF seen > HistoryLimit THEN HistoryLimit ELSE seen
      /\ \A i \in 1..have : rates[i] = received[seen - have + i]
  <2>1. have \in Nat /\ seen \in Nat /\ DOMAIN rates = 1..have /\ HistoryLimit \in Nat
    BY DEF HistoryInv
  <2>2. /\ have = IF seen > HistoryLimit THEN HistoryLimit ELSE seen
        /\ \A i \in DOMAIN rates : rates[i] = received[seen - have + i]
    BY DEF HistoryInv, HistoryIsLatest
  <2> HIDE DEF have, seen
  <2> QED BY <2>1, <2>2
<1>1. /\ longer \in Seq(Nat) /\ Len(longer) = have + 1
      /\ longer[have + 1] = n
      /\ \A i \in 1..have : longer[i] = rates[i]
  BY DEF HistoryInv
<1>2. /\ received' \in Seq(Nat) /\ Len(received') = seen + 1
      /\ received'[seen + 1] = n
      /\ \A i \in 1..seen : received'[i] = received[i]
  BY DEF HistoryInv, MetricsReceived
<1>3. rates' = Trimmed(longer) /\ fetching' \subseteq Nat /\ fetches' \in Nat
  BY DEF HistoryInv, MetricsReceived
<1> HIDE DEF longer, have, seen
\* What is appended to the history continues the rates received.
<1>4. \A i \in 1..(have + 1) : longer[i] = received'[seen - have + i]
  <2> SUFFICES ASSUME NEW i \in 1..(have + 1)
               PROVE  longer[i] = received'[seen - have + i]
    OBVIOUS
  <2>1. CASE i = have + 1
    BY <1>0, <1>1, <1>2, <2>1
  <2>2. CASE i \in 1..have
    <3>1. seen - have + i \in 1..seen
      BY <1>0, <2>2
    <3> QED BY <1>0, <1>1, <1>2, <2>2, <3>1
  <2> QED BY <1>0, <2>1, <2>2
<1>5. /\ rates' \in Seq(Nat)
      /\ Len(rates') = IF seen + 1 > HistoryLimit THEN HistoryLimit ELSE seen + 1
      /\ \A i \in 1..Len(rates') :
           rates'[i] = received'[seen + 1 - Len(rates') + i]
  <2>1. CASE have + 1 > HistoryLimit
    <3>1. have = HistoryLimit /\ seen + 1 > HistoryLimit
      BY <1>0, <2>1
    <3>2. rates' = SubSeq(longer, 2, have + 1)
      <4>1. Len(longer) - HistoryLimit + 1 = 2 /\ Len(longer) > HistoryLimit
        BY <1>0, <1>1, <3>1
      <4> QED BY <1>1, <1>3, <4>1 DEF Trimmed
    <3>3. /\ rates' \in Seq(Nat) /\ Len(rates') = have
          /\ \A i \in 1..have : rates'[i] = longer[i + 1]
      BY <1>0, <1>1, <3>2
    <3>4. \A i \in 1..have : rates'[i] = received'[seen + 1 - have + i]
      <4> SUFFICES ASSUME NEW i \in 1..have
                   PROVE  rates'[i] = received'[seen + 1 - have + i]
        OBVIOUS
      <4>1. i + 1 \in 1..(have + 1) /\ seen - have + (i + 1) = seen + 1 - have + i
        BY <1>0
      <4>2. longer[i + 1] = received'[seen - have + (i + 1)]
        BY <1>4, <4>1
      <4> QED BY <3>3, <4>1, <4>2
    <3> QED BY <3>1, <3>3, <3>4
  <2>2. CASE ~(have + 1 > HistoryLimit)
    <3>1. rates' = longer
      BY <1>1, <1>3, <2>2 DEF Trimmed
    <3>2. have = seen
      BY <1>0, <2>2
    <3> QED BY <1>0, <1>1, <1>4, <2>2, <3>1, <3>2
  <2> QED BY <2>1, <2>2
<1>6. DOMAIN rates' = 1..Len(rates')
  BY <1>5
<1>7. HistoryIsLatest'
  <2>1. Len(received') = seen + 1
    BY <1>2
  <2>2. Len(rates') = IF Len(received') > HistoryLimit THEN HistoryLimit
                      ELSE Len(received')
    BY <1>5, <2>1, Zenon
  <2>3. \A i \in DOMAIN rates' :
          rates'[i] = received'[Len(received') - Len(rates') + i]
    <3> SUFFICES ASSUME NEW i \in DOMAIN rates'
                 PROVE  rates'[i] = received'[Len(received') - Len(rates') + i]
      OBVIOUS
    <3>1. i \in 1..Len(rates')
      BY <1>6
    <3>2. rates'[i] = received'[seen + 1 - Len(rates') + i]
      BY <1>5, <3>1
    <3>3. Len(rates') \in Nat /\ i \in Nat
      BY <1>5, <3>1
    <3>4. seen + 1 - Len(rates') + i = Len(received') - Len(rates') + i
      BY <1>0, <2>1, <3>3
    <3> QED BY <3>2, <3>4, Zenon
  <2> QED BY <2>2, <2>3, Zenon DEF HistoryIsLatest
<1> QED BY <1>2, <1>3, <1>5, <1>7 DEF HistoryInv

LEMMA HistoryStep == HistoryInv /\ [GuiNext]_guiVars => HistoryInv'
<1> SUFFICES ASSUME HistoryInv, [GuiNext]_guiVars PROVE HistoryInv'
  OBVIOUS
<1>1. ASSUME NEW n \in 1..MaxFetches, MetricsReceived(n) PROVE HistoryInv'
  BY <1>1, ReceivedStep, GuiAssumption
<1>2. ASSUME NEW n \in 1..MaxFetches, MetricsWithoutRate(n) PROVE HistoryInv'
  BY <1>2 DEF MetricsWithoutRate, HistoryInv, HistoryIsLatest
<1>3. CASE RefreshMetrics
  BY <1>3 DEF RefreshMetrics, HistoryInv, HistoryIsLatest
<1>4. CASE ClearHistory
  BY <1>4, GuiAssumption DEF ClearHistory, HistoryInv, HistoryIsLatest
<1>5. CASE UNCHANGED metricsVars
  BY <1>5 DEF metricsVars, HistoryInv, HistoryIsLatest
<1>6. \/ \E n \in 1..MaxFetches : MetricsReceived(n) \/ MetricsWithoutRate(n)
      \/ RefreshMetrics \/ ClearHistory \/ UNCHANGED metricsVars
  BY DEF GuiNext, ToggleOverlay, SubmitQuery, SummarizeFinished, SummarizeFails,
         RequestAiAnalysis, guiVars
<1> QED BY <1>1, <1>2, <1>3, <1>4, <1>5, <1>6

\* The history shown is what came last since it was cleared, for any limit and
\* any number of calls, in whatever order they are answered.
THEOREM HistoryShowsLatest == GuiSpec => []HistoryIsLatest
<1>1. GuiInit => HistoryInv
  BY GuiAssumption DEF GuiInit, HistoryInv, HistoryIsLatest
<1>2. HistoryInv => HistoryIsLatest
  BY DEF HistoryInv
<1> QED BY <1>1, <1>2, HistoryStep, PTL DEF GuiSpec
=============================================================================
