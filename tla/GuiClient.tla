----------------------------- MODULE GuiClient -----------------------------
(***************************************************************************)
(* The GUI process (app/src): OverlayController and MetricsView on one     *)
(* ApiClient. Every call of the daemon is asynchronous; its reply reaches  *)
(* a slot of ApiClient, which emits a signal that names neither the call   *)
(* nor the caller, or the signal error, which nobody listens to.           *)
(*                                                                         *)
(* One thread: a slot, with every slot that its signals call, is one       *)
(* action. Outside the code: the daemon answers or fails, in any order.    *)
(* (Init, Next and Spec are GuiInit, GuiNext and GuiSpec, for GuiProofs is *)
(* about SettingsStore as well.)                                           *)
(***************************************************************************)
EXTENDS Naturals, Sequences

CONSTANTS
  Queries,      \* what the user types into the overlay
  Analyses,     \* calls of requestAiAnalysis
  Nobody,       \* no query yet, or an empty response_
  HistoryLimit, \* 100 in onMetricsReceived
  MaxFetches    \* bound on the number of metrics requests

ASSUME GuiAssumption ==
  /\ Queries \cap Analyses = {} /\ Nobody \notin Queries \cup Analyses
  /\ HistoryLimit \in Nat \ {0} /\ MaxFetches \in Nat

VARIABLES
  visible,    \* visible_ of the overlay
  loading,    \* loading_
  response,   \* response_: what it is the answer to, or Nobody
  subscribed, \* onSummarizeResponse is connected to summarizeComplete
  asking,     \* summarize calls without a reply
  fetching,   \* fetchMetrics calls without a reply, numbered
  rates,      \* note_rate_history_: the number of the call each came from
  fetches,    \* number of fetchMetrics calls
  \* history:
  current,    \* the query submitted last
  failed,     \* its reply was an error
  crossed,    \* an analysis was answered while a query was loading
  received    \* all that came into the history since it was cleared

overlayVars == <<loading, response, subscribed, asking, current, failed,
                 crossed>>
metricsVars == <<fetching, rates, fetches, received>>
guiVars == <<visible, overlayVars, metricsVars>>

\* MetricsView fetches once when it is constructed.
GuiInit ==
  /\ visible = FALSE /\ loading = FALSE /\ response = Nobody
  /\ subscribed = FALSE /\ asking = {}
  /\ fetching = {1} /\ fetches = 1 /\ rates = <<>> /\ received = <<>>
  /\ current = Nobody /\ failed = FALSE /\ crossed = FALSE

-----------------------------------------------------------------------------
(* The overlay.                                                            *)

ToggleOverlay ==
  /\ visible' = ~visible
  /\ UNCHANGED <<overlayVars, metricsVars>>

\* submitQuery; it returns at once while a query is loading.
SubmitWhileLoading(q) ==                                         \* mutant
  /\ q \notin asking
  /\ loading' = TRUE /\ response' = Nobody /\ subscribed' = TRUE
  /\ asking' = asking \cup {q}
  /\ current' = q /\ failed' = FALSE
  /\ UNCHANGED <<visible, crossed, metricsVars>>
SubmitQuery(q) ==
  /\ ~loading /\ q \notin asking
  /\ loading' = TRUE /\ response' = Nobody /\ subscribed' = TRUE
  /\ asking' = asking \cup {q}
  /\ current' = q /\ failed' = FALSE
  /\ UNCHANGED <<visible, crossed, metricsVars>>

\* summarizeComplete reaches onSummarizeResponse, whoever asked.
KeepLoading(c) ==                                                \* mutant
  IF subscribed THEN response' = c /\ loading' = loading
  ELSE UNCHANGED <<response, loading>>
OnSummarizeResponse(c) ==
  IF subscribed THEN response' = c /\ loading' = FALSE
  ELSE UNCHANGED <<response, loading>>

SummarizeFinished(c) ==
  /\ c \in asking
  /\ asking' = asking \ {c}
  /\ OnSummarizeResponse(c)
  /\ crossed' = (crossed \/ (c \in Analyses /\ loading))
  /\ UNCHANGED <<visible, subscribed, current, failed, metricsVars>>

\* The reply is an error: ApiClient emits error.
SummarizeFails(c) ==
  /\ c \in asking
  /\ asking' = asking \ {c}
  /\ failed' = (failed \/ c = current)
  /\ UNCHANGED <<visible, loading, response, subscribed, current, crossed,
                 metricsVars>>

-----------------------------------------------------------------------------
(* The metrics view.                                                       *)

RequestAiAnalysis(a) ==
  /\ a \notin asking
  /\ asking' = asking \cup {a}
  /\ UNCHANGED <<visible, loading, response, subscribed, current, failed, crossed,
                 metricsVars>>

\* refreshMetrics, every 30 seconds, whether or not the last call is answered.
RefreshMetrics ==
  /\ fetches < MaxFetches
  /\ fetches' = fetches + 1
  /\ fetching' = fetching \cup {fetches + 1}
  /\ UNCHANGED <<visible, overlayVars, rates, received>>

\* onMetricsReceived with a note_rate: append it, drop from the front.
TrimmedBehind(s) ==                                              \* mutant
  IF Len(s) > HistoryLimit THEN SubSeq(s, 1, HistoryLimit) ELSE s
Trimmed(s) ==
  IF Len(s) > HistoryLimit THEN SubSeq(s, Len(s) - HistoryLimit + 1, Len(s)) ELSE s

MetricsReceived(n) ==
  /\ n \in fetching
  /\ fetching' = fetching \ {n}
  /\ rates' = Trimmed(Append(rates, n)) /\ received' = Append(received, n)
  /\ UNCHANGED <<visible, overlayVars, fetches>>

\* An error, or metrics without a note_rate: the history stays.
MetricsWithoutRate(n) ==
  /\ n \in fetching
  /\ fetching' = fetching \ {n}
  /\ UNCHANGED <<visible, overlayVars, rates, fetches, received>>

ClearHistory ==
  /\ rates' = <<>> /\ received' = <<>>
  /\ UNCHANGED <<visible, overlayVars, fetching, fetches>>

GuiNext ==
  \/ ToggleOverlay
  \/ \E q \in Queries : SubmitQuery(q)
  \/ \E c \in Queries \cup Analyses : SummarizeFinished(c) \/ SummarizeFails(c)
  \/ \E a \in Analyses : RequestAiAnalysis(a)
  \/ RefreshMetrics
  \/ \E n \in 1..MaxFetches : MetricsReceived(n) \/ MetricsWithoutRate(n)
  \/ ClearHistory

GuiSpec == GuiInit /\ [][GuiNext]_guiVars

-----------------------------------------------------------------------------
(* Properties.                                                             *)

\* As long as no analysis has been answered while a query was loading (crossed),
\* the overlay never displays the answer to a query other than the one submitted
\* last, in whatever order queries are answered or fail. After the first such
\* answer it may: it then takes each reply for that of the next query.
AnswerMatchesQuery == response \in Queries /\ response # current => crossed

\* The overlay is left loading with nothing on its way only by an error.
StuckOnlyAfterError == loading /\ current \notin asking => failed

\* The history of the metrics view is what came last since it was cleared, in
\* the order of arrival and up to its limit, whichever replies fail, overtake
\* each other or answer a call from before the clearing.
HistoryIsLatest ==
  /\ Len(rates) = IF Len(received) > HistoryLimit THEN HistoryLimit ELSE Len(received)
  /\ \A i \in DOMAIN rates : rates[i] = received[Len(received) - Len(rates) + i]
=============================================================================
