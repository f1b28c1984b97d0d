----------------------------- MODULE HttpServer -----------------------------
(***************************************************************************)
(* The HTTP server of the daemon (daemon/src/http_server.cpp) on the       *)
(* LlamaClient it was given. QHttpServer calls the handlers on the main    *)
(* thread, which is also the thread of the socket: while a handler runs,   *)
(* nothing is read from the llama server, no close is noticed and no       *)
(* connection is made; other callers and the server itself go on.          *)
(*                                                                         *)
(* The callback that the handler of /v1/summarize registers refers to a    *)
(* local variable of the handler, and would write to what is gone if it    *)
(* were called after the answer; see NeverCalled.                          *)
(***************************************************************************)
EXTENDS LlamaStream

VARIABLES
  parts,    \* the pointers given to the constructor that are not null
  handler,  \* the completion whose handler runs, or NoRequest
  posted,   \* completions that a POST of /v1/summarize asked for
  summary,  \* of each answered one: the text of the response, and how many
            \* of its tokens the event loop had read by then (history)
  updated,  \* ConfigManager::update was called
  assured   \* history: a PUT of /v1/config was answered with success

httpVars == <<parts, handler, posted, summary, updated, assured>>
allVars == <<streamVars, httpVars>>

-----------------------------------------------------------------------------
(* start: the routes, in the order they are registered.                    *)

Route(path, method, part, action) ==
  [path |-> path, method |-> method, part |-> part, action |-> action]

Routes ==
  <<Route("status", "any", "none", "read"),
    Route("notes", "any", "store", "read"),
    Route("export", "any", "store", "read"),
    Route("summarize", "POST", "llama", "summarize"),
    Route("watch/start", "any", "none", "nothing"),
    Route("watch/stop", "any", "none", "nothing"),
    Route("config", "any", "none", "load"),
    Route("config", "PUT", "config", "update"),
    Route("metrics", "any", "none", "read")>>

NotFound == Route("none", "any", "none", "404")

Matching(path, method) ==
  {i \in DOMAIN Routes :
     Routes[i].path = path /\ Routes[i].method \in {method, "any"}}

\* The first route that matches a request takes it.
Taken(path, method) ==
  LET routes == Matching(path, method)
  IN  IF routes = {} THEN NotFound ELSE Routes[Min(routes)]

\* It answers 500 if the component it needs is not there.
Action(path, method) ==
  LET route == Taken(path, method)
  IN  IF route.part \in parts \cup {"none"} THEN route.action ELSE "500"

-----------------------------------------------------------------------------
Reply(r) == [text |-> got[r], passed |-> passed[r]]

HttpInit ==
  /\ StreamInit
  /\ parts \in {{}, {"llama", "store", "config"}}
  /\ handler = NoRequest /\ posted = {}
  /\ summary = [r \in {} |-> Reply(r)]
  /\ updated = FALSE /\ assured = FALSE

AlwaysFree == TRUE                                               \* mutant
MainThreadFree == handler = NoRequest

\* POST /v1/summarize: streamCompletion registers the callback ...
SummarizeBegins(r) ==
  /\ MainThreadFree
  /\ Action("summarize", "POST") = "summarize"
  /\ Register(r)
  /\ handler' = r /\ posted' = posted \cup {r}
  /\ UNCHANGED <<parts, summary, updated, assured>>

\* ... and writes the request ...
SummarizeWrites ==
  /\ handler # NoRequest
  /\ Write(handler)
  /\ UNCHANGED httpVars

\* ... and the handler answers with what its callback has got so far.
SummarizeReplies ==
  /\ handler # NoRequest /\ stage[handler] # "registered"
  /\ summary' = [r \in DOMAIN summary \cup {handler} |->
                   IF r = handler THEN Reply(r) ELSE summary[r]]
  /\ handler' = NoRequest
  /\ UNCHANGED <<streamVars, parts, posted, updated, assured>>

\* A request for the configuration. The handlers of the other routes read a
\* component or nothing, and answer: they change nothing here.
ServeConfig(method) ==
  /\ MainThreadFree
  /\ LET action == Action("config", method)
     IN  /\ updated' = (updated \/ action = "update")
         /\ assured' = (assured \/ (method = "PUT" /\ action \notin {"404", "500"}))
  /\ UNCHANGED <<streamVars, parts, handler, posted, summary>>

\* A caller of LlamaClient on another thread.
OtherCaller(r) ==
  /\ r \notin posted
  /\ CallerStep(r)
  /\ UNCHANGED httpVars

LlamaServer == ServerStep /\ UNCHANGED httpVars

EventLoop == MainThreadFree /\ LoopStep /\ UNCHANGED httpVars

HttpNext ==
  \/ \E r \in Requests : SummarizeBegins(r) \/ OtherCaller(r)
  \/ SummarizeWrites \/ SummarizeReplies
  \/ \E method \in {"GET", "POST", "PUT"} : ServeConfig(method)
  \/ LlamaServer \/ EventLoop

HttpSpec == HttpInit /\ [][HttpNext]_allVars

-----------------------------------------------------------------------------
(* Properties.                                                             *)

\* No byte of a token of a completion is read before the handler that asked
\* for it has answered, however its answer is split and whoever else uses the
\* connection; so every summary is empty, whatever the parser makes of events.
NothingArrivesInTime ==
  \A r \in DOMAIN summary : summary[r] = [text |-> <<>>, passed |-> 0]

\* What the guide for contributors says of /v1/summarize: the response has the
\* text, if the server sent some and the client has read it all.
SummaryHasText ==
  \A r \in DOMAIN summary :
    tokens[r] > 0 /\ passed[r] = tokens[r] => summary[r].text # <<>>

\* What the interface says of PUT /v1/config: an answer of success means that
\* the configuration was updated.
PutUpdates == assured => updated
=============================================================================
