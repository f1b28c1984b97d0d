---------------------------- MODULE LlamaStream ----------------------------
(***************************************************************************)
(* The streams of LlamaClient (daemon/src/llama_client.cpp) against the    *)
(* llama server that it starts (third_party/llama.cpp, tools/server):      *)
(* callers on other threads register a callback and write a request, the   *)
(* server answers, the event loop splits what the socket delivers at empty *)
(* lines into events and calls back.                                       *)
(*                                                                         *)
(* The bytes from the server are fragments. A streamed response is a       *)
(* header, one chunk for each event (the line with its size, the event     *)
(* from "data: " on, the empty line that ends it) and a last chunk; a size *)
(* line here begins with the CR LF that ends the chunk before. Header and  *)
(* last chunk end in CR LF CR LF, which is no empty line to the parser,    *)
(* and so is a plain response, header and body.                            *)
(* An event without text at the end of a completion and the "error: " that *)
(* may end one are framed, and skipped, as the others: they are left out.  *)
(*                                                                         *)
(* Outside the code: the connection may be made, fail or close at any      *)
(* moment.                                                                 *)
(***************************************************************************)
EXTENDS Naturals, SequencesExt

CONSTANTS
  Requests,   \* the requests of the callers, and their ids
  TokenCounts, \* numbers of tokens a completion may have
  NoRequest,  \* last_event_id_ is empty
  ServerId,   \* stands for the ids that the server makes up
  MaxCloses   \* bound on how often the connection closes

ASSUME StreamAssumption ==
  /\ NoRequest \notin Requests /\ ServerId \notin Requests \cup {NoRequest}
  /\ TokenCounts \subseteq Nat /\ MaxCloses \in Nat

VARIABLES
  link,       \* off, connecting or on
  stage,      \* of each request: new, registered, written, stopped
  callbacks,  \* keys of callbacks_
  buffer,     \* buffer_: empty, begun (of one event, from its start), dirty
  lastEvent,  \* last_event_id_
  pending,    \* requests that wait for the connection, or for the server
  answering,  \* what the server streams, and the events it has sent of it
  wire,       \* fragments not yet read
  got,        \* tokens each callback was called with
  \* history:
  tokens,     \* number of tokens of each completion
  passed,     \* how many of them the event loop has read
  closes      \* times the connection closed

clientVars == <<callbacks, buffer, lastEvent, got>>
linkVars == <<link, pending, answering, wire>>
streamHistory == <<tokens, passed, closes>>
streamVars == <<stage, clientVars, linkVars, streamHistory>>

Nothing == [request |-> NoRequest, sent |-> 0]
Done == 0           \* the token number that stands for [DONE]

\* A fragment with the request it answers, the token it is part of, and the id
\* that it shows to the client.
Fragment(part, r, n, id) == [part |-> part, request |-> r, token |-> n, id |-> id]

Header(r) == <<Fragment("header", r, Done, NoRequest)>>
LastChunk(r) == <<Fragment("last", r, Done, NoRequest)>>
EventUnframed(r, n) ==                                           \* mutant
  <<Fragment("begin", r, n, ServerId), Fragment("end", r, n, ServerId)>>
EventAsExpected(r, n) ==                                         \* mutant
  <<Fragment("begin", r, n, r), Fragment("end", r, n, r)>>
Event(r, n) ==
  <<Fragment("size", r, n, NoRequest),
    Fragment("begin", r, n, ServerId), Fragment("end", r, n, ServerId)>>

StreamInit ==
  /\ link \in {"off", "connecting", "on"}
  /\ stage = [r \in Requests |-> "new"]
  /\ callbacks = {}
  /\ buffer = "empty" /\ lastEvent = NoRequest
  /\ pending = <<>> /\ answering = Nothing /\ wire = <<>>
  /\ got = [r \in Requests |-> <<>>]
  /\ tokens \in [Requests -> TokenCounts]
  /\ passed = [r \in Requests |-> 0] /\ closes = 0

-----------------------------------------------------------------------------
(* The callers' threads.                                                   *)

Goes(r, to) == stage' = [stage EXCEPT ![r] = to]

\* socket_->write: QTcpSocket keeps what is written until it is connected, and
\* drops it, and nobody is told, if it does not even try to connect.
Sent(q) == pending' = IF link = "off" THEN pending ELSE Append(pending, q)

\* streamCompletion, callbacks_.insert under the mutex.
Register(r) ==
  /\ stage[r] = "new" /\ Goes(r, "registered")
  /\ callbacks' = callbacks \cup {r}
  /\ UNCHANGED <<buffer, lastEvent, got, linkVars, streamHistory>>

Write(r) ==
  /\ stage[r] = "registered" /\ Goes(r, "written")
  /\ Sent(r)
  /\ UNCHANGED <<clientVars, link, answering, wire, streamHistory>>

\* stopGeneration(r), at most once for each: one more request, behind the
\* others, for a path that the server does not have. The callback stays.
StopGeneration(r) ==
  /\ stage[r] = "written" /\ Goes(r, "stopped")
  /\ Sent(NoRequest)
  /\ UNCHANGED <<clientVars, link, answering, wire, streamHistory>>

CallerStep(r) == Register(r) \/ Write(r) \/ StopGeneration(r)

-----------------------------------------------------------------------------
(* The server.                                                             *)

Sends(fragments) == wire' = wire \o fragments

\* The oldest request of the connection.
Answers ==
  /\ link = "on" /\ answering = Nothing /\ pending # <<>>
  /\ pending' = Tail(pending) /\ Sends(Header(Head(pending)))
  /\ UNCHANGED <<stage, clientVars, link, streamHistory>>

\* A plain response, "File Not Found" to a stop or an error to a completion.
AnswerPlain == Answers /\ UNCHANGED answering

AnswerStream ==
  /\ Answers /\ Head(pending) # NoRequest
  /\ answering' = [request |-> Head(pending), sent |-> 0]

SendToken ==
  /\ answering # Nothing /\ answering.sent < tokens[answering.request]
  /\ Sends(Event(answering.request, answering.sent + 1))
  /\ answering' = [answering EXCEPT !.sent = @ + 1]
  /\ UNCHANGED <<stage, clientVars, link, pending, streamHistory>>

\* [DONE] and the last chunk. The content provider returns false, upon which
\* the server answers no other request of this connection and closes it.
SendDone ==
  /\ answering # Nothing /\ answering.sent = tokens[answering.request]
  /\ Sends(Event(answering.request, Done) \o LastChunk(answering.request))
  /\ answering' = [answering EXCEPT !.sent = @ + 1]
  /\ UNCHANGED <<stage, clientVars, link, pending, streamHistory>>

ServerStep == AnswerPlain \/ AnswerStream \/ SendToken \/ SendDone

-----------------------------------------------------------------------------
(* The event loop of the client.                                           *)

\* attemptReconnect, connectToHost; and what becomes of it.
Reconnect ==
  /\ link = "off" /\ link' = "connecting"
  /\ UNCHANGED <<stage, clientVars, pending, answering, wire, streamHistory>>

Connected ==
  /\ link = "connecting" /\ link' = "on"
  /\ UNCHANGED <<stage, clientVars, pending, answering, wire, streamHistory>>

ConnectFails ==
  /\ link = "connecting" /\ link' = "off"
  /\ pending' = <<>>
  /\ UNCHANGED <<stage, clientVars, answering, wire, streamHistory>>

Closes ==
  /\ link = "on" /\ link' = "off"
  /\ closes < MaxCloses /\ closes' = closes + 1
  /\ pending' = <<>> /\ answering' = Nothing /\ wire' = <<>>
  /\ UNCHANGED <<stage, buffer, lastEvent, got, tokens, passed>>

\* onDisconnected: buffer_, callbacks_ and last_event_id_ stay as they are.
DisconnectedClearsCallbacks == Closes /\ callbacks' = {}         \* mutant
Disconnected == Closes /\ UNCHANGED callbacks

\* onReadyRead, one fragment at a time: it parses all it has each time.
Read ==
  /\ link = "on" /\ wire # <<>> /\ wire' = Tail(wire)
  /\ UNCHANGED <<stage, link, pending, answering, tokens, closes>>

\* Bytes that end no event.
ReadIncomplete ==
  /\ Read /\ Head(wire).part # "end"
  /\ buffer' = IF buffer = "empty" /\ Head(wire).part = "begin"
               THEN "begun" ELSE "dirty"
  /\ UNCHANGED <<callbacks, lastEvent, got, passed>>

\* The end of an event. It counts only if it starts with "data: ": a token goes
\* to the callback of its id, if there is one; [DONE] names no request, and
\* releases the callback of the last id seen.
Parsed == buffer = "begun"
ParsedToken(f) == Parsed /\ f.token # Done
ParsedDone(f) == Parsed /\ f.token = Done

ReadEvent ==
  /\ Read /\ Head(wire).part = "end"
  /\ buffer' = "empty"
  /\ LET f == Head(wire)
     IN  /\ got' = IF ParsedToken(f) /\ f.id \in callbacks
                   THEN [got EXCEPT ![f.id] = Append(@, f.token)] ELSE got
         /\ lastEvent' = IF ParsedToken(f) THEN f.id
                         ELSE IF ParsedDone(f) THEN NoRequest ELSE lastEvent
         /\ callbacks' = IF ParsedDone(f) THEN callbacks \ {lastEvent}
                         ELSE callbacks
         /\ passed' = IF f.token = Done THEN passed
                      ELSE [passed EXCEPT ![f.request] = @ + 1]

LoopStep ==
  \/ Reconnect \/ Connected \/ ConnectFails \/ Disconnected
  \/ ReadIncomplete \/ ReadEvent

StreamNext == (\E r \in Requests : CallerStep(r)) \/ ServerStep \/ LoopStep

StreamSpec == StreamInit /\ [][StreamNext]_streamVars

-----------------------------------------------------------------------------
(* Properties: what becomes of a completion.                               *)

\* No event is ever taken for one, however requests, closes and reconnections
\* follow each other: what is in the buffer when an event ends always starts
\* with the line that gives the size of its chunk, or with something older.
EveryEventSkipped == lastEvent = NoRequest /\ buffer # "begun"

\* No callback is ever called, although the tokens are read: the events that
\* carry them are skipped, and their ids are those of the server.
NeverCalled == \A r \in Requests : got[r] = <<>>

\* Nothing releases a callback, not the [DONE] of its completion, not a stop,
\* not a refusal, not a closed connection: it stays as long as the client does.
CallbacksStay == callbacks = {r \in Requests : stage[r] # "new"}
=============================================================================
