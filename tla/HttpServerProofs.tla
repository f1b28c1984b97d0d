-------------------------- MODULE HttpServerProofs --------------------------
(***************************************************************************)
(* Proofs about LlamaStream and about HttpServer on top of it, for every   *)
(* set of requests, every length of their completions and any number of    *)
(* closed connections.                                                     *)
(***************************************************************************)
EXTENDS HttpServer, SequenceTheorems, TLAPS

Maybe == Requests \cup {NoRequest}

\* What may be under way: the requests that were made, and a stop.
Asked == {r \in Requests : stage[r] # "new"} \cup {NoRequest}

Parts == {"header", "size", "begin", "end", "last"}
FragmentsOf(S) ==
  [part : Parts, request : S, token : Nat, id : Maybe \cup {ServerId}]

StreamTypes ==
  /\ stage \in [Requests -> {"new", "registered", "written", "stopped"}]
  /\ pending \in Seq(Asked)
  /\ answering \in [request : Asked, sent : Nat]
  /\ wire \in Seq(FragmentsOf(Asked))
  /\ passed \in [Requests -> Nat]

-----------------------------------------------------------------------------
(* Why no event is parsed. Each one follows the line with the size of its  *)
(* chunk, on the wire or, when that has been read, in the buffer.          *)

Framed ==
  \A i \in 1..Len(wire) :
    wire[i].part = "begin" =>
      /\ i = 1 => buffer = "dirty"
      /\ i > 1 => wire[i - 1].part = "size"

NotReadYet == \A r \in Requests : stage[r] = "new" => passed[r] = 0

StreamInv ==
  /\ StreamTypes /\ Framed /\ NotReadYet
  /\ EveryEventSkipped /\ NeverCalled /\ CallbacksStay

LEMMA StreamStarts == StreamInit => StreamInv
<1> SUFFICES ASSUME StreamInit PROVE StreamInv
  OBVIOUS
<1>1. StreamTypes
  BY EmptySeq DEF StreamInit, StreamTypes, Asked, Nothing
<1>2. Framed /\ NotReadYet
  BY EmptySeq DEF StreamInit, Framed, NotReadYet
<1>3. EveryEventSkipped /\ NeverCalled /\ CallbacksStay
  BY DEF StreamInit, EveryEventSkipped, NeverCalled, CallbacksStay
<1> QED BY <1>1, <1>2, <1>3 DEF StreamInv

\* What is under way stays so when more requests are made.
LEMMA AskedMore ==
  ASSUME StreamTypes, Asked \subseteq Asked'
  PROVE  /\ pending \in Seq(Asked') /\ wire \in Seq(FragmentsOf(Asked'))
         /\ answering \in [request : Asked', sent : Nat]
<1>1. FragmentsOf(Asked) \subseteq FragmentsOf(Asked')
  BY DEF FragmentsOf
<1> QED BY <1>1, SeqMonotonic DEF StreamTypes

\* The callers' threads.
LEMMA CallerInv ==
  ASSUME StreamInv, NEW r \in Requests, CallerStep(r)
  PROVE  StreamInv'
<1> USE DEF StreamInv
<1>1. /\ stage' \in [Requests -> {"new", "registered", "written", "stopped"}]
      /\ stage' = [stage EXCEPT ![r] = stage'[r]] /\ stage'[r] # "new"
      /\ UNCHANGED <<buffer, lastEvent, got, wire, answering, passed>>
  BY DEF StreamTypes, CallerStep, Register, Write, StopGeneration, Goes,
         clientVars, linkVars, streamHistory
<1>2. Asked \subseteq Asked' /\ r \in Asked'
  BY <1>1 DEF Asked, StreamTypes
<1>3. pending' \in Seq(Asked')
  <2>1. pending \in Seq(Asked') /\ NoRequest \in Asked'
    BY <1>2, AskedMore DEF Asked
  <2>2. Append(pending, r) \in Seq(Asked') /\ Append(pending, NoRequest) \in Seq(Asked')
    BY <1>2, <2>1, AppendProperties
  <2> QED
    BY <2>1, <2>2 DEF CallerStep, Register, Write, StopGeneration, Sent, linkVars
<1>4. StreamTypes'
  BY <1>1, <1>2, <1>3, AskedMore DEF StreamTypes
<1>5. Framed' /\ EveryEventSkipped' /\ NeverCalled'
  BY <1>1 DEF Framed, EveryEventSkipped, NeverCalled
<1>6. NotReadYet'
  BY <1>1 DEF NotReadYet, StreamTypes
<1>7. CallbacksStay'
  BY DEF StreamTypes, CallbacksStay, CallerStep, Register, Write, StopGeneration,
         Goes, clientVars
<1> QED BY <1>4, <1>5, <1>6, <1>7

\* The server sends t: a part of a response that keeps each event behind the
\* size of its chunk.
LEMMA SendsInv ==
  ASSUME StreamInv, NEW t \in Seq(FragmentsOf(Asked)), Sends(t),
         \A i \in 1..Len(t) :
           t[i].part = "begin" => i > 1 /\ t[i - 1].part = "size",
         pending' \in Seq(Asked), answering' \in [request : Asked, sent : Nat],
         UNCHANGED <<stage, clientVars, passed>>
  PROVE  StreamInv'
<1> USE DEF StreamInv
<1>1. Asked' = Asked
  BY DEF Asked
<1>2. /\ wire' \in Seq(FragmentsOf(Asked)) /\ Len(wire') = Len(wire) + Len(t)
      /\ \A i \in 1..Len(wire) : wire'[i] = wire[i]
      /\ \A i \in 1..Len(t) : wire'[Len(wire) + i] = t[i]
      /\ Len(wire) \in Nat /\ Len(t) \in Nat
  BY ConcatProperties, LenProperties DEF StreamTypes, Sends
<1>3. StreamTypes'
  BY <1>1, <1>2 DEF StreamTypes
<1>4. Framed'
  <2> SUFFICES ASSUME NEW i \in 1..Len(wire'), wire'[i].part = "begin"
               PROVE  /\ i = 1 => buffer = "dirty"
                      /\ i > 1 => wire'[i - 1].part = "size"
    BY DEF Framed, clientVars
  <2>1. CASE i \in 1..Len(wire)
    <3>1. i > 1 => i - 1 \in 1..Len(wire)
      BY <2>1, <1>2
    <3> QED BY <2>1, <3>1, <1>2 DEF Framed
  <2>2. CASE i \notin 1..Len(wire)
    <3>1. PICK k \in 1..Len(t) : i = Len(wire) + k
      <4>1. i - Len(wire) \in 1..Len(t) /\ i = Len(wire) + (i - Len(wire))
        BY <2>2, <1>2
      <4> QED BY <4>1
    <3>2. k > 1 /\ t[k - 1].part = "size"
      BY <3>1, <1>2
    <3>3. k - 1 \in 1..Len(t) /\ i - 1 = Len(wire) + (k - 1) /\ i > 1
      BY <3>1, <3>2, <1>2
    <3>4. wire'[i - 1] = t[k - 1]
      BY <3>3, <1>2
    <3> QED BY <3>2, <3>3, <3>4
  <2> QED BY <2>1, <2>2
<1>5. NotReadYet' /\ EveryEventSkipped' /\ NeverCalled' /\ CallbacksStay'
  BY DEF NotReadYet, EveryEventSkipped, NeverCalled, CallbacksStay, clientVars
<1> QED BY <1>3, <1>4, <1>5

LEMMA Sendable ==
  ASSUME NEW S, NEW r \in S, NEW n \in Nat
  PROVE  /\ Header(r) \in Seq(FragmentsOf(S)) /\ Len(Header(r)) = 1
         /\ Header(r)[1].part = "header"
         /\ LastChunk(r) \in Seq(FragmentsOf(S)) /\ Len(LastChunk(r)) = 1
         /\ LastChunk(r)[1].part = "last"
         /\ Event(r, n) \in Seq(FragmentsOf(S)) /\ Len(Event(r, n)) = 3
         /\ Event(r, n)[1].part = "size" /\ Event(r, n)[2].part = "begin"
         /\ Event(r, n)[3].part = "end"
BY DEF Header, LastChunk, Event, Fragment, FragmentsOf, Parts, Maybe, Done

LEMMA ThreeAndOne ==
  ASSUME NEW S, NEW d \in Seq(S), NEW c \in Seq(S), Len(d) = 3, Len(c) = 1
  PROVE  /\ d \o c \in Seq(S) /\ Len(d \o c) = 4
         /\ (d \o c)[1] = d[1] /\ (d \o c)[2] = d[2] /\ (d \o c)[3] = d[3]
         /\ (d \o c)[4] = c[1]
<1>1. /\ d \o c \in Seq(S) /\ Len(d \o c) = Len(d) + Len(c)
      /\ \A i \in 1..(Len(d) + Len(c)) :
           (d \o c)[i] = IF i <= Len(d) THEN d[i] ELSE c[i - Len(d)]
  BY ConcatProperties, Zenon
<1> DEFINE e == d \o c
<1> HIDE DEF e
<1>2. /\ e \in Seq(S) /\ Len(e) = 4
      /\ \A i \in 1..4 : e[i] = IF i <= 3 THEN d[i] ELSE c[i - 3]
  BY <1>1 DEF e
<1>3. e[1] = d[1] /\ e[2] = d[2] /\ e[3] = d[3] /\ e[4] = c[1]
  BY <1>2
<1> QED BY <1>2, <1>3 DEF e

LEMMA ServerInv ==
  ASSUME StreamInv, ServerStep
  PROVE  StreamInv'
<1> USE DEF StreamInv
<1>0. /\ answering.request \in Asked /\ answering.sent \in Nat
      /\ [answering EXCEPT !.sent = @ + 1] \in [request : Asked, sent : Nat]
  BY DEF StreamTypes
<1>e. ASSUME NEW q \in Asked, NEW n \in Nat
      PROVE  /\ Event(q, n) \in Seq(FragmentsOf(Asked)) /\ Len(Event(q, n)) = 3
             /\ Event(q, n)[1].part = "size" /\ Event(q, n)[2].part = "begin"
             /\ Event(q, n)[3].part = "end"
  BY Sendable
<1>1. CASE AnswerPlain \/ AnswerStream
  <2> DEFINE h == Head(pending)
  <2>1. /\ h \in Asked /\ Tail(pending) \in Seq(Asked)
    BY <1>1, HeadTailProperties DEF StreamTypes, AnswerPlain, AnswerStream, Answers
  <2>2. answering' \in [request : Asked, sent : Nat]
    BY <1>1, <2>1 DEF StreamTypes, AnswerPlain, AnswerStream
  <2>3. /\ Header(h) \in Seq(FragmentsOf(Asked)) /\ Len(Header(h)) = 1
        /\ Header(h)[1].part = "header"
    BY <2>1, Sendable, 0 \in Nat
  <2>4. \A i \in 1..Len(Header(h)) : Header(h)[i].part # "begin"
    BY <2>3
  <2>5. /\ Sends(Header(h)) /\ pending' = Tail(pending)
        /\ UNCHANGED <<stage, clientVars, passed>>
    BY <1>1 DEF AnswerPlain, AnswerStream, Answers, streamHistory
  <2> QED BY <2>1, <2>2, <2>3, <2>4, <2>5, SendsInv
<1>2. CASE SendToken
  <2> DEFINE n == answering.sent + 1
             e == Event(answering.request, n)
  <2>1. /\ e \in Seq(FragmentsOf(Asked)) /\ Len(e) = 3
        /\ e[1].part = "size" /\ e[2].part = "begin" /\ e[3].part = "end"
    <3>1. n \in Nat
      BY <1>0
    <3> HIDE DEF n
    <3> QED BY <1>0, <3>1, <1>e
  <2>2. \A i \in 1..Len(e) : e[i].part = "begin" => i > 1 /\ e[i - 1].part = "size"
    BY <2>1
  <2>3. answering' \in [request : Asked, sent : Nat]
    BY <1>0, <1>2 DEF SendToken
  <2>4. /\ Sends(e) /\ pending' \in Seq(Asked)
        /\ UNCHANGED <<stage, clientVars, passed>>
    BY <1>2 DEF SendToken, StreamTypes, streamHistory
  <2> QED BY <2>1, <2>2, <2>3, <2>4, SendsInv
<1>3. CASE SendDone
  <2> DEFINE d == Event(answering.request, Done)
             c == LastChunk(answering.request)
             e == d \o c
  <2>1. /\ d \in Seq(FragmentsOf(Asked)) /\ Len(d) = 3
        /\ d[1].part = "size" /\ d[2].part = "begin" /\ d[3].part = "end"
        /\ c \in Seq(FragmentsOf(Asked)) /\ Len(c) = 1 /\ c[1].part = "last"
    <3>1. Done \in Nat
      BY DEF Done
    <3>2. /\ c \in Seq(FragmentsOf(Asked)) /\ Len(c) = 1 /\ c[1].part = "last"
      BY <1>0, <3>1, Sendable
    <3> QED BY <1>0, <3>1, <3>2, <1>e
  <2>2. /\ e \in Seq(FragmentsOf(Asked)) /\ Len(e) = 4
        /\ e[1] = d[1] /\ e[2] = d[2] /\ e[3] = d[3] /\ e[4] = c[1]
    BY <2>1, ThreeAndOne
  <2>3. \A i \in 1..Len(e) : e[i].part = "begin" => i > 1 /\ e[i - 1].part = "size"
    BY <2>1, <2>2
  <2>4. answering' \in [request : Asked, sent : Nat]
    BY <1>0, <1>3 DEF SendDone
  <2>5. /\ Sends(e) /\ pending' \in Seq(Asked)
        /\ UNCHANGED <<stage, clientVars, passed>>
    BY <1>3 DEF SendDone, StreamTypes, streamHistory
  <2> QED BY <2>2, <2>3, <2>4, <2>5, SendsInv
<1> QED BY <1>1, <1>2, <1>3 DEF ServerStep

\* A fragment is read: the buffer has it when the next one comes.
LEMMA ReadInv ==
  ASSUME StreamInv, ReadIncomplete \/ ReadEvent
  PROVE  StreamInv'
<1> USE DEF StreamInv
<1>1. /\ wire # <<>> /\ wire' = Tail(wire)
      /\ UNCHANGED <<stage, pending, answering>>
  BY DEF ReadIncomplete, ReadEvent, Read
<1>2. /\ Len(wire) \in Nat /\ Len(wire) > 0 /\ Len(wire') = Len(wire) - 1
      /\ wire' \in Seq(FragmentsOf(Asked))
      /\ \A i \in 1..Len(wire') : wire'[i] = wire[i + 1]
      /\ Head(wire) = wire[1] /\ wire[1] \in FragmentsOf(Asked)
  BY <1>1, HeadTailProperties, LenProperties, EmptySeq, ElementOfSeq DEF StreamTypes
<1>3. Asked' = Asked
  BY <1>1 DEF Asked
<1>4. StreamTypes'
  <2>1. passed' \in [Requests -> Nat]
    <3>1. CASE ReadIncomplete
      BY <3>1 DEF StreamTypes, ReadIncomplete
    <3>2. CASE ReadEvent
      <4>1. passed' = passed \/ \E q \in Asked : passed' = [passed EXCEPT ![q] = @ + 1]
        BY <3>2, <1>2 DEF ReadEvent, FragmentsOf
      <4> QED BY <4>1 DEF StreamTypes
    <3> QED BY <3>1, <3>2
  <2> QED BY <2>1, <1>1, <1>2, <1>3 DEF StreamTypes
<1>5. buffer # "begun"
  BY DEF EveryEventSkipped
<1>6. /\ UNCHANGED <<callbacks, lastEvent, got>>
      /\ wire[1].part = "end" => buffer' = "empty"
      /\ wire[1].part # "end" => buffer' = "dirty"
  <2>1. CASE ReadEvent
    BY <2>1, <1>2, <1>5 DEF ReadEvent, Parsed, ParsedToken, ParsedDone
  <2>2. CASE ReadIncomplete
    BY <2>2, <1>2, <1>5 DEF ReadIncomplete, Framed
  <2> QED BY <2>1, <2>2
<1>7. Framed'
  <2> SUFFICES ASSUME NEW i \in 1..Len(wire'), wire'[i].part = "begin"
               PROVE  /\ i = 1 => buffer' = "dirty"
                      /\ i > 1 => wire'[i - 1].part = "size"
    BY DEF Framed
  <2>1. i + 1 \in 1..Len(wire) /\ i + 1 > 1 /\ (i + 1) - 1 = i
        /\ wire[i + 1].part = "begin"
    BY <1>2
  <2>2. wire[i].part = "size"
    BY <2>1 DEF Framed
  <2>3. i > 1 => wire'[i - 1] = wire[i]
    <3>1. i > 1 => i - 1 \in 1..Len(wire') /\ (i - 1) + 1 = i
      BY <1>2
    <3> QED BY <3>1, <1>2
  <2> QED BY <2>2, <2>3, <1>6
<1>8. NotReadYet'
  <2>1. /\ wire[1].request \in Asked
        /\ passed' = passed \/ passed' = [passed EXCEPT ![wire[1].request] = @ + 1]
    BY <1>2 DEF FragmentsOf, ReadIncomplete, ReadEvent
  <2> SUFFICES ASSUME NEW r \in Requests, stage[r] = "new" PROVE passed'[r] = 0
    BY <1>1 DEF NotReadYet
  <2>2. r # wire[1].request
    BY <2>1, StreamAssumption DEF Asked
  <2>3. passed'[r] = passed[r]
    BY <2>1, <2>2 DEF StreamTypes
  <2> QED BY <2>3 DEF NotReadYet
<1>9. EveryEventSkipped' /\ NeverCalled' /\ CallbacksStay'
  BY <1>1, <1>6 DEF EveryEventSkipped, NeverCalled, CallbacksStay
<1> QED BY <1>4, <1>7, <1>8, <1>9

LEMMA StreamStep == StreamInv /\ [StreamNext]_streamVars => StreamInv'
<1> SUFFICES ASSUME StreamInv, [StreamNext]_streamVars PROVE StreamInv'
  OBVIOUS
<1> USE DEF StreamInv
<1>1. CASE Reconnect \/ Connected \/ UNCHANGED streamVars
  <2>1. UNCHANGED <<stage, clientVars, pending, answering, wire, passed>>
    BY <1>1 DEF Reconnect, Connected, streamVars, linkVars, streamHistory
  <2> QED
    BY <2>1 DEF StreamTypes, Asked, Framed, NotReadYet, EveryEventSkipped,
                NeverCalled, CallbacksStay, clientVars
<1>2. CASE ConnectFails \/ Disconnected
  <2>1. /\ UNCHANGED <<stage, callbacks, buffer, lastEvent, got, passed>>
        /\ pending' = <<>>
        /\ answering' \in {answering, Nothing} /\ wire' \in {wire, <<>>}
    BY <1>2 DEF ConnectFails, Disconnected, Closes, clientVars, streamHistory
  <2>2. StreamTypes'
    <3>1. Asked' = Asked
      BY <2>1 DEF Asked
    <3>2. Nothing \in [request : Asked, sent : Nat]
      BY DEF Nothing, Asked
    <3>3. /\ answering' \in [request : Asked, sent : Nat]
          /\ wire' \in Seq(FragmentsOf(Asked)) /\ pending' \in Seq(Asked)
      BY <2>1, <3>2, EmptySeq DEF StreamTypes
    <3> QED BY <2>1, <3>1, <3>3 DEF StreamTypes
  <2>3. Framed'
    BY <2>1, EmptySeq DEF Framed
  <2> QED
    BY <2>1, <2>2, <2>3 DEF NotReadYet, EveryEventSkipped, NeverCalled, CallbacksStay
<1>3. CASE (\E r \in Requests : CallerStep(r)) \/ ServerStep
           \/ ReadIncomplete \/ ReadEvent
  BY <1>3, CallerInv, ServerInv, ReadInv
<1> QED BY <1>1, <1>2, <1>3 DEF StreamNext, LoopStep

LEMMA StreamInvariance == StreamSpec => []StreamInv
BY StreamStarts, StreamStep, PTL DEF StreamSpec

\* The parser never takes what the server sends for an event, however the bytes
\* of any number of responses are split over any number of connections.
THEOREM NoEventParsed == StreamSpec => []EveryEventSkipped
<1>1. StreamInv => EveryEventSkipped
  BY DEF StreamInv
<1> QED BY <1>1, StreamInvariance, PTL

\* No caller of streamCompletion is ever called back.
THEOREM NobodyIsCalled == StreamSpec => []NeverCalled
<1>1. StreamInv => NeverCalled
  BY DEF StreamInv
<1> QED BY <1>1, StreamInvariance, PTL

\* Every callback that was registered stays registered.
THEOREM NothingReleases == StreamSpec => []CallbacksStay
<1>1. StreamInv => CallbacksStay
  BY DEF StreamInv
<1> QED BY <1>1, StreamInvariance, PTL
-----------------------------------------------------------------------------
(* The HTTP server uses the client as its callers may, and while one of    *)
(* its handlers runs, nothing is read.                                     *)

HttpInv ==
  /\ handler \in Maybe
  /\ handler \in Requests => passed[handler] = 0
  /\ NothingArrivesInTime

LEMMA HttpStepIsStep ==
  ASSUME handler \in Maybe, [HttpNext]_allVars
  PROVE  [StreamNext]_streamVars
<1>1. ASSUME NEW r \in Requests, SummarizeBegins(r) \/ OtherCaller(r) PROVE StreamNext
  BY <1>1 DEF SummarizeBegins, OtherCaller, CallerStep, StreamNext
<1>2. CASE SummarizeWrites
  BY <1>2 DEF SummarizeWrites, Write, Goes, Maybe, StreamNext, CallerStep
<1>3. ASSUME NEW method, ServeConfig(method) PROVE UNCHANGED streamVars
  BY <1>3 DEF ServeConfig
<1>4. CASE SummarizeReplies
  BY <1>4 DEF SummarizeReplies
<1>5. CASE LlamaServer \/ EventLoop
  BY <1>5 DEF LlamaServer, EventLoop, StreamNext
<1>6. CASE UNCHANGED allVars
  BY <1>6 DEF allVars
<1> QED BY <1>1, <1>2, <1>3, <1>4, <1>5, <1>6 DEF HttpNext

LEMMA HttpInvStep ==
  ASSUME StreamInv, HttpInv, [HttpNext]_allVars
  PROVE  HttpInv'
<1> USE DEF HttpInv
<1>1. ASSUME NEW r \in Requests, SummarizeBegins(r) PROVE HttpInv'
  BY <1>1 DEF SummarizeBegins, Register, streamHistory, Maybe, NothingArrivesInTime,
              StreamInv, NotReadYet
<1>2. CASE (\E r \in Requests : OtherCaller(r)) \/ SummarizeWrites \/ LlamaServer
  <2>1. UNCHANGED <<handler, summary, passed>>
    BY <1>2 DEF OtherCaller, CallerStep, Register, Write, StopGeneration,
                SummarizeWrites, LlamaServer, ServerStep, AnswerPlain,
                AnswerStream, Answers, SendToken, SendDone, httpVars, streamHistory
  <2> QED BY <2>1 DEF NothingArrivesInTime
<1>3. CASE SummarizeReplies
  <2>1. /\ handler \in Requests /\ handler' = NoRequest
        /\ summary' = [r \in DOMAIN summary \cup {handler} |->
                         IF r = handler THEN Reply(r) ELSE summary[r]]
        /\ UNCHANGED <<got, passed>>
    BY <1>3 DEF SummarizeReplies, streamVars, clientVars, streamHistory, Maybe
  <2>2. Reply(handler) = [text |-> <<>>, passed |-> 0]
    BY <2>1 DEF Reply, StreamInv, NeverCalled
  <2>3. NothingArrivesInTime'
    BY <2>1, <2>2 DEF NothingArrivesInTime
  <2> QED BY <2>1, <2>3, StreamAssumption DEF Maybe
<1>4. CASE (\E m \in {"GET", "POST", "PUT"} : ServeConfig(m)) \/ UNCHANGED allVars
  BY <1>4 DEF ServeConfig, streamVars, allVars, httpVars, streamHistory, NothingArrivesInTime
<1>5. CASE EventLoop
  BY <1>5, StreamAssumption
  DEF EventLoop, MainThreadFree, httpVars, NothingArrivesInTime
<1> QED BY <1>1, <1>2, <1>3, <1>4, <1>5 DEF HttpNext

LEMMA HttpInvariance == HttpSpec => [](StreamInv /\ HttpInv)
<1>1. HttpInit => StreamInv /\ HttpInv
  BY StreamStarts, StreamAssumption
  DEF HttpInit, HttpInv, Maybe, NothingArrivesInTime
<1>2. StreamInv /\ HttpInv /\ [HttpNext]_allVars => (StreamInv /\ HttpInv)'
  <2>1. HttpInv => handler \in Maybe
    BY DEF HttpInv
  <2> QED BY <2>1, HttpStepIsStep, StreamStep, HttpInvStep
<1> QED BY <1>1, <1>2, PTL DEF HttpSpec

\* The daemon is one of the behaviours of LlamaStream: what holds of every
\* caller of the client holds of the HTTP server.
THEOREM ServerIsACaller == HttpSpec => StreamSpec
<1>1. HttpInit => StreamInit
  BY DEF HttpInit
<1>2. HttpInv /\ [HttpNext]_allVars => [StreamNext]_streamVars
  BY HttpStepIsStep DEF HttpInv
<1> QED BY <1>1, <1>2, HttpInvariance, PTL DEF HttpSpec, StreamSpec

\* No token is read before the handler of /v1/summarize that asked for it has
\* answered.
THEOREM SummaryIsEmpty == HttpSpec => []NothingArrivesInTime
<1>1. HttpInv => NothingArrivesInTime
  BY DEF HttpInv
<1> QED BY <1>1, HttpInvariance, PTL
=============================================================================
