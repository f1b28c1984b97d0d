--------------------------- MODULE MCLlamaClient ---------------------------
(***************************************************************************)
(* One run for the two specifications of LlamaClient: LlamaConnection, the *)
(* connection and its server process, and HttpServer on LlamaStream, what  *)
(* goes over the connection (there, anything may happen to it at any       *)
(* moment). They share no variable, so a behaviour is one of the part that *)
(* is chosen at the start, while the variables of the other keep an        *)
(* initial value. The properties of a part are then checked on all of its  *)
(* behaviours.                                                             *)
(***************************************************************************)
EXTENDS LlamaConnection, HttpServer

VARIABLE part

mcVars == <<vars, allVars, part>>

\* One initial state of each part, for while it does not run.
NoConnection == socket = "unconnected" /\ serving = "nobody"
NoStream == link = "off" /\ parts = {} /\ \A r \in Requests : tokens[r] = 0

MCInit ==
  /\ part \in {"connection", "stream"}
  /\ Init /\ HttpInit
  /\ part = "connection" => NoStream
  /\ part = "stream" => NoConnection

MCNext ==
  \/ part = "connection" /\ Next /\ UNCHANGED <<allVars, part>>
  \/ part = "stream" /\ HttpNext /\ UNCHANGED <<vars, part>>

\* The fairness of LlamaConnection.
MCSpec ==
  /\ MCInit /\ [][MCNext]_mcVars
  /\ WF_vars(part = "connection" /\ TimerConnects)
  /\ WF_vars(part = "connection" /\ TimerCollides)
  /\ WF_vars(part = "connection" /\ (Connects \/ Refused))
  /\ WF_vars(part = "connection" /\ Closed)
  /\ WF_vars(part = "connection" /\ (SpawnConnects \/ SpawnRefused))
  /\ WF_vars(part = "connection" /\ DeleteLater)
=============================================================================
