----------------------------- MODULE DaemonLife -----------------------------
(***************************************************************************)
(* main of the daemon (daemon/src/main.cpp): the steps of the start, each  *)
(* with its failure path, the event loop, and the way out. What the steps  *)
(* call is taken as main uses it: it succeeds, fails or, for the           *)
(* constructor of the store, throws.                                       *)
(*                                                                         *)
(* Outside the code: a SIGTERM at any moment, and the llama server, which  *)
(* may end by itself, and may ignore that it is asked to. Facts of Qt: a   *)
(* quit() before exec() has no effect, and ~QProcess kills its process.    *)
(***************************************************************************)
EXTENDS Naturals

CONSTANTS
  MaxAttempts, \* 5: attempts to connect to the llama server
  MaxSignals   \* bound on the number of signals

ASSUME LifeAssumption == MaxAttempts \in Nat \ {0} /\ MaxSignals \in Nat

VARIABLES
  stage,     \* where main is; "returned", "aborted" and "killed" are the ends
  nvml,      \* nvmlInit_v2 less nvmlShutdown
  server,    \* the llama server that main started is running
  attempt,   \* attempts made to connect
  client,    \* llamaClient is not null
  listening, \* the HTTP server listens
  handlers,  \* the signal handlers are installed
  signals,   \* number of signals
  heard      \* history: a signal came, but not just before the event loop

vars == <<stage, nvml, server, attempt, client, listening, handlers, signals,
          heard>>

\* The steps of the start whose failure ends main, and what follows each.
Following ==
  [device |-> "config", config |-> "open", open |-> "migrate",
   migrate |-> "spawn"]

Ended == stage \in {"returned", "aborted", "killed"}

Init ==
  /\ stage = "nvml" /\ nvml = 0
  /\ server = FALSE /\ attempt = 0 /\ client = FALSE
  /\ listening = FALSE /\ handlers = FALSE
  /\ signals = 0 /\ heard = FALSE

-----------------------------------------------------------------------------
(* The start.                                                              *)

InitNvml ==
  /\ stage = "nvml"
  /\ \/ nvml' = nvml + 1 /\ stage' = "device"
     \/ nvml' = nvml /\ stage' = "unwind"
  /\ UNCHANGED <<server, attempt, client, listening, handlers, signals, heard>>

\* The device handle, the configuration file, opening and migrating the store.
Succeeds ==
  /\ stage \in DOMAIN Following
  /\ stage' = Following[stage]
  /\ UNCHANGED <<nvml, server, attempt, client, listening, handlers, signals,
                 heard>>

\* return 1 after nvmlShutdown.
GivesUpKeepingNvml ==                                            \* mutant
  /\ stage' = "unwind"
  /\ UNCHANGED <<nvml, server, attempt, client, listening, handlers, signals,
                 heard>>
GivesUp ==
  /\ stage' = "unwind"
  /\ nvml' = nvml - 1
  /\ UNCHANGED <<server, attempt, client, listening, handlers, signals, heard>>

Fails == stage \in DOMAIN Following /\ GivesUp

\* The constructor of SqliteStore throws, and nothing catches it.
StoreThrows ==
  /\ stage = "open"
  /\ stage' = "aborted"
  /\ UNCHANGED <<nvml, server, attempt, client, listening, handlers, signals,
                 heard>>

\* With --spawn-server; that the process did not start is not noticed.
SpawnServer ==
  /\ stage = "spawn"
  /\ stage' = "connect"
  /\ server' \in BOOLEAN
  /\ UNCHANGED <<nvml, attempt, client, listening, handlers, signals, heard>>

\* One attempt, and the sleep after it if it failed.
Connects ==
  /\ stage = "connect" /\ attempt < MaxAttempts
  /\ attempt' = attempt + 1
  /\ client' \in BOOLEAN
  /\ stage' = IF client' THEN "listen" ELSE "connect"
  /\ UNCHANGED <<nvml, server, listening, handlers, signals, heard>>

NotConnected == stage = "connect" /\ attempt = MaxAttempts /\ GivesUp

Listens ==
  /\ stage = "listen"
  /\ listening' = TRUE
  /\ stage' = "handlers"
  /\ UNCHANGED <<nvml, server, attempt, client, handlers, signals, heard>>

NotListening == stage = "listen" /\ GivesUp

InstallSignalHandlers ==
  /\ stage = "handlers"
  /\ handlers' = TRUE
  /\ stage' = "exec"
  /\ UNCHANGED <<nvml, server, attempt, client, listening, signals, heard>>

Exec ==
  /\ stage = "exec"
  /\ stage' = "loop"
  /\ UNCHANGED <<nvml, server, attempt, client, listening, handlers, signals,
                 heard>>

\* So may, in a handler of the HTTP server, a query of the store: the process
\* of llamaProcess has no destructor run for it.
HandlerThrows ==
  /\ stage = "loop"
  /\ stage' = "aborted"
  /\ UNCHANGED <<nvml, server, attempt, client, listening, handlers, signals,
                 heard>>

-----------------------------------------------------------------------------
(* The end.                                                                *)

\* aboutToQuit: everything is stopped, the llama server asked to terminate.
AboutToQuit ==
  /\ stage = "quitting"
  /\ listening' = FALSE /\ client' = FALSE
  /\ stage' = "waiting"
  /\ UNCHANGED <<nvml, server, attempt, handlers, signals, heard>>

\* waitForFinished(3000) returns, because the process ended or the time is up.
WaitForEver ==                                                   \* mutant
  /\ stage = "waiting" /\ ~server
  /\ nvml' = nvml - 1
  /\ stage' = "unwind"
  /\ UNCHANGED <<server, attempt, client, listening, handlers, signals, heard>>
Waited ==
  /\ stage = "waiting"
  /\ nvml' = nvml - 1
  /\ stage' = "unwind"
  /\ UNCHANGED <<server, attempt, client, listening, handlers, signals, heard>>

\* The destructors of what main declared, ~QProcess among them.
Unwinds ==
  /\ stage = "unwind"
  /\ server' = FALSE /\ client' = FALSE /\ listening' = FALSE
  /\ stage' = "returned"
  /\ UNCHANGED <<nvml, attempt, handlers, signals, heard>>

-----------------------------------------------------------------------------
(* The environment.                                                        *)

\* What a signal does: the default action, or QCoreApplication::quit.
QuickExit ==                                                     \* mutant
  stage' = "killed" /\ heard' = TRUE
QuitOrDie ==
  /\ stage' = IF ~handlers THEN "killed"
              ELSE IF stage = "loop" THEN "quitting" ELSE stage
  /\ heard' = (heard \/ stage # "exec")

Signal ==
  /\ ~Ended
  /\ signals < MaxSignals /\ signals' = signals + 1
  /\ QuitOrDie
  /\ UNCHANGED <<nvml, server, attempt, client, listening, handlers>>

ServerEnds ==
  /\ server
  /\ server' = FALSE
  /\ UNCHANGED <<stage, nvml, attempt, client, listening, handlers, signals,
                 heard>>

MainGoesOn ==
  \/ InitNvml \/ Succeeds \/ Fails \/ SpawnServer
  \/ Connects \/ NotConnected \/ Listens \/ NotListening
  \/ InstallSignalHandlers \/ Exec \/ AboutToQuit \/ Waited \/ Unwinds

MainStep == MainGoesOn \/ StoreThrows

Next == MainStep \/ HandlerThrows \/ Signal \/ ServerEnds

\* The main thread runs: calls return, sleeps and waits end.
Spec == Init /\ [][Next]_vars /\ WF_vars(MainStep)

-----------------------------------------------------------------------------
(* Properties.                                                             *)

\* NVML is shut down exactly as often as it was initialised, on every way out
\* of main that returns, and never before it is in no more use.
NvmlBalanced ==
  /\ nvml \in Nat
  /\ stage = "returned" => nvml = 0
  /\ listening => nvml = 1

\* A llama server that main started outlives it only if a signal ended the
\* daemon before it had its handlers, or an exception while it served.
ServerLeftOnlyByCrash ==
  Ended /\ server => \/ stage = "killed" /\ ~handlers
                     \/ stage = "aborted" /\ listening

\* A signal ends the daemon, also if the llama server ignores that it is asked
\* to terminate. Only a signal in the moment between the installation of the
\* handlers and the loop may come to nothing: its quit() is lost.
SignalEnds == heard ~> Ended
=============================================================================
