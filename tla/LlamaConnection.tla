--------------------------- MODULE LlamaConnection ---------------------------
(***************************************************************************)
(* The connection of LlamaClient (daemon/src/llama_client.cpp) to the      *)
(* llama.cpp server: QTcpSocket, the single-shot reconnect timers, the     *)
(* exponential backoff in 32-bit arithmetic, and spawnServer, which blocks *)
(* the event loop while it tries to connect; and the server process that   *)
(* spawnServer, restartWithNgl and the destructor start and end.           *)
(*                                                                         *)
(* Everything runs on one thread: an event handler, with every signal it   *)
(* emits, is one action. Outside the code: a server somebody else started  *)
(* may come and go, a process may end, one that serves may ignore that it  *)
(* is asked to, the address has room for one server, and QTcpSocket        *)
(* reports a second connectToHost as an error of its own. A connection     *)
(* whose other end is gone is stale: the socket learns of it when the      *)
(* event loop runs.                                                        *)
(***************************************************************************)
EXTENDS Integers

CONSTANTS
  SpawnTries,   \* the loop of spawnServer: 30
  AttemptsCap,  \* the counter is modelled up to this value, below 32 and above
                \* the 22 of FirstNegative
  MaxRequests   \* bound on calls of connectToServer, spawnServer and
                \* restartWithNgl, and on connections the server closes

ASSUME BoundsAssumption ==
  SpawnTries \in Nat \ {0} /\ AttemptsCap \in 23..31 /\ MaxRequests \in Nat

VARIABLES
  socket,     \* socket_->state(), or "destroyed" with the client
  attempts,   \* reconnect_attempts_
  armed,      \* single-shot timers that will fire
  spawning,   \* 0, or the pass of the loop spawnServer is in
  process,    \* the process of server_process_ runs
  serving,    \* who accepts connections: nobody, the process, the lingering
              \* one before it, which ignores SIGTERM, or somebody else's
  stale,      \* the socket is connected to a server that closed
  \* history:
  asked,      \* somebody asked for a connection
  excused,    \* the loop was entered connected, or left an old server alive;
              \* false again at its end
  requests    \* calls and closed connections so far

serverVars == <<process, serving, stale>>
history == <<asked, excused, requests>>
vars == <<socket, attempts, armed, spawning, serverVars, history>>

-----------------------------------------------------------------------------
(* qMin(30000, (1 << reconnect_attempts_) * 1000), the product in a 32-bit *)
(* int. It is 2^(n+3) * 125, so modulo 2^32 it keeps the last 29 - n bits  *)
(* of 125, the first of them as a sign.                                    *)

Product(n) ==
  LET kept == 125 % 2^(29 - n)
  IN IF n >= 29 THEN 0
     ELSE 2^(n + 2) * (2 * (IF kept < 2^(28 - n) THEN kept ELSE kept - 2^(29 - n)))

Delay(n) == IF Product(n) < 30000 THEN Product(n) ELSE 30000

\* QTimer::singleShot refuses a negative delay: no timer is started.
Arms(n) == Delay(n) >= 0

\* The first attempt whose delay comes out negative.
FirstNegative == 22
ASSUME DelayAssumption == \A n \in 0..(FirstNegative - 1) : Arms(n)

Capped(n) == IF n > AttemptsCap THEN AttemptsCap ELSE n

\* attemptReconnect while the socket is not connected, n timers having gone off.
AttemptReconnect(n) ==
  /\ armed' = (armed - n) + (IF Arms(attempts) THEN 1 ELSE 0)
  /\ attempts' = Capped(attempts + 1)

\* attemptReconnect while it is connected.
StayConnected(n) == armed' = armed - n /\ UNCHANGED attempts

-----------------------------------------------------------------------------
Init ==
  /\ socket = "unconnected" /\ attempts = 0 /\ armed = 0 /\ spawning = 0
  /\ process = FALSE /\ serving \in {"nobody", "other"} /\ stale = FALSE
  /\ asked = FALSE /\ excused = FALSE /\ requests = 0

Idle == spawning = 0 /\ socket # "destroyed"       \* the event loop runs
Counts == requests < MaxRequests /\ requests' = requests + 1

ConnectToServer ==
  /\ Idle /\ Counts
  /\ asked' = TRUE
  /\ \/ socket = "connected" /\ StayConnected(0)
     \/ socket # "connected" /\ AttemptReconnect(0)
  /\ UNCHANGED <<socket, spawning, serverVars, excused>>

\* A timer goes off and calls connectToHost.
TimerConnects ==
  /\ Idle /\ armed > 0 /\ socket = "unconnected"
  /\ socket' = "connecting"
  /\ armed' = armed - 1
  /\ UNCHANGED <<attempts, spawning, serverVars, history>>

\* connectToHost on a socket in use: an error, hence onErrorOccurred.
TimerCollides ==
  /\ Idle /\ armed > 0
  /\ \/ socket = "connected" /\ StayConnected(1)
     \/ socket = "connecting" /\ AttemptReconnect(1)
  /\ UNCHANGED <<socket, spawning, serverVars, history>>

\* The connected signal.
Connects ==
  /\ Idle /\ socket = "connecting" /\ serving # "nobody"
  /\ socket' = "connected" /\ attempts' = 0
  /\ UNCHANGED <<armed, spawning, serverVars, history>>

\* The connection attempt fails: onErrorOccurred.
Fails ==
  /\ Idle /\ socket = "connecting" /\ serving = "nobody"
  /\ socket' = "unconnected"
  /\ UNCHANGED <<spawning, serverVars, history>>
RefusedTwice == Fails /\ AttemptReconnect(-1)                    \* mutant
RefusedForGood == Fails /\ UNCHANGED <<attempts, armed>>         \* mutant
Refused == Fails /\ AttemptReconnect(0)

\* The socket learns of the end of its connection: errorOccurred while the
\* state is still connected, which reconnects nothing, and then disconnected,
\* which does: onDisconnected.
Drops ==
  /\ Idle /\ stale /\ stale' = FALSE
  /\ socket' = "unconnected"
  /\ UNCHANGED <<spawning, process, serving, history>>
ClosedUnheard == Drops /\ UNCHANGED <<attempts, armed>>          \* mutant
Closed == Drops /\ AttemptReconnect(0)

-----------------------------------------------------------------------------
(* spawnServer and restartWithNgl.                                         *)

\* terminate, and five seconds: the process ends or, on the way of spawnServer
\* alone, is left to deleteLater. restartWithNgl kills it.
Leaves(outcomes) ==
  /\ serving' \in IF serving = "own" THEN outcomes ELSE {serving}
  /\ stale' = (stale \/ (socket = "connected" /\ serving # "nobody" /\ serving' = "nobody"))
OldProcessTerminated(call) == Leaves({"nobody", "lingering"})    \* mutant
OldProcess(call) ==
  Leaves(IF call = "spawn" THEN {"nobody", "lingering"} ELSE {"nobody"})

\* The new process does not start.
SpawnFails(call) ==
  /\ Idle /\ Counts
  /\ OldProcess(call)
  /\ process' = FALSE
  /\ UNCHANGED <<socket, attempts, armed, spawning, asked, excused>>

\* It does, and the loop calls connectToHost for the first time: an error if
\* the socket is in use.
SpawnStarts(call) ==
  /\ Idle /\ Counts
  /\ OldProcess(call)
  /\ process' = TRUE /\ asked' = TRUE /\ spawning' = 1
  /\ excused' = \/ socket = "connected" \/ serving = "lingering"
                \/ call = "spawn" /\ serving' = "lingering"
  /\ \/ socket # "connecting" /\ StayConnected(0)
     \/ socket = "connecting" /\ AttemptReconnect(0)
  /\ UNCHANGED socket

\* waitForConnected succeeds, at once if the socket is still connected, even
\* to a server that is gone.
SpawnConnects ==
  /\ spawning > 0 /\ spawning' = 0 /\ excused' = FALSE
  /\ \/ socket = "connected" /\ UNCHANGED attempts
     \/ socket # "connected" /\ serving # "nobody" /\ attempts' = 0
  /\ socket' = "connected"
  /\ UNCHANGED <<armed, serverVars, asked, requests>>

\* It fails, which onErrorOccurred hears of too, and the loop sleeps.
SpawnRefused ==
  /\ spawning > 0 /\ serving = "nobody" /\ socket # "connected"
  /\ socket' = "unconnected"
  /\ AttemptReconnect(0)
  /\ spawning' = IF spawning = SpawnTries THEN 0 ELSE spawning + 1
  /\ excused' = (excused /\ spawning < SpawnTries)
  /\ UNCHANGED <<serverVars, asked, requests>>

-----------------------------------------------------------------------------
(* The servers.                                                            *)

\* A server that accepts connections ends, and with it that of the socket.
ServingEnds ==
  /\ serving' = "nobody" /\ stale' = (stale \/ socket = "connected")
  /\ UNCHANGED <<socket, attempts, armed, spawning, asked, excused>>
CountsLoss == IF stale' # stale THEN Counts ELSE UNCHANGED requests

\* A process that finds the address taken ends too.
ProcessEnds ==
  /\ process /\ process' = FALSE
  /\ \/ serving = "own" /\ ServingEnds /\ CountsLoss
     \/ /\ serving # "own"
        /\ UNCHANGED <<socket, attempts, armed, spawning, serving, stale, history>>

\* The event loop deletes the QProcess of the lingering server: that kills it.
DeleteLater ==
  /\ Idle /\ serving = "lingering"
  /\ ServingEnds /\ UNCHANGED <<process, requests>>

OtherEnds == serving = "other" /\ ServingEnds /\ CountsLoss /\ UNCHANGED process

Accepts ==
  /\ serving = "nobody"
  /\ serving' \in {"other"} \cup (IF process THEN {"own"} ELSE {})
  /\ UNCHANGED <<socket, attempts, armed, spawning, process, stale, history>>

\* The server closes the connection but goes on.
ServerCloses ==
  /\ socket = "connected" /\ ~stale /\ stale' = TRUE
  /\ Counts
  /\ UNCHANGED <<socket, attempts, armed, spawning, process, serving, asked,
                 excused>>

\* The destructor ends the process; timers and socket go with the client.
Destroyed ==
  /\ Idle
  /\ socket' = "destroyed" /\ armed' = 0 /\ attempts' = 0
  /\ process' = FALSE /\ stale' = FALSE
  /\ serving' = IF serving \in {"own", "lingering"} THEN "nobody" ELSE serving
  /\ UNCHANGED <<spawning, history>>

Next ==
  \/ ConnectToServer \/ TimerConnects \/ TimerCollides
  \/ Connects \/ Refused \/ Closed
  \/ \E call \in {"spawn", "restart"} : SpawnFails(call) \/ SpawnStarts(call)
  \/ SpawnConnects \/ SpawnRefused
  \/ ProcessEnds \/ DeleteLater \/ OtherEnds \/ Accepts \/ ServerCloses
  \/ Destroyed

Spec == Init /\ [][Next]_vars

\* Timers go off, connection attempts end, closed connections are noticed,
\* spawnServer goes on, and the event loop deletes what it was asked to.
FairSpec ==
  /\ Spec
  /\ WF_vars(TimerConnects) /\ WF_vars(TimerCollides)
  /\ WF_vars(Connects \/ Refused) /\ WF_vars(Closed)
  /\ WF_vars(SpawnConnects \/ SpawnRefused) /\ WF_vars(DeleteLater)

-----------------------------------------------------------------------------
(* Properties.                                                             *)

\* The client gives up on the server only after 22 attempts without a
\* connection, when the delay of the next one comes out negative and its
\* timer never fires.
GivesUpOnlyLate ==
  asked /\ Idle /\ socket = "unconnected" /\ armed = 0 => attempts > FirstNegative

\* Reconnection does not feed on itself: a chain of attempts is added only by a
\* call, a connection that closed or a pass of spawnServer, one at a time; the
\* errors that overlapping attempts cause each other add none.
Pending(timers, state) == IF state = "connecting" THEN timers + 1 ELSE timers
Chains == Pending(armed, socket)
FromOutside == requests' # requests \/ Closed \/ SpawnRefused
NoReconnectStorm ==
  [][Chains' <= Chains + (IF FromOutside THEN 1 ELSE 0)]_vars

\* A server that stays up is found again, if it came back before the backoff
\* overflowed, also after spawnServer has taken a dead connection for its new
\* server and reported success.
Recovers ==
  [](attempts <= FirstNegative /\ socket # "destroyed") /\ <>[](serving # "nobody") =>
    [](asked => <>(socket = "connected" /\ ~stale))

\* A success of restartWithNgl is a connection to the process it started, or to
\* a server of somebody else, unless the client was connected when it was
\* called or an earlier server lingered; one of spawnServer also, unless the
\* server before lingers.
SuccessIsReal ==
  [][SpawnConnects => excused \/ (serving \in {"own", "other"} /\ ~stale)]_vars
=============================================================================
