------------------------------ MODULE GpuGuard ------------------------------
(***************************************************************************)
(* GpuGuard (daemon/src/gpu_guard.cpp): a 5 Hz poll on the Qt thread that  *)
(* stores the NVML sample in two relaxed atomics, then throttles or        *)
(* releases the listener with hysteresis. canAcceptWork reads the atomics  *)
(* from other threads at any moment, so the poll is split at its stores.   *)
(*                                                                         *)
(* The listener is the slot of throttleRequested: in the daemon the queue  *)
(* (see DispatchControl), here the value of the last signal delivered.     *)
(***************************************************************************)
EXTENDS Integers

CONSTANTS
  UtilThreshold, \* m_util_threshold, percent
  VramHeadroom,  \* m_vram_headroom, MB
  Utils,         \* utilizations NVML may report
  Frees,         \* free VRAM amounts NVML may report, MB
  ModelSizes,    \* sizes calculateOptimalNgl may be asked about, MB
  IntMax         \* the largest int: the cast of the layers must be exact

ASSUME GuardAssumption ==
  /\ UtilThreshold \in 0..100 /\ VramHeadroom \in Nat
  /\ IntMax \in Nat
  /\ Utils \subseteq 0..100 /\ Frees \subseteq 0..IntMax
  /\ ModelSizes \subseteq Nat

Hysteresis == 10   \* percentage points below the threshold before release

VARIABLES
  device,        \* m_device is not null
  nvmlAvailable, \* m_nvml_available
  timerActive,   \* m_timer is running
  utilization,   \* m_utilization
  vramFree,      \* m_vram_free
  throttled,     \* m_throttled
  phase,         \* where the Qt thread is in initialize/pollGpu
  sampleFree,    \* pollGpu's local free_mb
  listener,      \* the last throttleRequested value delivered
  polls          \* history: number of completed good polls, capped at 1

guardVars == <<device, nvmlAvailable, timerActive, utilization, vramFree,
               throttled, phase, sampleFree, listener, polls>>

Init ==
  /\ device \in BOOLEAN
  /\ nvmlAvailable = FALSE /\ timerActive = FALSE
  /\ utilization = 0 /\ vramFree = 0
  /\ throttled = FALSE /\ listener = FALSE
  /\ phase = "constructed"
  /\ sampleFree = 0 /\ polls = 0

\* initialize on a null device: throttled for good, and says so.
InitializeWithoutDevice ==
  /\ phase = "constructed" /\ ~device
  /\ nvmlAvailable' = FALSE
  /\ throttled' = TRUE
  /\ phase' = "emitting"
  /\ UNCHANGED <<device, timerActive, utilization, vramFree, sampleFree,
                 listener, polls>>

\* initialize on a device: start the timer; nothing has been sampled yet.
InitializeWithDevice ==
  /\ phase = "constructed" /\ device
  /\ nvmlAvailable' = TRUE
  /\ timerActive' = TRUE
  /\ phase' = "idle"
  /\ UNCHANGED <<device, utilization, vramFree, throttled, sampleFree,
                 listener, polls>>

PollStarts == phase = "idle" /\ timerActive /\ nvmlAvailable

\* pollGpu, either NVML query failing: give up for good. Nothing is stored.
PollFailsSilently ==                                             \* mutant
  /\ PollStarts
  /\ nvmlAvailable' = FALSE
  /\ timerActive' = FALSE
  /\ UNCHANGED <<device, utilization, vramFree, throttled, phase, sampleFree,
                 listener, polls>>
PollFails ==
  /\ PollStarts
  /\ nvmlAvailable' = FALSE
  /\ throttled' = TRUE
  /\ timerActive' = FALSE
  /\ phase' = "emitting"
  /\ UNCHANGED <<device, utilization, vramFree, sampleFree, listener, polls>>

\* pollGpu, both queries good, up to the store of the utilization.
PollStoresUtil(util, free) ==
  /\ PollStarts
  /\ utilization' = util
  /\ sampleFree' = free
  /\ phase' = "utilStored"
  /\ UNCHANGED <<device, nvmlAvailable, timerActive, vramFree, throttled,
                 listener, polls>>

PollStoresVram ==
  /\ phase = "utilStored"
  /\ vramFree' = sampleFree
  /\ phase' = "vramStored"
  /\ UNCHANGED <<device, nvmlAvailable, timerActive, utilization, throttled,
                 sampleFree, listener, polls>>

ShouldThrottle == utilization > UtilThreshold \/ vramFree <= VramHeadroom

MayRelease ==
  /\ utilization < UtilThreshold - Hysteresis
  /\ vramFree > VramHeadroom

StickyThrottle == ShouldThrottle \/ throttled                    \* mutant

\* The state machine at the end of pollGpu.
NextThrottled ==
  IF ShouldThrottle THEN TRUE
  ELSE IF throttled /\ MayRelease THEN FALSE ELSE throttled

PollDecides ==
  /\ phase = "vramStored"
  /\ throttled' = NextThrottled
  /\ phase' = IF NextThrottled # throttled THEN "emitting" ELSE "idle"
  /\ polls' = 1
  /\ UNCHANGED <<device, nvmlAvailable, timerActive, utilization, vramFree,
                 sampleFree, listener>>

\* emit throttleRequested(m_throttled), a direct call of the slot.
EmitNothing ==                                                   \* mutant
  /\ phase = "emitting" /\ phase' = "idle"
  /\ UNCHANGED <<device, nvmlAvailable, timerActive, utilization, vramFree,
                 throttled, sampleFree, listener, polls>>
Emit ==
  /\ phase = "emitting"
  /\ listener' = throttled
  /\ phase' = "idle"
  /\ UNCHANGED <<device, nvmlAvailable, timerActive, utilization, vramFree,
                 throttled, sampleFree, polls>>

\* canAcceptWork, when no store falls between its two loads.
CanAcceptWork ==
  nvmlAvailable /\ utilization < UtilThreshold /\ vramFree > VramHeadroom

-----------------------------------------------------------------------------
(* calculateOptimalNgl: how many layers of a model go to the GPU. It only  *)
(* reads, and may be called at any moment.                                 *)

TotalLayers == 32

AllOfIt == vramFree                                              \* mutant
Usable == vramFree - VramHeadroom

OneMore(model) == model \div TotalLayers + 1                     \* mutant
PerLayer(model) ==
  IF model \div TotalLayers = 0 THEN 1 ELSE model \div TotalLayers

AtMostAll(n) == IF n > TotalLayers THEN TotalLayers ELSE n

HasRoom(model) == nvmlAvailable /\ model # 0 /\ vramFree > VramHeadroom

CalculateOptimalNgl(model) ==
  IF HasRoom(model) THEN AtMostAll(Usable \div PerLayer(model)) ELSE 0

-----------------------------------------------------------------------------
PollStep ==
  \/ \E util \in Utils, free \in Frees : PollStoresUtil(util, free)
  \/ PollStoresVram
  \/ PollDecides

Next ==
  \/ InitializeWithoutDevice
  \/ InitializeWithDevice
  \/ PollFails
  \/ PollStep
  \/ Emit

Spec == Init /\ [][Next]_guardVars

\* The timer keeps firing and a slot that runs finishes. NVML need not fail.
FairSpec == Spec /\ WF_guardVars(PollStep) /\ WF_guardVars(Emit)
                 /\ WF_guardVars(InitializeWithDevice)
                 /\ WF_guardVars(InitializeWithoutDevice)

-----------------------------------------------------------------------------
(* Properties.                                                             *)

\* Types of the variables.
TypeOK ==
  /\ device \in BOOLEAN /\ nvmlAvailable \in BOOLEAN /\ timerActive \in BOOLEAN
  /\ throttled \in BOOLEAN /\ listener \in BOOLEAN
  /\ utilization \in Utils \cup {0}
  /\ vramFree \in Frees \cup {0} /\ sampleFree \in Frees \cup {0}
  /\ phase \in {"constructed", "idle", "utilStored", "vramStored", "emitting"}
  /\ polls \in {0, 1}

\* Between polls the listener knows the state of the throttle.
ListenerInformed == phase = "idle" => listener = throttled

\* Between polls, a guard that is not throttled has a sample within the
\* limits: over-use and lack of memory never go unnoticed.
UnthrottledIsSafe ==
  phase = "idle" /\ polls = 1 /\ ~throttled =>
    utilization <= UtilThreshold /\ vramFree > VramHeadroom

\* pollGpu throttles above the threshold, canAcceptWork refuses at it. After a
\* first poll that mismatch is the only refusal the listener is not told of.
UnsignalledRefusal ==
  phase = "idle" /\ polls = 1 /\ ~CanAcceptWork /\ ~listener =>
    utilization = UtilThreshold

\* NVML lost, or never there: the listener is throttled and stays so, and no
\* sample is ever accepted again.
FailStop ==
  (phase # "constructed" /\ ~nvmlAvailable) ~> [](listener /\ ~CanAcceptWork)

\* A GPU that stays well below the threshold, with memory to spare, is
\* eventually released for good.
Quiet == /\ nvmlAvailable /\ sampleFree > VramHeadroom
         /\ utilization < UtilThreshold - Hysteresis
Released == <>[]Quiet => <>[](~throttled /\ ~listener)

\* A model of at least a megabyte a layer that fits above the headroom is
\* offloaded whole, although the size of a layer is rounded. (Of a smaller one
\* some layers may stay behind.)
WholeIfItFits ==
  \A model \in ModelSizes :
    nvmlAvailable /\ model >= TotalLayers /\ vramFree >= VramHeadroom + model
      => CalculateOptimalNgl(model) = TotalLayers

\* A layer takes model / TotalLayers megabytes, which the code rounds down:
\* what it offloads may cut into the headroom, but by less than a megabyte
\* for each layer.
OvercommitBounded ==
  \A model \in ModelSizes :
    LET layers == CalculateOptimalNgl(model)
    IN  layers > 0 =>
          layers * model < TotalLayers * (vramFree - VramHeadroom + layers)
=============================================================================
