--------------------------- MODULE GpuGuardProofs ---------------------------
(***************************************************************************)
(* Proofs about GpuGuard, for every threshold, headroom and set of         *)
(* samples: what the listener knows, and the plan of the layers.           *)
(***************************************************************************)
EXTENDS GpuGuard, TLAPS

\* The listener is behind only while a signal is on its way.
Informed == phase # "emitting" => listener = throttled

\* The decision of the last poll still fits the sample when it is signalled.
DecidedSafely ==
  phase \in {"idle", "emitting"} /\ polls = 1 /\ ~throttled =>
    utilization <= UtilThreshold /\ vramFree > VramHeadroom

\* Without NVML the guard is throttled and polls no more.
LostIsThrottled ==
  /\ phase = "constructed" => polls = 0
  /\ phase # "constructed" /\ ~nvmlAvailable
       => throttled /\ phase \in {"idle", "emitting"}

Lost == phase # "constructed" /\ ~nvmlAvailable

IInv == TypeOK /\ Informed /\ DecidedSafely /\ LostIsThrottled

LEMMA InitIInv == Init => IInv
<1> QED BY DEF Init, IInv, TypeOK, Informed, DecidedSafely, LostIsThrottled

\* Samples are numbers.
LEMMA SampleTypes ==
  ASSUME TypeOK
  PROVE  /\ utilization \in Nat /\ vramFree \in Nat /\ sampleFree \in Nat
         /\ UtilThreshold \in Nat /\ VramHeadroom \in Nat
<1> QED BY GuardAssumption DEF TypeOK

\* Every step and every stutter preserves the invariant.
LEMMA NextIInv == IInv /\ [Next]_guardVars => IInv'
<1> SUFFICES ASSUME IInv, [Next]_guardVars PROVE IInv'
  OBVIOUS
<1> USE DEF IInv, TypeOK, Informed, DecidedSafely, LostIsThrottled
<1>1. CASE InitializeWithoutDevice
  BY <1>1 DEF InitializeWithoutDevice
<1>2. CASE InitializeWithDevice
  BY <1>2 DEF InitializeWithDevice
<1>3. CASE PollFails
  BY <1>3 DEF PollFails, PollStarts
<1>4. ASSUME NEW util \in Utils, NEW free \in Frees, PollStoresUtil(util, free)
      PROVE  IInv'
  BY <1>4 DEF PollStoresUtil, PollStarts
<1>5. CASE PollStoresVram
  BY <1>5 DEF PollStoresVram
<1>6. CASE PollDecides
  <2>1. /\ throttled' = NextThrottled /\ throttled' \in BOOLEAN
        /\ phase' = IF throttled' # throttled THEN "emitting" ELSE "idle"
        /\ utilization' = utilization /\ vramFree' = vramFree
        /\ listener' = listener /\ nvmlAvailable' = nvmlAvailable
    BY <1>6 DEF PollDecides, NextThrottled
  <2>2. TypeOK'
    BY <1>6, <2>1 DEF PollDecides
  <2>3. Informed'
    BY <1>6, <2>1 DEF PollDecides
  <2>4. ~throttled' => utilization <= UtilThreshold /\ vramFree > VramHeadroom
    BY <2>1, SampleTypes DEF NextThrottled, ShouldThrottle
  <2>5. DecidedSafely'
    BY <2>1, <2>4
  <2>6. LostIsThrottled'
    BY <1>6, <2>1 DEF PollDecides
  <2> QED BY <2>2, <2>3, <2>5, <2>6
<1>7. CASE Emit
  BY <1>7 DEF Emit
<1>8. CASE UNCHANGED guardVars
  BY <1>8 DEF guardVars
<1> QED BY <1>1, <1>2, <1>3, <1>4, <1>5, <1>6, <1>7, <1>8 DEF Next, PollStep

\* The invariant holds in every reachable state.
LEMMA Invariance == Spec => []IInv
<1> QED BY InitIInv, NextIInv, PTL DEF Spec

\* Types of the guard's state.
THEOREM GuardTypeCorrect == Spec => []TypeOK
<1>1. IInv => TypeOK
  BY DEF IInv
<1> QED BY <1>1, Invariance, PTL

\* Between polls the listener knows the state of the throttle.
THEOREM ListenerKnows == Spec => []ListenerInformed
<1>1. IInv => ListenerInformed
  BY DEF IInv, Informed, ListenerInformed
<1> QED BY <1>1, Invariance, PTL

\* A guard that is not throttled has a sample within the limits.
THEOREM ThrottleIsSound == Spec => []UnthrottledIsSafe
<1>1. IInv => UnthrottledIsSafe
  BY DEF IInv, DecidedSafely, UnthrottledIsSafe
<1> QED BY <1>1, Invariance, PTL

\* After a poll, the one refusal that the listener is not told of is that of a
\* utilization equal to the threshold.
THEOREM OnlyMismatch == Spec => []UnsignalledRefusal
<1>1. ASSUME IInv PROVE UnsignalledRefusal
  <2> SUFFICES ASSUME phase = "idle", polls = 1, ~CanAcceptWork, ~listener
               PROVE  utilization = UtilThreshold
    BY DEF UnsignalledRefusal
  <2>1. ~throttled
    BY <1>1 DEF IInv, Informed
  <2>2. nvmlAvailable
    BY <1>1, <2>1 DEF IInv, LostIsThrottled
  <2>3. utilization <= UtilThreshold /\ vramFree > VramHeadroom
    BY <1>1, <2>1 DEF IInv, DecidedSafely
  <2> QED BY <1>1, <2>2, <2>3, SampleTypes DEF CanAcceptWork, IInv
<1> QED BY <1>1, Invariance, PTL

\* NVML lost, or never there, is for good: no sample is accepted again, and a
\* listener that was told is never told otherwise. (That it is told is left to
\* the fairness of FailStop.)
THEOREM LostForGood ==
  Spec => /\ [](Lost => []Lost)
          /\ [](Lost /\ listener => [](listener /\ ~CanAcceptWork))
<1> DEFINE Told == Lost /\ listener
<1>1. ASSUME IInv, Lost, [Next]_guardVars
      PROVE  Lost' /\ (listener => listener')
  <2>1. phase # "constructed" /\ ~nvmlAvailable /\ throttled
        /\ phase \in {"idle", "emitting"}
    BY <1>1 DEF Lost, IInv, LostIsThrottled
  <2>2. CASE Emit
    BY <2>1, <2>2 DEF Emit, Lost
  <2>3. CASE UNCHANGED guardVars
    BY <2>1, <2>3 DEF guardVars, Lost
  <2> QED
    BY <1>1, <2>1, <2>2, <2>3
    DEF Next, InitializeWithoutDevice, InitializeWithDevice, PollFails, PollStep,
        PollStoresUtil, PollStoresVram, PollDecides, PollStarts
<1>2. /\ IInv /\ Lost /\ [Next]_guardVars => Lost'
      /\ IInv /\ Told /\ [Next]_guardVars => Told'
  BY <1>1
<1>3. Told => listener /\ ~CanAcceptWork
  BY DEF Lost, CanAcceptWork
<1>4. Told <=> Lost /\ listener
  OBVIOUS
<1> HIDE DEF Told
<1> QED
  BY <1>2, <1>3, <1>4, Invariance, PTL DEF Spec

-----------------------------------------------------------------------------
(* calculateOptimalNgl, for every size of the model, every headroom and    *)
(* whatever sample the guard holds.                                        *)

\* What the integer division of the code means.
LEMMA Division ==
  ASSUME NEW a \in Nat, NEW b \in Nat \ {0}
  PROVE  /\ a \div b \in Nat
         /\ b * (a \div b) <= a /\ a < b * (a \div b + 1)
<1> QED OBVIOUS

\* Multiplication is monotone.
LEMMA Monotone ==
  ASSUME NEW a \in Nat, NEW b \in Nat, NEW c \in Nat, a <= b
  PROVE  c * a <= c * b
<1>1. PICK d \in Nat : b = a + d
  BY b - a \in Nat
<1>2. c * b = c * a + c * d /\ c * d \in Nat /\ c * a \in Nat
  BY <1>1
<1> QED BY <1>2

\* The size of a layer in the code, against the model.
LEMMA LayerSize ==
  ASSUME NEW model \in Nat
  PROVE  /\ PerLayer(model) \in Nat \ {0}
         /\ model < 32 * (PerLayer(model) + 1)
         /\ model >= 32 => 32 * PerLayer(model) <= model
<1>1. /\ model \div 32 \in Nat
      /\ 32 * (model \div 32) <= model /\ model < 32 * (model \div 32 + 1)
  BY Division
<1> QED BY <1>1 DEF PerLayer, TotalLayers

\* The quotient the code computes, when there is room.
LEMMA Quotient ==
  ASSUME TypeOK, NEW model \in Nat, HasRoom(model),
         NEW q, q = Usable \div PerLayer(model)
  PROVE  /\ q \in Nat /\ Usable \in Nat
         /\ PerLayer(model) * q <= Usable /\ Usable < PerLayer(model) * (q + 1)
<1>1. Usable \in Nat
  BY SampleTypes DEF HasRoom, Usable
<1>2. PerLayer(model) \in Nat \ {0}
  BY LayerSize
<1> QED BY <1>1, <1>2, Division

\* If the model fits, the quotient is at least the number of layers.
LEMMA FitsWhole == TypeOK => WholeIfItFits
<1> SUFFICES ASSUME TypeOK, NEW model \in ModelSizes, nvmlAvailable,
                    model >= 32, vramFree >= VramHeadroom + model
             PROVE  CalculateOptimalNgl(model) = 32
  BY DEF WholeIfItFits, TotalLayers
<1> DEFINE b == PerLayer(model)
           q == Usable \div b
<1>1. model \in Nat
  BY GuardAssumption
<1>2. HasRoom(model)
  BY <1>1, SampleTypes DEF HasRoom
<1>3. q \in Nat /\ Usable \in Nat /\ b \in Nat /\ Usable < b * (q + 1)
  BY <1>1, <1>2, Quotient, LayerSize
<1>4. 32 * b <= Usable
  BY <1>1, <1>3, LayerSize, SampleTypes DEF Usable
<1>5. q + 1 > 32
  <2> SUFFICES ASSUME q + 1 <= 32 PROVE FALSE
    BY <1>3
  <2>1. b * (q + 1) <= b * 32
    BY <1>3, Monotone
  <2> QED BY <2>1, <1>3, <1>4
<1>6. CalculateOptimalNgl(model) = AtMostAll(q)
  BY <1>2 DEF CalculateOptimalNgl
<1> QED BY <1>3, <1>5, <1>6 DEF AtMostAll, TotalLayers

\* n layers of a model of m megabytes, each taken for b megabytes.
LEMMA Rounding ==
  ASSUME NEW n \in Nat, NEW q \in Nat, NEW b \in Nat, NEW m \in Nat,
         NEW u \in Nat,
         0 < n, n <= q, b * q <= u, m < 32 * (b + 1)
  PROVE  n * m < 32 * (u + n)
<1>1. b * n <= u
  BY Monotone
<1>2. n * (m + 1) <= n * (32 * (b + 1))
  BY Monotone, m + 1 \in Nat, 32 * (b + 1) \in Nat, m + 1 <= 32 * (b + 1)
<1>3. n * (m + 1) = n * m + n
  OBVIOUS
<1>4. n * (32 * (b + 1)) = 32 * (b * n) + 32 * n
  OBVIOUS
<1>5. n * m \in Nat /\ b * n \in Nat
  OBVIOUS
<1> QED BY <1>1, <1>2, <1>3, <1>4, <1>5

\* Each of the layers is less than a megabyte larger than the code takes it.
LEMMA SlightOvercommit == TypeOK => OvercommitBounded
<1> SUFFICES ASSUME TypeOK, NEW model \in ModelSizes,
                    NEW n, n = CalculateOptimalNgl(model), n > 0
             PROVE  n * model < 32 * (Usable + n)
  BY DEF OvercommitBounded, Usable, TotalLayers
<1>1. model \in Nat
  BY GuardAssumption
<1>2. HasRoom(model)
  BY DEF CalculateOptimalNgl
<1>3. PICK q \in Nat : q = Usable \div PerLayer(model)
  BY <1>1, <1>2, Quotient
<1>4. PICK b \in Nat : b = PerLayer(model)
  BY <1>1, LayerSize
<1>5. Usable \in Nat /\ b * q <= Usable
  BY <1>1, <1>2, <1>3, <1>4, Quotient
<1>6. n \in Nat /\ n <= q
  BY <1>2, <1>3 DEF CalculateOptimalNgl, AtMostAll, TotalLayers
<1>7. model < 32 * (b + 1)
  BY <1>1, <1>4, LayerSize
<1> QED BY <1>1, <1>5, <1>6, <1>7, Rounding

\* A model that fits above the headroom goes to the GPU whole.
THEOREM FittingModelIsWhole == Spec => []WholeIfItFits
<1> QED BY GuardTypeCorrect, FitsWhole, PTL

\* The headroom is overdrawn by less than a megabyte for each layer.
THEOREM HeadroomNearlyKept == Spec => []OvercommitBounded
<1> QED BY GuardTypeCorrect, SlightOvercommit, PTL
=============================================================================
