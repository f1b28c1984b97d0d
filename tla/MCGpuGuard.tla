----------------------------- MODULE MCGpuGuard -----------------------------
(* Instances of GpuGuard: samples on both sides of every comparison.       *)
EXTENDS GpuGuard

\* Threshold 85, hysteresis limit 75.
UtilsAround85 == {0, 74, 75, 84, 85, 86, 100}
\* Headroom 800, and a model's size above it on both sides of 1 to 3
\* megabytes a layer.
FreesAround800 ==
  {0, 799, 800, 801, 831, 832, 833, 863, 864, 865, 895, 896, 897}
\* From no model at all to four megabytes a layer.
SizesTo130 == 0..130
=============================================================================
