----------------------------- MODULE Detections -----------------------------
(***************************************************************************)
(* What a camera is given to work on: the frames of its video, and the     *)
(* tracks that the person tracker follows from one of them to the next.    *)
(***************************************************************************)
EXTENDS Naturals

CONSTANTS
  Tracks,      \* track ids of the detector
  MaxFrames    \* bound on the frames processed

ASSUME MaxFramesAssumption == MaxFrames \in Nat
=============================================================================
