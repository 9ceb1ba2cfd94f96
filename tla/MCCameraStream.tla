--------------------------- MODULE MCCameraStream ---------------------------
EXTENDS CameraStream, TLC

(* Work threads are never named. *)
WorkerSymmetry == Permutations(Workers)
=============================================================================
