---------------------------- MODULE MCImageSend -----------------------------
EXTENDS ImageSend, TLC

(* Neither senders nor connections are ever named. *)
SendSymmetry == Permutations(Senders) \cup Permutations(Conns)
=============================================================================
