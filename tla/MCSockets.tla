------------------------------ MODULE MCSockets ------------------------------
EXTENDS Sockets

(* A loop reads and writes only what belongs to its own object: loops are  *)
(* explored with no other object alive.                                    *)
LoopAlone == \A o \in alive : io[o] # NoIO => alive = {o}
=============================================================================
