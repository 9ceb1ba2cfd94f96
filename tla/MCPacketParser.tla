--------------------------- MODULE MCPacketParser ---------------------------
EXTENDS PacketParser

CONSTANT WORK

(* Parameters that look like the head of a packet and its command. *)
HeadInside == {<<HEAD, WORK>>}

(* Everything may befall the first parse thread while it is the only one;  *)
(* two threads are explored in all their orders, with whole packets and    *)
(* without a failed recv.                                                  *)
TwoThreads == \A c \in Conns : pc[c] # "unborn"
FewFaults ==
  TwoThreads => short = {} /\ ~failed /\ \A c \in Conns : ended[c] = "open"
=============================================================================
