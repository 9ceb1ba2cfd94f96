-------------------------- MODULE NumberConnection --------------------------
(***************************************************************************)
(* The connection counter of Mgard300_Handler.  Each method holds          *)
(* connection_mutex for its whole body, so each is one indivisible update  *)
(* of the counter; what is NOT indivisible is a caller that reads the      *)
(* counter and then updates it.                                            *)
(***************************************************************************)
EXTENDS Naturals

(* Mgard300_Handler::increment_number_connection *)
IncrementNumberConnection(n) == n + 1

(* Faulty variant: an unguarded double decrement. *)
DecrementByTwo(n) == n - 2

(* Mgard300_Handler::decrement_number_connection: never below zero. *)
DecrementNumberConnection(n) == IF n > 0 THEN n - 1 ELSE n

=============================================================================
