--------------------------- MODULE CommandService ---------------------------
(***************************************************************************)
(* What the command path of Mgard300_Handler promises a client: commands   *)
(* are carried out one at a time, each exactly once, in the order in which *)
(* they were put on q_execute_cmd, and every one of them in the end.       *)
(*                                                                         *)
(* The promise is to the first client.  The second connection starts a     *)
(* second executor beside the first (shared), and with it every promise    *)
(* ends: nothing more is pending or done here.                             *)
(***************************************************************************)
EXTENDS Sequences

CONSTANT Commands

VARIABLES
  pending,   \* commands accepted and not yet carried out
  done,      \* commands carried out
  shared     \* the queue has a second executor

svars == <<pending, done, shared>>

Init == pending = <<>> /\ done = <<>> /\ shared = FALSE

(* set_state *)
Submit(c) ==
  /\ ~shared
  /\ pending' = Append(pending, c)
  /\ UNCHANGED <<done, shared>>

(* DET_State::handle *)
Serve ==
  /\ ~shared
  /\ pending # <<>>
  /\ done' = Append(done, Head(pending))
  /\ pending' = Tail(pending)
  /\ UNCHANGED shared

(* start_thread_checkstate_thread, for another connection *)
Share ==
  /\ ~shared
  /\ shared' = TRUE
  /\ pending' = <<>> /\ done' = <<>>

Next == (\E c \in Commands : Submit(c)) \/ Serve \/ Share

SafeSpec == Init /\ [][Next]_svars
Spec == SafeSpec /\ WF_svars(Serve)

=============================================================================
