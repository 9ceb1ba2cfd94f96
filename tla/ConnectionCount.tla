-------------------------- MODULE ConnectionCount ---------------------------
(***************************************************************************)
(* How Mgard300_Handler keeps track of its clients: the accept loop of     *)
(* handle_connections, the parse threads it starts and detaches, and the   *)
(* counter number_connection by which a superseded parse thread is meant   *)
(* to notice that a newer client has taken over and to exit.               *)
(*                                                                         *)
(* Several threads can be in the accept loop: thread_1024 (Main) and every *)
(* work thread whose send failed and that re-entered handle_connections.   *)
(* All of them share ONE socket object, current_socket.  It is reduced to  *)
(* the two members its operator! reads: whether the handle is valid and    *)
(* whether the cached lastErr_ is non-zero.                                *)
(*                                                                         *)
(* The interleaving is that of the code: every locked method is one step,  *)
(* and so is every unlocked read of current_socket.                        *)
(***************************************************************************)
EXTENDS NumberConnection, FiniteSets

CONSTANTS
  Acceptors,   \* threads that may run handle_connections
  Main,        \* thread_1024, the one that starts in it
  Parsers,     \* identities of parse threads, one per start_thread_parse_thread
  MaxAccepts   \* bound: calls of accept() explored

ASSUME ThreadAssumption ==
  /\ Main \in Acceptors
  /\ IsFiniteSet(Acceptors)
  /\ IsFiniteSet(Parsers)
  /\ MaxAccepts \in Nat

VARIABLES
  number_connection,
  check_exist_connection,  \* written by an exiting parse thread, read nowhere
  handle_valid,            \* current_socket.handle_ # INVALID_SOCKET
  lastErr,                 \* current_socket.lastErr_ # 0
  apc,                     \* where each accept loop stands
  ppc,                     \* where each parse thread stands
  accepts,                 \* history: calls of accept() that returned
  unparsed                 \* history: counted connections given no parse thread

sock == <<handle_valid, lastErr>>
vars == <<number_connection, check_exist_connection, handle_valid, lastErr,
          apc, ppc, accepts, unparsed>>

(* sockpp::socket::operator bool *)
SocketOk == handle_valid /\ ~lastErr

(* The handler is a local of thread_1024: it dies when Main's loop returns. *)
HandlerAlive == apc[Main] # "returned"

(* Parse threads that have been started and have not returned. *)
Live == {p \in Parsers : ppc[p] \in {"parse", "count", "reap"}}
(* Parse threads that have read number_connection == 2 and not yet acted. *)
Reaping == {p \in Parsers : ppc[p] = "reap"}
(* Accept loops between the increment and the start of the parse thread. *)
Counted == {a \in Acceptors : apc[a] \in {"check", "start"}}

(* Executors and work threads exist once a first client has been served. *)
WorkersExist == \E p \in Parsers : ppc[p] # "unborn"

-----------------------------------------------------------------------------
Init ==
  /\ number_connection = 0
  /\ check_exist_connection = FALSE
  /\ handle_valid = FALSE
  /\ lastErr = FALSE
  /\ apc = [a \in Acceptors |-> IF a = Main THEN "accept" ELSE "idle"]
  /\ ppc = [p \in Parsers |-> "unborn"]
  /\ accepts = 0
  /\ unparsed = 0

(* Once the handler is destroyed every further access to it is undefined   *)
(* behaviour: no thread is modelled beyond that point.                     *)
AGoto(a, from, to) ==
  HandlerAlive /\ apc[a] = from /\ apc' = [apc EXCEPT ![a] = to]
PGoto(p, from, to) ==
  HandlerAlive /\ ppc[p] = from /\ ppc' = [ppc EXCEPT ![p] = to]

(* accept() returns a connection or an error, and its result is moved into *)
(* current_socket, lastErr_ = 0 included.  close_all_threads before it has *)
(* no effect: every thread in tm_ is detached, hence not joinable.         *)
Accept(a) ==
  /\ AGoto(a, "accept", "increment")
  /\ accepts < MaxAccepts
  /\ accepts' = accepts + 1
  /\ handle_valid' \in BOOLEAN
  /\ lastErr' = FALSE
  /\ UNCHANGED <<number_connection, check_exist_connection, ppc, unparsed>>

(* The counter goes up before the result of accept() is looked at. *)
Increment(a) ==
  /\ AGoto(a, "increment", "check")
  /\ number_connection' = IncrementNumberConnection(number_connection)
  /\ UNCHANGED <<check_exist_connection, sock, ppc, accepts, unparsed>>

(* if (!current_socket) continue; - the count is not taken back *)
SkipBadSocket(a) ==
  /\ ~SocketOk
  /\ AGoto(a, "check", "accept")
  /\ unparsed' = unparsed + 1
  /\ UNCHANGED <<number_connection, check_exist_connection, sock, ppc, accepts>>

PassGoodSocket(a) ==
  /\ SocketOk
  /\ AGoto(a, "check", "start")
  /\ UNCHANGED <<number_connection, check_exist_connection, sock, ppc, accepts,
                 unparsed>>

StartThreads(a, p) ==
  /\ AGoto(a, "start", "recheck")
  /\ PGoto(p, "unborn", "parse")
  /\ UNCHANGED <<number_connection, check_exist_connection, sock, accepts,
                 unparsed>>

(* if (!get_current_socket()) break; *)
Recheck(a) ==
  /\ \/ SocketOk /\ AGoto(a, "recheck", "accept")
     \/ ~SocketOk /\ AGoto(a, "recheck", "returned")
  /\ UNCHANGED <<number_connection, check_exist_connection, sock, ppc, accepts,
                 unparsed>>

-----------------------------------------------------------------------------
(* parse_msg_client returns: its recv, which may have been blocked on an   *)
(* older handle, writes the lastErr_ of the object that is current by now. *)
ParseMsg(p) ==
  /\ PGoto(p, "parse", "count")
  /\ lastErr' \in BOOLEAN
  /\ ~handle_valid => lastErr'
  /\ UNCHANGED <<number_connection, check_exist_connection, handle_valid, apc,
                 accepts, unparsed>>

(* Faulty variant: the comparison made "at least 2", as its intent suggests. *)
CheckCountAtLeast(p) ==
  /\ \/ number_connection >= 2 /\ PGoto(p, "count", "reap")
     \/ number_connection < 2 /\ PGoto(p, "count", "parse")
  /\ UNCHANGED <<number_connection, check_exist_connection, sock, apc, accepts,
                 unparsed>>

(* The locked read in "if (get_number_connection() == 2)". *)
CheckCount(p) ==
  /\ \/ number_connection = 2 /\ PGoto(p, "count", "reap")
     \/ number_connection # 2 /\ PGoto(p, "count", "parse")
  /\ UNCHANGED <<number_connection, check_exist_connection, sock, apc, accepts,
                 unparsed>>

(* Faulty variant: the thread returns without decrementing. *)
ReapUncounted(p) ==
  /\ PGoto(p, "reap", "exited")
  /\ check_exist_connection' = TRUE
  /\ UNCHANGED <<number_connection, sock, apc, accepts, unparsed>>

(* The body of that if: flag, decrement, return. *)
Reap(p) ==
  /\ PGoto(p, "reap", "exited")
  /\ check_exist_connection' = TRUE
  /\ number_connection' = DecrementNumberConnection(number_connection)
  /\ UNCHANGED <<sock, apc, accepts, unparsed>>

-----------------------------------------------------------------------------
(* CloseState::handle on an executor: close_socket. *)
CloseSocket ==
  /\ HandlerAlive
  /\ WorkersExist
  /\ handle_valid
  /\ handle_valid' = FALSE
  /\ UNCHANGED <<number_connection, check_exist_connection, lastErr, apc, ppc,
                 accepts, unparsed>>

(* A send of a work thread completes and caches its error, or its success. *)
SendReturns ==
  /\ HandlerAlive
  /\ WorkersExist
  /\ lastErr' \in BOOLEAN
  /\ ~handle_valid => lastErr'
  /\ UNCHANGED <<number_connection, check_exist_connection, handle_valid, apc,
                 ppc, accepts, unparsed>>

(* A work thread whose send failed calls handle_connections itself. *)
Reenter(a) ==
  /\ WorkersExist
  /\ AGoto(a, "idle", "accept")
  /\ UNCHANGED <<number_connection, check_exist_connection, sock, ppc, accepts,
                 unparsed>>

AcceptLoop(a) ==
  \/ Accept(a) \/ Increment(a) \/ SkipBadSocket(a) \/ PassGoodSocket(a)
  \/ \E p \in Parsers : StartThreads(a, p)
  \/ Recheck(a) \/ Reenter(a)

ParseLoop(p) == ParseMsg(p) \/ CheckCount(p) \/ Reap(p)

Next ==
  \/ \E a \in Acceptors : AcceptLoop(a)
  \/ \E p \in Parsers : ParseLoop(p)
  \/ CloseSocket
  \/ SendReturns

Spec == Init /\ [][Next]_vars

-----------------------------------------------------------------------------
APC == {"idle", "accept", "increment", "check", "start", "recheck", "returned"}
PPC == {"unborn", "parse", "count", "reap", "exited"}

(* Type invariant of the counter, the socket flags and the two program counters. *)
TypeOK ==
  /\ number_connection \in Nat
  /\ check_exist_connection \in BOOLEAN
  /\ handle_valid \in BOOLEAN
  /\ lastErr \in BOOLEAN
  /\ apc \in [Acceptors -> APC]
  /\ ppc \in [Parsers -> PPC]
  /\ accepts \in Nat
  /\ unparsed \in Nat

(* number_connection is exactly the number of running parse threads, plus  *)
(* the accept loops that have counted a connection and not started its     *)
(* thread yet, plus the connections that were counted and never got one.   *)
(* The counter is updated in three unrelated places (increment before the  *)
(* check, a conditional start, a clamped decrement after a separate read), *)
(* and none of them may drift from the threads that actually run.          *)
CountConserved ==
  number_connection =
    Cardinality(Live) + Cardinality(Counted) + unparsed

(* The test is for equality with 2, so a surplus is never reaped: once     *)
(* three connections are counted beyond the threads already leaving, that  *)
(* stays so for ever, and every parse thread then alive but those leaving  *)
(* runs for the rest of the process.                                       *)
Surplus == number_connection >= Cardinality(Reaping) + 3
SurplusIsPermanent == [][Surplus => Surplus']_vars

(* Mgard300_Handler.h:19, "parse_msg_client ... phan tich goi tin tu       *)
(* client": while a client is connected and no accept is in progress, some *)
(* thread is there to parse its packets.  unparsed = 0 leaves out what a   *)
(* failed accept does to the count: two good clients are enough for two    *)
(* parse threads to read number_connection == 2 and for both to leave.     *)
CurrentClientServed ==
  unparsed = 0 /\ SocketOk /\ (\A a \in Acceptors : apc[a] \in {"idle", "accept"})
    => Live # {}

=============================================================================
