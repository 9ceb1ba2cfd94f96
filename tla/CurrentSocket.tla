---------------------------- MODULE CurrentSocket ----------------------------
(***************************************************************************)
(* Mgard300_Handler::current_socket as its threads really use it: accept   *)
(* loops assign to it (Mgard300_Handler.cpp:113), parse threads and        *)
(* senders read its handle and store the result of their call in its       *)
(* lastErr_, executors close it.  connection_mutex covers close_socket and *)
(* the moment in which get_current_socket returns a reference, and nothing *)
(* of the assignment, of the calls, or of the tests in lines 115 and 123.  *)
(*                                                                         *)
(* An action is one access to the object or one system call.  Descriptor   *)
(* numbers are given out lowest first, to connections and to the files     *)
(* and sockets of the rest of the program ("foreign").                     *)
(*                                                                         *)
(* The two fields that operator bool reads are read at once.  When the     *)
(* first accept loop returns the handler is destroyed (main.cpp:93-96) and *)
(* its threads use what is left of it: the model ends there.               *)
(***************************************************************************)
EXTENDS Integers

CONSTANTS
  Main,      \* the first accept loop
  Senders,   \* threads in send_data_to_client; a failed one becomes an accept loop
  Parsers,   \* parse threads
  Closers,   \* executors whose handler calls close_socket
  Numbers    \* descriptor numbers

ASSUME NumbersAssumption == Numbers \subseteq Nat
ASSUME MainAssumption == Main \notin Senders \cup Parsers \cup Closers

INVALID_SOCKET == -1
Loops == {Main} \cup Senders
Threads == Loops \cup Parsers \cup Closers

VARIABLES
  fd,       \* what a number is: free, a connection, or foreign
  handle,   \* current_socket.handle_
  lastErr,  \* current_socket.lastErr_ # 0
  pc, reg,  \* per thread: place in the code, and the handle it has read
  tmp,      \* the temporary of a loop: what accept returned, then the old handle
  got,      \* history: the accept of a loop succeeded
  lock,     \* the closer that holds connection_mutex, or INVALID_SOCKET
  raced,    \* history: two threads were replacing the handle at a time
  touched   \* history: loops whose socket was touched since they assigned it

sock == <<handle, lastErr>>
local == <<reg, tmp, got>>
history == <<raced, touched>>
vars == <<fd, sock, pc, local, lock, history>>

Init ==
  /\ fd = [n \in Numbers |-> "free"]
  /\ handle = INVALID_SOCKET /\ lastErr = FALSE
  /\ pc = [x \in Threads |-> IF x = Main THEN "accept" ELSE "unborn"]
  /\ reg = [x \in Threads |-> INVALID_SOCKET]
  /\ tmp = [x \in Threads |-> INVALID_SOCKET]
  /\ got = [x \in Threads |-> FALSE]
  /\ lock = INVALID_SOCKET
  /\ raced = FALSE /\ touched = {}

Goto(x, from, to) == pc[x] = from /\ pc' = [pc EXCEPT ![x] = to]

(* Between reading the handle to replace it and writing its successor. *)
Replacing == {x \in Threads : pc[x] \in {"swap", "release"}}
Record == raced' = (raced \/ \E x, y \in Replacing' : x # y)

(* Loops between the assignment and the last test of what they assigned. *)
Judging == {x \in Loops : pc[x] \in {"error", "destroy", "check", "recheck"}}
Touch(x) == touched' = touched \cup (Judging \ {x})

Free(n) == fd[n] = "free" /\ \A k \in Numbers : fd[k] = "free" => n <= k
Become(n, what) == fd' = [fd EXCEPT ![n] = what]

-----------------------------------------------------------------------------
(* An accept loop. *)

Accept(x) ==
  /\ Goto(x, "accept", "assign")
  /\ \/ \E n \in Numbers : /\ Free(n) /\ Become(n, "connection")
                           /\ tmp' = [tmp EXCEPT ![x] = n]
                           /\ got' = [got EXCEPT ![x] = TRUE]
     \/ got' = [got EXCEPT ![x] = FALSE] /\ UNCHANGED <<fd, tmp>>
  /\ UNCHANGED <<sock, reg, lock, touched>>

(* current_socket = ...: std::swap reads the handle, *)
SwapRead(x) ==
  /\ Goto(x, "assign", "swap")
  /\ reg' = [reg EXCEPT ![x] = handle]
  /\ UNCHANGED <<fd, sock, tmp, got, lock, touched>>

(* writes the new one and leaves the old one in the temporary, *)
SwapWrite(x) ==
  /\ Goto(x, "swap", "error")
  /\ handle' = tmp[x]
  /\ tmp' = [tmp EXCEPT ![x] = reg[x]]
  /\ reg' = [reg EXCEPT ![x] = INVALID_SOCKET]
  /\ Touch(x)
  /\ UNCHANGED <<fd, lastErr, got, lock>>

(* Faulty variant: lastErr_ keeps the error of the socket before. *)
CopyErrorOmitted(x) ==
  /\ Goto(x, "error", "destroy")
  /\ UNCHANGED <<fd, sock, local, lock, touched>>

(* lastErr_ is copied: what accept returns has none, *)
CopyError(x) ==
  /\ Goto(x, "error", "destroy")
  /\ lastErr' = FALSE
  /\ UNCHANGED <<fd, handle, local, lock, touched>>

(* and the temporary closes the old handle. *)
DestroyTemporary(x) ==
  /\ Goto(x, "destroy", "check")
  /\ IF tmp[x] = INVALID_SOCKET THEN UNCHANGED fd ELSE Become(tmp[x], "free")
  /\ tmp' = [tmp EXCEPT ![x] = INVALID_SOCKET]
  /\ UNCHANGED <<sock, reg, got, lock, touched>>

(* operator bool *)
SocketOk == handle # INVALID_SOCKET /\ ~lastErr

(* The histories of a loop end with its last test. *)
Judged(x) ==
  touched' = touched \ {x} /\ got' = [got EXCEPT ![x] = FALSE]

Skip(x) ==
  /\ ~SocketOk /\ Goto(x, "check", "accept")
  /\ Judged(x) /\ UNCHANGED <<fd, sock, reg, tmp, lock>>

(* The connection brings its threads, and the commands of the client make  *)
(* them send and close; the threads of later connections are left out.     *)
StartThreads(x) ==
  /\ SocketOk /\ pc[x] = "check"
  /\ pc' = [y \in Threads |-> IF y = x THEN "recheck"
                              ELSE IF pc[y] = "unborn" THEN "idle" ELSE pc[y]]
  /\ UNCHANGED <<fd, sock, local, lock, touched>>

(* get_current_socket() and the second test: the first loop ends the       *)
(* thread, a sender goes back to sending.                                  *)
Recheck(x) ==
  /\ lock = INVALID_SOCKET
  /\ \/ SocketOk /\ Goto(x, "recheck", "accept")
     \/ ~SocketOk /\ Goto(x, "recheck", IF x = Main THEN "returned" ELSE "idle")
  /\ Judged(x) /\ UNCHANGED <<fd, sock, reg, tmp, lock>>

AcceptLoop(x) ==
  \/ Accept(x) \/ SwapRead(x) \/ SwapWrite(x) \/ CopyError(x)
  \/ DestroyTemporary(x) \/ Skip(x) \/ StartThreads(x) \/ Recheck(x)

-----------------------------------------------------------------------------
(* A call of read or write: the handle is read, *)
LoadHandle(x) ==
  /\ x \in Parsers \cup Senders /\ Goto(x, "idle", "call")
  /\ reg' = [reg EXCEPT ![x] = handle]
  /\ UNCHANGED <<fd, sock, tmp, got, lock, touched>>

(* and after the system call check_ret stores the error in the object,     *)
(* which may be another connection by now.  A sender that failed waits for *)
(* the next client in handle_connections.                                  *)
CallReturns(x, ok) ==
  /\ Goto(x, "call", IF x \in Senders /\ ~ok THEN "accept" ELSE "idle")
  /\ reg[x] = INVALID_SOCKET => ~ok
  /\ reg[x] # INVALID_SOCKET => (fd[reg[x]] = "free" => ~ok)
  /\ lastErr' = ~ok
  /\ IF ok THEN UNCHANGED touched ELSE Touch(x)
  /\ reg' = [reg EXCEPT ![x] = INVALID_SOCKET]
  /\ UNCHANGED <<fd, handle, tmp, got, lock>>

Use(x) == LoadHandle(x) \/ \E ok \in BOOLEAN : CallReturns(x, ok)

-----------------------------------------------------------------------------
(* close_socket, with the mutex: is_open(), *)
CloseTest(x) ==
  /\ x \in Closers /\ lock = INVALID_SOCKET /\ handle # INVALID_SOCKET
  /\ Goto(x, "idle", "close") /\ lock' = x
  /\ UNCHANGED <<fd, sock, local, touched>>

(* close(), which tests the handle again, and release(), which reads it,   *)
CloseRead(x) ==
  \/ /\ Goto(x, "close", "release")
     /\ reg' = [reg EXCEPT ![x] = handle]
     /\ UNCHANGED <<fd, sock, tmp, got, lock, touched>>
  \/ /\ handle = INVALID_SOCKET /\ Goto(x, "close", "idle")
     /\ lock' = INVALID_SOCKET
     /\ UNCHANGED <<fd, sock, local, touched>>

(* Faulty variant: close_socket closes the handle and leaves it there. *)
CloseWriteOmitted(x) ==
  /\ Goto(x, "release", "free")
  /\ UNCHANGED <<fd, sock, local, lock, touched>>

(* and overwrites it, *)
CloseWrite(x) ==
  /\ Goto(x, "release", "free")
  /\ handle' = INVALID_SOCKET
  /\ Touch(x)
  /\ UNCHANGED <<fd, lastErr, local, lock>>

(* and ::close. *)
CloseNumber(x) ==
  /\ Goto(x, "free", "idle")
  /\ IF reg[x] = INVALID_SOCKET THEN UNCHANGED fd ELSE Become(reg[x], "free")
  /\ \/ UNCHANGED <<lastErr, touched>>
     \/ lastErr' = TRUE /\ Touch(x)
  /\ reg' = [reg EXCEPT ![x] = INVALID_SOCKET]
  /\ lock' = INVALID_SOCKET
  /\ UNCHANGED <<handle, tmp, got>>

CloseSocket(x) == CloseTest(x) \/ CloseRead(x) \/ CloseWrite(x) \/ CloseNumber(x)

(* The rest of the program opens and closes descriptors of its own. *)
Foreign(n) ==
  /\ \/ Free(n) /\ Become(n, "foreign")
     \/ fd[n] = "foreign" /\ Become(n, "free")
  /\ UNCHANGED <<sock, pc, local, lock, touched>>

-----------------------------------------------------------------------------
Next ==
  /\ pc[Main] # "returned"
  /\ \/ \E x \in Threads : AcceptLoop(x) \/ Use(x) \/ CloseSocket(x)
     \/ \E n \in Numbers : Foreign(n)
  /\ Record

Spec == Init /\ [][Next]_vars

-----------------------------------------------------------------------------
LoopPC == {"accept", "assign", "swap", "error", "destroy", "check", "recheck"}
TypeOK ==
  /\ fd \in [Numbers -> {"free", "connection", "foreign"}]
  /\ handle \in Numbers \cup {INVALID_SOCKET} /\ lastErr \in BOOLEAN
  /\ pc \in [Threads -> LoopPC \cup {"unborn", "returned", "idle", "call", "close",
                                     "release", "free"}]
  /\ \A x \in Threads : pc[x] \in LoopPC => x \in Loops
  /\ reg \in [Threads -> Numbers \cup {INVALID_SOCKET}]
  /\ tmp \in [Threads -> Numbers \cup {INVALID_SOCKET}]
  /\ got \in [Threads -> BOOLEAN]
  /\ lock \in Closers \cup {INVALID_SOCKET}
  /\ raced \in BOOLEAN /\ touched \subseteq Loops

(* What will be closed in the end, and by whom: the handle of the object,  *)
(* the temporaries of the loops, and what a closer has taken out.          *)
Holds(x, n) ==
  n # INVALID_SOCKET /\ (tmp[x] = n \/ (pc[x] = "free" /\ reg[x] = n))

(* Although nothing but close_socket takes the mutex, the descriptors stay *)
(* in order as long as no two threads replace the handle at a time: the    *)
(* handle and what threads are about to close are connections, each held   *)
(* once, and every open connection is held.  When two do, a connection is  *)
(* lost or a number is closed twice, the second time perhaps as that of a  *)
(* file or of another client.                                              *)
OwnedUnlessRaced ==
  ~raced =>
    /\ \A x, y \in Threads, n \in Numbers :
         /\ Holds(x, n) => fd[n] = "connection" /\ handle # n
         /\ Holds(x, n) /\ Holds(y, n) => x = y
    /\ handle # INVALID_SOCKET => fd[handle] = "connection"
    /\ \A n \in Numbers :
         fd[n] = "connection" => handle = n \/ \E x \in Threads : Holds(x, n)

(* A loop skips the connection it has accepted, and it returns, for no     *)
(* other reason than that another thread has touched current_socket since: *)
(* replaced or closed it, or stored there the error of a call, possibly of *)
(* a call on the connection before.  A client that connects and resets at  *)
(* once is enough, and with the first loop the handler ends.               *)
JudgedByOthers ==
  [][\A x \in Loops :
       \/ ~ \/ pc[x] = "check" /\ got[x] /\ pc'[x] = "accept"
            \/ pc[x] = "recheck" /\ pc'[x] \in {"idle", "returned"}
       \/ x \in touched]_vars

=============================================================================
