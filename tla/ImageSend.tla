------------------------------ MODULE ImageSend ------------------------------
(***************************************************************************)
(* Mgard300_Handler::send_data_to_client with the write_n it calls, run by *)
(* any number of work threads at a time, while accept loops replace the    *)
(* one current_socket they all write to and CLOSE commands close it.       *)
(*                                                                         *)
(* The flag is_client_closed means the opposite of its name (TRUE: go on), *)
(* and all senders share it.  offset and remaining_size are size_t: the    *)
(* counters are updated before the result of write_n is looked at, so that *)
(* a failure wraps them.                                                   *)
(*                                                                         *)
(* The kernel takes any part of what it is given.  A byte is its number in *)
(* the image of its sender.                                                *)
(***************************************************************************)
EXTENDS Integers, Sequences, FiniteSets

CONSTANTS
  Senders,     \* work threads that send their image
  Conns,       \* connections accepted in turn
  NoConn,      \* an invalid current_socket
  data_size,   \* bytes of an image
  CHUNK_SIZE,
  Word         \* size_t counts modulo this number

ASSUME SendAssumption ==
  /\ NoConn \notin Conns
  /\ data_size \in Nat \ {0} /\ CHUNK_SIZE \in Nat \ {0} /\ Word \in Nat
  /\ data_size < Word - 1

VARIABLES
  current,           \* connection current_socket refers to
  link,              \* "none", "up" or "gone", per connection
  is_client_closed,  \* TRUE while nobody has found the client gone
  spc,               \* where each sender stands
  offset,
  remaining_size,
  n,                 \* result of write_n
  nw,                \* write_n's count of the bytes of the chunk that are out
  fd,                \* connection a send was called on
  failures,          \* history: senders whose write_n has failed
  taken              \* history: bytes the kernel took from each sender, as [conn, byte]

net == <<current, link>>
counters == <<offset, remaining_size>>
vars == <<current, link, is_client_closed, spc, offset, remaining_size, n, nw,
          fd, failures, taken>>

(* is_client_closed is not initialised by the constructor. *)
Init ==
  /\ current = NoConn
  /\ link = [c \in Conns |-> "none"]
  /\ is_client_closed \in BOOLEAN
  /\ spc = [s \in Senders |-> "begin"]
  /\ offset = [s \in Senders |-> 0]
  /\ remaining_size = [s \in Senders |-> data_size]
  /\ n = [s \in Senders |-> 0]
  /\ nw = [s \in Senders |-> 0]
  /\ fd = [s \in Senders |-> NoConn]
  /\ failures = {}
  /\ taken = [s \in Senders |-> <<>>]

Goto(s, from, to) == spc[s] = from /\ spc' = [spc EXCEPT ![s] = to]

-----------------------------------------------------------------------------
(* The rest of the handler and the clients. *)
NewConnection(c) ==
  /\ link[c] = "none"
  /\ link' = [link EXCEPT ![c] = "up"]
  /\ current' = c

(* The accept loop of thread_1024. *)
Accept(c) ==
  /\ NewConnection(c)
  /\ UNCHANGED <<is_client_closed, spc, counters, n, nw, fd, failures, taken>>

(* CLOSE, or an accept() that failed. *)
CloseSocket ==
  /\ current # NoConn
  /\ current' = NoConn
  /\ UNCHANGED <<link, is_client_closed, spc, counters, n, nw, fd, failures,
                 taken>>

(* The connection breaks: every further send on it fails. *)
ClientGone(c) ==
  /\ link[c] = "up"
  /\ link' = [link EXCEPT ![c] = "gone"]
  /\ UNCHANGED <<current, is_client_closed, spc, counters, n, nw, fd, failures,
                 taken>>

-----------------------------------------------------------------------------
(* Faulty variant: the flag is not reset first. *)
BeginUnset(s) ==
  /\ Goto(s, "begin", "loop")
  /\ UNCHANGED <<net, is_client_closed, counters, n, nw, fd, failures, taken>>

(* A WORK command has come over some connection before. *)
Begin(s) ==
  /\ \E c \in Conns : link[c] # "none"
  /\ Goto(s, "begin", "loop")
  /\ is_client_closed' = TRUE
  /\ UNCHANGED <<net, counters, n, nw, fd, failures, taken>>

(* while (remaining_size > 0 && get_is_client_closed()) *)
Loop(s) ==
  /\ \/ remaining_size[s] > 0 /\ is_client_closed /\ Goto(s, "loop", "call")
     \/ ~(remaining_size[s] > 0 /\ is_client_closed) /\ Goto(s, "loop", "after")
  /\ nw' = [nw EXCEPT ![s] = 0]
  /\ UNCHANGED <<net, is_client_closed, counters, n, fd, failures, taken>>

Chunk(s) ==
  IF remaining_size[s] < CHUNK_SIZE THEN remaining_size[s] ELSE CHUNK_SIZE

(* Each send of write_n is called on what current_socket is by then. *)
CallSend(s) ==
  /\ Goto(s, "call", "sending")
  /\ fd' = [fd EXCEPT ![s] = current]
  /\ UNCHANGED <<net, is_client_closed, counters, n, nw, failures, taken>>

(* Bytes i+1 .. i+k of the image of s. *)
Bytes(s, i, k) == [j \in 1..k |-> [conn |-> fd[s], byte |-> i + j]]

(* Faulty variant: what a short send left over is sent from the start. *)
SendTakesFromStart(s) ==
  /\ fd[s] # NoConn /\ link[fd[s]] = "up"
  /\ \E k \in 1..(Chunk(s) - nw[s]) :
       /\ taken' = [taken EXCEPT ![s] = @ \o Bytes(s, offset[s], k)]
       /\ nw' = [nw EXCEPT ![s] = @ + k]
       /\ \/ nw[s] + k < Chunk(s) /\ Goto(s, "sending", "call") /\ UNCHANGED n
          \/ /\ nw[s] + k = Chunk(s) /\ Goto(s, "sending", "account")
             /\ n' = [n EXCEPT ![s] = Chunk(s)]
  /\ UNCHANGED <<net, is_client_closed, counters, fd, failures>>

SendTakes(s) ==
  /\ fd[s] # NoConn /\ link[fd[s]] = "up"
  /\ \E k \in 1..(Chunk(s) - nw[s]) :
       /\ taken' = [taken EXCEPT ![s] = @ \o Bytes(s, offset[s] + nw[s], k)]
       /\ nw' = [nw EXCEPT ![s] = @ + k]
       /\ \/ nw[s] + k < Chunk(s) /\ Goto(s, "sending", "call") /\ UNCHANGED n
          \/ /\ nw[s] + k = Chunk(s) /\ Goto(s, "sending", "account")
             /\ n' = [n EXCEPT ![s] = Chunk(s)]
  /\ UNCHANGED <<net, is_client_closed, counters, fd, failures>>

(* write_n reports an error only if none of the chunk is out. *)
SendFails(s) ==
  /\ fd[s] = NoConn \/ (fd[s] \in Conns /\ link[fd[s]] = "gone")
  /\ Goto(s, "sending", "account")
  /\ \/ nw[s] = 0 /\ n' = [n EXCEPT ![s] = -1]
     \/ nw[s] > 0 /\ n' = [n EXCEPT ![s] = nw[s]]
  /\ UNCHANGED <<net, is_client_closed, counters, nw, fd, failures, taken>>

(* Faulty variant: the counters are signed. *)
WrapNot(i) == i

(* size_t: a number just above or below the range comes round. *)
Wrap(i) == IF i < 0 THEN i + Word ELSE IF i >= Word THEN i - Word ELSE i

(* Faulty variant: a short write counts as a whole chunk. *)
AccountWholeChunk(s) ==
  /\ offset' = [offset EXCEPT ![s] = Wrap(@ + (IF n[s] < 0 THEN n[s] ELSE Chunk(s)))]
  /\ remaining_size' = [remaining_size EXCEPT ![s] = Wrap(@ - n[s])]
  /\ \/ n[s] < 0 /\ Goto(s, "account", "failed") /\ failures' = failures \cup {s}
     \/ n[s] >= 0 /\ Goto(s, "account", "compare") /\ UNCHANGED failures
  /\ UNCHANGED <<net, is_client_closed, n, nw, fd, taken>>

Account(s) ==
  /\ offset' = [offset EXCEPT ![s] = Wrap(@ + n[s])]
  /\ remaining_size' = [remaining_size EXCEPT ![s] = Wrap(@ - n[s])]
  /\ \/ n[s] < 0 /\ Goto(s, "account", "failed") /\ failures' = failures \cup {s}
     \/ n[s] >= 0 /\ Goto(s, "account", "compare") /\ UNCHANGED failures
  /\ UNCHANGED <<net, is_client_closed, n, nw, fd, taken>>

(* #ifdef DEBUG: throw "Incomplete last chunk sent to client". *)
Incomplete(s) == remaining_size[s] = 0 /\ offset[s] # data_size

Compare(s) ==
  /\ Goto(s, "compare", IF Incomplete(s) THEN "thrown" ELSE "loop")
  /\ UNCHANGED <<net, is_client_closed, counters, n, nw, fd, failures, taken>>

(* Faulty variant: the flag is left alone. *)
FailUnset(s) ==
  /\ Goto(s, "failed", "after")
  /\ UNCHANGED <<net, is_client_closed, counters, n, nw, fd, failures, taken>>

Fail(s) ==
  /\ Goto(s, "failed", "after")
  /\ is_client_closed' = FALSE
  /\ UNCHANGED <<net, counters, n, nw, fd, failures, taken>>

(* The flag is read again, maybe after another sender has changed it. *)
After(s) ==
  /\ \/ is_client_closed /\ Goto(s, "after", "sent_all")
     \/ ~is_client_closed /\ Goto(s, "after", "reset")
  /\ UNCHANGED <<net, is_client_closed, counters, n, nw, fd, failures, taken>>

Reset(s) ==
  /\ Goto(s, "reset", "reconnect")
  /\ is_client_closed' = TRUE
  /\ UNCHANGED <<net, counters, n, nw, fd, failures, taken>>

(* handle_connections on the sender: it returns when the socket is found   *)
(* closed or its last error set just after the threads were started        *)
(* (ConnectionCount has that part in full).                                *)
Reconnect(s, c) ==
  /\ Goto(s, "reconnect", "recheck")
  /\ NewConnection(c)
  /\ UNCHANGED <<is_client_closed, counters, n, nw, fd, failures, taken>>

Recheck(s) ==
  /\ \/ Goto(s, "recheck", "reconnect")
     \/ Goto(s, "recheck", "sent_all")
  /\ UNCHANGED <<net, is_client_closed, counters, n, nw, fd, failures, taken>>

(* "Sent all data to Client" *)
SayDone(s) ==
  /\ Goto(s, "sent_all", "returned")
  /\ UNCHANGED <<net, is_client_closed, counters, n, nw, fd, failures, taken>>

Send(s) == CallSend(s) \/ SendTakes(s) \/ SendFails(s)

Sender(s) ==
  \/ Begin(s) \/ Loop(s) \/ Send(s) \/ Account(s) \/ Compare(s)
  \/ Fail(s) \/ After(s) \/ Reset(s)
  \/ \E c \in Conns : Reconnect(s, c)
  \/ Recheck(s) \/ SayDone(s)

Next ==
  \/ \E c \in Conns : Accept(c) \/ ClientGone(c)
  \/ CloseSocket
  \/ \E s \in Senders : Sender(s)

Spec == Init /\ [][Next]_vars

-----------------------------------------------------------------------------
SPC == {"begin", "loop", "call", "sending", "account", "compare", "thrown",
        "failed", "after", "reset", "reconnect", "recheck", "sent_all", "returned"}
Taken == [conn : Conns, byte : Nat]

(* Type invariant of the socket, the flag and the counters of the senders. *)
TypeOK ==
  /\ current \in Conns \cup {NoConn}
  /\ link \in [Conns -> {"none", "up", "gone"}]
  /\ is_client_closed \in BOOLEAN
  /\ spc \in [Senders -> SPC]
  /\ offset \in [Senders -> 0..(Word - 1)]
  /\ remaining_size \in [Senders -> 0..(Word - 1)]
  /\ n \in [Senders -> -1..CHUNK_SIZE]
  /\ nw \in [Senders -> 0..CHUNK_SIZE]
  /\ fd \in [Senders -> Conns \cup {NoConn}]
  /\ failures \subseteq Senders
  /\ taken \in [Senders -> Seq(Taken)]

(* The bytes that go out for one image are its first bytes in order, none  *)
(* twice and none left out, wherever a send was cut short or failed and    *)
(* however often the connection was replaced between two sends.            *)
SentInOrder ==
  \A s \in Senders : \A i \in 1..Len(taken[s]) : taken[s][i].byte = i

(* Between two chunks the counters agree with each other and with what is  *)
(* out: the DEBUG check in lines 216-219 has nothing to throw for, and the *)
(* updates with n = -1 never reach a loop that would use them.             *)
CountersAgree ==
  \A s \in Senders :
    /\ spc[s] = "loop" =>
         /\ offset[s] + remaining_size[s] = data_size
         /\ offset[s] = Len(taken[s])
    /\ spc[s] # "thrown"

(* Nobody stops in the middle of an image unless some write_n has failed:  *)
(* the shared flag, whose initial value is not set, is no other reason.    *)
TruncatedOnlyAfterFailure ==
  \A s \in Senders :
    spc[s] \in {"after", "sent_all", "returned"} /\ failures = {} =>
      Len(taken[s]) = data_size

(* Mgard300_Handler.cpp:225, "Client disconnected. Handling reconnect...": *)
(* this is what a failed write leads to as long as no other image is sent. *)
(* A second sender would set the shared flag again.                        *)
Alone(s) == \A t \in Senders \ {s} : spc[t] = "begin"
LoneFailureReconnects ==
  [][\A s \in Senders :
       Alone(s) /\ s \in failures /\ spc[s] = "after" => spc'[s] # "sent_all"]_vars

=============================================================================
