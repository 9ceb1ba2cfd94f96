------------------------------- MODULE Sockets -------------------------------
(***************************************************************************)
(* Ownership of descriptors by the socket objects of sockpp: socket and    *)
(* the classes derived from it, acceptor, connector, stream_socket and     *)
(* datagram_socket.                                                        *)
(*                                                                         *)
(* Every object is used by one thread at a time, as the library asks, and  *)
(* different objects by different threads: an action is one system call    *)
(* with the statements around it, and the steps of open, connect and the   *)
(* read_n and write_n loops interleave with the calls on other objects.    *)
(* socket() gives the lowest number that is free (POSIX), so that a number *)
(* just closed is the next one to be given out.                            *)
(*                                                                         *)
(* Left out: the flags, options and addresses of a descriptor, and what    *)
(* read_n and write_n return.  A call on an open descriptor may succeed or *)
(* fail; on a closed one it fails.                                         *)
(***************************************************************************)
EXTENDS Integers, FiniteSets

CONSTANTS
  Acceptors, Connectors, Streams, Datagrams,  \* objects of each class
  Handles,      \* descriptor numbers of the process
  MaxAlive,     \* bound on the objects alive at a time
  MaxBytes      \* bound on the bytes of one read_n or write_n

ASSUME HandlesAssumption == Handles \subseteq Nat
ASSUME BytesAssumption == MaxBytes \in Nat

INVALID_SOCKET == -1
Objects == Acceptors \cup Connectors \cup Streams \cup Datagrams
Classes == {Acceptors, Connectors, Streams, Datagrams}

VARIABLES
  alive,    \* objects between construction and destruction
  handle,   \* handle_
  lastErr,  \* objects whose lastErr_ is not 0
  open,     \* open descriptors
  loose,    \* descriptors the caller got from release()
  lost,     \* history: descriptors given up by shutdown()
  old,      \* the handle that a connect is about to replace
  pc,       \* where an object's call is, or how its last one ended
  io        \* the read_n or write_n of an object

owners == <<alive, handle, open, loose, lost, old>>
vars == <<owners, lastErr, pc, io>>

NoIO == [fn |-> "none", n |-> 0, count |-> 0, eof |-> FALSE]

Init ==
  /\ alive = {} /\ handle = [o \in Objects |-> INVALID_SOCKET]
  /\ lastErr = {} /\ open = {} /\ loose = {} /\ lost = {}
  /\ old = [o \in Objects |-> INVALID_SOCKET]
  /\ pc = [o \in Objects |-> "idle"]
  /\ io = [o \in Objects |-> NoIO]

-----------------------------------------------------------------------------
(* is_open *)
IsOpen(o) == handle[o] # INVALID_SOCKET

(* What a system call on the handle of o can answer. *)
Answers(o) == IF handle[o] \in open THEN BOOLEAN ELSE {FALSE}

(* check_ret, check_ret_bool, check_socket, check_socket_bool *)
Check(o, ok) == lastErr' = IF ok THEN lastErr \ {o} ELSE lastErr \cup {o}

(* socket(2), accept(2), dup(2): the lowest free number. *)
NewHandle(h) ==
  /\ h \in Handles \ open
  /\ \A k \in Handles \ open : h <= k
  /\ open' = open \cup {h}

(* socket::close(h): the number is free afterwards, whatever ::close says. *)
CloseHandle(h) == open' = open \ {h}

(* An object no call is in progress on.  The marks of how its last connect *)
(* or open ended go with its next call.                                    *)
Ready == {"idle", "opened", "connected", "failed", "kept", "returned"}
Idle(o) == o \in alive /\ pc[o] \in Ready
Goto(o, at) == pc' = [pc EXCEPT ![o] = at]
Calls(S) ==
  /\ \A o \in S : Idle(o)
  /\ pc' = [o \in Objects |-> IF o \in S THEN "idle" ELSE pc[o]]
  /\ io' = [o \in Objects |-> IF o \in S THEN NoIO ELSE io[o]]
Call(o) == Calls({o})

(* The lifetime of new objects begins. *)
Enter(S) ==
  /\ S \subseteq Objects \ alive
  /\ alive' = alive \cup S /\ Cardinality(alive') <= MaxAlive

(* The constructors: an object that holds h. *)
Construct(o, h) ==
  /\ Enter({o})
  /\ handle' = [handle EXCEPT ![o] = h]
  /\ UNCHANGED <<lost, old>>

DefaultConstruct(o) ==
  Construct(o, INVALID_SOCKET) /\ Calls({}) /\ UNCHANGED <<open, loose, lastErr>>

(* explicit socket(h), and the constructors of the derived classes: the    *)
(* caller gives a descriptor that it owns.                                 *)
ConstructFrom(o, h) ==
  /\ Construct(o, h) /\ Calls({}) /\ loose' = loose \ {h}
  /\ UNCHANGED <<open, lastErr>>
TakeHandle(o) == \E h \in loose : ConstructFrom(o, h)

(* create: on failure clear(get_last_error()). *)
Create(o) ==
  /\ Calls({}) /\ UNCHANGED loose
  /\ \/ \E h \in Handles : NewHandle(h) /\ Construct(o, h) /\ Check(o, TRUE)
     \/ Construct(o, INVALID_SOCKET) /\ Check(o, FALSE) /\ UNCHANGED open
CreateStream(o) == o \in Streams /\ Create(o)
CreateAcceptor(o) == o \in Acceptors /\ Create(o)

(* datagram_socket_tmpl(): a failed socket() leaves no error. *)
CreateDatagram(o) ==
  /\ o \in Datagrams /\ Calls({}) /\ UNCHANGED <<loose, lastErr>>
  /\ \/ \E h \in Handles : NewHandle(h) /\ Construct(o, h)
     \/ Construct(o, INVALID_SOCKET) /\ UNCHANGED open

SameClass(o, p) == \E C \in Classes : {o, p} \subseteq C

(* Move constructor. *)
MoveConstruct(o, p) ==
  /\ SameClass(o, p) /\ Call(p) /\ Enter({o})
  /\ handle' = [handle EXCEPT ![o] = handle[p], ![p] = INVALID_SOCKET]
  /\ Check(o, p \notin lastErr)
  /\ UNCHANGED <<open, loose, lost, old>>

(* Faulty variant: the handle is copied and not swapped. *)
MoveAssignCopies(o, p) ==
  /\ o # p /\ SameClass(o, p) /\ Calls({o, p})
  /\ handle' = [handle EXCEPT ![o] = handle[p]]
  /\ Check(o, p \notin lastErr)
  /\ UNCHANGED <<alive, open, loose, lost, old>>

(* Move assignment: the other object gets our handle, to close it. *)
MoveAssign(o, p) ==
  /\ o # p /\ SameClass(o, p) /\ Calls({o, p})
  /\ handle' = [handle EXCEPT ![o] = handle[p], ![p] = handle[o]]
  /\ Check(o, p \notin lastErr)
  /\ UNCHANGED <<alive, open, loose, lost, old>>

(* socket::clone: a failed dup gives an invalid socket without an error. *)
Dup(o, p) ==
  /\ Call(p) /\ UNCHANGED <<loose, lastErr>>
  /\ \/ handle[p] \in open /\ \E h \in Handles : NewHandle(h) /\ Construct(o, h)
     \/ Construct(o, INVALID_SOCKET) /\ UNCHANGED open
CloneStream(o, p) == o \in Streams /\ p \in Streams \cup Connectors /\ Dup(o, p)
CloneDatagram(o, p) == {o, p} \subseteq Datagrams /\ Dup(o, p)

(* socketpair(2) and two objects of the class, in one call.  When it fails *)
(* the error stays behind in the two socket objects of the base class.     *)
SocketPair(o, p) ==
  /\ o # p /\ Enter({o, p})
  /\ Calls({}) /\ UNCHANGED <<loose, lost, old, lastErr>>
  /\ \/ \E h, k \in Handles \ open :
          /\ h < k /\ \A x \in (Handles \ open) \ {h, k} : k <= x
          /\ open' = open \cup {h, k}
          /\ handle' = [handle EXCEPT ![o] = h, ![p] = k]
     \/ UNCHANGED <<open, handle>>
PairStreams(o, p) == {o, p} \subseteq Streams /\ SocketPair(o, p)
PairDatagrams(o, p) == {o, p} \subseteq Datagrams /\ SocketPair(o, p)

-----------------------------------------------------------------------------
(* Giving up the handle. *)

Release(o) ==
  /\ Call(o) /\ IsOpen(o)
  /\ handle' = [handle EXCEPT ![o] = INVALID_SOCKET]
  /\ loose' = loose \cup {handle[o]}
  /\ UNCHANGED <<alive, open, lost, old, lastErr>>

(* close(release()); the result is of no interest or has been stored. *)
CloseReleased(o) ==
  /\ handle' = [handle EXCEPT ![o] = INVALID_SOCKET]
  /\ IF IsOpen(o) THEN CloseHandle(handle[o]) ELSE UNCHANGED open
  /\ UNCHANGED <<alive, loose, lost, old>>

(* socket::close: the last error is set on failure and never cleared. *)
CloseSocket(o) ==
  /\ Call(o) /\ CloseReleased(o)
  /\ \/ UNCHANGED lastErr
     \/ IsOpen(o) /\ Check(o, FALSE)

Destroy(o) ==
  /\ Call(o)
  /\ alive' = alive \ {o}
  /\ handle' = [handle EXCEPT ![o] = INVALID_SOCKET]
  /\ IF IsOpen(o) THEN CloseHandle(handle[o]) ELSE UNCHANGED open
  /\ lastErr' = lastErr \ {o}
  /\ UNCHANGED <<loose, lost, old>>

(* reset(h), with a descriptor of the caller or none. *)
Reset(o, h) ==
  /\ Call(o)
  /\ handle' = [handle EXCEPT ![o] = h]
  /\ loose' = loose \ {h}
  /\ IF IsOpen(o) THEN CloseHandle(handle[o]) ELSE UNCHANGED open
  /\ Check(o, TRUE)
  /\ UNCHANGED <<alive, lost, old>>
ResetAny(o) == \E h \in loose \cup {INVALID_SOCKET} : Reset(o, h)

(* shutdown(release()): the connection ends, the descriptor stays open. *)
Shutdown(o) ==
  /\ Call(o)
  /\ IF IsOpen(o)
     THEN /\ lost' = lost \cup {handle[o]}
          /\ \E ok \in Answers(o) : Check(o, ok)
     ELSE UNCHANGED <<lost, lastErr>>
  /\ handle' = [handle EXCEPT ![o] = INVALID_SOCKET]
  /\ UNCHANGED <<alive, open, loose, old>>

(* The caller closes a descriptor it was given. *)
CallerCloses(h) ==
  /\ h \in loose
  /\ loose' = loose \ {h} /\ open' = open \ {h}
  /\ Calls({}) /\ UNCHANGED <<alive, handle, lost, old, lastErr>>

-----------------------------------------------------------------------------
(* Calls that end in one checked system call. *)
Checked(o) ==
  /\ Call(o) /\ UNCHANGED owners
  /\ \E ok \in Answers(o) : Check(o, ok)

Bind(o) == o \in Acceptors \cup Datagrams /\ Checked(o)
Listen(o) == o \in Acceptors /\ Checked(o)
Address(o) == Checked(o)
GetOption(o) == Checked(o)
SetOption(o) == Checked(o)
SetTimeout(o) == o \in Streams \cup Connectors /\ Checked(o)
ConnectDatagram(o) == o \in Datagrams /\ Checked(o)
SendTo(o) == o \in Datagrams /\ Checked(o)
Send(o) == o \in Datagrams /\ Checked(o)
Recv(o) == o \in Datagrams /\ Checked(o)
Read(o) == o \in Streams \cup Connectors /\ Checked(o)
ReadRanges(o) == o \in Streams \cup Connectors /\ (Checked(o) \/ (Call(o) /\ UNCHANGED <<owners, lastErr>>))
Write(o) == o \in Streams \cup Connectors /\ Checked(o)
WriteRanges(o) == o \in Streams \cup Connectors /\ Checked(o)

(* get_flags stores its result, set_flags only a failure: set_flag and     *)
(* is_non_blocking come to one checked call.                               *)
SetFlag(o) == Checked(o)
SetNonBlocking(o) == SetFlag(o)

(* clear(val) *)
Clear(o) ==
  /\ Call(o) /\ UNCHANGED owners
  /\ \E ok \in BOOLEAN : Check(o, ok)

(* acceptor::accept: the error stays with the acceptor, the stream socket  *)
(* is invalid and has none.                                                *)
Accept(a, s) ==
  /\ a \in Acceptors /\ s \in Streams /\ Call(a)
  /\ UNCHANGED loose
  /\ \/ /\ handle[a] \in open
        /\ \E h \in Handles : NewHandle(h) /\ Construct(s, h)
        /\ Check(a, TRUE)
     \/ Construct(s, INVALID_SOCKET) /\ Check(a, FALSE) /\ UNCHANGED open

-----------------------------------------------------------------------------
(* acceptor::open.  If the acceptor is open already, whether or not it     *)
(* listens, nothing is done and the answer is true.                        *)
OpenAlready(a) ==
  a \in Acceptors /\ Call(a) /\ IsOpen(a) /\ UNCHANGED <<owners, lastErr>>

OpenSocket(a) ==
  /\ a \in Acceptors /\ Idle(a) /\ ~IsOpen(a)
  /\ io' = [io EXCEPT ![a] = NoIO]
  /\ \/ /\ \E h \in Handles : NewHandle(h) /\ handle' = [handle EXCEPT ![a] = h]
        /\ Check(a, TRUE)
        /\ \E at \in {"option", "bind"} : Goto(a, at)
     \/ Check(a, FALSE) /\ Goto(a, "failed") /\ UNCHANGED <<open, handle>>
  /\ UNCHANGED <<alive, loose, lost, old>>

(* Faulty variant: returns false without close_on_err(). *)
OpenStepReturns(a, from, to) ==
  /\ pc[a] = from
  /\ \E ok \in Answers(a) : Check(a, ok) /\ Goto(a, IF ok THEN to ELSE "failed")
  /\ UNCHANGED <<owners, io>>

(* A step of open: on failure close_on_err() is next. *)
OpenStep(a, from, to) ==
  /\ pc[a] = from
  /\ \E ok \in Answers(a) : Check(a, ok) /\ Goto(a, IF ok THEN to ELSE "drop")
  /\ UNCHANGED <<owners, io>>
OpenOption(a) == OpenStep(a, "option", "bind")
OpenBind(a) == OpenStep(a, "bind", "listen")
OpenListen(a) == OpenStep(a, "listen", "opened")

(* close_on_err keeps the last error. *)
CloseOnErr(o) ==
  /\ pc[o] = "drop" /\ CloseReleased(o) /\ Goto(o, "failed")
  /\ UNCHANGED <<lastErr, io>>

(* connector::recreate.  If socket() fails the old connection stays. *)
Recreate(c) ==
  /\ c \in Connectors /\ Idle(c)
  /\ io' = [io EXCEPT ![c] = NoIO]
  /\ \/ /\ \E h \in Handles : NewHandle(h) /\ handle' = [handle EXCEPT ![c] = h]
        /\ old' = [old EXCEPT ![c] = handle[c]]
        /\ Check(c, TRUE) /\ Goto(c, "replace")
     \/ Check(c, FALSE) /\ Goto(c, "kept") /\ UNCHANGED <<open, handle, old>>
  /\ UNCHANGED <<alive, loose, lost>>

(* Faulty variant: the old handle is overwritten. *)
ReplaceForgets(c) ==
  /\ pc[c] = "replace"
  /\ old' = [old EXCEPT ![c] = INVALID_SOCKET]
  /\ \E at \in {"connect", "unblock"} : Goto(c, at)
  /\ UNCHANGED <<alive, open, handle, loose, lost, lastErr, io>>

(* The rest of reset(h), which closes the old handle. *)
Replace(c) ==
  /\ pc[c] = "replace"
  /\ IF old[c] # INVALID_SOCKET THEN CloseHandle(old[c]) ELSE UNCHANGED open
  /\ old' = [old EXCEPT ![c] = INVALID_SOCKET]
  /\ \E at \in {"connect", "unblock"} : Goto(c, at)
  /\ UNCHANGED <<alive, handle, loose, lost, lastErr, io>>

(* connect without a timeout *)
Connect(c) ==
  /\ pc[c] = "connect"
  /\ \E ok \in Answers(c) :
        Check(c, ok) /\ Goto(c, IF ok THEN "connected" ELSE "drop")
  /\ UNCHANGED <<owners, io>>

(* connect with a timeout: the result of set_non_blocking is not looked at *)
(* and a connection in progress is waited for.                             *)
StepTo(c, from, ok, to) ==
  /\ pc[c] = from /\ Check(c, ok) /\ Goto(c, to)
  /\ UNCHANGED <<owners, io>>
Unblock(c) == \E ok \in Answers(c) : StepTo(c, "unblock", ok, "timed connect")
TimedConnect(c) ==
  \/ StepTo(c, "timed connect", TRUE, "restore")
  \/ \E to \in {"select", "close"} : StepTo(c, "timed connect", FALSE, to)
Select(c) ==
  StepTo(c, "select", TRUE, "so_error") \/ StepTo(c, "select", FALSE, "close")
SocketError(c) ==
  StepTo(c, "so_error", TRUE, "restore") \/ StepTo(c, "so_error", FALSE, "close")
CloseFailed(c) ==
  /\ pc[c] = "close" /\ CloseReleased(c) /\ Goto(c, "failed")
  /\ UNCHANGED <<lastErr, io>>
Restore(c) == \E ok \in Answers(c) : StepTo(c, "restore", ok, "connected")

Opening(o) == OpenOption(o) \/ OpenBind(o) \/ OpenListen(o) \/ CloseOnErr(o)
Connecting(o) ==
  \/ Replace(o) \/ Connect(o) \/ Unblock(o) \/ TimedConnect(o) \/ Select(o)
  \/ SocketError(o) \/ CloseFailed(o) \/ Restore(o)

-----------------------------------------------------------------------------
(* read_n, write_n and their thread-safe variants, which keep the count    *)
(* and the error in an ioresult and leave lastErr_ alone.                  *)
CallIO(o, fns) ==
  /\ o \in Streams \cup Connectors /\ Idle(o) /\ Goto(o, "loop")
  /\ \E fn \in fns, n \in 0..MaxBytes :
        io' = [io EXCEPT ![o] = [NoIO EXCEPT !.fn = fn, !.n = n]]
  /\ UNCHANGED <<owners, lastErr>>
CallRead(o) == CallIO(o, {"read_n", "read_n_r"})
CallWrite(o) == CallIO(o, {"write_n", "write_n_r"})

Looping(o, fn) == pc[o] = "loop" /\ io[o].fn = fn /\ io[o].count < io[o].n

(* Faulty variant: every call asks for all n bytes. *)
WantedAll(o) == io[o].n

(* The system call moves k bytes, as many as are still wanted at most.     *)
Wanted(o) == io[o].n - io[o].count
Moves(o) ==
  /\ handle[o] \in open /\ ~io[o].eof
  /\ \E k \in 1..Wanted(o) : io' = [io EXCEPT ![o].count = @ + k]
  /\ UNCHANGED pc

Returns(o) == Goto(o, "returned") /\ UNCHANGED io
Interrupted == UNCHANGED <<pc, io>>

LoopEnds(o) ==
  /\ pc[o] = "loop" /\ io[o].count = io[o].n
  /\ Returns(o) /\ UNCHANGED lastErr

(* Faulty variant: nx < 0 ends the loop and nx = 0 does not. *)
ReadNBeyondEnd(o) ==
  /\ Looping(o, "read_n")
  /\ \/ Moves(o) /\ Check(o, TRUE)
     \/ ~io[o].eof /\ (Interrupted \/ Returns(o)) /\ Check(o, FALSE)
     \/ /\ handle[o] \in open /\ Check(o, TRUE)
        /\ io' = [io EXCEPT ![o].eof = TRUE] /\ UNCHANGED pc

ReadN(o) ==
  /\ Looping(o, "read_n")
  /\ \/ Moves(o) /\ Check(o, TRUE)
     \/ (Interrupted \/ Returns(o)) /\ Check(o, FALSE)
     \/ /\ handle[o] \in open /\ Check(o, TRUE)
        /\ io' = [io EXCEPT ![o].eof = TRUE] /\ Goto(o, "returned")

WriteN(o) ==
  /\ Looping(o, "write_n")
  /\ \/ Moves(o) /\ Check(o, TRUE)
     \/ (Interrupted \/ Returns(o)) /\ Check(o, FALSE)

(* The end of the stream is no error and 0 bytes: the loop goes on, and    *)
(* the end of a stream is final.                                           *)
ReadNR(o) ==
  /\ Looping(o, "read_n_r") /\ UNCHANGED lastErr
  /\ \/ Moves(o)
     \/ ~io[o].eof /\ Returns(o)
     \/ handle[o] \in open /\ io' = [io EXCEPT ![o].eof = TRUE] /\ UNCHANGED pc

WriteNR(o) ==
  /\ Looping(o, "write_n_r") /\ UNCHANGED lastErr
  /\ Moves(o) \/ Returns(o)

IOStep(o) ==
  /\ LoopEnds(o) \/ ReadN(o) \/ WriteN(o) \/ ReadNR(o) \/ WriteNR(o)
  /\ UNCHANGED owners

-----------------------------------------------------------------------------
Build(o) ==
  \/ DefaultConstruct(o) \/ TakeHandle(o)
  \/ CreateStream(o) \/ CreateAcceptor(o) \/ CreateDatagram(o)
  \/ \E p \in Objects :
       \/ MoveConstruct(o, p) \/ CloneStream(o, p) \/ CloneDatagram(o, p)
       \/ PairStreams(o, p) \/ PairDatagrams(o, p) \/ Accept(p, o)

GiveUp(o) ==
  \/ Release(o) \/ CloseSocket(o) \/ Destroy(o) \/ ResetAny(o) \/ Shutdown(o)
  \/ \E p \in Objects : MoveAssign(o, p)

OneCall(o) ==
  \/ Bind(o) \/ Listen(o) \/ Address(o) \/ GetOption(o) \/ SetOption(o)
  \/ SetTimeout(o) \/ ConnectDatagram(o) \/ SendTo(o) \/ Send(o) \/ Recv(o)
  \/ Read(o) \/ ReadRanges(o) \/ Write(o) \/ WriteRanges(o)
  \/ SetNonBlocking(o) \/ Clear(o)

Begin(o) ==
  OpenAlready(o) \/ OpenSocket(o) \/ Recreate(o) \/ CallRead(o) \/ CallWrite(o)

Next ==
  \/ \E o \in Objects :
       \/ Build(o) \/ GiveUp(o) \/ OneCall(o) \/ Begin(o)
       \/ Opening(o) \/ Connecting(o) \/ IOStep(o)
  \/ \E h \in Handles : CallerCloses(h)

Spec == Init /\ [][Next]_vars

(* Every system call of a read_n or write_n loop returns in the end, and   *)
(* is not interrupted for ever.                                            *)
FairSpec == Spec /\ \A o \in Objects : WF_vars(IOStep(o))

-----------------------------------------------------------------------------
InCall == {"option", "bind", "listen", "drop", "replace", "connect", "unblock",
           "timed connect", "select", "so_error", "close", "restore", "loop"}

(* Type invariant of the socket objects; one that is not alive holds       *)
(* nothing, and a loop never asks for more than is wanted.                 *)
TypeOK ==
  /\ alive \subseteq Objects /\ lastErr \subseteq alive
  /\ handle \in [Objects -> Handles \cup {INVALID_SOCKET}]
  /\ old \in [Objects -> Handles \cup {INVALID_SOCKET}]
  /\ open \subseteq Handles /\ loose \subseteq Handles /\ lost \subseteq Handles
  /\ pc \in [Objects -> Ready \cup InCall]
  /\ io \in [Objects ->
               [fn : {"none", "read_n", "write_n", "read_n_r", "write_n_r"},
                n : 0..MaxBytes, count : 0..MaxBytes, eof : BOOLEAN]]
  /\ \A o \in Objects \ alive : handle[o] = INVALID_SOCKET /\ pc[o] = "idle"

(* "This class wraps an OS socket handle and maintains strict ownership    *)
(* semantics" (socket.h:172): the descriptors that objects hold, that a    *)
(* connect is about to close and that were given to the caller are open    *)
(* and pairwise different, so that no thread ever closes or uses a number  *)
(* which was closed under it and given to somebody else.                   *)
OneOwner ==
  /\ \A o, p \in Objects :
       /\ IsOpen(o) => /\ handle[o] \in open \ (loose \cup lost)
                       /\ handle[o] # old[p]
                       /\ o # p => handle[o] # handle[p]
       /\ old[o] # INVALID_SOCKET =>
             old[o] \in open \ (loose \cup lost) /\ (o # p => old[o] # old[p])
  /\ loose \subseteq open /\ lost \subseteq open /\ loose \cap lost = {}

(* Nothing leaks but what shutdown gives up (socket.cpp:306 releases the   *)
(* handle and does not close it): every other open descriptor has a live   *)
(* object, or the caller of release(), to close it.                        *)
LostOnlyByShutdown ==
  open \subseteq {handle[o] : o \in alive} \cup {old[o] : o \in alive}
                 \cup loose \cup lost

(* How open and connect end (acceptor.cpp:58 "On any error it will be sure *)
(* to leave the underlying socket in an unopened/invalid state"): true     *)
(* leaves an open descriptor, false leaves none, with the error of the     *)
(* step that failed; only a connect whose socket() failed keeps what the   *)
(* connector held before, and then too the error says so.                  *)
OutcomeTrue ==
  \A o \in Objects :
    /\ pc[o] \in {"opened", "connected"} => handle[o] \in open
    /\ pc[o] = "opened" => o \notin lastErr
    /\ pc[o] = "failed" => ~IsOpen(o)
    /\ pc[o] \in {"failed", "kept", "drop", "close", "select"} => o \in lastErr

(* The loops end.  All but one: read_n_r takes the end of the stream for a *)
(* read of 0 bytes that can be repeated, and repeats it for ever.          *)
LoopReturns ==
  \A o \in Objects :
    pc[o] = "loop" ~> (pc[o] # "loop" \/ (io[o].fn = "read_n_r" /\ io[o].eof))

=============================================================================
