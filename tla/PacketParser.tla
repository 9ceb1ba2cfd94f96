---------------------------- MODULE PacketParser ----------------------------
(***************************************************************************)
(* Mgard300_Handler::parse_msg_client, called in a loop by every parse     *)
(* thread: one recv of at most five bytes into the member buf, its result  *)
(* into the member n_read_bytes, a length check, a marker check (DEBUG     *)
(* build), and a switch on the command byte.  The switch reads buf without *)
(* a lock; the branch it takes pushes the command on q_execute_cmd under   *)
(* connection_mutex, so that other threads may come in between.  After     *)
(* every pass, failed or not, the thread that calls it leaves for good if  *)
(* it reads a connection count of exactly 2.                               *)
(*                                                                         *)
(* A connection is a byte stream that TCP may cut anywhere: a recv returns *)
(* any non-empty prefix of the bytes in flight.  The parse thread started  *)
(* for a connection does not stay with it: every pass reads from whatever  *)
(* current_socket refers to when recv is called, and it stays blocked on   *)
(* that descriptor.  buf and n_read_bytes are shared by all parse threads. *)
(*                                                                         *)
(* A byte carries, beside its value, the packet and the position it was    *)
(* sent as; the program never looks at those two.                          *)
(***************************************************************************)
EXTENDS Integers, Sequences, NumberConnection

CONSTANTS
  Conns,           \* connections, and the parse threads started for them
  NoConn,          \* a closed current_socket
  HEAD, TAIL,      \* MARKER_HEAD, MARKER_TAIL
  Commands,        \* the values the switch knows
  ANY_OTHER,       \* any other byte
  Params,          \* pairs of bytes explored as the parameters of a packet
  Faults,          \* what may go wrong: "eof", "reset", "close", "accept"
  MaxPackets,      \* bound: packets sent
  MaxPushed,       \* bound: pushed commands after which no recv fails any more
  MaxCount         \* bound: connection count up to which an accept may fail

ASSUME ParserAssumption ==
  /\ NoConn \notin Conns
  /\ HEAD # TAIL /\ HEAD # ANY_OTHER /\ TAIL # ANY_OTHER
  /\ {HEAD, TAIL, ANY_OTHER} \cap Commands = {}
  /\ Params \subseteq ({HEAD, TAIL, ANY_OTHER} \cup Commands) \X
                    ({HEAD, TAIL, ANY_OTHER} \cup Commands)
  /\ Faults \subseteq {"eof", "reset", "close", "accept"}
  /\ MaxPackets \in Nat /\ MaxPushed \in Nat /\ MaxCount \in Nat

VARIABLES
  buf,            \* the five bytes of the shared receive buffer
  n_read_bytes,   \* the shared result of the last recv
  pushed,         \* history of q_execute_cmd: buf as the switch of each push saw it
  current,        \* connection current_socket refers to
  count,          \* number_connection
  wire,           \* bytes sent and not yet received, per connection
  ended,          \* "open", "eof", "reset" or "broken", as seen after those bytes
  pc,             \* where each parse thread stands
  fd,             \* connection its recv was called on
  ret,            \* result of that recv, before it is stored
  taken,          \* buf as its switch saw it, until the branch has pushed
  sent,           \* history: packets sent, as [conn, cmd]
  short,          \* history: connections on which a recv cut a packet
  failed,         \* history: a recv has returned -1
  overlapped      \* history: two threads worked on buf at a time

thread == <<pc, fd, ret, taken>>
net == <<wire, ended, sent>>
past == <<short, failed, overlapped>>
shared == <<buf, n_read_bytes, pushed>>
parserVars == <<shared, current, count, net, thread, past>>

Size == 5
Value == {HEAD, TAIL, ANY_OTHER} \cup Commands
Byte(v, k, i) == [val |-> v, pkt |-> k, pos |-> i]

(* What send_msg's layout and the marker check agree on. *)
Packet(k, cmd, params) ==
  LET bytes == <<HEAD, cmd, params[1], params[2], TAIL>>
  IN  [i \in 1..Size |-> Byte(bytes[i], k, i)]

(* The buffer is an uninitialised member: its markers may match or not,    *)
(* and the byte at the command may be one or not.                          *)
ParserInit ==
  /\ \E marked \in BOOLEAN, cmd \in Commands \cup {ANY_OTHER} :
       buf = <<Byte(IF marked THEN HEAD ELSE ANY_OTHER, 0, 1), Byte(cmd, 0, 2),
               Byte(ANY_OTHER, 0, 3), Byte(ANY_OTHER, 0, 4), Byte(TAIL, 0, 5)>>
  /\ n_read_bytes = 0
  /\ pushed = <<>>
  /\ current = NoConn
  /\ count = 0
  /\ wire = [c \in Conns |-> <<>>]
  /\ ended = [c \in Conns |-> "open"]
  /\ pc = [c \in Conns |-> "unborn"]
  /\ fd = [c \in Conns |-> NoConn]
  /\ ret = [c \in Conns |-> 0]
  /\ taken = [c \in Conns |-> <<>>]
  /\ sent = <<>>
  /\ short = {} /\ failed = FALSE /\ overlapped = FALSE

Goto(p, from, to) == pc[p] = from /\ pc' = [pc EXCEPT ![p] = to]

-----------------------------------------------------------------------------
(* The rest of the handler and the clients. *)

(* handle_connections accepts c, counts it and starts a parse thread.      *)
HandleConnection(c) ==
  /\ Goto(c, "unborn", "call")
  /\ current' = c
  /\ count' = IncrementNumberConnection(count)
  /\ UNCHANGED <<shared, net, fd, ret, taken, past>>

(* A failed accept: its result replaces current_socket and is counted all  *)
(* the same, then the loop goes on without starting a thread.              *)
FailedAccept ==
  /\ "accept" \in Faults
  /\ count < MaxCount
  /\ current' = NoConn
  /\ count' = IncrementNumberConnection(count)
  /\ UNCHANGED <<shared, net, thread, past>>

(* close_socket, from the CLOSE command. *)
CloseCurrent ==
  /\ "close" \in Faults
  /\ current # NoConn
  /\ current' = NoConn
  /\ UNCHANGED <<shared, count, net, thread, past>>

ClientSends(c) ==
  /\ pc[c] # "unborn" /\ ended[c] = "open"
  /\ Len(sent) < MaxPackets
  /\ \E cmd \in Commands \cup {ANY_OTHER}, params \in Params :
       /\ wire' = [wire EXCEPT ![c] = @ \o Packet(Len(sent) + 1, cmd, params)]
       /\ sent' = Append(sent, [conn |-> c, cmd |-> cmd])
  /\ UNCHANGED <<shared, current, count, ended, thread, past>>

ClientEnds(c) ==
  /\ pc[c] # "unborn" /\ ended[c] = "open"
  /\ \E e \in Faults \cap {"eof", "reset"} : ended' = [ended EXCEPT ![c] = e]
  /\ UNCHANGED <<shared, current, count, wire, sent, thread, past>>

-----------------------------------------------------------------------------
(* The parse thread. *)

(* socket.read evaluates handle_ and enters recv. *)
CallRecv(p) ==
  /\ Goto(p, "call", "recv")
  /\ fd' = [fd EXCEPT ![p] = current]
  /\ UNCHANGED <<shared, current, count, net, ret, taken, past>>

(* Between the return of its recv and the push it may lead to.             *)
InHand(p) == pc[p] \in {"store", "length", "markers", "switch", "push"}

RecvReturns(p, n) ==
  /\ Goto(p, "recv", "store")
  /\ ret' = [ret EXCEPT ![p] = n]
  /\ failed' = (failed \/ n = -1)
  /\ overlapped' = (overlapped \/ \E q \in Conns : InHand(q))

(* Faulty variant: the first byte of buf is left alone. *)
FillBehindFirst(bytes) ==
  [i \in 1..Size |-> IF i \in 2..Len(bytes) THEN bytes[i] ELSE buf[i]]

(* What recv does to buf: the rest of it keeps the bytes of earlier reads. *)
Fill(bytes) ==
  [i \in 1..Size |-> IF i <= Len(bytes) THEN bytes[i] ELSE buf[i]]

(* Bytes first, whatever has become of the peer. *)
RecvBytes(p) ==
  /\ fd[p] \in Conns
  /\ \E n \in 1..Size :
       /\ n <= Len(wire[fd[p]])
       /\ RecvReturns(p, n)
       /\ buf' = Fill(SubSeq(wire[fd[p]], 1, n))
       /\ wire' = [wire EXCEPT ![fd[p]] = SubSeq(@, n + 1, Len(@))]
       /\ short' = IF n < Size THEN short \cup {fd[p]} ELSE short
  /\ UNCHANGED <<n_read_bytes, pushed, current, count, ended, fd, taken, sent>>

RecvEof(p) ==
  /\ fd[p] \in Conns
  /\ wire[fd[p]] = <<>> /\ ended[fd[p]] \in {"eof", "broken"}
  /\ RecvReturns(p, 0)
  /\ UNCHANGED <<shared, current, count, net, fd, taken, short>>

(* A reset is reported once; a closed descriptor every time. *)
RecvError(p) ==
  /\ Len(pushed) < MaxPushed
  /\ \/ fd[p] = NoConn /\ UNCHANGED ended
     \/ /\ fd[p] \in Conns
        /\ wire[fd[p]] = <<>> /\ ended[fd[p]] = "reset"
        /\ ended' = [ended EXCEPT ![fd[p]] = "broken"]
  /\ RecvReturns(p, -1)
  /\ UNCHANGED <<shared, current, count, wire, sent, fd, taken, short>>

(* Faulty variant: the result is kept in an unsigned char. *)
StoreUnsigned(p) ==
  /\ Goto(p, "store", "length")
  /\ n_read_bytes' = ret[p] % 2^8
  /\ UNCHANGED <<buf, pushed, current, count, net, fd, ret, taken, past>>

StoreCount(p) ==
  /\ Goto(p, "store", "length")
  /\ n_read_bytes' = ret[p]
  /\ UNCHANGED <<buf, pushed, current, count, net, fd, ret, taken, past>>

(* What a step leaves alone that only looks at something and goes on. *)
OnlyLooks == UNCHANGED <<shared, current, count, net, fd, ret, taken, past>>

(* Faulty variant: only a failed recv is rejected. *)
CheckErrorOnly(p) ==
  /\ \/ n_read_bytes < 0 /\ Goto(p, "length", "count")
     \/ n_read_bytes >= 0 /\ Goto(p, "length", "markers")
  /\ OnlyLooks

(* Faulty variant: a whole packet is taken for a short one. *)
CheckLengthAtMost(p) ==
  /\ \/ n_read_bytes \in 0..Size /\ Goto(p, "length", "count")
     \/ n_read_bytes \notin 0..Size /\ Goto(p, "length", "markers")
  /\ OnlyLooks

(* n_read_bytes < sizeof(buf) compares as unsigned: -1 is not less. *)
CheckLength(p) ==
  /\ \/ n_read_bytes \in 0..(Size - 1) /\ Goto(p, "length", "count")
     \/ n_read_bytes \notin 0..(Size - 1) /\ Goto(p, "length", "markers")
  /\ OnlyLooks

(* Faulty variant: only the first marker is looked at. *)
HeadMatches == buf[1].val = HEAD

MarkersMatch == buf[1].val = HEAD /\ buf[Size].val = TAIL

CheckMarkers(p) ==
  /\ \/ MarkersMatch /\ Goto(p, "markers", "switch")
     \/ ~MarkersMatch /\ Goto(p, "markers", "count")
  /\ OnlyLooks

(* The switch: what buf[1] holds now decides what will be pushed. *)
Switch(p) ==
  /\ \/ /\ buf[2].val \in Commands
        /\ Goto(p, "switch", "push")
        /\ taken' = [taken EXCEPT ![p] = buf]
     \/ /\ buf[2].val \notin Commands
        /\ Goto(p, "switch", "count")
        /\ UNCHANGED taken
  /\ UNCHANGED <<shared, current, count, net, fd, ret, past>>

(* set_state, under connection_mutex. *)
Push(p) ==
  /\ Goto(p, "push", "count")
  /\ pushed' = Append(pushed, taken[p])
  /\ taken' = [taken EXCEPT ![p] = <<>>]
  /\ UNCHANGED <<buf, n_read_bytes, current, count, net, fd, ret, past>>

(* handler_parse_msg_thread after every pass: the locked read of the count *)
(* in "if (get_number_connection() == 2)" ...                              *)
TestCount(p) ==
  /\ \/ count = 2 /\ Goto(p, "count", "leave")
     \/ count # 2 /\ Goto(p, "count", "call")
  /\ OnlyLooks

(* ... and the locked decrement in its body, before the thread returns.    *)
Leave(p) ==
  /\ Goto(p, "leave", "left")
  /\ count' = DecrementNumberConnection(count)
  /\ UNCHANGED <<shared, current, net, fd, ret, taken, past>>

Recv(p) == RecvBytes(p) \/ RecvEof(p) \/ RecvError(p)

ParserStep(p) ==
  \/ CallRecv(p) \/ Recv(p) \/ StoreCount(p) \/ CheckLength(p)
  \/ CheckMarkers(p) \/ Switch(p) \/ Push(p) \/ TestCount(p) \/ Leave(p)

ParserNext ==
  \/ \E c \in Conns : HandleConnection(c) \/ ClientSends(c) \/ ClientEnds(c)
  \/ FailedAccept \/ CloseCurrent
  \/ \E p \in Conns : ParserStep(p)

ParserSpec == ParserInit /\ [][ParserNext]_parserVars

(* A runnable thread runs, and bytes in flight arrive. *)
ParserFairSpec == ParserSpec /\ \A p \in Conns : WF_parserVars(ParserStep(p))

-----------------------------------------------------------------------------
ByteSet == [val : Value, pkt : 0..MaxPackets, pos : 1..Size]

(* Type invariant of the shared buffer, the streams and the thread state. *)
ParserTypeOK ==
  /\ buf \in [1..Size -> ByteSet]
  /\ n_read_bytes \in -1..Size
  /\ pushed \in Seq([1..Size -> ByteSet])
  /\ count \in Nat
  /\ current \in Conns \cup {NoConn}
  /\ wire \in [Conns -> Seq(ByteSet)]
  /\ ended \in [Conns -> {"open", "eof", "reset", "broken"}]
  /\ pc \in [Conns -> {"unborn", "call", "recv", "store", "length", "markers",
                       "switch", "push", "count", "leave", "left"}]
  /\ fd \in [Conns -> Conns \cup {NoConn}]
  /\ ret \in [Conns -> -1..Size]
  /\ taken \in [Conns -> [1..Size -> ByteSet] \cup {<<>>}]
  /\ \A p \in Conns : pc[p] = "push" => taken[p] \in [1..Size -> ByteSet]
  /\ sent \in Seq([conn : Conns, cmd : Commands \cup {ANY_OTHER}])
  /\ Len(sent) <= MaxPackets
  /\ short \subseteq Conns
  /\ failed \in BOOLEAN /\ overlapped \in BOOLEAN

(* The command that push j of pushed put on the queue, and its packet. *)
PacketOf(j) == pushed[j][2].pkt

SameConnection(k, l) == k # 0 /\ l # 0 /\ sent[k].conn = sent[l].conn

(* Push j was of the five bytes of one packet; and it repeats the push     *)
(* before it, or is of a later packet than all before it.                  *)
FromOnePacket(j) ==
  \A i \in 1..Size : pushed[j][i].pkt = PacketOf(j) /\ pushed[j][i].pos = i
NeverGoesBack(j) ==
  \A i \in 1..(j - 1) :
    /\ PacketOf(i) = PacketOf(j) => PacketOf(j - 1) = PacketOf(j)
    /\ SameConnection(PacketOf(i), PacketOf(j)) => PacketOf(i) <= PacketOf(j)

(* No recv has failed, and no two threads have worked on buf at a time, as *)
(* would be so with a lock around parse_msg_client.                        *)
Undisturbed == ~failed /\ ~overlapped

(* Every command that is pushed stands in five bytes that one client sent  *)
(* as one packet.  The stream is never resynchronised after a cut packet,  *)
(* the parameters may contain marker and command bytes, and threads of     *)
(* earlier connections take bytes out of the stream; still no window       *)
(* across two packets passes for a packet.                                 *)
WholePackets ==
  Undisturbed =>
    \A j \in 1..Len(pushed) : FromOnePacket(j) /\ PacketOf(j) # 0

(* No packet is acted on twice and none overtakes an earlier one: the      *)
(* packets behind the pushes of a connection are in the order sent.        *)
PushedOnceInOrder ==
  Undisturbed =>
    \A i, j \in 1..Len(pushed) :
      i < j /\ SameConnection(PacketOf(i), PacketOf(j))
        => PacketOf(i) < PacketOf(j)

(* As long as TCP cuts no packet, whatever recv fails and however many     *)
(* threads work on buf at a time, every command pushed was read from the   *)
(* five bytes of one packet (or from what buf held when it was created).   *)
(* And without another thread in buf, a failed recv can only repeat the    *)
(* last command; it never goes back to an earlier one.                     *)
FailureOnlyRepeats ==
  short = {} =>
    \A j \in 1..Len(pushed) : FromOnePacket(j) /\ (~overlapped => NeverGoesBack(j))

(* As long as TCP cuts no packet, no recv fails and the count stays below  *)
(* the 2 that makes a thread leave (one client, and no accept that failed  *)
(* and was counted), every known command sent is pushed in the end,        *)
(* whatever the packets around it hold.                                    *)
Known(k) == k <= Len(sent) /\ sent[k].cmd \in Commands
IsPushed(k) == \E j \in 1..Len(pushed) : PacketOf(j) = k
CommandHeard ==
  [](short = {} /\ ~failed /\ count <= 1) =>
    \A k \in 1..MaxPackets : Known(k) ~> IsPushed(k)

=============================================================================
