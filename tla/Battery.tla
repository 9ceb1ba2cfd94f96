------------------------------- MODULE Battery -------------------------------
(***************************************************************************)
(* PowerMonitor: requests to the battery controller on a serial line, and  *)
(* the replies.  No other part of the program uses the class yet.          *)
(*                                                                         *)
(* A reply is nine bytes: header, register, length (4), four bytes of      *)
(* data, CRC, tail.  A byte is the pair of the request it answers and its  *)
(* place in the reply.  Data and CRC can have any value; so a comparison   *)
(* with one of them can come out either way.                               *)
(*                                                                         *)
(* The line is read as uart_init sets it up (VMIN 0, VTIME 10): read waits *)
(* a second at most, returns 0 after it, and otherwise as soon as there is *)
(* anything, with all that is there and fits in read_buf.                  *)
(*                                                                         *)
(* Every caller is assumed to call uart_init before anything else: the     *)
(* member serial_port has no value before.                                 *)
(***************************************************************************)
EXTENDS Integers, Sequences

CONSTANTS
  Fields,       \* the members and results that are asked for
  Cuts,         \* places at which a reply may be cut on the line
  MaxAsked,     \* bound on the requests
  MaxOpens      \* bound on the calls of uart_init

None == "none"
FrameSize == 9
BufferSize == 16

(* The register that each getter asks for. *)
RegisterOf ==
  [battery_vol |-> 1, battery_ampere |-> 2, battery_avg_ampere |-> 3,
   absolute_state_charge |-> 4, capacity_remain |-> 5,
   capacity_full_charge |-> 6, charging_current |-> 7, battery_status |-> 8,
   cycle_count |-> 9, serial_number |-> 9]

ASSUME FieldsAssumption == Fields \subseteq DOMAIN RegisterOf
ASSUME CutsAssumption == Cuts \subseteq 1..FrameSize /\ FrameSize \in Cuts
ASSUME BoundsAssumption == MaxAsked \in Nat /\ MaxOpens \in Nat

VARIABLES
  instance,  \* PowerMonitor::instance # nullptr
  port,      \* serial_port: "unset", "failed", "open" or "closed"
  opens,     \* calls of uart_init
  asked,     \* registers asked for, one per request
  waiting,   \* the field whose request is in progress, "set", or None
  replies,   \* replies on their way: request and bytes that have arrived
  line,      \* bytes in the input queue
  reading,   \* per field: its last request, and the request whose data it shows
  crashed,   \* CRC8 has run off the buffer
  late,      \* history: a reply has arrived after its request had ended
             \* ("late"), and since then one was lost or discarded ("mended")
  split      \* history: a read did not return one whole reply

device == <<replies, line>>
history == <<late, split>>
batteryVars == <<instance, port, opens, asked, waiting, device, reading, crashed, history>>

Unread == [f \in Fields |-> [asked |-> 0, from |-> 0]]

BatteryInit ==
  /\ instance = FALSE /\ port = "unset" /\ opens = 0
  /\ asked = <<>> /\ waiting = None
  /\ replies = <<>> /\ line = <<>>
  /\ reading = Unread /\ crashed = FALSE
  /\ late = "never" /\ split = FALSE

-----------------------------------------------------------------------------
Ready == instance /\ waiting = None /\ ~crashed

(* getInstance and the constructor *)
GetInstance ==
  /\ ~instance /\ ~crashed
  /\ instance' = TRUE /\ port' = "unset" /\ reading' = Unread
  /\ UNCHANGED <<opens, asked, waiting, device, crashed, history>>

(* destroyInstance closes nothing. *)
DestroyInstance ==
  /\ Ready /\ instance' = FALSE
  /\ UNCHANGED <<port, opens, asked, waiting, device, reading, crashed, history>>

(* uart_init; tcgetattr fails if open did.  Left out: an open device whose *)
(* attributes cannot be read or set, and that would answer in lines and    *)
(* without a timeout.  The input queue of the line outlives the            *)
(* descriptors that nobody closes.                                         *)
UartInit ==
  /\ Ready /\ opens < MaxOpens /\ opens' = opens + 1
  /\ port' \in {"open", "failed"}
  /\ UNCHANGED <<instance, asked, waiting, device, reading, crashed, history>>

Mend == late' = IF late = "late" THEN "mended" ELSE late

(* uart_close: the queue goes with the last descriptor. *)
UartClose ==
  /\ Ready /\ port = "open" /\ port' = "closed"
  /\ \/ UNCHANGED <<line, late>>
     \/ line' = <<>> /\ Mend
  /\ UNCHANGED <<instance, opens, asked, waiting, replies, reading, crashed, split>>

(* Variant: the input queue is flushed before the request. *)
AskFlushed(what, register) ==
  /\ Ready /\ port # "unset" /\ Len(asked) < MaxAsked
  /\ asked' = Append(asked, register)
  /\ waiting' = what /\ line' = <<>>
  /\ replies' = IF port = "open"
                THEN Append(replies, [to |-> Len(asked'), sent |-> 0])
                ELSE replies
  /\ UNCHANGED <<instance, port, opens, reading, crashed, history>>

(* The request: four bytes are written, and the controller will answer.    *)
Ask(what, register) ==
  /\ Ready /\ port # "unset" /\ Len(asked) < MaxAsked
  /\ asked' = Append(asked, register)
  /\ waiting' = what
  /\ replies' = IF port = "open"
                THEN Append(replies, [to |-> Len(asked'), sent |-> 0])
                ELSE replies
  /\ UNCHANGED <<instance, port, opens, line, reading, crashed, history>>

AskFor(f) == Ask(f, RegisterOf[f])
AskToSet(register) == Ask("set", register)

(* The controller: some more of the first reply arrives, or it is lost.    *)
Arrive(cut) ==
  LET reply == Head(replies) IN
  /\ replies # <<>> /\ reply.sent < cut
  /\ line' = line \o [i \in 1..(cut - reply.sent) |-> <<reply.to, reply.sent + i>>]
  /\ replies' = IF cut = FrameSize THEN Tail(replies)
                ELSE [replies EXCEPT ![1].sent = cut]
  /\ late' = IF waiting = None \/ reply.to # Len(asked) THEN "late" ELSE late
  /\ UNCHANGED <<instance, port, opens, asked, waiting, reading, crashed, split>>

Lose ==
  /\ replies # <<>> /\ Head(replies).sent = 0
  /\ replies' = Tail(replies) /\ Mend
  /\ UNCHANGED <<instance, port, opens, asked, waiting, line, reading, crashed, split>>

-----------------------------------------------------------------------------
(* What read returns: a prefix of the queue. *)
Taken == IF Len(line) < BufferSize THEN Len(line) ELSE BufferSize
Chunk == SubSeq(line, 1, Taken)
Whole(s) ==
  Len(s) = FrameSize /\ \A i \in 1..FrameSize : s[i] = <<s[1][1], i>>

(* The test after a read refuses a chunk only if everything is wrong with  *)
(* it: its CRC, its header, its tail, and its register.                    *)
RefusesAll(s, register) ==
  /\ s[1][2] # 1 /\ s[Len(s)][2] # FrameSize
  /\ s[2][2] # 2 \/ asked[s[2][1]] # register

(* read_buf[2] as the length: that of a reply, 0 if nothing was read       *)
(* there, a register number, or any byte.  5 stands for all that is too    *)
(* long.                                                                   *)
LengthsOf(s) ==
  IF Len(s) < 3 THEN {0}
  ELSE CASE s[3][2] = 3 -> {4}
         [] s[3][2] = 2 -> {IF asked[s[3][1]] > 4 THEN 5 ELSE asked[s[3][1]]}
         [] s[3][2] \in {1, FrameSize} -> {5}
         [] OTHER -> 0..5

(* Faulty variant: memcpy(data, read_buf + 2, ...). *)
DataOfBefore(s, length) ==
  IF length = 4 /\ Len(s) >= 7 /\ \A i \in 4..7 : s[i - 1] = <<s[4][1], i>>
  THEN s[4][1] ELSE 0

(* What data[] is after the memcpy: the data of one reply, or something    *)
(* else (other bytes, the zeros of read_buf, or what the stack held).      *)
DataOf(s, length) ==
  IF length = 4 /\ Len(s) >= 7 /\ \A i \in 4..7 : s[i] = <<s[4][1], i>>
  THEN s[4][1] ELSE 0

(* Faulty variant: the request never ends. *)
EndRequestOmitted == UNCHANGED waiting

EndRequest == waiting' = None
Consume == line' = SubSeq(line, Taken + 1, Len(line)) /\ split' = (split \/ ~Whole(Chunk))

(* read returned 0 *)
TimeOut ==
  /\ waiting # None /\ port = "open" /\ line = <<>>
  /\ EndRequest
  /\ UNCHANGED <<instance, port, opens, asked, device, reading, crashed, history>>

(* read returned -1 or 1: CRC8 counts down from -3 or -1. *)
RunAway ==
  /\ waiting # None
  /\ \/ port # "open" /\ UNCHANGED <<line, split>>
     \/ port = "open" /\ Taken = 1 /\ Consume
  /\ crashed' = TRUE /\ EndRequest
  /\ UNCHANGED <<instance, port, opens, asked, replies, reading, late>>

ReadReply ==
  /\ waiting # None /\ port = "open" /\ Taken >= 2
  /\ Consume /\ EndRequest
  /\ UNCHANGED <<instance, port, opens, asked, replies, crashed, late>>

(* uart_get_data returned -1 or -2: the getter leaves its field alone. *)
Refuse ==
  /\ ReadReply
  /\ \/ RefusesAll(Chunk, asked[Len(asked)])
     \/ waiting # "set" /\ 5 \in LengthsOf(Chunk)
  /\ UNCHANGED reading

(* The getter stores data[1]*256 + data[0] and data[3]*256 + data[2]. *)
Store ==
  /\ waiting \in Fields /\ ReadReply
  /\ \E length \in LengthsOf(Chunk) \ {5} :
       reading' = [reading EXCEPT ![waiting] =
                     [asked |-> Len(asked), from |-> DataOf(Chunk, length)]]

(* uart_set_data looks at nothing else in the answer. *)
AcknowledgeSet ==
  waiting = "set" /\ ReadReply /\ UNCHANGED reading

Answer == TimeOut \/ RunAway \/ Refuse \/ Store \/ AcknowledgeSet

BatteryNext ==
  \/ GetInstance \/ DestroyInstance \/ UartInit \/ UartClose
  \/ \E f \in Fields : AskFor(f)
  \/ \E f \in Fields : AskToSet(RegisterOf[f])
  \/ \E cut \in Cuts : Arrive(cut)
  \/ Lose \/ Answer

BatterySpec == BatteryInit /\ [][BatteryNext]_batteryVars

-----------------------------------------------------------------------------
(* Type invariant of the power monitor; a byte in the queue belongs to a   *)
(* request that was made, and a request is in progress only on a living    *)
(* instance.                                                               *)
Requests == 1..Len(asked)
BatteryTypeOK ==
  /\ instance \in BOOLEAN /\ crashed \in BOOLEAN
  /\ late \in {"never", "late", "mended"} /\ split \in BOOLEAN
  /\ port \in {"unset", "failed", "open", "closed"}
  /\ opens \in 0..MaxOpens
  /\ asked \in Seq(1..9) /\ Len(asked) <= MaxAsked
  /\ waiting \in Fields \cup {"set", None}
  /\ waiting # None => instance /\ ~crashed
  /\ replies \in Seq([to : Requests, sent : 0..FrameSize-1])
  /\ line \in Seq(Requests \X (1..FrameSize))
  /\ reading \in [Fields -> [asked : 0..MaxAsked, from : 0..MaxAsked]]

(* As long as every reply came in time and in one piece, every field shows *)
(* what the controller answered to the last request for it, and CRC8 never *)
(* runs off the buffer on an open port.  Nothing in uart_get_data secures  *)
(* that: the test in line 79 joins its parts with && and passes almost     *)
(* anything.                                                               *)
OwnUnlessDisturbed ==
  late = "never" /\ ~split =>
    /\ \A f \in Fields : reading[f].from = reading[f].asked
    /\ crashed => port # "open"

(* One reply that comes late puts the readings out of step: the queue is   *)
(* never flushed, and every later request is answered at once by the data  *)
(* of an earlier one, under its own name, until another reply is lost or   *)
(* the port is closed.                                                     *)
OutOfStep ==
  [][\A f \in Fields :
       late = "late" /\ ~split' /\ reading'[f].asked > reading[f].asked =>
         reading'[f].from < reading'[f].asked]_batteryVars

=============================================================================
