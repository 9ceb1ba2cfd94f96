---------------------------- MODULE SocketsProofs ----------------------------
(***************************************************************************)
(* For any socket objects, descriptors and transfer sizes: every open      *)
(* descriptor has one owner, open and connect end as they say, and the     *)
(* read_n and write_n loops ask for no more than is wanted.                *)
(***************************************************************************)
EXTENDS Sockets, TLAPS

(* The handle that a connect replaces exists for one step only. *)
OldInv == \A o \in Objects : old[o] # INVALID_SOCKET => pc[o] = "replace"

(* Where an open or a connect has a descriptor, and where it has an error. *)
WithHandle == {"option", "bind", "listen", "replace", "connect", "unblock",
               "timed connect", "select", "so_error", "restore", "opened", "connected"}
WithError == {"failed", "kept", "drop", "close", "select"}
OpenInvOf(o) ==
  /\ pc[o] \in WithHandle => IsOpen(o)
  /\ pc[o] = "opened" => o \notin lastErr
  /\ pc[o] = "failed" => ~IsOpen(o)
  /\ pc[o] \in WithError => o \in lastErr
OpenInv == \A o \in Objects : OpenInvOf(o)

(* A loop has never moved more than it was asked for. *)
LoopInvOf(o) == pc[o] = "loop" => io[o].count <= io[o].n
LoopInv == \A o \in Objects : LoopInvOf(o)

(* Every open descriptor is accounted for. *)
Accounted ==
  \A h \in open :
    h \in loose \cup lost \/ \E o \in Objects : handle[o] = h \/ old[o] = h

OwnInv == OneOwner /\ Accounted

Transfers == [fn : {"none", "read_n", "write_n", "read_n_r", "write_n_r"},
              n : 0..MaxBytes, count : 0..MaxBytes, eof : BOOLEAN]

(* TypeOK without the transfers. *)
ObjectsOK ==
  /\ alive \subseteq Objects /\ lastErr \subseteq alive
  /\ handle \in [Objects -> Handles \cup {INVALID_SOCKET}]
  /\ old \in [Objects -> Handles \cup {INVALID_SOCKET}]
  /\ open \subseteq Handles /\ loose \subseteq Handles /\ lost \subseteq Handles
  /\ pc \in [Objects -> Ready \cup InCall]
  /\ \A o \in Objects \ alive : handle[o] = INVALID_SOCKET /\ pc[o] = "idle"

-----------------------------------------------------------------------------
LEMMA HandlesValid == INVALID_SOCKET \notin Handles
  BY HandlesAssumption DEF INVALID_SOCKET

(* What the actions do, by shape: a call that is one system call; a step   *)
(* of open or connect that closes nothing; a step of a loop.               *)
Noted(o) == UNCHANGED lastErr \/ \E ok \in BOOLEAN : Check(o, ok)

LEMMA AnswersBoolean == ASSUME NEW o \in Objects PROVE Answers(o) \subseteq BOOLEAN
  BY DEF Answers

LEMMA CallShape ==
  ASSUME NEW o \in Objects, OneCall(o)
  PROVE  Call(o) /\ UNCHANGED owners /\ Noted(o)
<1>1. ASSUME Checked(o)
      PROVE  Call(o) /\ UNCHANGED owners /\ Noted(o)
  BY <1>1, AnswersBoolean DEF Checked, Noted
<1>2. CASE Clear(o)
  BY <1>2 DEF Clear, Noted
<1>3. CASE Call(o) /\ UNCHANGED <<owners, lastErr>>
  BY <1>3 DEF Noted
<1>4. QED
  BY <1>1, <1>2, <1>3
     DEF OneCall, Bind, Listen, Address, GetOption, SetOption, SetTimeout,
         ConnectDatagram, SendTo, Send, Recv, Read, ReadRanges, Write, WriteRanges,
         SetNonBlocking, SetFlag

Steps == {"option", "bind", "listen", "connect", "unblock", "timed connect",
          "select", "so_error", "restore"}
StepOf(o) ==
  \/ OpenOption(o) \/ OpenBind(o) \/ OpenListen(o) \/ Connect(o) \/ Unblock(o)
  \/ TimedConnect(o) \/ Select(o) \/ SocketError(o) \/ Restore(o)

(* A step notes how it went and goes on, and on failure where it closes. *)
Leads(ok, at) ==
  /\ ok \in BOOLEAN /\ at \in WithHandle \cup {"drop", "close"}
  /\ at \in {"drop", "close", "select"} => ok = FALSE
  /\ at = "opened" => ok = TRUE
Stepped(o) ==
  /\ pc[o] \in Steps /\ UNCHANGED <<owners, io>>
  /\ \E ok \in BOOLEAN, at \in WithHandle \cup {"drop", "close"} :
        Leads(ok, at) /\ Check(o, ok) /\ Goto(o, at)

LEMMA OpenStepShape ==
  ASSUME NEW o \in Objects, NEW from \in Steps, NEW to \in WithHandle \ {"select"},
         OpenStep(o, from, to)
  PROVE  Stepped(o)
<1>1. PICK ok \in Answers(o) : Check(o, ok) /\ Goto(o, IF ok THEN to ELSE "drop")
  BY DEF OpenStep
<1>2. ok = TRUE \/ ok = FALSE
  BY AnswersBoolean
<1>3. CASE ok = TRUE
  <2>1. Leads(TRUE, to) /\ Check(o, TRUE) /\ Goto(o, to)
    BY <1>1, <1>3 DEF Leads, WithHandle
  <2>2. QED
    BY <2>1 DEF OpenStep, Stepped
<1>4. CASE ok = FALSE
  <2>1. Leads(FALSE, "drop") /\ Check(o, FALSE) /\ Goto(o, "drop")
    BY <1>1, <1>4 DEF Leads
  <2>2. QED
    BY <2>1 DEF OpenStep, Stepped
<1>5. QED
  BY <1>2, <1>3, <1>4

LEMMA StepToShape ==
  ASSUME NEW o \in Objects, NEW from \in Steps, NEW ok \in BOOLEAN, NEW at,
         Leads(ok, at), StepTo(o, from, ok, at)
  PROVE  Stepped(o)
  BY DEF StepTo, Stepped, Leads

LEMMA StepShape ==
  ASSUME NEW o \in Objects, StepOf(o)
  PROVE  Stepped(o)
<1> USE AnswersBoolean DEF Leads, WithHandle, Steps
<1>1. CASE OpenOption(o) \/ OpenBind(o) \/ OpenListen(o)
  BY <1>1, OpenStepShape DEF OpenOption, OpenBind, OpenListen
<1>2. CASE Connect(o)
  <2>1. PICK ok \in Answers(o) :
          Check(o, ok) /\ Goto(o, IF ok THEN "connected" ELSE "drop")
    BY <1>2 DEF Connect
  <2>2. CASE ok = TRUE
    <3>1. Leads(TRUE, "connected") /\ Check(o, TRUE) /\ Goto(o, "connected")
      BY <2>1, <2>2
    <3>2. QED
      BY <1>2, <3>1 DEF Connect, Stepped
  <2>3. CASE ok = FALSE
    <3>1. Leads(FALSE, "drop") /\ Check(o, FALSE) /\ Goto(o, "drop")
      BY <2>1, <2>3
    <3>2. QED
      BY <1>2, <3>1 DEF Connect, Stepped
  <2>4. QED
    BY <2>2, <2>3
<1>3. CASE Unblock(o)
  <2>1. PICK ok \in Answers(o) : StepTo(o, "unblock", ok, "timed connect")
    BY <1>3 DEF Unblock
  <2>2. Leads(ok, "timed connect")
    OBVIOUS
  <2>3. QED
    BY <2>1, <2>2, StepToShape
<1>4. CASE Restore(o)
  <2>1. PICK ok \in Answers(o) : StepTo(o, "restore", ok, "connected")
    BY <1>4 DEF Restore
  <2>2. Leads(ok, "connected")
    OBVIOUS
  <2>3. QED
    BY <2>1, <2>2, StepToShape
<1>5. CASE TimedConnect(o)
  BY <1>5, StepToShape DEF TimedConnect
<1>6. CASE Select(o)
  BY <1>6, StepToShape DEF Select
<1>7. CASE SocketError(o)
  BY <1>7, StepToShape DEF SocketError
<1>8. QED
  BY <1>1, <1>2, <1>3, <1>4, <1>5, <1>6, <1>7 DEF StepOf

LEMMA LoopShape ==
  ASSUME NEW o \in Objects, IOStep(o)
  PROVE  /\ pc[o] = "loop" /\ UNCHANGED owners /\ Noted(o)
         /\ UNCHANGED pc \/ Goto(o, "returned")
<1>1. CASE LoopEnds(o)
  BY <1>1 DEF LoopEnds, Returns, IOStep, Noted
<1>2. CASE ReadN(o)
  BY <1>2 DEF ReadN, Looping, Moves, Interrupted, Returns, IOStep, Noted
<1>3. CASE WriteN(o)
  BY <1>3 DEF WriteN, Looping, Moves, Interrupted, Returns, IOStep, Noted
<1>4. CASE ReadNR(o) \/ WriteNR(o)
  BY <1>4 DEF ReadNR, WriteNR, Looping, Moves, Returns, IOStep, Noted
<1>5. QED
  BY <1>1, <1>2, <1>3, <1>4 DEF IOStep

-----------------------------------------------------------------------------
(* What can happen to the descriptors. *)

(* An object without a handle gets a new descriptor or one of the caller's. *)
LEMMA NewOwner ==
  ASSUME OwnInv, open \subseteq Handles,
         handle \in [Objects -> Handles \cup {INVALID_SOCKET}],
         old \in [Objects -> Handles \cup {INVALID_SOCKET}],
         NEW o \in Objects, NEW h \in Handles, handle[o] = INVALID_SOCKET,
         handle' = [handle EXCEPT ![o] = h], UNCHANGED <<old, lost>>,
         \/ h \notin open /\ open' = open \cup {h} /\ UNCHANGED loose
         \/ h \in loose /\ loose' = loose \ {h} /\ UNCHANGED open
  PROVE  OwnInv'
<1>1. OneOwner'
  BY HandlesValid DEF OwnInv, OneOwner, IsOpen
<1>2. Accounted'
  <2> SUFFICES ASSUME NEW g \in open', g \notin loose' \cup lost'
               PROVE  \E x \in Objects : handle'[x] = g \/ old'[x] = g
    BY DEF Accounted
  <2>1. CASE g = h
    <3>1. handle'[o] = g
      BY <2>1
    <3>2. QED
      BY <3>1
  <2>2. CASE g \notin {h}
    <3>1. g \in open /\ g # INVALID_SOCKET
      BY <2>2, HandlesValid DEF OwnInv, OneOwner
    <3>2. PICK x \in Objects : handle[x] = g \/ old[x] = g
      BY <2>2, <3>1 DEF OwnInv, Accounted
    <3>3. handle'[x] = g \/ old'[x] = g
      BY <3>1, <3>2, HandlesValid
    <3>4. QED
      BY <3>3
  <2>3. QED
    BY <2>1, <2>2
<1>3. QED
  BY <1>1, <1>2 DEF OwnInv

(* An object gives its handle up: closed, to the caller, or by shutdown. *)
LEMMA LoseOwner ==
  ASSUME OwnInv, open \subseteq Handles,
         handle \in [Objects -> Handles \cup {INVALID_SOCKET}],
         old \in [Objects -> Handles \cup {INVALID_SOCKET}],
         NEW o \in Objects, handle[o] # INVALID_SOCKET,
         handle' = [handle EXCEPT ![o] = INVALID_SOCKET], UNCHANGED old,
         \/ open' = open \ {handle[o]} /\ UNCHANGED <<loose, lost>>
         \/ loose' = loose \cup {handle[o]} /\ UNCHANGED <<open, lost>>
         \/ lost' = lost \cup {handle[o]} /\ UNCHANGED <<open, loose>>
  PROVE  OwnInv'
<1>1. OneOwner'
  BY HandlesValid DEF OwnInv, OneOwner, IsOpen
<1>2. Accounted'
  BY HandlesValid DEF OwnInv, OneOwner, Accounted, IsOpen
<1>3. QED
  BY <1>1, <1>2 DEF OwnInv

(* Two objects exchange what they hold. *)
LEMMA SwapOwners ==
  ASSUME OwnInv, open \subseteq Handles,
         handle \in [Objects -> Handles \cup {INVALID_SOCKET}],
         old \in [Objects -> Handles \cup {INVALID_SOCKET}],
         NEW o \in Objects, NEW p \in Objects, o # p,
         handle' = [handle EXCEPT ![o] = handle[p], ![p] = handle[o]],
         UNCHANGED <<old, open, loose, lost>>
  PROVE  OwnInv'
<1>1. OneOwner'
  BY HandlesValid DEF OwnInv, OneOwner, IsOpen
<1>2. Accounted'
  BY HandlesValid DEF OwnInv, OneOwner, Accounted, IsOpen
<1>3. QED
  BY <1>1, <1>2 DEF OwnInv

(* Two objects get a pair of new descriptors. *)
LEMMA PairOwners ==
  ASSUME OwnInv, open \subseteq Handles,
         handle \in [Objects -> Handles \cup {INVALID_SOCKET}],
         old \in [Objects -> Handles \cup {INVALID_SOCKET}],
         NEW o \in Objects, NEW p \in Objects, o # p,
         handle[o] = INVALID_SOCKET, handle[p] = INVALID_SOCKET,
         NEW h \in Handles \ open, NEW k \in Handles \ open, h # k,
         handle' = [handle EXCEPT ![o] = h, ![p] = k],
         open' = open \cup {h, k}, UNCHANGED <<old, loose, lost>>
  PROVE  OwnInv'
<1>1. OneOwner'
  BY HandlesValid DEF OwnInv, OneOwner, IsOpen
<1>2. Accounted'
  <2> SUFFICES ASSUME NEW g \in open', g \notin loose' \cup lost'
               PROVE  \E x \in Objects : handle'[x] = g \/ old'[x] = g
    BY DEF Accounted
  <2>1. CASE g = h
    <3>1. handle'[o] = g
      BY <2>1
    <3>2. QED
      BY <3>1
  <2>2. CASE g = k
    <3>1. handle'[p] = g
      BY <2>2
    <3>2. QED
      BY <3>1
  <2>3. CASE g \notin {h, k}
    <3>1. g \in open /\ g # INVALID_SOCKET
      BY <2>3, HandlesValid DEF OwnInv, OneOwner
    <3>2. PICK x \in Objects : handle[x] = g \/ old[x] = g
      BY <2>3, <3>1 DEF OwnInv, Accounted
    <3>3. handle'[x] = g \/ old'[x] = g
      BY <3>1, <3>2, HandlesValid
    <3>4. QED
      BY <3>3
  <2>4. QED
    BY <2>1, <2>2, <2>3
<1>3. QED
  BY <1>1, <1>2 DEF OwnInv

(* A descriptor of the caller's replaces the handle, which is closed. *)
LEMMA ResetOwner ==
  ASSUME OwnInv, open \subseteq Handles,
         handle \in [Objects -> Handles \cup {INVALID_SOCKET}],
         old \in [Objects -> Handles \cup {INVALID_SOCKET}],
         NEW o \in Objects, NEW h \in loose, handle[o] # INVALID_SOCKET,
         handle' = [handle EXCEPT ![o] = h], loose' = loose \ {h},
         open' = open \ {handle[o]}, UNCHANGED <<old, lost>>
  PROVE  OwnInv'
<1>1. OneOwner'
  BY HandlesValid DEF OwnInv, OneOwner, IsOpen
<1>2. Accounted'
  BY HandlesValid DEF OwnInv, OneOwner, Accounted, IsOpen
<1>3. QED
  BY <1>1, <1>2 DEF OwnInv

(* A new descriptor is put in place of the handle, and that aside. *)
LEMMA RecreateOwner ==
  ASSUME OwnInv, open \subseteq Handles,
         handle \in [Objects -> Handles \cup {INVALID_SOCKET}],
         old \in [Objects -> Handles \cup {INVALID_SOCKET}],
         NEW o \in Objects, NEW h \in Handles \ open, old[o] = INVALID_SOCKET,
         handle' = [handle EXCEPT ![o] = h], old' = [old EXCEPT ![o] = handle[o]],
         open' = open \cup {h}, UNCHANGED <<loose, lost>>
  PROVE  OwnInv'
<1>1. OneOwner'
  BY HandlesValid DEF OwnInv, OneOwner, IsOpen
<1>2. Accounted'
  <2> SUFFICES ASSUME NEW g \in open', g \notin loose' \cup lost'
               PROVE  \E x \in Objects : handle'[x] = g \/ old'[x] = g
    BY DEF Accounted
  <2>1. CASE g = h
    <3>1. handle'[o] = g
      BY <2>1
    <3>2. QED
      BY <3>1
  <2>2. CASE g \notin {h}
    <3>1. g \in open /\ g # INVALID_SOCKET
      BY <2>2, HandlesValid DEF OwnInv, OneOwner
    <3>2. PICK x \in Objects : handle[x] = g \/ old[x] = g
      BY <2>2, <3>1 DEF OwnInv, Accounted
    <3>3. handle'[x] = g \/ old'[x] = g
      BY <3>1, <3>2, HandlesValid
    <3>4. QED
      BY <3>3
  <2>3. QED
    BY <2>1, <2>2
<1>3. QED
  BY <1>1, <1>2 DEF OwnInv

(* What was put aside is closed. *)
LEMMA ReplaceOwner ==
  ASSUME OwnInv, open \subseteq Handles,
         handle \in [Objects -> Handles \cup {INVALID_SOCKET}],
         old \in [Objects -> Handles \cup {INVALID_SOCKET}],
         NEW o \in Objects, old[o] # INVALID_SOCKET,
         old' = [old EXCEPT ![o] = INVALID_SOCKET],
         open' = open \ {old[o]}, UNCHANGED <<handle, loose, lost>>
  PROVE  OwnInv'
<1>1. OneOwner'
  BY HandlesValid DEF OwnInv, OneOwner, IsOpen
<1>2. Accounted'
  BY HandlesValid DEF OwnInv, OneOwner, Accounted, IsOpen
<1>3. QED
  BY <1>1, <1>2 DEF OwnInv

(* The caller closes a descriptor of its own. *)
LEMMA LooseClosed ==
  ASSUME OwnInv, open \subseteq Handles,
         handle \in [Objects -> Handles \cup {INVALID_SOCKET}],
         old \in [Objects -> Handles \cup {INVALID_SOCKET}],
         NEW h \in loose, loose' = loose \ {h}, open' = open \ {h},
         UNCHANGED <<handle, old, lost>>
  PROVE  OwnInv'
<1>1. OneOwner'
  BY HandlesValid DEF OwnInv, OneOwner, IsOpen
<1>2. Accounted'
  BY HandlesValid DEF OwnInv, OneOwner, Accounted, IsOpen
<1>3. QED
  BY <1>1, <1>2 DEF OwnInv

LEMMA SameOwners ==
  ASSUME OwnInv, UNCHANGED <<handle, old, open, loose, lost>>
  PROVE  OwnInv'
  BY DEF OwnInv, OneOwner, Accounted, IsOpen

(* An object that is not alive has no handle, and one at rest none aside. *)
LEMMA Unheld ==
  ASSUME ObjectsOK, NEW o \in Objects, o \notin alive
  PROVE  handle[o] = INVALID_SOCKET
  BY DEF ObjectsOK

LEMMA Unchanged ==
  ASSUME ObjectsOK, NEW o \in Objects, handle[o] = INVALID_SOCKET,
         handle' = [handle EXCEPT ![o] = INVALID_SOCKET]
  PROVE  handle' = handle
  BY DEF ObjectsOK

LEMMA ConstructOwners ==
  ASSUME ObjectsOK, OwnInv, NEW o \in Objects, UNCHANGED <<lost, old>>, o \notin alive,
         \/ /\ handle' = [handle EXCEPT ![o] = INVALID_SOCKET]
            /\ UNCHANGED <<open, loose>>
         \/ \E h \in Handles :
              /\ handle' = [handle EXCEPT ![o] = h]
              /\ \/ h \notin open /\ open' = open \cup {h} /\ UNCHANGED loose
                 \/ h \in loose /\ loose' = loose \ {h} /\ UNCHANGED open
  PROVE  OwnInv'
<1>1. CASE handle' = [handle EXCEPT ![o] = INVALID_SOCKET] /\ UNCHANGED <<open, loose>>
  <2>1. handle' = handle
    BY <1>1, Unheld, Unchanged
  <2>2. QED
    BY <1>1, <2>1, SameOwners
<1>2. ASSUME NEW h \in Handles, handle' = [handle EXCEPT ![o] = h],
             \/ h \notin open /\ open' = open \cup {h} /\ UNCHANGED loose
             \/ h \in loose /\ loose' = loose \ {h} /\ UNCHANGED open
      PROVE  OwnInv'
  BY <1>2, Unheld, NewOwner DEF ObjectsOK
<1>3. QED
  BY <1>1, <1>2

LEMMA BuildOwners ==
  ASSUME ObjectsOK, OwnInv, NEW o \in Objects, Build(o)
  PROVE  OwnInv'
<1> USE DEF Construct, Enter
<1>1. CASE DefaultConstruct(o) \/ TakeHandle(o)
  BY <1>1, ConstructOwners DEF DefaultConstruct, TakeHandle, ConstructFrom, ObjectsOK
<1>2. CASE Create(o)
  BY <1>2, ConstructOwners DEF Create, NewHandle
<1>3. ASSUME NEW p \in Objects, MoveConstruct(o, p)
      PROVE  OwnInv'
  <2>1. o # p /\ handle[o] = INVALID_SOCKET
    BY <1>3, Unheld DEF MoveConstruct, Call, Calls, Idle
  <2>2. QED
    BY <1>3, <2>1, SwapOwners DEF MoveConstruct, ObjectsOK
<1>4. ASSUME NEW p \in Objects, Dup(o, p)
      PROVE  OwnInv'
  BY <1>4, ConstructOwners DEF Dup, NewHandle
<1>5. ASSUME NEW p \in Objects, SocketPair(o, p)
      PROVE  OwnInv'
  <2>1. CASE UNCHANGED <<open, handle>>
    BY <1>5, <2>1, SameOwners DEF SocketPair
  <2>2. ASSUME NEW h \in Handles \ open, NEW k \in Handles \ open, h < k,
               open' = open \cup {h, k}, handle' = [handle EXCEPT ![o] = h, ![p] = k]
        PROVE  OwnInv'
    <3>1. h # k
      BY <2>2, HandlesAssumption
    <3>2. o # p /\ handle[o] = INVALID_SOCKET /\ handle[p] = INVALID_SOCKET
      BY <1>5, Unheld DEF SocketPair
    <3>3. QED
      BY <1>5, <2>2, <3>1, <3>2, PairOwners DEF SocketPair, ObjectsOK
  <2>3. QED
    BY <1>5, <2>1, <2>2 DEF SocketPair
<1>6. ASSUME NEW p \in Objects, Accept(p, o)
      PROVE  OwnInv'
  BY <1>6, ConstructOwners DEF Accept, NewHandle
<1>7. CASE CreateDatagram(o)
  BY <1>7, ConstructOwners DEF CreateDatagram, NewHandle
<1>8. QED
  BY <1>1, <1>2, <1>3, <1>4, <1>5, <1>6, <1>7
     DEF Build, CreateStream, CreateAcceptor, CloneStream, CloneDatagram,
         PairStreams, PairDatagrams

LEMMA ClosedOwners ==
  ASSUME ObjectsOK, OwnInv, NEW o \in Objects, UNCHANGED <<loose, lost, old>>,
         handle' = [handle EXCEPT ![o] = INVALID_SOCKET],
         IF IsOpen(o) THEN CloseHandle(handle[o]) ELSE UNCHANGED open
  PROVE  OwnInv'
<1>1. CASE IsOpen(o)
  BY <1>1, LoseOwner DEF IsOpen, CloseHandle, ObjectsOK
<1>2. CASE ~IsOpen(o)
  BY <1>2, Unchanged, SameOwners DEF IsOpen
<1>3. QED
  BY <1>1, <1>2

LEMMA GiveUpOwners ==
  ASSUME ObjectsOK, OwnInv, NEW o \in Objects, GiveUp(o)
  PROVE  OwnInv'
<1>1. CASE Release(o)
  BY <1>1, LoseOwner DEF Release, IsOpen, ObjectsOK
<1>2. CASE CloseSocket(o) \/ Destroy(o)
  BY <1>2, ClosedOwners DEF CloseSocket, CloseReleased, Destroy
<1>3. ASSUME NEW h \in loose \cup {INVALID_SOCKET}, Reset(o, h)
      PROVE  OwnInv'
  <2>1. loose \subseteq Handles
    BY DEF ObjectsOK
  <2>2. CASE h = INVALID_SOCKET
    <3>1. loose' = loose
      BY <1>3, <2>1, <2>2, HandlesValid DEF Reset
    <3>2. QED
      BY <1>3, <2>2, <3>1, ClosedOwners DEF Reset
  <2>3. CASE h \in loose /\ IsOpen(o)
    BY <1>3, <2>3, ResetOwner DEF Reset, IsOpen, CloseHandle, ObjectsOK
  <2>4. CASE h \in loose /\ ~IsOpen(o)
    BY <1>3, <2>1, <2>4, NewOwner DEF Reset, IsOpen, ObjectsOK
  <2>5. QED
    BY <2>2, <2>3, <2>4
<1>4. CASE Shutdown(o)
  <2>1. CASE IsOpen(o)
    BY <1>4, <2>1, LoseOwner DEF Shutdown, IsOpen, ObjectsOK
  <2>2. CASE ~IsOpen(o)
    BY <1>4, <2>2, Unchanged, SameOwners DEF Shutdown, IsOpen
  <2>3. QED
    BY <2>1, <2>2
<1>5. ASSUME NEW p \in Objects, MoveAssign(o, p)
      PROVE  OwnInv'
  BY <1>5, SwapOwners DEF MoveAssign, ObjectsOK
<1>6. QED
  BY <1>1, <1>2, <1>3, <1>4, <1>5 DEF GiveUp, ResetAny

(* The steps of open and connect that change an owner. *)
Changes(o) ==
  OpenSocket(o) \/ CloseOnErr(o) \/ Recreate(o) \/ Replace(o) \/ CloseFailed(o)

LEMMA ChangesOwners ==
  ASSUME ObjectsOK, OldInv, OwnInv, NEW o \in Objects, Changes(o)
  PROVE  OwnInv'
<1>1. CASE OpenSocket(o)
  BY <1>1, NewOwner, SameOwners DEF OpenSocket, IsOpen, NewHandle, ObjectsOK
<1>2. CASE CloseOnErr(o) \/ CloseFailed(o)
  BY <1>2, ClosedOwners DEF CloseOnErr, CloseFailed, CloseReleased
<1>3. CASE Recreate(o)
  <2>1. old[o] = INVALID_SOCKET
    BY <1>3 DEF Recreate, Idle, Ready, OldInv
  <2>2. QED
    BY <1>3, <2>1, RecreateOwner, SameOwners DEF Recreate, NewHandle, ObjectsOK
<1>4. CASE Replace(o)
  <2>1. CASE old[o] # INVALID_SOCKET
    BY <1>4, <2>1, ReplaceOwner DEF Replace, CloseHandle, ObjectsOK
  <2>2. CASE old[o] = INVALID_SOCKET
    <3>1. old' = old
      BY <1>4, <2>2 DEF Replace, ObjectsOK
    <3>2. QED
      BY <1>4, <2>2, <3>1, SameOwners DEF Replace
  <2>3. QED
    BY <2>1, <2>2
<1>5. QED
  BY <1>1, <1>2, <1>3, <1>4 DEF Changes

-----------------------------------------------------------------------------
(* Where the calls stand. *)
LEMMA CallsMove ==
  ASSUME ObjectsOK, NEW S, Calls(S)
  PROVE  /\ pc' \in [Objects -> Ready \cup InCall]
         /\ \A x \in Objects : \/ pc'[x] = pc[x] /\ io'[x] = io[x] /\ x \notin S
                               \/ pc'[x] = "idle" /\ x \in S /\ Idle(x)
  BY DEF Calls, ObjectsOK, Ready, InCall, Idle

Plain ==
  \/ \E o \in Objects : Build(o) \/ GiveUp(o) \/ OneCall(o) \/ OpenAlready(o)
  \/ \E h \in Handles : CallerCloses(h)

LEMMA PlainCalls ==
  ASSUME Plain
  PROVE  UNCHANGED old /\ \E S : Calls(S)
<1>1. ASSUME NEW o \in Objects, Build(o)
      PROVE  UNCHANGED old /\ \E S : Calls(S)
  BY <1>1 DEF Build, DefaultConstruct, TakeHandle, ConstructFrom, CreateStream,
     CreateAcceptor, CreateDatagram, Create, MoveConstruct, CloneStream, CloneDatagram,
     Dup, PairStreams, PairDatagrams, SocketPair, Accept, Construct, Call
<1>2. ASSUME NEW o \in Objects, GiveUp(o)
      PROVE  UNCHANGED old /\ \E S : Calls(S)
  BY <1>2 DEF GiveUp, Release, CloseSocket, CloseReleased, Destroy, ResetAny, Reset,
     Shutdown, MoveAssign, Call
<1>3. ASSUME NEW o \in Objects, OneCall(o)
      PROVE  UNCHANGED old /\ \E S : Calls(S)
  BY <1>3, CallShape DEF Call, owners
<1>4. ASSUME NEW o \in Objects, OpenAlready(o)
      PROVE  UNCHANGED old /\ \E S : Calls(S)
  BY <1>4 DEF OpenAlready, Call, owners
<1>5. ASSUME NEW h \in Handles, CallerCloses(h)
      PROVE  UNCHANGED old /\ \E S : Calls(S)
  BY <1>5 DEF CallerCloses
<1>6. QED
  BY <1>1, <1>2, <1>3, <1>4, <1>5 DEF Plain

LEMMA NextSplit ==
  ASSUME Next
  PROVE  \/ Plain
         \/ \E o \in Objects : \/ Changes(o) \/ StepOf(o) \/ IOStep(o)
                               \/ CallRead(o) \/ CallWrite(o)
  BY DEF Next, Plain, Changes, StepOf, Begin, Opening, Connecting

LEMMA OldStep ==
  ASSUME ObjectsOK, OldInv, Next
  PROVE  OldInv'
<1>1. CASE Plain
  BY <1>1, PlainCalls, CallsMove DEF OldInv, Idle, Ready
<1>2. ASSUME NEW o \in Objects, StepOf(o)
      PROVE  OldInv'
  BY <1>2, StepShape DEF Stepped, Steps, OldInv, owners, Goto, ObjectsOK
<1>3. ASSUME NEW o \in Objects, IOStep(o)
      PROVE  OldInv'
  BY <1>3, LoopShape DEF OldInv, owners, Goto, ObjectsOK
<1>4. ASSUME NEW o \in Objects, CallRead(o) \/ CallWrite(o)
      PROVE  OldInv'
  BY <1>4 DEF CallRead, CallWrite, CallIO, Idle, Ready, OldInv, owners, Goto, ObjectsOK
<1>5. ASSUME NEW o \in Objects, Changes(o)
      PROVE  OldInv'
  BY <1>5 DEF Changes, OpenSocket, CloseOnErr, CloseFailed, CloseReleased, Recreate,
              Replace, Idle, Ready, OldInv, Goto, ObjectsOK
<1>6. QED
  BY <1>1, <1>2, <1>3, <1>4, <1>5, NextSplit

(* Type correctness but for the transfers. *)
LEMMA BuildObjects ==
  ASSUME ObjectsOK, NEW o \in Objects, Build(o)
  PROVE  ObjectsOK'
<1> USE HandlesValid DEF Construct, Enter
<1>0. pc' \in [Objects -> Ready \cup InCall]
      /\ \A x \in Objects : x \notin alive => pc'[x] = "idle"
  <2>1. PICK S : Calls(S)
    BY PlainCalls DEF Plain
  <2>2. QED
    BY <2>1, CallsMove DEF ObjectsOK
<1>1. CASE DefaultConstruct(o) \/ TakeHandle(o)
  BY <1>0, <1>1 DEF DefaultConstruct, TakeHandle, ConstructFrom, ObjectsOK
<1>2. CASE Create(o)
  BY <1>0, <1>2 DEF Create, NewHandle, Check, ObjectsOK
<1>3. ASSUME NEW p \in Objects, MoveConstruct(o, p)
      PROVE  ObjectsOK'
  BY <1>0, <1>3 DEF MoveConstruct, Call, Calls, Idle, Check, ObjectsOK
<1>4. ASSUME NEW p \in Objects, Dup(o, p)
      PROVE  ObjectsOK'
  BY <1>0, <1>4 DEF Dup, NewHandle, ObjectsOK
<1>5. ASSUME NEW p \in Objects, SocketPair(o, p)
      PROVE  ObjectsOK'
  BY <1>0, <1>5 DEF SocketPair, ObjectsOK
<1>6. ASSUME NEW p \in Objects, Accept(p, o)
      PROVE  ObjectsOK'
  BY <1>0, <1>6 DEF Accept, Call, Calls, Idle, NewHandle, Check, ObjectsOK
<1>7. CASE CreateDatagram(o)
  BY <1>0, <1>7 DEF CreateDatagram, NewHandle, ObjectsOK
<1>8. QED
  BY <1>1, <1>2, <1>3, <1>4, <1>5, <1>6, <1>7
     DEF Build, CreateStream, CreateAcceptor, CloneStream, CloneDatagram,
         PairStreams, PairDatagrams

LEMMA GiveUpObjects ==
  ASSUME ObjectsOK, NEW o \in Objects, GiveUp(o)
  PROVE  ObjectsOK'
<1> USE HandlesValid DEF CloseHandle
<1>0. pc' \in [Objects -> Ready \cup InCall]
      /\ (\A x \in Objects : x \notin alive => pc'[x] = "idle")
      /\ (Call(o) => pc'[o] = "idle" /\ o \in alive)
  <2>1. PICK S : Calls(S)
    BY PlainCalls DEF Plain
  <2>2. QED
    BY <2>1, CallsMove DEF ObjectsOK, Call, Calls, Idle
<1>1. CASE Release(o)
  BY <1>0, <1>1 DEF Release, IsOpen, ObjectsOK
<1>2. CASE CloseSocket(o)
  BY <1>0, <1>2 DEF CloseSocket, CloseReleased, Check, ObjectsOK
<1>3. CASE Destroy(o)
  BY <1>0, <1>3 DEF Destroy, ObjectsOK
<1>4. CASE ResetAny(o)
  BY <1>0, <1>4 DEF ResetAny, Reset, Check, ObjectsOK
<1>5. CASE Shutdown(o)
  BY <1>0, <1>5 DEF Shutdown, IsOpen, Check, ObjectsOK
<1>6. ASSUME NEW p \in Objects, MoveAssign(o, p)
      PROVE  ObjectsOK'
  BY <1>0, <1>6 DEF MoveAssign, Calls, Idle, Check, ObjectsOK
<1>7. QED
  BY <1>1, <1>2, <1>3, <1>4, <1>5, <1>6 DEF GiveUp

LEMMA SameObjects ==
  ASSUME ObjectsOK, UNCHANGED owners, NEW o \in alive, Noted(o),
         NEW at \in Ready \cup InCall, pc' = [pc EXCEPT ![o] = at]
  PROVE  ObjectsOK'
<1>1. lastErr' \subseteq alive
  BY DEF ObjectsOK, Noted, Check
<1>2. pc' \in [Objects -> Ready \cup InCall]
  BY DEF ObjectsOK
<1>3. \A x \in Objects \ alive : pc'[x] = "idle"
  BY DEF ObjectsOK
<1>4. QED
  BY <1>1, <1>2, <1>3 DEF ObjectsOK, owners

LEMMA OthersObjects ==
  ASSUME ObjectsOK, NEW o \in Objects,
         OneCall(o) \/ OpenAlready(o) \/ StepOf(o) \/ IOStep(o) \/ CallRead(o) \/ CallWrite(o)
  PROVE  ObjectsOK'
<1>1. CASE OneCall(o) \/ OpenAlready(o)
  <2>1. Call(o) /\ UNCHANGED owners /\ Noted(o)
    BY <1>1, CallShape DEF OpenAlready, Noted
  <2>2. o \in alive /\ pc' \in [Objects -> Ready \cup InCall]
        /\ \A x \in Objects : x \notin alive => pc'[x] = "idle"
    BY <2>1, CallsMove DEF Call, Calls, Idle, ObjectsOK
  <2>3. QED
    BY <2>1, <2>2 DEF owners, Noted, Check, ObjectsOK
<1>2. CASE StepOf(o)
  <2>1. Stepped(o) /\ o \in alive
    BY <1>2, StepShape DEF Stepped, Steps, ObjectsOK
  <2>2. PICK ok \in BOOLEAN, at \in WithHandle \cup {"drop", "close"} :
          Check(o, ok) /\ Goto(o, at)
    BY <2>1 DEF Stepped
  <2>3. at \in Ready \cup InCall /\ Noted(o) /\ UNCHANGED owners
    BY <2>1, <2>2 DEF WithHandle, Ready, InCall, Noted, Stepped
  <2>4. QED
    BY <2>1, <2>2, <2>3, SameObjects DEF Goto
<1>3. CASE IOStep(o)
  <2>1. o \in alive
    BY <1>3, LoopShape DEF ObjectsOK
  <2>2. \E at \in Ready \cup InCall : pc' = [pc EXCEPT ![o] = at]
    <3>1. CASE UNCHANGED pc
      <4>1. pc' = [pc EXCEPT ![o] = "loop"] /\ "loop" \in InCall
        BY <1>3, <3>1, LoopShape DEF ObjectsOK, InCall
      <4>2. QED
        BY <4>1
    <3>2. CASE Goto(o, "returned")
      BY <3>2 DEF Goto, Ready
    <3>3. QED
      BY <1>3, <3>1, <3>2, LoopShape
  <2>3. QED
    BY <1>3, <2>1, <2>2, LoopShape, SameObjects
<1>4. CASE CallRead(o) \/ CallWrite(o)
  <2>1. o \in alive /\ pc' = [pc EXCEPT ![o] = "loop"] /\ UNCHANGED owners /\ Noted(o)
    BY <1>4 DEF CallRead, CallWrite, CallIO, Idle, Goto, Noted
  <2>2. QED
    BY <2>1, SameObjects DEF InCall
<1>5. QED
  BY <1>1, <1>2, <1>3, <1>4

LEMMA ChangesObjects ==
  ASSUME ObjectsOK, NEW o \in Objects, Changes(o)
  PROVE  ObjectsOK'
<1> USE HandlesValid DEF CloseHandle, Ready, InCall, Goto
<1>1. CASE OpenSocket(o)
  <2>1. o \in alive /\ lastErr' \subseteq alive /\ UNCHANGED <<alive, loose, lost>>
    BY <1>1 DEF OpenSocket, Idle, Check, ObjectsOK
  <2>2. /\ handle' \in [Objects -> Handles \cup {INVALID_SOCKET}] /\ open' \subseteq Handles
        /\ \A x \in Objects : x # o => handle'[x] = handle[x]
    <3>1. CASE UNCHANGED <<open, handle>>
      BY <3>1 DEF ObjectsOK
    <3>2. ASSUME NEW h \in Handles, open' = open \cup {h},
                 handle' = [handle EXCEPT ![o] = h]
          PROVE  /\ handle' \in [Objects -> Handles \cup {INVALID_SOCKET}]
                 /\ open' \subseteq Handles
                 /\ \A x \in Objects : x # o => handle'[x] = handle[x]
      BY <3>2 DEF ObjectsOK
    <3>3. QED
      BY <1>1, <3>1, <3>2 DEF OpenSocket, NewHandle
  <2>3. old' \in [Objects -> Handles \cup {INVALID_SOCKET}]
    BY <1>1 DEF OpenSocket, ObjectsOK
  <2>4. /\ pc' \in [Objects -> Ready \cup InCall]
        /\ \A x \in Objects : x # o => pc'[x] = pc[x]
    BY <1>1 DEF OpenSocket, ObjectsOK
  <2>5. QED
    BY <2>1, <2>2, <2>3, <2>4 DEF ObjectsOK
<1>2. CASE CloseOnErr(o) \/ CloseFailed(o)
  BY <1>2 DEF CloseOnErr, CloseFailed, CloseReleased, ObjectsOK
<1>3. CASE Recreate(o)
  <2>1. o \in alive /\ lastErr' \subseteq alive /\ UNCHANGED <<alive, loose, lost>>
    BY <1>3 DEF Recreate, Idle, Check, ObjectsOK
  <2>2. /\ handle' \in [Objects -> Handles \cup {INVALID_SOCKET}] /\ open' \subseteq Handles
        /\ \A x \in Objects : x # o => handle'[x] = handle[x]
    <3>1. CASE UNCHANGED <<open, handle>>
      BY <3>1 DEF ObjectsOK
    <3>2. ASSUME NEW h \in Handles, open' = open \cup {h},
                 handle' = [handle EXCEPT ![o] = h]
          PROVE  /\ handle' \in [Objects -> Handles \cup {INVALID_SOCKET}]
                 /\ open' \subseteq Handles
                 /\ \A x \in Objects : x # o => handle'[x] = handle[x]
      BY <3>2 DEF ObjectsOK
    <3>3. QED
      BY <1>3, <3>1, <3>2 DEF Recreate, NewHandle
  <2>3. old' \in [Objects -> Handles \cup {INVALID_SOCKET}]
    BY <1>3 DEF Recreate, ObjectsOK
  <2>4. /\ pc' \in [Objects -> Ready \cup InCall]
        /\ \A x \in Objects : x # o => pc'[x] = pc[x]
    BY <1>3 DEF Recreate, ObjectsOK
  <2>5. QED
    BY <2>1, <2>2, <2>3, <2>4 DEF ObjectsOK
<1>4. CASE Replace(o)
  BY <1>4 DEF Replace, ObjectsOK
<1>5. QED
  BY <1>1, <1>2, <1>3, <1>4 DEF Changes

LEMMA ObjectsStep ==
  ASSUME ObjectsOK, Next
  PROVE  ObjectsOK'
<1>1. ASSUME NEW h \in Handles, CallerCloses(h)
      PROVE  ObjectsOK'
  BY <1>1, CallsMove DEF CallerCloses, ObjectsOK
<1>2. QED
  BY <1>1, NextSplit, BuildObjects, GiveUpObjects, OthersObjects, ChangesObjects DEF Plain

LEMMA OwnersStep ==
  ASSUME ObjectsOK, OldInv, OwnInv, Next
  PROVE  OwnInv'
<1>1. ASSUME NEW o \in Objects, UNCHANGED owners
      PROVE  OwnInv'
  BY <1>1, SameOwners DEF owners
<1>2. ASSUME NEW o \in Objects,
             OneCall(o) \/ OpenAlready(o) \/ StepOf(o) \/ IOStep(o)
             \/ CallRead(o) \/ CallWrite(o)
      PROVE  OwnInv'
  BY <1>1, <1>2, CallShape, StepShape, LoopShape
     DEF OpenAlready, Stepped, CallRead, CallWrite, CallIO
<1>3. ASSUME NEW h \in Handles, CallerCloses(h)
      PROVE  OwnInv'
  BY <1>3, LooseClosed DEF CallerCloses, ObjectsOK
<1>4. QED
  BY <1>2, <1>3, NextSplit, BuildOwners, GiveUpOwners, ChangesOwners DEF Plain

LEMMA StateInit == Init => ObjectsOK /\ OldInv /\ OwnInv
<1> SUFFICES ASSUME Init PROVE ObjectsOK /\ OldInv /\ OwnInv
  OBVIOUS
<1>1. ObjectsOK /\ OldInv
  BY DEF Init, ObjectsOK, OldInv, Ready
<1>2. OwnInv
  BY DEF Init, OwnInv, OneOwner, Accounted, IsOpen
<1>3. QED
  BY <1>1, <1>2

LEMMA StateStep ==
  ObjectsOK /\ OldInv /\ OwnInv /\ [Next]_vars => (ObjectsOK /\ OldInv /\ OwnInv)'
<1> SUFFICES ASSUME ObjectsOK, OldInv, OwnInv, [Next]_vars
             PROVE  (ObjectsOK /\ OldInv /\ OwnInv)'
  OBVIOUS
<1>1. CASE UNCHANGED vars
  <2>1. ObjectsOK' /\ OldInv'
    BY <1>1 DEF vars, owners, ObjectsOK, OldInv
  <2>2. OwnInv'
    BY <1>1, SameOwners DEF vars, owners
  <2>3. QED
    BY <2>1, <2>2
<1>2. CASE Next
  BY <1>2, ObjectsStep, OldStep, OwnersStep
<1>3. QED
  BY <1>1, <1>2

(* socket.h:172, "strict ownership semantics": no descriptor has two       *)
(* owners, and none is closed under its owner, for any interleaving of the *)
(* calls on any number of objects.                                         *)
THEOREM OwnersUnique == Spec => []OneOwner
<1>1. OwnInv => OneOwner
  BY DEF OwnInv
<1>2. QED
  BY <1>1, StateInit, StateStep, PTL DEF Spec

(* The other half: no descriptor is left without an owner but by shutdown  *)
(* (socket.cpp:306-313).                                                   *)
THEOREM OnlyShutdownLoses == Spec => []LostOnlyByShutdown
<1>1. ObjectsOK /\ OldInv /\ OwnInv => LostOnlyByShutdown
  <2> SUFFICES ASSUME ObjectsOK, OldInv, OwnInv, NEW h \in open, h \notin loose \cup lost
               PROVE  \E o \in alive : handle[o] = h \/ old[o] = h
    BY DEF LostOnlyByShutdown
  <2>1. h # INVALID_SOCKET
    BY HandlesValid DEF ObjectsOK
  <2>2. PICK o \in Objects : handle[o] = h \/ old[o] = h
    BY DEF OwnInv, Accounted
  <2>3. o \in alive
    BY <2>1, <2>2 DEF ObjectsOK, OldInv
  <2>4. QED
    BY <2>2, <2>3
<1>2. QED
  BY <1>1, StateInit, StateStep, PTL DEF Spec

-----------------------------------------------------------------------------
(* What an action leaves alone: every object but those it is about. *)
Frame(x) ==
  /\ pc'[x] = pc[x] /\ io'[x] = io[x] /\ handle'[x] = handle[x]
  /\ x \in lastErr' <=> x \in lastErr
Acting(x) ==
  Changes(x) \/ StepOf(x) \/ IOStep(x) \/ CallRead(x) \/ CallWrite(x)

LEMMA BuildFrame ==
  ASSUME ObjectsOK, NEW o \in Objects, Build(o)
  PROVE  \A x \in Objects : Frame(x) \/ pc'[x] = "idle"
<1> SUFFICES ASSUME NEW x \in Objects, pc'[x] # "idle"
             PROVE  Frame(x)
  OBVIOUS
<1>0. \A S : Calls(S) => pc'[x] = pc[x] /\ io'[x] = io[x] /\ x \notin S
  BY CallsMove
<1>1. pc'[x] = pc[x] /\ io'[x] = io[x] /\ x \in alive
  <2>1. PICK S : Calls(S)
    BY PlainCalls DEF Plain
  <2>2. QED
    BY <1>0, <2>1 DEF ObjectsOK
<1> USE DEF Construct, Enter, Frame
<1>2. CASE DefaultConstruct(o) \/ TakeHandle(o)
  BY <1>1, <1>2 DEF DefaultConstruct, TakeHandle, ConstructFrom, ObjectsOK
<1>3. CASE Create(o)
  BY <1>1, <1>3 DEF Create, Check, ObjectsOK
<1>4. ASSUME NEW p \in Objects, MoveConstruct(o, p)
      PROVE  Frame(x)
  BY <1>0, <1>1, <1>4 DEF MoveConstruct, Call, Check, ObjectsOK
<1>5. ASSUME NEW p \in Objects, Dup(o, p)
      PROVE  Frame(x)
  BY <1>1, <1>5 DEF Dup, ObjectsOK
<1>6. ASSUME NEW p \in Objects, SocketPair(o, p)
      PROVE  Frame(x)
  BY <1>1, <1>6 DEF SocketPair, ObjectsOK
<1>7. ASSUME NEW p \in Objects, Accept(p, o)
      PROVE  Frame(x)
  BY <1>0, <1>1, <1>7 DEF Accept, Call, Check, ObjectsOK
<1>8. CASE CreateDatagram(o)
  BY <1>1, <1>8 DEF CreateDatagram, ObjectsOK
<1>9. QED
  BY <1>2, <1>3, <1>4, <1>5, <1>6, <1>7, <1>8
     DEF Build, CreateStream, CreateAcceptor, CloneStream, CloneDatagram,
         PairStreams, PairDatagrams

LEMMA GiveUpFrame ==
  ASSUME ObjectsOK, NEW o \in Objects, GiveUp(o)
  PROVE  \A x \in Objects : Frame(x) \/ pc'[x] = "idle"
<1> SUFFICES ASSUME NEW x \in Objects, pc'[x] # "idle"
             PROVE  Frame(x)
  OBVIOUS
<1>0. \A S : Calls(S) => pc'[x] = pc[x] /\ io'[x] = io[x] /\ x \notin S
  BY CallsMove
<1> USE DEF Call, Check, Frame, ObjectsOK
<1>1. CASE Release(o) \/ CloseSocket(o) \/ Destroy(o)
  BY <1>0, <1>1 DEF Release, CloseSocket, CloseReleased, Destroy
<1>2. CASE ResetAny(o) \/ Shutdown(o)
  BY <1>0, <1>2 DEF ResetAny, Reset, Shutdown
<1>3. ASSUME NEW p \in Objects, MoveAssign(o, p)
      PROVE  Frame(x)
  BY <1>0, <1>3 DEF MoveAssign
<1>4. QED
  BY <1>1, <1>2, <1>3 DEF GiveUp

LEMMA Framed ==
  ASSUME ObjectsOK, io \in [Objects -> Transfers], Next, NEW x \in Objects
  PROVE  Frame(x) \/ pc'[x] = "idle" \/ Acting(x)
<1>1. ASSUME NEW o \in Objects, OneCall(o) \/ OpenAlready(o)
      PROVE  Frame(x) \/ pc'[x] = "idle"
  <2>1. Calls({o}) /\ UNCHANGED owners /\ Noted(o)
    BY <1>1, CallShape DEF OpenAlready, Call, Noted
  <2>2. QED
    BY <2>1, CallsMove DEF owners, Noted, Check, Frame
<1>2. ASSUME NEW h \in Handles, CallerCloses(h)
      PROVE  Frame(x) \/ pc'[x] = "idle"
  BY <1>2, CallsMove DEF CallerCloses, Frame
<1>3. ASSUME NEW o \in Objects, StepOf(o), x # o
      PROVE  Frame(x)
  BY <1>3, StepShape DEF Stepped, owners, Check, Goto, Frame, ObjectsOK
<1>4. ASSUME NEW o \in Objects, IOStep(o), x # o
      PROVE  Frame(x)
  <2>1. io'[x] = io[x]
    BY <1>4 DEF IOStep, LoopEnds, ReadN, WriteN, ReadNR, WriteNR, Moves, Returns,
                Interrupted
  <2>2. QED
    BY <1>4, <2>1, LoopShape DEF owners, Noted, Check, Goto, Frame, ObjectsOK
<1>5. ASSUME NEW o \in Objects, CallRead(o) \/ CallWrite(o), x # o
      PROVE  Frame(x)
  BY <1>5 DEF CallRead, CallWrite, CallIO, owners, Goto, Frame, ObjectsOK
<1>6. ASSUME NEW o \in Objects, Changes(o), x # o
      PROVE  Frame(x)
  BY <1>6 DEF Changes, OpenSocket, CloseOnErr, CloseFailed, CloseReleased, Recreate,
              Replace, Check, Goto, Frame, ObjectsOK
<1>7. QED
  BY <1>1, <1>2, <1>3, <1>4, <1>5, <1>6, NextSplit, BuildFrame, GiveUpFrame
     DEF Plain, Acting

(* How open and connect end. *)
LEMMA OpenChanges ==
  ASSUME ObjectsOK, OpenInv, NEW x \in Objects, Changes(x)
  PROVE  OpenInvOf(x)'
<1> USE HandlesValid DEF OpenInvOf, WithHandle, WithError, IsOpen, Goto, ObjectsOK
<1>1. CASE OpenSocket(x)
  <2>1. CASE /\ \E h \in Handles : NewHandle(h) /\ handle' = [handle EXCEPT ![x] = h]
             /\ Check(x, TRUE)
             /\ \E at \in {"option", "bind"} : Goto(x, at)
    BY <2>1
  <2>2. CASE Check(x, FALSE) /\ Goto(x, "failed") /\ UNCHANGED <<open, handle>>
    BY <1>1, <2>2 DEF OpenSocket, Check
  <2>3. QED
    BY <1>1, <2>1, <2>2 DEF OpenSocket
<1>2. CASE CloseOnErr(x) \/ CloseFailed(x)
  BY <1>2 DEF CloseOnErr, CloseFailed, CloseReleased, OpenInv
<1>3. CASE Recreate(x)
  <2>1. CASE /\ \E h \in Handles : NewHandle(h) /\ handle' = [handle EXCEPT ![x] = h]
             /\ Check(x, TRUE) /\ Goto(x, "replace")
    BY <2>1
  <2>2. CASE Check(x, FALSE) /\ Goto(x, "kept")
    BY <2>2 DEF Check
  <2>3. QED
    BY <1>3, <2>1, <2>2 DEF Recreate
<1>4. CASE Replace(x)
  BY <1>4 DEF Replace, OpenInv
<1>5. QED
  BY <1>1, <1>2, <1>3, <1>4 DEF Changes

LEMMA OpenSteps ==
  ASSUME ObjectsOK, OpenInv, NEW x \in Objects, StepOf(x)
  PROVE  OpenInvOf(x)'
<1>1. Stepped(x)
  BY StepShape
<1>2. IsOpen(x)'
  BY <1>1 DEF Stepped, Steps, OpenInv, OpenInvOf, WithHandle, owners, IsOpen
<1>3. PICK ok \in BOOLEAN, at \in WithHandle \cup {"drop", "close"} :
        Leads(ok, at) /\ Check(x, ok) /\ pc'[x] = at
  BY <1>1 DEF Stepped, Goto, ObjectsOK
<1>4. at \in {"drop", "close", "select"} => x \in lastErr'
  BY <1>3 DEF Leads, Check
<1>5. at = "opened" => x \notin lastErr'
  BY <1>3 DEF Leads, Check
<1>6. at \notin {"failed", "kept"}
  BY DEF WithHandle
<1>7. QED
  BY <1>2, <1>3, <1>4, <1>5, <1>6 DEF OpenInvOf, WithError

LEMMA OpenInvStep ==
  ASSUME ObjectsOK, io \in [Objects -> Transfers], OpenInv, Next
  PROVE  OpenInv'
<1> SUFFICES ASSUME NEW x \in Objects PROVE OpenInvOf(x)'
  BY DEF OpenInv
<1>1. CASE Frame(x)
  BY <1>1 DEF Frame, OpenInv, OpenInvOf, IsOpen
<1>2. CASE pc'[x] = "idle"
  BY <1>2 DEF OpenInvOf, WithHandle, WithError
<1>3. CASE IOStep(x) \/ CallRead(x) \/ CallWrite(x)
  <2>1. pc'[x] \in {"loop", "returned"}
    BY <1>3, LoopShape DEF CallRead, CallWrite, CallIO, Goto, ObjectsOK
  <2>2. QED
    BY <2>1 DEF OpenInvOf, WithHandle, WithError
<1>4. QED
  BY <1>1, <1>2, <1>3, Framed, OpenChanges, OpenSteps DEF Acting

-----------------------------------------------------------------------------
(* The loops. *)
LEMMA NoTransfer == NoIO \in Transfers
  BY BytesAssumption DEF NoIO, Transfers

LEMMA MovesCount ==
  ASSUME io \in [Objects -> Transfers], NEW x \in Objects, LoopInvOf(x), pc[x] = "loop",
         Moves(x)
  PROVE  io' \in [Objects -> Transfers] /\ LoopInvOf(x)'
<1> USE BytesAssumption
<1>1. PICK k \in 1..Wanted(x) : io' = [io EXCEPT ![x].count = @ + k]
  BY DEF Moves
<1>2. /\ io[x] \in Transfers
      /\ io[x].count + k <= io[x].n /\ k \in Nat
  BY DEF LoopInvOf, Wanted, Transfers
<1> DEFINE new == [io[x] EXCEPT !.count = @ + k]
<1>3. io' = [io EXCEPT ![x] = new]
  BY <1>1
<1>4. new \in Transfers /\ new.count <= new.n
  <2>1. io[x].count + k \in 0..MaxBytes
    BY <1>2 DEF Transfers
  <2>2. new = [io[x] EXCEPT !.count = io[x].count + k]
    BY <1>2 DEF Transfers
  <2> HIDE DEF new
  <2>3. new \in Transfers
    BY <1>2, <2>1, <2>2 DEF Transfers
  <2>4. new.count = io[x].count + k /\ new.n = io[x].n
    BY <1>2, <2>2 DEF Transfers
  <2>5. QED
    BY <1>2, <2>3, <2>4
<1> HIDE DEF new
<1>5. io'[x] = new /\ pc'[x] = "loop"
  BY <1>3 DEF Moves
<1>6. QED
  BY <1>3, <1>4, <1>5 DEF LoopInvOf

LEMMA LoopSteps ==
  ASSUME ObjectsOK, io \in [Objects -> Transfers], NEW x \in Objects, LoopInvOf(x), IOStep(x)
  PROVE  io' \in [Objects -> Transfers] /\ LoopInvOf(x)'
<1>1. pc[x] = "loop" /\ pc \in [Objects -> Ready \cup InCall]
  BY LoopShape DEF ObjectsOK
<1>2. CASE Moves(x)
  BY <1>1, <1>2, MovesCount
<1>3. CASE UNCHANGED <<pc, io>>
  BY <1>1, <1>3 DEF LoopInvOf
<1>4. CASE Returns(x)
  BY <1>1, <1>4 DEF Returns, Goto, LoopInvOf
<1>5. CASE io' = [io EXCEPT ![x].eof = TRUE] /\ (Goto(x, "returned") \/ UNCHANGED pc)
  <2> DEFINE new == [io[x] EXCEPT !.eof = TRUE]
  <2>1. io' = [io EXCEPT ![x] = new]
    BY <1>5
  <2>2. new \in Transfers /\ new.count = io[x].count /\ new.n = io[x].n
    <3>1. io[x] \in Transfers
      BY <1>1
    <3>2. QED
      BY <3>1 DEF Transfers
  <2> HIDE DEF new
  <2>3. io'[x] = new
    BY <2>1
  <2>4. QED
    BY <1>1, <1>5, <2>1, <2>2, <2>3 DEF LoopInvOf, Goto
<1>6. QED
  BY <1>2, <1>3, <1>4, <1>5
     DEF IOStep, LoopEnds, ReadN, WriteN, ReadNR, WriteNR, Interrupted

LEMMA LoopInvStep ==
  ASSUME ObjectsOK, io \in [Objects -> Transfers], LoopInv, Next
  PROVE  io' \in [Objects -> Transfers] /\ LoopInv'
<1> USE BytesAssumption
<1>1. io' \in [Objects -> Transfers]
  <2>1. CASE Plain
    BY <2>1, PlainCalls, NoTransfer DEF Calls
  <2>2. ASSUME NEW x \in Objects, IOStep(x)
        PROVE  io' \in [Objects -> Transfers]
    BY <2>2, LoopSteps DEF LoopInv
  <2>3. ASSUME NEW x \in Objects, CallRead(x) \/ CallWrite(x)
        PROVE  io' \in [Objects -> Transfers]
    <3>1. PICK fn \in {"read_n", "read_n_r", "write_n", "write_n_r"}, n \in 0..MaxBytes :
            io' = [io EXCEPT ![x] = [NoIO EXCEPT !.fn = fn, !.n = n]]
      BY <2>3 DEF CallRead, CallWrite, CallIO
    <3>2. [NoIO EXCEPT !.fn = fn, !.n = n] \in Transfers
      <4>1. \A y \in Transfers : [y EXCEPT !.fn = fn, !.n = n] \in Transfers
        BY DEF Transfers
      <4>2. QED
        BY <4>1, NoTransfer
    <3>3. QED
      BY <3>1, <3>2
  <2>4. ASSUME NEW x \in Objects, Changes(x) \/ StepOf(x)
        PROVE  io' \in [Objects -> Transfers]
    BY <2>4, StepShape, NoTransfer
       DEF Changes, OpenSocket, CloseOnErr, CloseFailed, Recreate, Replace, Stepped
  <2>5. QED
    BY <2>1, <2>2, <2>3, <2>4, NextSplit
<1>2. ASSUME NEW x \in Objects
      PROVE  LoopInvOf(x)'
  <2>1. CASE Frame(x)
    BY <2>1 DEF Frame, LoopInv, LoopInvOf
  <2>2. CASE pc'[x] = "idle"
    BY <2>2 DEF LoopInvOf
  <2>3. CASE IOStep(x)
    BY <2>3, LoopSteps DEF LoopInv
  <2>4. CASE CallRead(x) \/ CallWrite(x)
    <3>1. PICK fn \in {"read_n", "read_n_r", "write_n", "write_n_r"}, n \in 0..MaxBytes :
            io' = [io EXCEPT ![x] = [NoIO EXCEPT !.fn = fn, !.n = n]]
      BY <2>4 DEF CallRead, CallWrite, CallIO
    <3>2. pc'[x] = "loop"
      BY <2>4 DEF CallRead, CallWrite, CallIO, Goto, ObjectsOK
    <3>3. io'[x].count = 0 /\ io'[x].n = n
      BY <3>1 DEF NoIO
    <3>4. QED
      BY <3>2, <3>3 DEF LoopInvOf
  <2>5. CASE Changes(x) \/ StepOf(x)
    <3>1. pc'[x] \notin {"loop", "returned"}
      BY <2>5, StepShape DEF Changes, OpenSocket, CloseOnErr, CloseFailed, Recreate, Replace,
                             Stepped, WithHandle, Goto, ObjectsOK
    <3>2. QED
      BY <3>1 DEF LoopInvOf
  <2>6. QED
    BY <2>1, <2>2, <2>3, <2>4, <2>5, Framed DEF Acting
<1>3. QED
  BY <1>1, <1>2 DEF LoopInv

-----------------------------------------------------------------------------
IInv == /\ ObjectsOK /\ OldInv /\ OwnInv /\ OpenInv
        /\ io \in [Objects -> Transfers] /\ LoopInv

LEMMA InvInit == Init => IInv
<1> SUFFICES ASSUME Init PROVE IInv
  OBVIOUS
<1>1. OpenInv /\ LoopInv
  BY DEF Init, OpenInv, OpenInvOf, LoopInv, LoopInvOf, WithHandle, WithError
<1>2. io \in [Objects -> Transfers]
  BY NoTransfer DEF Init
<1>3. QED
  BY <1>1, <1>2, StateInit DEF IInv

LEMMA InvStep == IInv /\ [Next]_vars => IInv'
<1> SUFFICES ASSUME IInv, [Next]_vars PROVE IInv'
  OBVIOUS
<1>1. (ObjectsOK /\ OldInv /\ OwnInv)'
  BY StateStep DEF IInv
<1>2. CASE UNCHANGED vars
  BY <1>1, <1>2 DEF vars, owners, IInv, OpenInv, OpenInvOf, IsOpen, LoopInv, LoopInvOf
<1>3. CASE Next
  BY <1>1, <1>3, OpenInvStep, LoopInvStep DEF IInv
<1>4. QED
  BY <1>2, <1>3

LEMMA InvHolds == Spec => []IInv
  BY InvInit, InvStep, PTL DEF Spec

(* The type invariant of Sockets: also, no loop asks for more than is      *)
(* wanted, and a destroyed object holds nothing.                           *)
THEOREM TypeCorrect == Spec => []TypeOK
<1>1. IInv => TypeOK
  BY DEF IInv, ObjectsOK, TypeOK, Transfers
<1>2. QED
  BY <1>1, InvHolds, PTL

(* acceptor.cpp:56-94 and connector.cpp:56-131: open and connect end with  *)
(* an open descriptor, or without one and with the error.                  *)
THEOREM OutcomesTrue == Spec => []OutcomeTrue
<1>1. IInv => OutcomeTrue
  <2> SUFFICES ASSUME IInv, NEW o \in Objects
               PROVE  /\ pc[o] \in {"opened", "connected"} => handle[o] \in open
                      /\ pc[o] = "opened" => o \notin lastErr
                      /\ pc[o] = "failed" => ~IsOpen(o)
                      /\ pc[o] \in {"failed", "kept", "drop", "close", "select"}
                           => o \in lastErr
    BY DEF OutcomeTrue
  <2>1. OpenInvOf(o) /\ (IsOpen(o) => handle[o] \in open)
    BY DEF IInv, OpenInv, OwnInv, OneOwner
  <2>2. QED
    BY <2>1 DEF OpenInvOf, WithHandle, WithError
<1>2. QED
  BY <1>1, InvHolds, PTL

=============================================================================
