------------------------- MODULE ParseThreadProofs --------------------------
(***************************************************************************)
(* Two things a parse thread answers for, proved of one component each:    *)
(* that it is counted while it runs (ConnectionCount), and hands on        *)
(* the packets of its connection (PacketParser).  The two specifications   *)
(* share no variable; they stand together because they are the life of the *)
(* same thread, and each of the lemmas is about one of them only.          *)
(*                                                                         *)
(* For any finite set of accept loops and of parse threads: the counter    *)
(* agrees with the threads that run, an exit always takes one off it, and  *)
(* a surplus of connections is permanent.                                  *)
(*                                                                         *)
(* For any number of connections, parameters, commands and packets, and    *)
(* for a queue of any length: what a parse thread pushes are packets its   *)
(* client sent, in the order it sent them, as long as the stream was not   *)
(* disturbed in the ways the code cannot cope with; and a failing read can *)
(* only repeat a packet, not make one up.                                  *)
(***************************************************************************)
EXTENDS ConnectionCount, PacketParser, FiniteSetTheorems, TLAPS

(* The sets the counter is compared with are finite. *)
LEMMA FiniteParts ==
  /\ IsFiniteSet(Live) /\ Cardinality(Live) \in Nat
  /\ IsFiniteSet(Reaping) /\ Cardinality(Reaping) \in Nat
  /\ IsFiniteSet(Counted) /\ Cardinality(Counted) \in Nat
<1>1. Live \in SUBSET Parsers /\ Reaping \in SUBSET Parsers
  BY DEF Live, Reaping
<1>2. Counted \in SUBSET Acceptors
  BY DEF Counted
<1>3. IsFiniteSet(Live) /\ IsFiniteSet(Reaping) /\ IsFiniteSet(Counted)
  BY <1>1, <1>2, FS_Subset, ThreadAssumption
<1>4. QED
  BY <1>3, FS_CardinalityType

(* Adding to and removing from a finite set moves its cardinality by one. *)
LEMMA OneMore ==
  ASSUME NEW S, IsFiniteSet(S), NEW x, x \notin S
  PROVE  Cardinality(S \cup {x}) = Cardinality(S) + 1
  BY FS_AddElement

LEMMA OneLess ==
  ASSUME NEW S, IsFiniteSet(S), NEW x \in S
  PROVE  /\ Cardinality(S \ {x}) = Cardinality(S) - 1
         /\ Cardinality(S) >= 1
<1>1. Cardinality(S \ {x}) = Cardinality(S) - 1
  BY FS_RemoveElement
<1>2. Cardinality(S \ {x}) \in Nat /\ Cardinality(S) \in Nat
  BY FS_RemoveElement, FS_CardinalityType
<1>3. QED
  BY <1>1, <1>2

-----------------------------------------------------------------------------
(* The type invariant of ConnectionCount: the counter never leaves Nat and *)
(* every accept loop and parse thread stands at one of its program points. *)
THEOREM TypeCorrect == Spec => []TypeOK
<1>1. ASSUME Init PROVE TypeOK
  <2>1. check_exist_connection \in BOOLEAN /\ handle_valid \in BOOLEAN
          /\ lastErr \in BOOLEAN
    BY <1>1, Zenon DEF Init
  <2>2. apc \in [Acceptors -> APC] /\ ppc \in [Parsers -> PPC]
    BY <1>1 DEF Init, APC, PPC
  <2>3. QED
    BY <1>1, <2>1, <2>2 DEF Init, TypeOK
<1>2. TypeOK /\ [Next]_vars => TypeOK'
  <2> SUFFICES ASSUME TypeOK, [Next]_vars
               PROVE  TypeOK'
    OBVIOUS
  <2> USE DEF TypeOK, APC, PPC
  <2>1. ASSUME NEW a \in Acceptors, AcceptLoop(a)
        PROVE  TypeOK'
    <3>1. CASE Accept(a)
      <4>1. handle_valid' \in BOOLEAN /\ lastErr' \in BOOLEAN
        BY <3>1, Zenon DEF Accept
      <4>2. QED
        BY <3>1, <4>1 DEF Accept, AGoto
    <3>6. CASE Recheck(a) \/ Reenter(a) \/ PassGoodSocket(a)
      BY <3>6 DEF Recheck, Reenter, PassGoodSocket, AGoto, sock
    <3>2. CASE Increment(a)
      BY <3>2 DEF Increment, IncrementNumberConnection, AGoto, sock
    <3>3. CASE SkipBadSocket(a)
      BY <3>3 DEF SkipBadSocket, AGoto, sock
    <3>4. ASSUME NEW p \in Parsers, StartThreads(a, p)
          PROVE  TypeOK'
      BY <3>4 DEF StartThreads, AGoto, PGoto, sock
    <3>5. QED
      BY <2>1, <3>1, <3>2, <3>3, <3>4, <3>6 DEF AcceptLoop
  <2>2. ASSUME NEW p \in Parsers, ParseLoop(p)
        PROVE  TypeOK'
    <3>1. CASE ParseMsg(p) \/ CheckCount(p)
      BY <3>1 DEF ParseMsg, CheckCount, PGoto, sock
    <3>2. CASE Reap(p)
      BY <3>2 DEF Reap, DecrementNumberConnection, PGoto, sock
    <3>3. QED
      BY <2>2, <3>1, <3>2 DEF ParseLoop
  <2>3. CASE CloseSocket \/ SendReturns
    BY <2>3 DEF CloseSocket, SendReturns
  <2>4. CASE UNCHANGED vars
    BY <2>4 DEF vars
  <2>5. QED
    BY <2>1, <2>2, <2>3, <2>4 DEF Next
<1>3. QED
  BY <1>1, <1>2, PTL DEF Spec

-----------------------------------------------------------------------------
(* How each step moves the three sets: an accept loop enters Counted with  *)
(* the increment and leaves it with the skip or with the start, a parse    *)
(* thread enters Live with its start, Reaping with its read of 2, and      *)
(* leaves both when it exits.                                              *)
LEMMA CountedMoves ==
  ASSUME TypeOK, NEW a \in Acceptors
  PROVE  /\ Increment(a) => a \notin Counted /\ Counted' = Counted \cup {a}
         /\ SkipBadSocket(a) => a \in Counted /\ Counted' = Counted \ {a}
         /\ (\E p \in Parsers : StartThreads(a, p)) =>
              a \in Counted /\ Counted' = Counted \ {a}
         /\ Accept(a) \/ PassGoodSocket(a) \/ Recheck(a) \/ Reenter(a) =>
              Counted' = Counted
<1> USE DEF TypeOK, AGoto, Counted
<1>1. Increment(a) => a \notin Counted /\ Counted' = Counted \cup {a}
  BY DEF Increment
<1>2. SkipBadSocket(a) => a \in Counted /\ Counted' = Counted \ {a}
  BY DEF SkipBadSocket
<1>3. ASSUME NEW p \in Parsers, StartThreads(a, p)
      PROVE  a \in Counted /\ Counted' = Counted \ {a}
  BY <1>3 DEF StartThreads
<1>4. Accept(a) => Counted' = Counted
  BY DEF Accept
<1>5. PassGoodSocket(a) => Counted' = Counted
  BY DEF PassGoodSocket
<1>6. Recheck(a) => Counted' = Counted
  BY DEF Recheck
<1>7. Reenter(a) => Counted' = Counted
  BY DEF Reenter
<1>8. QED
  BY <1>1, <1>2, <1>3, <1>4, <1>5, <1>6, <1>7

LEMMA ParserMoves ==
  ASSUME TypeOK, NEW p \in Parsers
  PROVE  /\ \A a \in Acceptors : StartThreads(a, p) =>
              /\ p \notin Live /\ Live' = Live \cup {p}
              /\ Reaping' = Reaping
         /\ ParseMsg(p) => Live' = Live /\ Reaping' = Reaping
         /\ CheckCount(p) =>
              /\ Live' = Live
              /\ IF number_connection = 2
                   THEN p \notin Reaping /\ Reaping' = Reaping \cup {p}
                   ELSE Reaping' = Reaping
         /\ Reap(p) =>
              /\ p \in Live /\ Live' = Live \ {p}
              /\ p \in Reaping /\ Reaping' = Reaping \ {p}
<1> USE DEF TypeOK, PGoto, Live, Reaping
<1>1. ASSUME NEW a \in Acceptors, StartThreads(a, p)
      PROVE  /\ p \notin Live /\ Live' = Live \cup {p}
             /\ Reaping' = Reaping
  BY <1>1 DEF StartThreads
<1>2. ParseMsg(p) => Live' = Live /\ Reaping' = Reaping
  BY DEF ParseMsg
<1>3. ASSUME CheckCount(p)
      PROVE  /\ Live' = Live
             /\ IF number_connection = 2
                  THEN p \notin Reaping /\ Reaping' = Reaping \cup {p}
                  ELSE Reaping' = Reaping
  <2>1. CASE number_connection = 2
    BY <1>3, <2>1 DEF CheckCount
  <2>2. CASE number_connection # 2
    BY <1>3, <2>2 DEF CheckCount
  <2>3. QED
    BY <2>1, <2>2
<1>4. ASSUME Reap(p)
      PROVE  /\ p \in Live /\ Live' = Live \ {p}
             /\ p \in Reaping /\ Reaping' = Reaping \ {p}
  BY <1>4 DEF Reap
<1>5. QED
  BY <1>1, <1>2, <1>3, <1>4

(* Steps of one kind of thread leave the sets of the other kind alone. *)
LEMMA OtherSets ==
  /\ \A a \in Acceptors :
       Accept(a) \/ Increment(a) \/ SkipBadSocket(a) \/ PassGoodSocket(a)
         \/ Recheck(a) \/ Reenter(a) => Live' = Live /\ Reaping' = Reaping
  /\ \A p \in Parsers : ParseLoop(p) => Counted' = Counted
  /\ CloseSocket \/ SendReturns \/ UNCHANGED vars =>
       Live' = Live /\ Reaping' = Reaping /\ Counted' = Counted
<1>1. ASSUME NEW a \in Acceptors,
             Accept(a) \/ Increment(a) \/ SkipBadSocket(a) \/ PassGoodSocket(a)
               \/ Recheck(a) \/ Reenter(a)
      PROVE  Live' = Live /\ Reaping' = Reaping
  <2>1. ppc' = ppc
    BY <1>1 DEF Accept, Increment, SkipBadSocket, PassGoodSocket, Recheck,
                Reenter
  <2>2. QED
    BY <2>1 DEF Live, Reaping
<1>2. ASSUME NEW p \in Parsers, ParseLoop(p)
      PROVE  Counted' = Counted
  <2>1. apc' = apc
    BY <1>2 DEF ParseLoop, ParseMsg, CheckCount, Reap
  <2>2. QED
    BY <2>1 DEF Counted
<1>3. ASSUME CloseSocket \/ SendReturns \/ UNCHANGED vars
      PROVE  Live' = Live /\ Reaping' = Reaping /\ Counted' = Counted
  <2>1. ppc' = ppc /\ apc' = apc
    BY <1>3 DEF CloseSocket, SendReturns, vars
  <2>2. QED
    BY <2>1 DEF Live, Reaping, Counted
<1>4. QED
  BY <1>1, <1>2, <1>3

-----------------------------------------------------------------------------
(* One step keeps the counter equal to what it stands for.  One case per   *)
(* action that moves the counter or one of the sets it is compared with.   *)
LEMMA CountStep ==
  ASSUME TypeOK, CountConserved, [Next]_vars
  PROVE  CountConserved'
<1> USE FiniteParts DEF CountConserved
<1>1. ASSUME NEW a \in Acceptors, AcceptLoop(a)
      PROVE  CountConserved'
  <2>1. CASE Increment(a)
    <3>1. Cardinality(Counted') = Cardinality(Counted) + 1
      BY <2>1, CountedMoves, OneMore
    <3>2. Live' = Live
      BY <2>1, OtherSets
    <3>3. QED
      BY <2>1, <3>1, <3>2 DEF Increment, IncrementNumberConnection, TypeOK
  <2>2. CASE SkipBadSocket(a)
    <3>1. Cardinality(Counted') = Cardinality(Counted) - 1
      BY <2>2, CountedMoves, OneLess
    <3>2. Live' = Live
      BY <2>2, OtherSets
    <3>3. QED
      BY <2>2, <3>1, <3>2 DEF SkipBadSocket, TypeOK
  <2>3. ASSUME NEW p \in Parsers, StartThreads(a, p)
        PROVE  CountConserved'
    <3>1. Cardinality(Counted') = Cardinality(Counted) - 1
      BY <2>3, CountedMoves, OneLess
    <3>2. Cardinality(Live') = Cardinality(Live) + 1
      BY <2>3, ParserMoves, OneMore
    <3>3. QED
      BY <2>3, <3>1, <3>2 DEF StartThreads, TypeOK
  <2>4. CASE Accept(a) \/ PassGoodSocket(a) \/ Recheck(a) \/ Reenter(a)
    <3>1. Live' = Live /\ Counted' = Counted
      BY <2>4, OtherSets, CountedMoves
    <3>2. number_connection' = number_connection /\ unparsed' = unparsed
      BY <2>4 DEF Accept, PassGoodSocket, Recheck, Reenter
    <3>3. QED
      BY <3>1, <3>2
  <2>5. QED
    BY <1>1, <2>1, <2>2, <2>3, <2>4 DEF AcceptLoop
<1>2. ASSUME NEW p \in Parsers, ParseLoop(p)
      PROVE  CountConserved'
  <2>1. Counted' = Counted
    BY <1>2, OtherSets
  <2>2. CASE ParseMsg(p) \/ CheckCount(p)
    <3>1. Live' = Live
      BY <2>2, ParserMoves
    <3>2. number_connection' = number_connection /\ unparsed' = unparsed
      BY <2>2 DEF ParseMsg, CheckCount
    <3>3. QED
      BY <2>1, <3>1, <3>2
  <2>3. CASE Reap(p)
    <3>1. Cardinality(Live') = Cardinality(Live) - 1 /\ Cardinality(Live) >= 1
      BY <2>3, ParserMoves, OneLess
    <3>2. number_connection > 0
      BY <3>1 DEF TypeOK
    <3>3. QED
      BY <2>1, <2>3, <3>1, <3>2
         DEF Reap, DecrementNumberConnection, TypeOK
  <2>4. QED
    BY <1>2, <2>2, <2>3 DEF ParseLoop
<1>3. CASE CloseSocket \/ SendReturns \/ UNCHANGED vars
  <2>1. Live' = Live /\ Counted' = Counted
    BY <1>3, OtherSets
  <2>2. number_connection' = number_connection /\ unparsed' = unparsed
    BY <1>3 DEF CloseSocket, SendReturns, vars
  <2>3. QED
    BY <2>1, <2>2
<1>4. QED
  BY <1>1, <1>2, <1>3 DEF Next

(* The connection counter never drifts from the threads it counts. *)
THEOREM CountIsConserved == Spec => []CountConserved
<1>1. Init => CountConserved
  <2> SUFFICES ASSUME Init PROVE CountConserved
    OBVIOUS
  <2>1. Live = {} /\ Counted = {}
    BY DEF Init, Live, Counted
  <2>2. QED
    BY <2>1, FS_EmptySet DEF Init, CountConserved
<1>2. TypeOK /\ CountConserved /\ [Next]_vars => CountConserved'
  BY CountStep
<1>3. QED
  BY <1>1, <1>2, TypeCorrect, PTL DEF Spec

(* A parse thread that exits takes exactly one off the counter: although   *)
(* any number of them may have read 2 before one of them decrements, the   *)
(* clamp at zero in decrement_number_connection never swallows a decrement. *)
ExitTakesOne ==
  [][\A p \in Parsers :
        ppc[p] = "reap" /\ ppc'[p] = "exited" =>
          number_connection = number_connection' + 1]_vars

(* An exiting parse thread always takes one off the counter: it is itself  *)
(* one of the live threads counted, so the clamp at zero is never met.     *)
THEOREM ExitIsCounted == Spec => ExitTakesOne
<1> DEFINE A == \A p \in Parsers :
                  ppc[p] = "reap" /\ ppc'[p] = "exited" =>
                    number_connection = number_connection' + 1
<1>1. ASSUME TypeOK, CountConserved, [Next]_vars, NEW p \in Parsers,
             ppc[p] = "reap", ppc'[p] = "exited"
      PROVE  number_connection = number_connection' + 1
  <2>1. Reap(p)
    <3>1. \A a \in Acceptors : ~AcceptLoop(a)
      BY <1>1 DEF AcceptLoop, Accept, Increment, SkipBadSocket, PassGoodSocket,
                  Recheck, Reenter, StartThreads, PGoto, TypeOK
    <3>2. \A q \in Parsers : ParseLoop(q) => q = p
      BY <1>1 DEF ParseLoop, ParseMsg, CheckCount, Reap, PGoto, TypeOK
    <3>3. ~CloseSocket /\ ~SendReturns /\ ~UNCHANGED vars
      BY <1>1 DEF CloseSocket, SendReturns, vars
    <3>4. ~ParseMsg(p) /\ ~CheckCount(p)
      BY <1>1 DEF ParseMsg, CheckCount, PGoto
    <3>5. QED
      BY <1>1, <3>1, <3>2, <3>3, <3>4 DEF Next, ParseLoop
  <2>2. Cardinality(Live) >= 1
    BY <1>1, <2>1, ParserMoves, OneLess, FiniteParts
  <2>3. number_connection > 0
    BY <1>1, <2>2, FiniteParts DEF CountConserved, TypeOK
  <2>4. QED
    BY <1>1, <2>1, <2>3 DEF Reap, DecrementNumberConnection, TypeOK
<1>2. TypeOK /\ CountConserved /\ [Next]_vars => [A]_vars
  BY <1>1
<1>3. Spec => [][A]_vars
  BY <1>2, TypeCorrect, CountIsConserved, PTL DEF Spec
<1>4. QED
  BY <1>3 DEF ExitTakesOne

(* A surplus of counted connections is never reaped: while it lasts no     *)
(* parse thread can read 2, and those that already have read it account    *)
(* for every decrement still to come.                                      *)
THEOREM SurplusStays == Spec => SurplusIsPermanent
<1>1. ASSUME TypeOK, CountConserved, Surplus, [Next]_vars
      PROVE  Surplus'
  <2> USE FiniteParts DEF Surplus
  <2>1. ASSUME NEW a \in Acceptors, AcceptLoop(a)
        PROVE  Surplus'
    <3>1. Reaping' = Reaping
      BY <2>1, OtherSets, ParserMoves, <1>1 DEF AcceptLoop
    <3>2. number_connection' >= number_connection
      BY <2>1, <1>1 DEF AcceptLoop, Accept, Increment, SkipBadSocket,
         PassGoodSocket, Recheck, Reenter, StartThreads,
         IncrementNumberConnection, TypeOK
    <3>3. number_connection' \in Nat /\ number_connection \in Nat
      BY <2>1, <1>1 DEF AcceptLoop, Accept, Increment, SkipBadSocket,
         PassGoodSocket, Recheck, Reenter, StartThreads,
         IncrementNumberConnection, TypeOK
    <3>4. QED
      BY <1>1, <3>1, <3>2, <3>3
  <2>2. ASSUME NEW p \in Parsers, ParseLoop(p)
        PROVE  Surplus'
    <3>1. CASE ParseMsg(p)
      BY <1>1, <3>1, ParserMoves DEF ParseMsg
    <3>2. CASE CheckCount(p)
      <4>1. number_connection # 2
        BY <1>1 DEF TypeOK
      <4>2. QED
        BY <1>1, <3>2, <4>1, ParserMoves DEF CheckCount
    <3>3. CASE Reap(p)
      <4>1. Cardinality(Reaping') = Cardinality(Reaping) - 1
        BY <1>1, <3>3, ParserMoves, OneLess
      <4>2. number_connection' = number_connection - 1
        BY <1>1, <3>3 DEF Reap, DecrementNumberConnection, TypeOK
      <4>3. QED
        BY <1>1, <4>1, <4>2 DEF TypeOK
    <3>4. QED
      BY <2>2, <3>1, <3>2, <3>3 DEF ParseLoop
  <2>3. CASE CloseSocket \/ SendReturns \/ UNCHANGED vars
    <3>1. number_connection' = number_connection
      BY <2>3 DEF CloseSocket, SendReturns, vars
    <3>2. Reaping' = Reaping
      BY <2>3, OtherSets
    <3>3. QED
      BY <1>1, <3>1, <3>2
  <2>4. QED
    BY <1>1, <2>1, <2>2, <2>3 DEF Next
<1>2. TypeOK /\ CountConserved /\ [Next]_vars => [Surplus => Surplus']_vars
  BY <1>1
<1>3. Spec => [][Surplus => Surplus']_vars
  BY <1>2, TypeCorrect, CountIsConserved, PTL DEF Spec
<1>4. QED
  BY <1>3 DEF SurplusIsPermanent

-----------------------------------------------------------------------------
(***************************************************************************)
(* The packets.  What is on its way on a connection is the rest of the     *)
(* packets sent there, in order and up to the end of the last one          *)
(* (StreamInv); so a thread that has five bytes of its own recv in hand    *)
(* has five that follow each other there (HandInv).  Wherever such a       *)
(* window starts but at the first byte of a packet, a TAIL, or the byte of *)
(* a command, stands where the code looks for something else.              *)
(***************************************************************************)

(* Two bytes that follow each other in a stream, and two bytes in its order. *)
Adjoins(a, b) ==
  \/ a.pos < Size /\ b.pkt = a.pkt /\ b.pos = a.pos + 1
  \/ a.pos = Size /\ b.pkt > a.pkt /\ b.pos = 1
Earlier(a, b) == a.pkt < b.pkt \/ (a.pkt = b.pkt /\ a.pos < b.pos)

(* A byte that was sent on c, and what its place says of its value. *)
SentOn(k, c) == k \in 1..Len(sent) /\ sent[k].conn = c
Genuine(b, c) ==
  /\ SentOn(b.pkt, c)
  /\ b.pos = 1 => b.val = HEAD
  /\ b.pos = 2 => b.val \notin {HEAD, TAIL}
  /\ b.pos = Size => b.val = TAIL

(* What is on its way on c: what is left of the packets sent there, in      *)
(* their order, up to the end of the last one.                             *)
StreamOf(c) ==
  /\ \A i \in 1..Len(wire[c]) : Genuine(wire[c][i], c)
  /\ \A i \in 1..(Len(wire[c]) - 1) : Adjoins(wire[c][i], wire[c][i + 1])
  /\ \A i, j \in 1..Len(wire[c]) : i < j => Earlier(wire[c][i], wire[c][j])
  /\ wire[c] # <<>> => wire[c][Len(wire[c])].pos = Size
  /\ wire[c] # <<>> /\ c \notin short => wire[c][1].pos = 1
StreamInv == \A c \in Conns : StreamOf(c)

(* Every byte on its way on the connection of packet k is a later one's.   *)
Behind(k) ==
  \A c \in Conns : SentOn(k, c) => \A i \in 1..Len(wire[c]) : k < wire[c][i].pkt
PushedPackets == {PacketOf(j) : j \in 1..Len(pushed)}

(* buf holds five bytes of c in a row, behind all that was pushed of c and *)
(* before all that is on its way there.                                    *)
BufIs(c) ==
  /\ \A i \in 1..Size : Genuine(buf[i], c)
  /\ \A i \in 1..(Size - 1) : Adjoins(buf[i], buf[i + 1])
  /\ \A i \in 1..Len(wire[c]) : Earlier(buf[Size], wire[c][i])
  /\ \A k \in PushedPackets : SentOn(k, c) => k < buf[1].pkt

(* The one thread that works on buf has its own result in n_read_bytes,    *)
(* gets past the length check only with five bytes of its own recv, and    *)
(* is about to push what is still in buf.                                  *)
HandOf(p) ==
  /\ InHand(p) => ret[p] \in 0..Size
  /\ pc[p] \in {"length", "markers", "switch"} => n_read_bytes = ret[p]
  /\ pc[p] \in {"markers", "switch", "push"} => ret[p] = Size
  /\ InHand(p) /\ ret[p] = Size => \E c \in Conns : fd[p] = c /\ BufIs(c)
  /\ pc[p] \in {"switch", "push"} => MarkersMatch
  /\ pc[p] = "push" => taken[p] = buf /\ buf[2].val \in Commands
HandInv ==
  Undisturbed =>
    /\ \A p, q \in Conns : InHand(p) /\ InHand(q) => p = q
    /\ \A p \in Conns : HandOf(p)

PushInv ==
  Undisturbed =>
    /\ \A k \in PushedPackets : k \in 1..Len(sent) /\ Behind(k)
    /\ WholePackets /\ PushedOnceInOrder

(* As long as threads keep out of each other's buf, a thread is about to   *)
(* push what is still there.                                               *)
AloneInv ==
  ~overlapped =>
    /\ \A p, q \in Conns : InHand(p) /\ InHand(q) => p = q
    /\ \A p \in Conns : pc[p] = "push" => taken[p] = buf

(* While no packet is cut, buf holds the bytes of one packet, and so does  *)
(* all that was pushed or is about to be, whoever works on buf.            *)
WholePacket(w) == \A i \in 1..Size : w[i].pkt = w[2].pkt /\ w[i].pos = i
PacketInv ==
  short = {} =>
    /\ WholePacket(buf)
    /\ \A p \in Conns : pc[p] = "push" => WholePacket(taken[p])
    /\ \A j \in 1..Len(pushed) : FromOnePacket(j)

(* That packet is behind all that is on its way, and no pushed packet of   *)
(* the same connection is later; once buf has been pushed, it is what was  *)
(* pushed last.                                                            *)
RepeatInv ==
  short = {} /\ ~overlapped =>
    /\ \A k \in PushedPackets \cup {buf[2].pkt} : k \in 0..Len(sent) /\ Behind(k)
    /\ \A k \in PushedPackets :
         /\ k = buf[2].pkt => PacketOf(Len(pushed)) = k
         /\ SameConnection(k, buf[2].pkt) => k <= buf[2].pkt
    /\ \A j \in 1..Len(pushed) : NeverGoesBack(j)

ParserInv ==
  /\ ParserTypeOK /\ StreamInv /\ HandInv /\ PushInv
  /\ AloneInv /\ PacketInv /\ RepeatInv

-----------------------------------------------------------------------------
(* What recv takes from a stream, and what it leaves. *)
LEMMA FirstBytes ==
  ASSUME NEW s \in Seq(ByteSet), NEW n \in Nat, n <= Len(s)
  PROVE  /\ SubSeq(s, 1, n) \in Seq(ByteSet) /\ Len(SubSeq(s, 1, n)) = n
         /\ \A i \in 1..n : SubSeq(s, 1, n)[i] = s[i]
  OBVIOUS

LEMMA OtherBytes ==
  ASSUME NEW s \in Seq(ByteSet), NEW n \in Nat, n <= Len(s)
  PROVE  /\ SubSeq(s, n + 1, Len(s)) \in Seq(ByteSet)
         /\ Len(SubSeq(s, n + 1, Len(s))) = Len(s) - n
         /\ \A i \in 1..(Len(s) - n) : SubSeq(s, n + 1, Len(s))[i] = s[n + i]
  OBVIOUS

LEMMA Joined ==
  ASSUME NEW s \in Seq(ByteSet), NEW t \in Seq(ByteSet)
  PROVE  /\ s \o t \in Seq(ByteSet) /\ Len(s \o t) = Len(s) + Len(t)
         /\ \A i \in 1..Len(s) : (s \o t)[i] = s[i]
         /\ \A i \in 1..Len(t) : (s \o t)[Len(s) + i] = t[i]
  OBVIOUS

LEMMA Appended ==
  ASSUME NEW S, NEW s \in Seq(S), NEW e \in S
  PROVE  /\ Append(s, e) \in Seq(S) /\ Len(Append(s, e)) = Len(s) + 1
         /\ \A i \in 1..Len(s) : Append(s, e)[i] = s[i]
         /\ Append(s, e)[Len(s) + 1] = e
  OBVIOUS

(* The five bytes of packet k. *)
Carries(w, k, cmd) ==
  /\ w \in Seq(ByteSet) /\ Len(w) = Size
  /\ \A i \in 1..Size : w[i].pkt = k /\ w[i].pos = i
  /\ w[1].val = HEAD /\ w[2].val = cmd /\ w[Size].val = TAIL

LEMMA PacketBytes ==
  ASSUME NEW k \in 1..MaxPackets, NEW cmd \in Commands \cup {ANY_OTHER},
         NEW params \in Params
  PROVE  Carries(Packet(k, cmd, params), k, cmd)
<1>0. PICK w : w = Packet(k, cmd, params)
  OBVIOUS
<1>a. PICK p0, p1 : p0 = params[1] /\ p1 = params[2]
  OBVIOUS
<1> DEFINE bytes == <<HEAD, cmd, p0, p1, TAIL>>
<1>1. \A i \in 1..Size : bytes[i] \in Value
  <2>1. HEAD \in Value /\ cmd \in Value /\ p0 \in Value /\ p1 \in Value /\ TAIL \in Value
    BY <1>a, ParserAssumption DEF Value
  <2>2. /\ bytes[1] = HEAD /\ bytes[2] = cmd /\ bytes[3] = p0 /\ bytes[4] = p1
        /\ bytes[5] = TAIL
    OBVIOUS
  <2>3. \A i \in 1..Size : i = 1 \/ i = 2 \/ i = 3 \/ i = 4 \/ i = 5
    BY DEF Size
  <2> HIDE DEF bytes
  <2>4. QED
    BY <2>1, <2>2, <2>3
<1>2. \A i \in 1..Size : w[i] = Byte(bytes[i], k, i)
  BY <1>0, <1>a DEF Packet
<1>3. \A i \in 1..Size : Byte(bytes[i], k, i) \in ByteSet
  BY <1>1, ParserAssumption DEF Byte, ByteSet
<1>4. w \in [1..Size -> ByteSet]
  BY <1>0, <1>a, <1>3 DEF Packet
<1>5. Size \in Nat
  BY DEF Size
<1>6. w \in Seq(ByteSet) /\ Len(w) = Size
  BY <1>4, <1>5
<1>7. \A i \in 1..Size : w[i].pkt = k /\ w[i].pos = i /\ w[i].val = bytes[i]
  <2>1. \A v, i : Byte(v, k, i).pkt = k /\ Byte(v, k, i).pos = i /\ Byte(v, k, i).val = v
    BY DEF Byte
  <2> HIDE DEF bytes
  <2>2. QED
    BY <1>2, <2>1
<1>8. QED
  BY <1>0, <1>6, <1>7 DEF Size, Carries

(* What recv has put into buf. *)
LEMMA FillBytes ==
  ASSUME buf \in [1..Size -> ByteSet], NEW s \in Seq(ByteSet), Len(s) \in 1..Size
  PROVE  /\ Fill(s) \in [1..Size -> ByteSet]
         /\ \A i \in 1..Len(s) : Fill(s)[i] = s[i]
  BY DEF Fill, Size

-----------------------------------------------------------------------------
LEMMA ParserTypeInit == ParserInit => ParserTypeOK
<1> SUFFICES ASSUME ParserInit
             PROVE  ParserTypeOK
  OBVIOUS
<1> USE DEF ParserInit
<1>1. buf \in [1..Size -> ByteSet]
  <2>1. \A v \in Value, i \in 1..5 : Byte(v, 0, i) \in ByteSet
    BY ParserAssumption DEF Byte, ByteSet, Size
  <2>2. PICK h \in {HEAD, ANY_OTHER}, c \in Commands \cup {ANY_OTHER}, t \in {TAIL} :
          buf = <<Byte(h, 0, 1), Byte(c, 0, 2), Byte(ANY_OTHER, 0, 3),
                  Byte(ANY_OTHER, 0, 4), Byte(t, 0, 5)>>
    <3>1. \A marked \in BOOLEAN : (IF marked THEN HEAD ELSE ANY_OTHER) \in {HEAD, ANY_OTHER}
      OBVIOUS
    <3>2. QED
      BY <3>1
  <2>3. h \in Value /\ c \in Value /\ t \in Value /\ ANY_OTHER \in Value
    BY DEF Value
  <2>4. /\ Byte(h, 0, 1) \in ByteSet /\ Byte(c, 0, 2) \in ByteSet
        /\ Byte(ANY_OTHER, 0, 3) \in ByteSet /\ Byte(ANY_OTHER, 0, 4) \in ByteSet
        /\ Byte(t, 0, 5) \in ByteSet
    BY <2>1, <2>3
  <2>5. QED
    BY <2>2, <2>4 DEF Size
<1>2. wire \in [Conns -> Seq(ByteSet)]
  BY DEF ParserInit
<1>3. /\ pushed \in Seq([1..Size -> ByteSet])
      /\ sent \in Seq([conn : Conns, cmd : Commands \cup {ANY_OTHER}])
      /\ Len(sent) <= MaxPackets
  BY ParserAssumption
<1>4. /\ n_read_bytes \in -1..Size
      /\ fd \in [Conns -> Conns \cup {NoConn}] /\ ret \in [Conns -> -1..Size]
      /\ taken \in [Conns -> [1..Size -> ByteSet] \cup {<<>>}]
  BY DEF Size
<1>5. QED
  BY <1>1, <1>2, <1>3, <1>4 DEF ParserTypeOK

(* The result of a recv, and what its return does to the thread. *)
LEMMA RecvReturnsType ==
  ASSUME ParserTypeOK, NEW p \in Conns, NEW n \in -1..Size, RecvReturns(p, n),
         taken' = taken
  PROVE  /\ pc' \in [Conns -> {"unborn", "call", "recv", "store", "length", "markers",
                              "switch", "push", "count", "leave", "left"}]
         /\ \A q \in Conns : pc'[q] = "push" => taken'[q] \in [1..Size -> ByteSet]
         /\ ret' \in [Conns -> -1..Size] /\ failed' \in BOOLEAN /\ overlapped' \in BOOLEAN
  BY DEF ParserTypeOK, RecvReturns, Goto

LEMMA ParserTypeStep ==
  ASSUME ParserTypeOK, [ParserNext]_parserVars
  PROVE  ParserTypeOK'
<1> USE DEF ParserTypeOK
<1>0. \A n \in Nat : IncrementNumberConnection(n) \in Nat /\ DecrementNumberConnection(n) \in Nat
  BY DEF IncrementNumberConnection, DecrementNumberConnection
<1>1. ASSUME NEW c \in Conns, HandleConnection(c) PROVE ParserTypeOK'
  BY <1>0, <1>1 DEF HandleConnection, Goto, shared, net, past
<1>2. ASSUME NEW c \in Conns, ClientSends(c) PROVE ParserTypeOK'
  <2>1. PICK cmd \in Commands \cup {ANY_OTHER}, params \in Params :
          /\ wire' = [wire EXCEPT ![c] = @ \o Packet(Len(sent) + 1, cmd, params)]
          /\ sent' = Append(sent, [conn |-> c, cmd |-> cmd])
    BY <1>2 DEF ClientSends
  <2>2. Len(sent) < MaxPackets /\ Len(sent) + 1 \in 1..MaxPackets
    BY <1>2, ParserAssumption DEF ClientSends
  <2>3. wire[c] \o Packet(Len(sent) + 1, cmd, params) \in Seq(ByteSet)
    BY <2>2, PacketBytes, Joined DEF Carries
  <2>4. wire' \in [Conns -> Seq(ByteSet)]
    BY <2>1, <2>3
  <2>5. /\ sent' \in Seq([conn : Conns, cmd : Commands \cup {ANY_OTHER}])
        /\ Len(sent') <= MaxPackets
    BY <2>1, <2>2, Appended
  <2>6. QED
    BY <1>2, <2>4, <2>5 DEF ClientSends, shared, thread, past
<1>3. ASSUME NEW c \in Conns, ClientEnds(c) PROVE ParserTypeOK'
  BY <1>3 DEF ClientEnds, shared, thread, past
<1>4. ASSUME CloseCurrent PROVE ParserTypeOK'
  BY <1>4 DEF CloseCurrent, shared, thread, net, past
<1>5. ASSUME NEW p \in Conns, CallRecv(p) PROVE ParserTypeOK'
  BY <1>5 DEF CallRecv, Goto, shared, net, past
<1>6. ASSUME NEW p \in Conns, RecvBytes(p) PROVE ParserTypeOK'
  <2>1. PICK n \in 1..Size :
          /\ n <= Len(wire[fd[p]])
          /\ RecvReturns(p, n)
          /\ buf' = Fill(SubSeq(wire[fd[p]], 1, n))
          /\ wire' = [wire EXCEPT ![fd[p]] = SubSeq(@, n + 1, Len(@))]
          /\ short' = IF n < Size THEN short \cup {fd[p]} ELSE short
    BY <1>6 DEF RecvBytes
  <2>2. fd[p] \in Conns /\ wire[fd[p]] \in Seq(ByteSet) /\ n \in Nat
    BY <1>6 DEF RecvBytes, Size
  <2>3. buf' \in [1..Size -> ByteSet]
    <3>1. /\ SubSeq(wire[fd[p]], 1, n) \in Seq(ByteSet)
          /\ Len(SubSeq(wire[fd[p]], 1, n)) = n
      BY <2>1, <2>2, FirstBytes
    <3>2. QED
      BY <2>1, <3>1, FillBytes
  <2>4. wire' \in [Conns -> Seq(ByteSet)]
    BY <2>1, <2>2, OtherBytes
  <2>5. n \in -1..Size /\ short' \subseteq Conns
    BY <2>1, <2>2 DEF Size
  <2>6. QED
    BY <1>6, <2>1, <2>3, <2>4, <2>5, RecvReturnsType DEF RecvBytes
<1>7. ASSUME NEW p \in Conns, RecvEof(p) PROVE ParserTypeOK'
  BY <1>7, RecvReturnsType DEF RecvEof, shared, net, Size
<1>8. ASSUME NEW p \in Conns, RecvError(p) PROVE ParserTypeOK'
  <2>1. ended' \in [Conns -> {"open", "eof", "reset", "broken"}]
    BY <1>8 DEF RecvError
  <2>2. QED
    BY <1>8, <2>1, RecvReturnsType DEF RecvError, shared, Size
<1>9. ASSUME NEW p \in Conns, StoreCount(p) PROVE ParserTypeOK'
  BY <1>9 DEF StoreCount, Goto, net, past
<1>10. ASSUME NEW p \in Conns, CheckLength(p) PROVE ParserTypeOK'
  BY <1>10 DEF CheckLength, OnlyLooks, Goto, shared, net, past
<1>11. ASSUME NEW p \in Conns, CheckMarkers(p) PROVE ParserTypeOK'
  BY <1>11 DEF CheckMarkers, OnlyLooks, Goto, shared, net, past
<1>12. ASSUME NEW p \in Conns, Switch(p) PROVE ParserTypeOK'
  <2>1. CASE pc' = [pc EXCEPT ![p] = "push"] /\ taken' = [taken EXCEPT ![p] = buf]
    <3>1. \A q \in Conns : pc'[q] = "push" => taken'[q] \in [1..Size -> ByteSet]
      BY <2>1
    <3>2. QED
      BY <1>12, <2>1, <3>1 DEF Switch, shared, net, past
  <2>2. CASE pc' = [pc EXCEPT ![p] = "count"] /\ taken' = taken
    BY <1>12, <2>2 DEF Switch, shared, net, past
  <2>3. QED
    BY <1>12, <2>1, <2>2 DEF Switch, Goto
<1>13. ASSUME NEW p \in Conns, Push(p) PROVE ParserTypeOK'
  <2>1. pc[p] = "push" /\ pc' = [pc EXCEPT ![p] = "count"]
    BY <1>13 DEF Push, Goto
  <2>2. pushed' \in Seq([1..Size -> ByteSet])
    BY <1>13, <2>1, Appended DEF Push
  <2>3. /\ taken' \in [Conns -> [1..Size -> ByteSet] \cup {<<>>}]
        /\ \A q \in Conns : pc'[q] = "push" => taken'[q] \in [1..Size -> ByteSet]
    BY <1>13, <2>1 DEF Push
  <2>4. QED
    BY <1>13, <2>1, <2>2, <2>3 DEF Push, net, past
<1>14. ASSUME NEW p \in Conns, TestCount(p) PROVE ParserTypeOK'
  BY <1>14 DEF TestCount, OnlyLooks, Goto, shared, net, past
<1>15. ASSUME NEW p \in Conns, Leave(p) PROVE ParserTypeOK'
  BY <1>0, <1>15 DEF Leave, Goto, shared, net, past
<1>16. ASSUME FailedAccept PROVE ParserTypeOK'
  BY <1>0, <1>16 DEF FailedAccept, shared, net, thread, past
<1>17. CASE UNCHANGED parserVars
  BY <1>17 DEF parserVars, shared, net, thread, past
<1>18. QED
  BY <1>1, <1>2, <1>3, <1>4, <1>5, <1>6, <1>7, <1>8, <1>9, <1>10, <1>11, <1>12, <1>13,
     <1>14, <1>15, <1>16, <1>17
  DEF ParserNext, ParserStep, Recv

-----------------------------------------------------------------------------
LEMMA StreamInit == ParserInit => StreamInv
  BY DEF ParserInit, StreamInv, StreamOf

(* A step that neither sends nor receives a byte. *)
LEMMA StreamQuiet ==
  ASSUME StreamInv, UNCHANGED <<wire, sent, short>>
  PROVE  StreamInv'
  BY DEF StreamInv, StreamOf, Genuine, SentOn

(* A packet that is sent follows all that is on its way. *)
LEMMA StreamSends ==
  ASSUME ParserTypeOK, StreamInv, NEW c \in Conns, ClientSends(c)
  PROVE  /\ StreamInv' /\ Len(sent') = Len(sent) + 1
         /\ \A l \in 1..Len(sent) : sent'[l] = sent[l]
         /\ \A d \in Conns :
              \A i \in 1..Len(wire'[d]) :
                \/ i \in 1..Len(wire[d]) /\ wire'[d][i] = wire[d][i]
                \/ d = c /\ wire'[d][i].pkt = Len(sent')
<1> DEFINE G(b, d) == /\ b.pkt \in 1..Len(sent') /\ sent'[b.pkt].conn = d
                      /\ b.pos = 1 => b.val = HEAD
                      /\ b.pos = 2 => b.val \notin {HEAD, TAIL}
                      /\ b.pos = Size => b.val = TAIL
<1>0. PICK k, s : k = Len(sent) + 1 /\ s = wire[c]
  OBVIOUS
<1>1. PICK cmd \in Commands \cup {ANY_OTHER}, params \in Params :
        /\ wire' = [wire EXCEPT ![c] = @ \o Packet(k, cmd, params)]
        /\ sent' = Append(sent, [conn |-> c, cmd |-> cmd])
  BY <1>0 DEF ClientSends
<1>t. PICK t : t = Packet(k, cmd, params)
  OBVIOUS
<1>2. /\ k \in 1..MaxPackets /\ Len(sent) \in Nat
      /\ wire \in [Conns -> Seq(ByteSet)] /\ s \in Seq(ByteSet) /\ Len(s) \in Nat
  BY <1>0, ParserAssumption DEF ClientSends, ParserTypeOK
<1>3. /\ t \in Seq(ByteSet) /\ Len(t) = Size
      /\ \A i \in 1..Size : t[i].pkt = k /\ t[i].pos = i
      /\ t[1].val = HEAD /\ t[2].val = cmd /\ t[Size].val = TAIL
  <2>1. Carries(t, k, cmd)
    BY <1>2, <1>t, PacketBytes
  <2>2. QED
    BY <2>1 DEF Carries
<1>4. /\ Len(sent') = k /\ sent'[k].conn = c
      /\ \A l \in 1..Len(sent) : sent'[l] = sent[l]
  <2>1. [conn |-> c, cmd |-> cmd] \in [conn : Conns, cmd : Commands \cup {ANY_OTHER}]
    OBVIOUS
  <2>2. QED
    BY <1>0, <1>1, <1>2, <2>1, Appended DEF ParserTypeOK
<1>5. \A b, d : Genuine(b, d) => G(b, d)
  BY <1>0, <1>2, <1>4 DEF Genuine, SentOn
<1>6. \A i \in 1..Size : G(t[i], c)
  <2>1. cmd \notin {HEAD, TAIL}
    BY ParserAssumption
  <2>2. QED
    BY <1>2, <1>3, <1>4, <2>1 DEF Size
<1>7. \A d \in Conns :
        /\ \A i \in 1..Len(wire'[d]) : G(wire'[d][i], d)
        /\ \A i \in 1..(Len(wire'[d]) - 1) : Adjoins(wire'[d][i], wire'[d][i + 1])
        /\ \A i, j \in 1..Len(wire'[d]) : i < j => Earlier(wire'[d][i], wire'[d][j])
        /\ wire'[d] # <<>> => wire'[d][Len(wire'[d])].pos = Size
        /\ wire'[d] # <<>> /\ d \notin short => wire'[d][1].pos = 1
        => StreamOf(d)'
  <2>1. short' = short
    BY DEF ClientSends, past
  <2>2. QED
    BY <2>1 DEF StreamOf, Genuine, SentOn, Adjoins, Earlier
<1>8. \A d \in Conns : d # c => wire'[d] = wire[d]
  BY <1>1, <1>2
<1>9. ASSUME NEW d \in Conns, d # c PROVE StreamOf(d)'
  <2>1. StreamOf(d)
    BY DEF StreamInv
  <2> HIDE DEF G
  <2>2. QED
    BY <1>5, <1>7, <1>8, <1>9, <2>1 DEF StreamOf
<1>10. PICK w : w = wire'[c]
  OBVIOUS
<1>11. /\ w = s \o t /\ Len(w) = Len(s) + Size
       /\ \A i \in 1..Len(s) : w[i] = s[i]
       /\ \A i \in 1..Size : w[Len(s) + i] = t[i]
  <2>1. w = s \o t
    BY <1>0, <1>1, <1>2, <1>t, <1>10
  <2>2. /\ Len(s \o t) = Len(s) + Len(t)
        /\ \A i \in 1..Len(s) : (s \o t)[i] = s[i]
        /\ \A i \in 1..Len(t) : (s \o t)[Len(s) + i] = t[i]
    BY <1>2, <1>3, Joined
  <2>3. QED
    BY <1>3, <2>1, <2>2
<1>12. \A i \in 1..Len(w) : i \notin 1..Len(s) => \E m \in 1..Size : i = Len(s) + m
  <2> SUFFICES ASSUME NEW i \in 1..Len(w), i \notin 1..Len(s)
               PROVE  \E m \in 1..Size : i = Len(s) + m
    OBVIOUS
  <2>1. PICK n : n = Len(s)
    OBVIOUS
  <2>2. n \in Nat /\ i \in 1..(n + 5) /\ i \notin 1..n
    BY <1>2, <1>11, <2>1 DEF Size
  <2>3. i - n \in 1..5 /\ i = n + (i - n)
    BY <2>2
  <2>4. QED
    BY <2>1, <2>3 DEF Size
<1>13. StreamOf(c)'
  <2>1. StreamOf(c)
    BY DEF StreamInv
  <2>2. /\ \A i \in 1..Len(s) : Genuine(s[i], c)
        /\ \A i \in 1..(Len(s) - 1) : Adjoins(s[i], s[i + 1])
        /\ \A i, j \in 1..Len(s) : i < j => Earlier(s[i], s[j])
        /\ Len(s) > 0 => s[Len(s)].pos = Size
        /\ Len(s) > 0 /\ c \notin short => s[1].pos = 1
    <3> HIDE DEF G
    <3>1. s = wire[c]
      BY <1>0
    <3>2. Len(s) > 0 => wire[c] # <<>>
      BY <3>1
    <3>3. /\ \A i \in 1..Len(s) : Genuine(s[i], c)
          /\ \A i \in 1..(Len(s) - 1) : Adjoins(s[i], s[i + 1])
          /\ \A i, j \in 1..Len(s) : i < j => Earlier(s[i], s[j])
      BY <2>1, <3>1 DEF StreamOf
    <3>4. /\ Len(s) > 0 => s[Len(s)].pos = Size
          /\ Len(s) > 0 /\ c \notin short => s[1].pos = 1
      BY <2>1, <3>1, <3>2 DEF StreamOf
    <3>5. QED
      BY <3>3, <3>4
  <2>3. \A i \in 1..Len(s) : s[i].pkt < k
    BY <1>0, <1>2, <2>2 DEF Genuine, SentOn
  <2>4. \A i \in 1..Len(w) : G(w[i], c)
    <3> HIDE DEF G
    <3>1. QED
      BY <1>5, <1>6, <1>11, <1>12, <2>2
  <2>5. \A i \in 1..(Len(w) - 1) : Adjoins(w[i], w[i + 1])
    <3> SUFFICES ASSUME NEW i \in 1..(Len(w) - 1)
                 PROVE  Adjoins(w[i], w[i + 1])
      OBVIOUS
    <3>0. i \in Int /\ i + 1 \in 1..Len(w) /\ i \in 1..Len(w)
      BY <1>2, <1>11 DEF Size
    <3>1. CASE i < Len(s)
      <4>1. i \in 1..(Len(s) - 1) /\ i \in 1..Len(s) /\ i + 1 \in 1..Len(s)
        BY <1>2, <3>0, <3>1
      <4>2. QED
        BY <1>11, <2>2, <4>1
    <3>2. CASE i = Len(s)
      <4>1. w[i] = s[i] /\ w[i + 1] = t[1]
        BY <1>2, <1>11, <3>2 DEF Size
      <4>2. QED
        BY <1>2, <1>3, <2>2, <2>3, <3>2, <4>1 DEF Adjoins, Size
    <3>3. CASE i > Len(s)
      <4>1. PICK m \in 1..Size : i = Len(s) + m
        <5>1. i \notin 1..Len(s)
          BY <1>2, <3>0, <3>3
        <5>2. QED
          BY <1>12, <3>0, <5>1
      <4>2. m + 1 \in 1..Size /\ i + 1 = Len(s) + (m + 1)
        <5>1. m \in Int /\ Len(s) \in Int /\ m >= 1 /\ Size \in Int
          BY <1>2, <4>1 DEF Size
        <5>2. i + 1 <= Len(s) + Size
          BY <1>11, <3>0, <5>1
        <5>3. QED
          BY <4>1, <5>1, <5>2
      <4>3. w[i] = t[m] /\ w[i + 1] = t[m + 1]
        BY <1>11, <4>1, <4>2
      <4>4. QED
        BY <1>3, <4>2, <4>3 DEF Adjoins, Size
    <3>4. QED
      BY <1>2, <3>0, <3>1, <3>2, <3>3
  <2>6. \A i, j \in 1..Len(w) : i < j => Earlier(w[i], w[j])
    <3> SUFFICES ASSUME NEW i \in 1..Len(w), NEW j \in 1..Len(w), i < j
                 PROVE  Earlier(w[i], w[j])
      OBVIOUS
    <3>1. CASE j \in 1..Len(s)
      BY <1>2, <1>11, <2>2, <3>1
    <3>2. CASE i \in 1..Len(s) /\ j \notin 1..Len(s)
      <4>1. PICK m \in 1..Size : j = Len(s) + m
        BY <1>12, <3>2
      <4>2. QED
        BY <1>3, <1>11, <2>3, <3>2, <4>1 DEF Earlier
    <3>3. CASE i \notin 1..Len(s) /\ j \notin 1..Len(s)
      <4>1. PICK m \in 1..Size, l \in 1..Size : i = Len(s) + m /\ j = Len(s) + l
        BY <1>12, <3>3
      <4>2. m < l
        BY <1>2, <4>1 DEF Size
      <4>3. QED
        BY <1>3, <1>11, <4>1, <4>2 DEF Earlier
    <3>4. CASE i \notin 1..Len(s) /\ j \in 1..Len(s)
      BY <1>2, <3>4
    <3>5. QED
      BY <3>1, <3>2, <3>3, <3>4
  <2>7. w[Len(w)].pos = Size
    BY <1>3, <1>11 DEF Size
  <2>8. c \notin short => w[1].pos = 1
    <3>1. CASE Len(s) = 0
      <4>1. w[Len(s) + 1] = t[1]
        BY <1>11 DEF Size
      <4>2. QED
        BY <1>3, <3>1, <4>1 DEF Size
    <3>2. CASE Len(s) > 0
      BY <1>2, <1>11, <2>2, <3>2
    <3>3. QED
      BY <1>2, <3>1, <3>2
  <2> HIDE DEF G
  <2>9. QED
    BY <1>7, <1>10, <2>4, <2>5, <2>6, <2>7, <2>8
<1>14. \A i \in 1..Len(w) : \/ i \in 1..Len(s) /\ w[i] = s[i]
                           \/ w[i].pkt = k
  <2> SUFFICES ASSUME NEW i \in 1..Len(w), i \notin 1..Len(s)
               PROVE  w[i].pkt = k
    BY <1>11
  <2>1. PICK m \in 1..Size : i = Len(s) + m
    BY <1>12
  <2>2. QED
    BY <1>3, <1>11, <2>1
<1>15. StreamInv'
  BY <1>9, <1>13 DEF StreamInv
<1>16. \A d \in Conns :
         \A i \in 1..Len(wire'[d]) :
           \/ i \in 1..Len(wire[d]) /\ wire'[d][i] = wire[d][i]
           \/ d = c /\ wire'[d][i].pkt = Len(sent')
  BY <1>0, <1>4, <1>8, <1>10, <1>14
<1>17. QED
  BY <1>0, <1>4, <1>15, <1>16

(* What is left behind the bytes that a recv takes is still such a stream. *)
LEMMA StreamTaken ==
  ASSUME ParserTypeOK, StreamInv, NEW c \in Conns, NEW n \in 1..Size,
         n <= Len(wire[c]),
         wire' = [wire EXCEPT ![c] = SubSeq(@, n + 1, Len(@))],
         short' = IF n < Size THEN short \cup {c} ELSE short, sent' = sent
  PROVE  /\ StreamInv'
         /\ Len(wire'[c]) = Len(wire[c]) - n
         /\ \A i \in 1..Len(wire'[c]) : n + i \in 1..Len(wire[c]) /\ wire'[c][i] = wire[c][n + i]
         /\ \A d \in Conns : d # c => wire'[d] = wire[d]
<1>0. PICK s, r : s = wire[c] /\ r = wire'[c]
  OBVIOUS
<1>1. /\ wire \in [Conns -> Seq(ByteSet)] /\ s \in Seq(ByteSet) /\ Len(s) \in Nat
      /\ n \in Nat /\ n <= Len(s)
  BY <1>0 DEF ParserTypeOK, Size
<1>2. /\ r \in Seq(ByteSet) /\ Len(r) = Len(s) - n
      /\ \A i \in 1..(Len(s) - n) : r[i] = s[n + i]
  <2>1. r = SubSeq(s, n + 1, Len(s))
    BY <1>0, <1>1
  <2>2. QED
    BY <1>1, <2>1, OtherBytes
<1>3. \A d \in Conns : d # c => wire'[d] = wire[d] /\ (d \in short' <=> d \in short)
  BY <1>1
<1>5. \A d \in Conns : d # c => StreamOf(d)'
  BY <1>3 DEF StreamInv, StreamOf, Genuine, SentOn
<1>6. \A i \in 1..Len(r) : n + i \in 1..Len(s) /\ r[i] = s[n + i]
  BY <1>1, <1>2
<1>7. StreamOf(c)
  BY DEF StreamInv
<1>8. StreamOf(c)'
  <2>1. /\ \A i \in 1..Len(s) : Genuine(s[i], c)
        /\ \A i \in 1..(Len(s) - 1) : Adjoins(s[i], s[i + 1])
        /\ \A i, j \in 1..Len(s) : i < j => Earlier(s[i], s[j])
        /\ Len(s) > 0 => s[Len(s)].pos = Size
        /\ Len(s) > 0 /\ c \notin short => s[1].pos = 1
    <3>1. Len(s) > 0 => wire[c] # <<>>
      BY <1>0
    <3>2. QED
      BY <1>0, <1>7, <3>1 DEF StreamOf
  <2>2. \A i \in 1..Len(r) : Genuine(r[i], c)
    BY <1>6, <2>1
  <2>3. \A i \in 1..(Len(r) - 1) : Adjoins(r[i], r[i + 1])
    <3> SUFFICES ASSUME NEW i \in 1..(Len(r) - 1)
                 PROVE  Adjoins(r[i], r[i + 1])
      OBVIOUS
    <3>1. n + i \in 1..(Len(s) - 1) /\ i \in 1..Len(r) /\ i + 1 \in 1..Len(r)
          /\ n + (i + 1) = (n + i) + 1
      BY <1>1, <1>2
    <3>2. r[i] = s[n + i] /\ r[i + 1] = s[(n + i) + 1]
      BY <1>6, <3>1
    <3>3. QED
      BY <2>1, <3>1, <3>2
  <2>4. \A i, j \in 1..Len(r) : i < j => Earlier(r[i], r[j])
    <3> SUFFICES ASSUME NEW i \in 1..Len(r), NEW j \in 1..Len(r), i < j
                 PROVE  Earlier(r[i], r[j])
      OBVIOUS
    <3>1. n + i < n + j
      BY <1>1, <1>2
    <3>2. QED
      BY <1>6, <2>1, <3>1
  <2>5. Len(r) > 0 => r[Len(r)].pos = Size
    BY <1>1, <1>2, <1>6, <2>1
  <2>6. Len(r) > 0 /\ c \notin short' => r[1].pos = 1
    <3> SUFFICES ASSUME Len(r) > 0, c \notin short'
                 PROVE  r[1].pos = 1
      OBVIOUS
    <3>1. n = 5 /\ c \notin short /\ Len(s) >= 6
      BY <1>1, <1>2 DEF Size
    <3>2. /\ s[1].pos = 1 /\ Adjoins(s[1], s[2]) /\ Adjoins(s[2], s[3])
          /\ Adjoins(s[3], s[4]) /\ Adjoins(s[4], s[5]) /\ Adjoins(s[5], s[6])
      <4>1. /\ 1 \in 1..(Len(s) - 1) /\ 2 \in 1..(Len(s) - 1) /\ 3 \in 1..(Len(s) - 1)
            /\ 4 \in 1..(Len(s) - 1) /\ 5 \in 1..(Len(s) - 1)
        BY <1>1, <3>1
      <4>2. /\ Adjoins(s[1], s[1 + 1]) /\ Adjoins(s[2], s[2 + 1]) /\ Adjoins(s[3], s[3 + 1])
            /\ Adjoins(s[4], s[4 + 1]) /\ Adjoins(s[5], s[5 + 1])
        BY <2>1, <4>1
      <4>3. QED
        BY <1>1, <2>1, <3>1, <4>2
    <3>3. s[6].pos = 1
      BY <3>2 DEF Adjoins, Size
    <3>4. r[1] = s[5 + 1]
      BY <1>1, <1>2, <1>6, <3>1
    <3>5. QED
      BY <3>3, <3>4
  <2>7. r # <<>> => Len(r) > 0
    BY <1>2
  <2>8. QED
    <3>1. /\ \A i \in 1..Len(wire'[c]) : Genuine(wire'[c][i], c)
          /\ \A i \in 1..(Len(wire'[c]) - 1) : Adjoins(wire'[c][i], wire'[c][i + 1])
          /\ \A i, j \in 1..Len(wire'[c]) : i < j => Earlier(wire'[c][i], wire'[c][j])
          /\ wire'[c] # <<>> => wire'[c][Len(wire'[c])].pos = Size
          /\ wire'[c] # <<>> /\ c \notin short' => wire'[c][1].pos = 1
          => StreamOf(c)'
      BY DEF StreamOf, Genuine, SentOn, Adjoins, Earlier
    <3>2. QED
      BY <1>0, <2>2, <2>3, <2>4, <2>5, <2>6, <2>7, <3>1
<1>9. QED
  BY <1>0, <1>2, <1>3, <1>5, <1>6, <1>8 DEF StreamInv

-----------------------------------------------------------------------------
(* Five bytes in a row, the first of which passes for a head, the second   *)
(* for a command and the last for a tail, are one packet.                  *)
LEMMA Window ==
  ASSUME ParserTypeOK, NEW c \in Conns, BufIs(c), MarkersMatch, buf[2].val \in Commands
  PROVE  \A i \in 1..Size : buf[i].pkt = buf[2].pkt /\ buf[i].pos = i
<1>1. /\ 1 \in 1..Size /\ 2 \in 1..Size /\ 3 \in 1..Size /\ 4 \in 1..Size /\ 5 \in 1..Size
      /\ 1 \in 1..(Size - 1) /\ 2 \in 1..(Size - 1) /\ 3 \in 1..(Size - 1) /\ 4 \in 1..(Size - 1)
  BY DEF Size
<1>2. /\ Genuine(buf[1], c) /\ Genuine(buf[2], c) /\ Genuine(buf[5], c)
  BY <1>1 DEF BufIs
<1>3. /\ Adjoins(buf[1], buf[1 + 1]) /\ Adjoins(buf[2], buf[2 + 1])
      /\ Adjoins(buf[3], buf[3 + 1]) /\ Adjoins(buf[4], buf[4 + 1])
  BY <1>1 DEF BufIs
<1>4. /\ Adjoins(buf[1], buf[2]) /\ Adjoins(buf[2], buf[3])
      /\ Adjoins(buf[3], buf[4]) /\ Adjoins(buf[4], buf[5])
  BY <1>3
<1>5. buf[1].val = HEAD /\ buf[5].val = TAIL /\ buf[1].pos \in 1..Size
  <2>1. buf[1] \in ByteSet
    BY <1>1 DEF ParserTypeOK
  <2>2. QED
    BY <2>1 DEF MarkersMatch, Size, ByteSet
<1>6. HEAD # TAIL /\ TAIL \notin Commands
  BY ParserAssumption
<1>7. buf[1].pos = 1
  <2>1. CASE buf[1].pos = 2
    BY <1>2, <1>4, <1>5, <1>6, <2>1 DEF Adjoins, Genuine, Size
  <2>2. CASE buf[1].pos = 3
    BY <1>2, <1>4, <1>5, <1>6, <2>2 DEF Adjoins, Genuine, Size
  <2>3. CASE buf[1].pos = 4
    BY <1>2, <1>4, <1>5, <1>6, <2>3 DEF Adjoins, Genuine, Size
  <2>4. CASE buf[1].pos = 5
    BY <1>2, <1>4, <1>5, <1>6, <2>4 DEF Adjoins, Genuine, Size
  <2>5. QED
    BY <1>5, <2>1, <2>2, <2>3, <2>4 DEF Size
<1>8. /\ buf[2].pos = 2 /\ buf[2].pkt = buf[1].pkt /\ buf[3].pos = 3 /\ buf[3].pkt = buf[1].pkt
      /\ buf[4].pos = 4 /\ buf[4].pkt = buf[1].pkt /\ buf[5].pos = 5 /\ buf[5].pkt = buf[1].pkt
  BY <1>4, <1>7 DEF Adjoins, Size
<1>9. \A i \in 1..Size : i = 1 \/ i = 2 \/ i = 3 \/ i = 4 \/ i = 5
  BY DEF Size
<1>10. QED
  BY <1>7, <1>8, <1>9

(* A packet that is behind the bytes on its way stays so.                  *)
LEMMA BehindSends ==
  ASSUME ParserTypeOK, StreamInv, NEW c \in Conns, ClientSends(c),
         NEW k \in 0..Len(sent), Behind(k)
  PROVE  Behind(k)'
<1>1. Len(sent) \in Nat
  BY DEF ParserTypeOK
<1>2. /\ Len(sent') = Len(sent) + 1
      /\ \A l \in 1..Len(sent) : sent'[l] = sent[l]
      /\ \A d \in Conns :
           \A i \in 1..Len(wire'[d]) :
             \/ i \in 1..Len(wire[d]) /\ wire'[d][i] = wire[d][i]
             \/ d = c /\ wire'[d][i].pkt = Len(sent')
  BY StreamSends
<1>3. \A d \in Conns : SentOn(k, d)' => SentOn(k, d)
  BY <1>1, <1>2 DEF SentOn
<1>4. SUFFICES ASSUME NEW d \in Conns, SentOn(k, d)', NEW i \in 1..Len(wire'[d])
               PROVE  k < wire'[d][i].pkt
  BY DEF Behind
<1>5. SentOn(k, d)
  BY <1>3, <1>4
<1>6. CASE i \in 1..Len(wire[d]) /\ wire'[d][i] = wire[d][i]
  BY <1>5, <1>6 DEF Behind
<1>7. CASE wire'[d][i].pkt = Len(sent')
  BY <1>1, <1>2, <1>7
<1>8. QED
  BY <1>2, <1>6, <1>7

LEMMA BehindTaken ==
  ASSUME ParserTypeOK, StreamInv, NEW p \in Conns, RecvBytes(p), NEW k, Behind(k)
  PROVE  Behind(k)'
<1>1. PICK n \in 1..Size :
        /\ n <= Len(wire[fd[p]])
        /\ wire' = [wire EXCEPT ![fd[p]] = SubSeq(@, n + 1, Len(@))]
        /\ short' = IF n < Size THEN short \cup {fd[p]} ELSE short
  BY DEF RecvBytes
<1>2. fd[p] \in Conns /\ sent' = sent
  BY DEF RecvBytes
<1>3. /\ \A i \in 1..Len(wire'[fd[p]]) :
           n + i \in 1..Len(wire[fd[p]]) /\ wire'[fd[p]][i] = wire[fd[p]][n + i]
      /\ \A d \in Conns : d # fd[p] => wire'[d] = wire[d]
  BY <1>1, <1>2, StreamTaken
<1>4. QED
  BY <1>2, <1>3 DEF Behind, SentOn

LEMMA BehindQuiet ==
  ASSUME UNCHANGED <<wire, sent>>, NEW k, Behind(k)
  PROVE  Behind(k)'
  BY DEF Behind, SentOn

(* A step that leaves the buffer, the streams and the pushes alone. *)
LEMMA BufQuiet ==
  ASSUME UNCHANGED <<buf, wire, sent, pushed>>, NEW c \in Conns, BufIs(c)
  PROVE  BufIs(c)'
  BY DEF BufIs, Genuine, SentOn, PushedPackets, PacketOf

LEMMA BufSends ==
  ASSUME ParserTypeOK, StreamInv, \A k \in PushedPackets : k \in 1..Len(sent),
         NEW c \in Conns, ClientSends(c), NEW d \in Conns, BufIs(d)
  PROVE  BufIs(d)'
<1>1. Len(sent) \in Nat
  BY DEF ParserTypeOK
<1>2. /\ Len(sent') = Len(sent) + 1
      /\ \A l \in 1..Len(sent) : sent'[l] = sent[l]
      /\ \A i \in 1..Len(wire'[d]) :
             \/ i \in 1..Len(wire[d]) /\ wire'[d][i] = wire[d][i]
             \/ wire'[d][i].pkt = Len(sent')
  BY StreamSends
<1>3. UNCHANGED <<buf, pushed>>
  BY DEF ClientSends, shared
<1>4. \A k \in 1..Len(sent) : SentOn(k, d)' <=> SentOn(k, d)
  BY <1>1, <1>2 DEF SentOn
<1>5. \A i \in 1..Size : /\ Genuine(buf[i], d) /\ buf[i].pkt \in 1..Len(sent)
                         /\ buf[i].pkt \in 1..Len(sent') /\ sent'[buf[i].pkt].conn = d
  BY <1>1, <1>2 DEF BufIs, Genuine, SentOn
<1>6. \A i \in 1..Size : Genuine(buf[i], d)'
  BY <1>3, <1>5 DEF Genuine, SentOn
<1>7. \A i \in 1..Len(wire'[d]) : Earlier(buf[Size], wire'[d][i])
  <2> SUFFICES ASSUME NEW i \in 1..Len(wire'[d])
               PROVE  Earlier(buf[Size], wire'[d][i])
    OBVIOUS
  <2>1. CASE i \in 1..Len(wire[d]) /\ wire'[d][i] = wire[d][i]
    BY <2>1 DEF BufIs
  <2>2. CASE wire'[d][i].pkt = Len(sent')
    <3>1. buf[Size].pkt \in 1..Len(sent)
      BY <1>5 DEF Size
    <3>2. QED
      BY <1>1, <1>2, <2>2, <3>1 DEF Earlier
  <2>3. QED
    BY <1>2, <2>1, <2>2
<1>8. PushedPackets' = PushedPackets
  BY <1>3 DEF PushedPackets, PacketOf
<1>9. \A k \in PushedPackets : SentOn(k, d)' => k < buf[1].pkt
  BY <1>4 DEF BufIs
<1>10. QED
  BY <1>3, <1>6, <1>7, <1>8, <1>9 DEF BufIs, Adjoins, Earlier

(* A recv of five bytes puts the first five on their way into buf. *)
LEMMA BufFilled ==
  ASSUME ParserTypeOK, NEW c \in Conns, Len(wire[c]) >= Size,
         buf' = Fill(SubSeq(wire[c], 1, Size))
  PROVE  \A i \in 1..Size : buf'[i] = wire[c][i]
<1>1. wire[c] \in Seq(ByteSet) /\ Len(wire[c]) \in Nat /\ Size \in Nat /\ Size \in 1..Size
  BY DEF ParserTypeOK, Size
<1>2. /\ SubSeq(wire[c], 1, Size) \in Seq(ByteSet) /\ Len(SubSeq(wire[c], 1, Size)) = Size
      /\ \A i \in 1..Size : SubSeq(wire[c], 1, Size)[i] = wire[c][i]
  BY <1>1, FirstBytes
<1>3. buf \in [1..Size -> ByteSet]
  BY DEF ParserTypeOK
<1>4. \A i \in 1..Size : Fill(SubSeq(wire[c], 1, Size))[i] = SubSeq(wire[c], 1, Size)[i]
  BY <1>1, <1>2, <1>3, FillBytes
<1>5. QED
  BY <1>2, <1>4

(* They are such five bytes. *)
LEMMA BufTaken ==
  ASSUME ParserTypeOK, StreamInv, \A k \in PushedPackets : Behind(k),
         NEW c \in Conns, Len(wire[c]) >= Size,
         buf' = Fill(SubSeq(wire[c], 1, Size)),
         wire' = [wire EXCEPT ![c] = SubSeq(@, Size + 1, Len(@))],
         short' = short, UNCHANGED <<sent, pushed>>
  PROVE  /\ BufIs(c)'
         /\ \A i \in 1..Size : buf'[i] = wire[c][i]
<1>1. wire[c] \in Seq(ByteSet) /\ Len(wire[c]) \in Nat /\ Size \in Nat /\ Size \in 1..Size
  BY DEF ParserTypeOK, Size
<1>3. \A i \in 1..Size : buf'[i] = wire[c][i]
  BY BufFilled
<1>4. /\ Len(wire'[c]) = Len(wire[c]) - Size
      /\ \A i \in 1..Len(wire'[c]) :
           Size + i \in 1..Len(wire[c]) /\ wire'[c][i] = wire[c][Size + i]
  <2>1. /\ Size <= Len(wire[c]) /\ short' = IF Size < Size THEN short \cup {c} ELSE short
        /\ sent' = sent
    BY <1>1
  <2>2. QED
    BY <1>1, <2>1, StreamTaken
<1>5. /\ \A i \in 1..Len(wire[c]) : Genuine(wire[c][i], c)
      /\ \A i \in 1..(Len(wire[c]) - 1) : Adjoins(wire[c][i], wire[c][i + 1])
      /\ \A i, j \in 1..Len(wire[c]) : i < j => Earlier(wire[c][i], wire[c][j])
  BY DEF StreamInv, StreamOf
<1>6. \A i \in 1..Size : i \in 1..Len(wire[c]) /\ Genuine(buf'[i], c)
  BY <1>1, <1>3, <1>5
<1>7. \A i \in 1..(Size - 1) : Adjoins(buf'[i], buf'[i + 1])
  <2> SUFFICES ASSUME NEW i \in 1..(Size - 1)
               PROVE  Adjoins(buf'[i], buf'[i + 1])
    OBVIOUS
  <2>1. i \in 1..Size /\ i + 1 \in 1..Size /\ i \in 1..(Len(wire[c]) - 1)
    BY <1>1
  <2>2. QED
    BY <1>3, <1>5, <2>1
<1>8. \A i \in 1..Len(wire'[c]) : Earlier(buf'[Size], wire'[c][i])
  <2> SUFFICES ASSUME NEW i \in 1..Len(wire'[c])
               PROVE  Earlier(buf'[Size], wire'[c][i])
    OBVIOUS
  <2>1. Size + i \in 1..Len(wire[c]) /\ Size \in 1..Len(wire[c]) /\ Size < Size + i
    BY <1>1, <1>4
  <2>2. QED
    BY <1>1, <1>3, <1>4, <1>5, <2>1
<1>9. PushedPackets' = PushedPackets
  BY DEF PushedPackets, PacketOf
<1>10. \A k \in PushedPackets : SentOn(k, c) => k < buf'[1].pkt
  <2>1. 1 \in 1..Len(wire[c]) /\ 1 \in 1..Size
    BY <1>1 DEF Size
  <2>2. QED
    BY <1>3, <2>1 DEF Behind
<1>11. /\ \A i \in 1..Size : Genuine(buf'[i], c)
       /\ \A i \in 1..(Size - 1) : Adjoins(buf'[i], buf'[i + 1])
       /\ \A i \in 1..Len(wire'[c]) : Earlier(buf'[Size], wire'[c][i])
       /\ \A k \in PushedPackets' : SentOn(k, c) => k < buf'[1].pkt
       => BufIs(c)'
  BY DEF BufIs, Genuine, SentOn, Adjoins, Earlier
<1>12. QED
  BY <1>3, <1>6, <1>7, <1>8, <1>9, <1>10, <1>11

-----------------------------------------------------------------------------
(* What has disturbed the buffer has done so for good. *)
LEMMA Disturbed ==
  ASSUME [ParserNext]_parserVars, Undisturbed'
  PROVE  Undisturbed
<1>1. CASE UNCHANGED past
  BY <1>1 DEF past, Undisturbed
<1>2. ASSUME NEW p \in Conns, NEW n, RecvReturns(p, n) PROVE Undisturbed
  BY <1>2 DEF RecvReturns, Undisturbed
<1>3. ASSUME NEW p \in Conns, Recv(p) PROVE Undisturbed
  BY <1>2, <1>3 DEF Recv, RecvBytes, RecvEof, RecvError
<1>4. QED
  BY <1>1, <1>3
  DEF ParserNext, ParserStep, parserVars, HandleConnection, FailedAccept, ClientSends,
      ClientEnds, CloseCurrent, CallRecv, StoreCount, CheckLength, CheckMarkers, Switch,
      Push, TestCount, Leave, OnlyLooks, past

LEMMA HandInit == ParserInit => HandInv
  BY DEF ParserInit, HandInv, HandOf, InHand

(* The steps that leave every thread in hand where it is. *)
LEMMA HandOthers ==
  ASSUME ParserTypeOK, HandInv, Undisturbed,
         \A d \in Conns : BufIs(d) => BufIs(d)',
         UNCHANGED <<buf, n_read_bytes, ret, taken>>,
         \A q \in Conns : InHand(q) \/ InHand(q)' => UNCHANGED <<pc[q], fd[q]>>
  PROVE  HandInv'
<1>1. \A q \in Conns : InHand(q)' => InHand(q)
  BY DEF InHand
<1>2. ASSUME NEW q \in Conns PROVE HandOf(q)'
  <2>1. HandOf(q)
    BY DEF HandInv
  <2>2. CASE InHand(q)'
    <3>1. pc'[q] = pc[q] /\ fd'[q] = fd[q] /\ InHand(q)
      BY <1>1, <2>2
    <3>2. QED
      BY <2>1, <3>1 DEF HandOf, InHand, MarkersMatch
  <2>3. CASE ~InHand(q)'
    BY <2>3 DEF HandOf, InHand
  <2>4. QED
    BY <2>2, <2>3
<1>3. \A p, q \in Conns : InHand(p)' /\ InHand(q)' => p = q
  BY <1>1 DEF HandInv
<1>4. QED
  BY <1>2, <1>3 DEF HandInv

(* The steps of the one thread in hand. *)
LEMMA HandStep ==
  ASSUME ParserTypeOK, HandInv, Undisturbed, NEW p \in Conns, InHand(p),
         UNCHANGED <<buf, wire, sent, pushed, fd, ret>>,
         \A q \in Conns : q # p => pc'[q] = pc[q],
         pc'[p] \in {"length", "markers", "switch"} => n_read_bytes' = ret[p],
         pc'[p] \in {"markers", "switch", "push"} => ret[p] = Size,
         pc'[p] \in {"switch", "push"} => MarkersMatch,
         pc'[p] = "push" => taken'[p] = buf /\ buf[2].val \in Commands
  PROVE  HandInv'
<1>1. \A q \in Conns : InHand(q) => q = p
  BY DEF HandInv
<1>2. \A q \in Conns : InHand(q)' => q = p
  BY <1>1 DEF InHand
<1>3. \A d \in Conns : BufIs(d) => BufIs(d)'
  BY BufQuiet
<1>4. HandOf(p)'
  <2>1. HandOf(p)
    BY DEF HandInv
  <2>2. MarkersMatch' = MarkersMatch
    BY DEF MarkersMatch
  <2>3. InHand(p)' => InHand(p)
    OBVIOUS
  <2>4. QED
    BY <1>3, <2>1, <2>2, <2>3 DEF HandOf
<1>5. ASSUME NEW q \in Conns, q # p PROVE HandOf(q)'
  BY <1>2, <1>5 DEF HandOf, InHand
<1>6. QED
  BY <1>2, <1>4, <1>5 DEF HandInv

(* The return of a recv, the only one whose thread is then in hand. *)
LEMMA HandReturns ==
  ASSUME ParserTypeOK, Undisturbed, Undisturbed', NEW p \in Conns, NEW n \in 0..Size,
         RecvReturns(p, n), fd' = fd,
         n = Size => \E c \in Conns : fd[p] = c /\ BufIs(c)'
  PROVE  HandInv'
<1>1. /\ pc'[p] = "store" /\ \A q \in Conns : q # p => pc'[q] = pc[q]
      /\ ret'[p] = n /\ \A q \in Conns : ~InHand(q)
  BY DEF RecvReturns, Goto, Undisturbed, ParserTypeOK
<1>2. \A q \in Conns : InHand(q)' => q = p
  BY <1>1 DEF InHand
<1>3. \A q \in Conns : q # p => HandOf(q)'
  BY <1>1, <1>2 DEF HandOf, InHand
<1>4. HandOf(p)'
  BY <1>1 DEF HandOf, InHand
<1>5. QED
  BY <1>2, <1>3, <1>4 DEF HandInv

LEMMA HandTaken ==
  ASSUME ParserTypeOK, StreamInv, PushInv, Undisturbed, Undisturbed',
         NEW p \in Conns, RecvBytes(p)
  PROVE  HandInv'
<1>1. PICK n \in 1..Size :
        /\ n <= Len(wire[fd[p]])
        /\ RecvReturns(p, n)
        /\ buf' = Fill(SubSeq(wire[fd[p]], 1, n))
        /\ wire' = [wire EXCEPT ![fd[p]] = SubSeq(@, n + 1, Len(@))]
        /\ short' = IF n < Size THEN short \cup {fd[p]} ELSE short
  BY DEF RecvBytes
<1>2. UNCHANGED <<sent, pushed, fd>> /\ n \in 0..Size
  BY DEF RecvBytes, Size
<1>3. ASSUME n = Size PROVE \E c \in Conns : fd[p] = c /\ BufIs(c)'
  <2>1. PICK c \in Conns : c = fd[p]
    BY DEF RecvBytes
  <2>2. \A k \in PushedPackets : Behind(k)
    BY DEF PushInv
  <2>3. short' = short /\ Len(wire[c]) >= Size
    BY <1>1, <1>3, <2>1 DEF Size, ParserTypeOK
  <2>4. BufIs(c)'
    BY <1>1, <1>2, <1>3, <2>1, <2>2, <2>3, BufTaken
  <2>5. QED
    BY <2>1, <2>4
<1>4. QED
  BY <1>1, <1>2, <1>3, HandReturns

LEMMA HandNext ==
  ASSUME ParserTypeOK, StreamInv, HandInv, PushInv, [ParserNext]_parserVars
  PROVE  HandInv'
<1> SUFFICES ASSUME Undisturbed'
             PROVE  HandInv'
  BY DEF HandInv
<1>0. CASE Undisturbed
  <2> USE <1>0
  <2>1. ASSUME NEW c \in Conns, HandleConnection(c) PROVE HandInv'
    <3>1. UNCHANGED <<buf, n_read_bytes, ret, taken, wire, sent, pushed, fd>>
      BY <2>1 DEF HandleConnection, shared, net
    <3>2. pc[c] = "unborn" /\ pc' = [pc EXCEPT ![c] = "call"]
      BY <2>1 DEF HandleConnection, Goto
    <3>3. \A q \in Conns : InHand(q) \/ InHand(q)' => UNCHANGED <<pc[q], fd[q]>>
      BY <3>1, <3>2 DEF InHand, ParserTypeOK
    <3>4. QED
      BY <3>1, <3>3, BufQuiet, HandOthers
  <2>2. ASSUME NEW c \in Conns, ClientSends(c) PROVE HandInv'
    <3>1. UNCHANGED <<buf, n_read_bytes, ret, taken, pc, fd>>
      BY <2>2 DEF ClientSends, shared, thread
    <3>2. \A k \in PushedPackets : k \in 1..Len(sent)
      BY DEF PushInv
    <3>3. \A d \in Conns : BufIs(d) => BufIs(d)'
      BY <2>2, <3>2, BufSends
    <3>4. QED
      BY <3>1, <3>3, HandOthers
  <2>3. ASSUME NEW c \in Conns, ClientEnds(c) PROVE HandInv'
    <3>1. UNCHANGED <<buf, n_read_bytes, ret, taken, wire, sent, pushed, pc, fd>>
      BY <2>3 DEF ClientEnds, shared, thread
    <3>2. QED
      BY <3>1, BufQuiet, HandOthers
  <2>4. ASSUME CloseCurrent PROVE HandInv'
    <3>1. UNCHANGED <<buf, n_read_bytes, ret, taken, wire, sent, pushed, pc, fd>>
      BY <2>4 DEF CloseCurrent, shared, thread, net
    <3>2. QED
      BY <3>1, BufQuiet, HandOthers
  <2>5. ASSUME NEW p \in Conns, CallRecv(p) PROVE HandInv'
    <3>1. UNCHANGED <<buf, n_read_bytes, ret, taken, wire, sent, pushed>>
      BY <2>5 DEF CallRecv, shared, net
    <3>2. /\ pc[p] = "call" /\ pc' = [pc EXCEPT ![p] = "recv"]
          /\ fd' = [fd EXCEPT ![p] = current]
      BY <2>5 DEF CallRecv, Goto
    <3>3. \A q \in Conns : InHand(q) \/ InHand(q)' => UNCHANGED <<pc[q], fd[q]>>
      BY <3>2 DEF InHand, ParserTypeOK
    <3>4. QED
      BY <3>1, <3>3, BufQuiet, HandOthers
  <2>6. ASSUME NEW p \in Conns, Recv(p) PROVE HandInv'
    <3>1. CASE RecvBytes(p)
      BY <3>1, HandTaken
    <3>2. CASE RecvEof(p)
      <4>1. RecvReturns(p, 0) /\ fd' = fd /\ 0 \in 0..Size /\ 0 # Size
        BY <3>2 DEF RecvEof, Size
      <4>2. QED
        BY <4>1, HandReturns
    <3>3. CASE RecvError(p)
      BY <3>3 DEF RecvError, RecvReturns, Undisturbed
    <3>4. QED
      BY <2>6, <3>1, <3>2, <3>3 DEF Recv
  <2>7. ASSUME NEW p \in Conns, StoreCount(p) PROVE HandInv'
    <3>1. UNCHANGED <<buf, wire, sent, pushed, fd, ret>> /\ n_read_bytes' = ret[p]
      BY <2>7 DEF StoreCount, net
    <3>2. /\ pc[p] = "store" /\ pc'[p] = "length"
          /\ \A q \in Conns : q # p => pc'[q] = pc[q]
      BY <2>7 DEF StoreCount, Goto, ParserTypeOK
    <3>3. InHand(p)
      BY <3>2 DEF InHand
    <3>4. QED
      BY <3>1, <3>2, <3>3, HandStep
  <2>8. ASSUME NEW p \in Conns, CheckLength(p) PROVE HandInv'
    <3>1. UNCHANGED <<buf, wire, sent, pushed, fd, ret, n_read_bytes>>
      BY <2>8 DEF CheckLength, OnlyLooks, shared, net
    <3>2. /\ pc[p] = "length" /\ pc'[p] \in {"count", "markers"}
          /\ pc'[p] = "markers" => n_read_bytes \notin 0..(Size - 1)
          /\ \A q \in Conns : q # p => pc'[q] = pc[q]
      BY <2>8 DEF CheckLength, Goto, ParserTypeOK
    <3>3. InHand(p)
      BY <3>2 DEF InHand
    <3>4. ret[p] \in 0..Size /\ n_read_bytes = ret[p]
      BY <3>2, <3>3 DEF HandInv, HandOf
    <3>5. pc'[p] = "markers" => ret[p] = Size
      BY <3>2, <3>4 DEF Size
    <3>6. QED
      BY <3>1, <3>2, <3>3, <3>4, <3>5, HandStep
  <2>9. ASSUME NEW p \in Conns, CheckMarkers(p) PROVE HandInv'
    <3>1. UNCHANGED <<buf, wire, sent, pushed, fd, ret, n_read_bytes>>
      BY <2>9 DEF CheckMarkers, OnlyLooks, shared, net
    <3>2. /\ pc[p] = "markers" /\ pc'[p] \in {"count", "switch"}
          /\ pc'[p] = "switch" => MarkersMatch
          /\ \A q \in Conns : q # p => pc'[q] = pc[q]
      BY <2>9 DEF CheckMarkers, Goto, ParserTypeOK
    <3>3. InHand(p)
      BY <3>2 DEF InHand
    <3>4. ret[p] = Size /\ n_read_bytes = ret[p]
      BY <3>2, <3>3 DEF HandInv, HandOf
    <3>5. QED
      BY <3>1, <3>2, <3>3, <3>4, HandStep
  <2>10. ASSUME NEW p \in Conns, Switch(p) PROVE HandInv'
    <3>1. UNCHANGED <<buf, wire, sent, pushed, fd, ret, n_read_bytes>>
      BY <2>10 DEF Switch, shared, net
    <3>2. /\ pc[p] = "switch" /\ pc'[p] \in {"count", "push"}
          /\ pc'[p] = "push" => buf[2].val \in Commands /\ taken'[p] = buf
          /\ \A q \in Conns : q # p => pc'[q] = pc[q]
      BY <2>10 DEF Switch, Goto, ParserTypeOK
    <3>3. InHand(p)
      BY <3>2 DEF InHand
    <3>4. ret[p] = Size /\ n_read_bytes = ret[p] /\ MarkersMatch
      BY <3>2, <3>3 DEF HandInv, HandOf
    <3>5. QED
      BY <3>1, <3>2, <3>3, <3>4, HandStep
  <2>11. ASSUME NEW p \in Conns, Push(p) PROVE HandInv'
    <3>1. /\ pc[p] = "push" /\ pc'[p] = "count"
          /\ \A q \in Conns : q # p => pc'[q] = pc[q]
      BY <2>11 DEF Push, Goto, ParserTypeOK
    <3>2. \A q \in Conns : ~InHand(q)'
      <4>1. InHand(p)
        BY <3>1 DEF InHand
      <4>2. \A q \in Conns : InHand(q) => q = p
        BY <4>1 DEF HandInv
      <4>3. QED
        BY <3>1, <4>2 DEF InHand
    <3>3. QED
      BY <3>2 DEF HandInv, HandOf, InHand
  <2>12. ASSUME NEW p \in Conns, TestCount(p) \/ Leave(p) PROVE HandInv'
    <3>1. UNCHANGED <<buf, n_read_bytes, ret, taken, wire, sent, pushed, fd>>
      BY <2>12 DEF TestCount, Leave, OnlyLooks, shared, net
    <3>2. /\ pc[p] \in {"count", "leave"} /\ pc'[p] \in {"call", "leave", "left"}
          /\ \A q \in Conns : q # p => pc'[q] = pc[q]
      BY <2>12 DEF TestCount, Leave, Goto, ParserTypeOK
    <3>3. \A q \in Conns : InHand(q) \/ InHand(q)' => UNCHANGED <<pc[q], fd[q]>>
      BY <3>1, <3>2 DEF InHand
    <3>4. QED
      BY <3>1, <3>3, BufQuiet, HandOthers
  <2>13. ASSUME FailedAccept PROVE HandInv'
    <3>1. UNCHANGED <<buf, n_read_bytes, ret, taken, wire, sent, pushed, pc, fd>>
      BY <2>13 DEF FailedAccept, shared, thread, net
    <3>2. QED
      BY <3>1, BufQuiet, HandOthers
  <2>14. CASE UNCHANGED parserVars
    <3>1. UNCHANGED <<buf, n_read_bytes, ret, taken, wire, sent, pushed, pc, fd>>
      BY <2>14 DEF parserVars, shared, net, thread
    <3>2. QED
      BY <3>1, BufQuiet, HandOthers
  <2>15. QED
    BY <2>1, <2>2, <2>3, <2>4, <2>5, <2>6, <2>7, <2>8, <2>9, <2>10, <2>11, <2>12, <2>13,
       <2>14
    DEF ParserNext, ParserStep
<1>1. CASE ~Undisturbed
  BY <1>1, Disturbed
<1>2. QED
  BY <1>0, <1>1

-----------------------------------------------------------------------------
LEMMA PushInit == ParserInit => PushInv
  BY DEF ParserInit, PushInv, PushedPackets, PacketOf, WholePackets, PushedOnceInOrder

(* The steps that push nothing. *)
LEMMA PushOthers ==
  ASSUME ParserTypeOK, PushInv, Undisturbed, pushed' = pushed,
         \A k \in 1..Len(sent) : /\ k \in 1..Len(sent') /\ sent'[k] = sent[k]
                                 /\ Behind(k) => Behind(k)'
  PROVE  PushInv'
<1>1. PushedPackets' = PushedPackets
  BY DEF PushedPackets, PacketOf
<1>2. \A k \in PushedPackets' : k \in 1..Len(sent') /\ Behind(k)'
  BY <1>1 DEF PushInv
<1>3. \A j \in 1..Len(pushed) : PacketOf(j)' = PacketOf(j) /\ PacketOf(j) \in 1..Len(sent)
  BY DEF PushInv, PushedPackets, PacketOf
<1>4. WholePackets'
  BY <1>3 DEF PushInv, WholePackets, FromOnePacket, PacketOf
<1>5. PushedOnceInOrder'
  <2>1. PushedOnceInOrder /\ Len(pushed') = Len(pushed)
    BY DEF PushInv
  <2>2. QED
    BY <1>3, <2>1 DEF PushedOnceInOrder, SameConnection, Undisturbed
<1>6. QED
  BY <1>2, <1>4, <1>5 DEF PushInv

(* A push of the one thread in hand. *)
LEMMA PushPush ==
  ASSUME ParserTypeOK, HandInv, PushInv, Undisturbed, NEW p \in Conns, Push(p)
  PROVE  PushInv'
<1>a. /\ pc[p] = "push" /\ pushed' = Append(pushed, taken[p])
      /\ UNCHANGED <<wire, sent>>
  BY DEF Push, Goto, net
<1>b. buf[2].val \in Commands /\ pushed' = Append(pushed, buf)
  BY <1>a DEF HandInv, HandOf
<1>0. PICK n, k : n = Len(pushed) /\ k = buf[2].pkt
  OBVIOUS
<1>1. ret[p] = Size /\ MarkersMatch /\ \E c \in Conns : fd[p] = c /\ BufIs(c)
  BY <1>a DEF HandInv, HandOf, InHand
<1>2. PICK c \in Conns : BufIs(c)
  BY <1>1
<1>3. \A i \in 1..Size : buf[i].pkt = k /\ buf[i].pos = i
  BY <1>0, <1>1, <1>2, <1>b, Window
<1>4. n \in Nat /\ 1 \in 1..Size /\ 2 \in 1..Size /\ Size \in 1..Size
  BY <1>0 DEF ParserTypeOK, Size
<1>5. SentOn(k, c)
  BY <1>0, <1>2, <1>4 DEF BufIs, Genuine
<1>6. k \in 1..Len(sent) /\ k # 0
  BY <1>5 DEF SentOn
<1>7. Behind(k)
  <2>1. \A i \in 1..Len(wire[c]) : k < wire[c][i].pkt
    <3> SUFFICES ASSUME NEW i \in 1..Len(wire[c])
                 PROVE  k < wire[c][i].pkt
      OBVIOUS
    <3>1. Earlier(buf[Size], wire[c][i])
      BY <1>2 DEF BufIs
    <3>2. buf[Size].pkt = k /\ buf[Size].pos = Size
      BY <1>3, <1>4
    <3>3. wire[c][i] \in ByteSet
      BY DEF ParserTypeOK
    <3>4. QED
      BY <3>1, <3>2, <3>3 DEF Earlier, ByteSet, Size
  <2>2. \A d \in Conns : SentOn(k, d) => d = c
    BY <1>5 DEF SentOn
  <2>3. QED
    BY <2>1, <2>2 DEF Behind
<1>8. \A l \in PushedPackets : SentOn(l, c) => l < k
  BY <1>2, <1>3, <1>4 DEF BufIs
<1>9. /\ Len(pushed') = n + 1 /\ pushed'[n + 1] = buf
      /\ \A j \in 1..n : pushed'[j] = pushed[j]
  BY <1>0, <1>b, Appended DEF ParserTypeOK
<1>10. /\ PacketOf(n + 1)' = k
       /\ \A j \in 1..n : PacketOf(j)' = PacketOf(j) /\ PacketOf(j) \in PushedPackets
  <2>1. PacketOf(n + 1)' = k
    BY <1>0, <1>9 DEF PacketOf
  <2>2. ASSUME NEW j \in 1..n PROVE PacketOf(j)' = PacketOf(j) /\ PacketOf(j) \in PushedPackets
    BY <1>0, <1>9 DEF PacketOf, PushedPackets
  <2>3. QED
    BY <2>1, <2>2
<1>11. \A j \in 1..Len(pushed') : j \in 1..n \/ j = n + 1
  BY <1>4, <1>9
<1>12. PushedPackets' \subseteq PushedPackets \cup {k}
  <2> SUFFICES ASSUME NEW l \in PushedPackets'
               PROVE  l \in PushedPackets \cup {k}
    OBVIOUS
  <2>1. PICK j \in 1..Len(pushed') : l = PacketOf(j)'
    BY DEF PushedPackets
  <2>2. QED
    BY <1>10, <1>11, <2>1
<1>13. \A l \in PushedPackets' : l \in 1..Len(sent') /\ Behind(l)'
  BY <1>6, <1>7, <1>12, <1>a, BehindQuiet DEF PushInv
<1>14. WholePackets'
  <2> SUFFICES ASSUME NEW j \in 1..Len(pushed')
               PROVE  /\ \A i \in 1..Size :
                           pushed'[j][i].pkt = PacketOf(j)' /\ pushed'[j][i].pos = i
                      /\ PacketOf(j)' # 0
    BY DEF WholePackets, FromOnePacket
  <2>1. CASE j \in 1..n
    BY <1>0, <1>9, <1>10, <2>1 DEF PushInv, WholePackets, FromOnePacket
  <2>2. CASE j = n + 1
    <3>1. pushed'[j] = buf /\ PacketOf(j)' = k
      BY <1>9, <1>10, <2>2
    <3>2. QED
      BY <1>3, <1>6, <3>1
  <2>3. QED
    BY <1>11, <2>1, <2>2
<1>15. PushedOnceInOrder'
  <2> SUFFICES ASSUME NEW i \in 1..Len(pushed'), NEW j \in 1..Len(pushed'), i < j,
                      SameConnection(PacketOf(i), PacketOf(j))'
               PROVE  PacketOf(i)' < PacketOf(j)'
    BY DEF PushedOnceInOrder
  <2>1. i \in 1..n /\ PacketOf(i)' = PacketOf(i) /\ PacketOf(i) \in PushedPackets
    BY <1>4, <1>10, <1>11
  <2>2. CASE j \in 1..n
    <3>1. PushedOnceInOrder
      BY DEF PushInv
    <3>2. QED
      BY <1>0, <1>10, <1>a, <2>1, <2>2, <3>1 DEF PushedOnceInOrder, SameConnection
  <2>3. CASE j = n + 1
    <3>0. PacketOf(j)' = k
      BY <1>10, <2>3
    <3>1. sent[PacketOf(i)].conn = sent[k].conn
      BY <1>a, <2>1, <3>0 DEF SameConnection
    <3>2. SentOn(PacketOf(i), c)
      BY <1>5, <2>1, <3>1 DEF SentOn, PushInv
    <3>3. QED
      BY <1>8, <2>1, <3>0, <3>2
  <2>4. QED
    BY <1>11, <2>2, <2>3
<1>16. QED
  BY <1>13, <1>14, <1>15 DEF PushInv

LEMMA PushNext ==
  ASSUME ParserTypeOK, StreamInv, HandInv, PushInv, [ParserNext]_parserVars
  PROVE  PushInv'
<1> SUFFICES ASSUME Undisturbed'
             PROVE  PushInv'
  BY DEF PushInv
<1>0. Undisturbed
  BY Disturbed
<1>a. Len(sent) \in Nat
  BY DEF ParserTypeOK
<1>1. ASSUME NEW c \in Conns, ClientSends(c) PROVE PushInv'
  <2>1. pushed' = pushed
    BY <1>1 DEF ClientSends, shared
  <2>2. /\ Len(sent') = Len(sent) + 1
        /\ \A l \in 1..Len(sent) : sent'[l] = sent[l]
    BY <1>1, StreamSends
  <2>3. \A k \in 1..Len(sent) : Behind(k) => Behind(k)'
    BY <1>1, <1>a, BehindSends
  <2>4. QED
    BY <1>0, <1>a, <2>1, <2>2, <2>3, PushOthers
<1>2. ASSUME NEW p \in Conns, RecvBytes(p) PROVE PushInv'
  <2>1. pushed' = pushed /\ sent' = sent
    BY <1>2 DEF RecvBytes
  <2>2. QED
    BY <1>0, <1>2, <2>1, BehindTaken, PushOthers
<1>3. ASSUME NEW p \in Conns, Push(p) PROVE PushInv'
  BY <1>0, <1>3, PushPush
<1>4. CASE UNCHANGED <<pushed, wire, sent>>
  BY <1>0, <1>4, BehindQuiet, PushOthers
<1>5. QED
  BY <1>1, <1>2, <1>3, <1>4
  DEF ParserNext, ParserStep, Recv, parserVars, shared, net, HandleConnection, FailedAccept,
      ClientEnds, CloseCurrent, CallRecv, RecvEof, RecvError, StoreCount, CheckLength,
      CheckMarkers, Switch, TestCount, Leave, OnlyLooks

-----------------------------------------------------------------------------
LEMMA AloneInit == ParserInit => AloneInv
  BY DEF ParserInit, AloneInv, InHand

(* The steps that bring no thread into buf and write nothing there. *)
LEMMA AloneOthers ==
  ASSUME AloneInv, overlapped' = overlapped, buf' = buf,
         \A q \in Conns : InHand(q)' => InHand(q),
         \A q \in Conns :
           pc'[q] = "push" => taken'[q] = buf \/ (pc[q] = "push" /\ taken'[q] = taken[q])
  PROVE  AloneInv'
  BY DEF AloneInv

LEMMA AloneReturns ==
  ASSUME ParserTypeOK, NEW p \in Conns, NEW n, RecvReturns(p, n)
  PROVE  AloneInv'
<1> SUFFICES ASSUME ~overlapped'
             PROVE  AloneInv'
  BY DEF AloneInv
<1>1. /\ pc'[p] = "store" /\ \A q \in Conns : q # p => pc'[q] = pc[q]
      /\ \A q \in Conns : ~InHand(q)
  BY DEF RecvReturns, Goto, ParserTypeOK
<1>2. \A q \in Conns : InHand(q)' => q = p
  BY <1>1 DEF InHand
<1>3. \A q \in Conns : pc'[q] # "push"
  BY <1>1 DEF InHand
<1>4. QED
  BY <1>2, <1>3 DEF AloneInv

LEMMA AloneNext ==
  ASSUME ParserTypeOK, AloneInv, [ParserNext]_parserVars
  PROVE  AloneInv'
<1>1. ASSUME NEW p \in Conns, Recv(p) PROVE AloneInv'
  BY <1>1, AloneReturns DEF Recv, RecvBytes, RecvEof, RecvError
<1>2. ASSUME NEW p \in Conns,
             StoreCount(p) \/ CheckLength(p) \/ CheckMarkers(p) \/ Switch(p) \/ Push(p)
      PROVE  AloneInv'
  <2>1. buf' = buf /\ overlapped' = overlapped
    BY <1>2 DEF StoreCount, CheckLength, CheckMarkers, Switch, Push, OnlyLooks, shared, past
  <2>2. /\ InHand(p) /\ \A q \in Conns : q # p => pc'[q] = pc[q] /\ taken'[q] = taken[q]
        /\ pc'[p] = "push" => taken'[p] = buf
    BY <1>2
    DEF StoreCount, CheckLength, CheckMarkers, Switch, Push, OnlyLooks, Goto, InHand,
        ParserTypeOK
  <2>3. \A q \in Conns : InHand(q)' => InHand(q)
    BY <2>2 DEF InHand
  <2>4. QED
    BY <2>1, <2>2, <2>3, AloneOthers
<1>3. ASSUME NEW p \in Conns,
             HandleConnection(p) \/ CallRecv(p) \/ TestCount(p) \/ Leave(p)
      PROVE  AloneInv'
  <2>1. UNCHANGED <<buf, overlapped, taken>>
    BY <1>3 DEF HandleConnection, CallRecv, TestCount, Leave, OnlyLooks, shared, past
  <2>2. /\ \A q \in Conns : q # p => pc'[q] = pc[q]
        /\ pc'[p] \in {"call", "recv", "leave", "left"}
    BY <1>3
    DEF HandleConnection, CallRecv, TestCount, Leave, OnlyLooks, Goto, ParserTypeOK
  <2>3. \A q \in Conns : InHand(q)' => InHand(q)
    BY <2>2 DEF InHand
  <2>4. QED
    BY <2>1, <2>2, <2>3, AloneOthers
<1>4. CASE UNCHANGED <<buf, pc, taken, overlapped>>
  BY <1>4, AloneOthers DEF InHand
<1>5. QED
  BY <1>1, <1>2, <1>3, <1>4
  DEF ParserNext, ParserStep, parserVars, shared, thread, past, FailedAccept, ClientSends,
      ClientEnds, CloseCurrent

-----------------------------------------------------------------------------
(* What a cut packet or an overlap has brought about is there for good. *)
LEMMA PastGrows ==
  ASSUME [ParserNext]_parserVars
  PROVE  (short' = {} => short = {}) /\ (~overlapped' => ~overlapped)
<1>1. CASE UNCHANGED past
  BY <1>1 DEF past
<1>2. ASSUME NEW p \in Conns, NEW n, RecvReturns(p, n) PROVE ~overlapped' => ~overlapped
  BY <1>2 DEF RecvReturns
<1>3. ASSUME NEW p \in Conns, RecvBytes(p) PROVE short' = {} => short = {}
  BY <1>3 DEF RecvBytes
<1>4. ASSUME NEW p \in Conns, RecvEof(p) \/ RecvError(p) PROVE short' = short
  BY <1>4 DEF RecvEof, RecvError
<1>5. ASSUME NEW p \in Conns, Recv(p)
      PROVE  (short' = {} => short = {}) /\ (~overlapped' => ~overlapped)
  BY <1>2, <1>3, <1>4, <1>5 DEF Recv, RecvBytes, RecvEof, RecvError
<1>6. QED
  BY <1>1, <1>5
  DEF ParserNext, ParserStep, parserVars, HandleConnection, FailedAccept, ClientSends,
      ClientEnds, CloseCurrent, CallRecv, StoreCount, CheckLength, CheckMarkers, Switch,
      Push, TestCount, Leave, OnlyLooks, past

(* What buf holds when it is created counts as packet 0. *)
LEMMA CreatedAs ==
  ASSUME ParserInit
  PROVE  \A i \in 1..Size : buf[i].pkt = 0 /\ buf[i].pos = i
<1>1. PICK h, c, t : buf = <<Byte(h, 0, 1), Byte(c, 0, 2), Byte(ANY_OTHER, 0, 3),
                            Byte(ANY_OTHER, 0, 4), Byte(t, 0, 5)>>
  BY DEF ParserInit
<1>2. \A v, i : Byte(v, 0, i).pkt = 0 /\ Byte(v, 0, i).pos = i
  BY DEF Byte
<1>3. /\ buf[1].pkt = 0 /\ buf[2].pkt = 0 /\ buf[3].pkt = 0 /\ buf[4].pkt = 0
      /\ buf[5].pkt = 0
      /\ buf[1].pos = 1 /\ buf[2].pos = 2 /\ buf[3].pos = 3 /\ buf[4].pos = 4
      /\ buf[5].pos = 5
  BY <1>1, <1>2
<1>4. \A i \in 1..Size : i = 1 \/ i = 2 \/ i = 3 \/ i = 4 \/ i = 5
  BY DEF Size
<1>5. QED
  BY <1>3, <1>4

LEMMA PacketInit == ParserInit => PacketInv
<1> SUFFICES ASSUME ParserInit
             PROVE  PacketInv
  OBVIOUS
<1>1. WholePacket(buf)
  BY CreatedAs DEF WholePacket, Size
<1>2. /\ \A p \in Conns : pc[p] # "push"
      /\ pushed = <<>>
  BY DEF ParserInit
<1>3. QED
  BY <1>1, <1>2 DEF PacketInv

(* The steps that neither write buf nor push. *)
LEMMA PacketOthers ==
  ASSUME PacketInv, short' = short, UNCHANGED <<buf, pushed>>,
         \A q \in Conns :
           pc'[q] = "push" => taken'[q] = buf \/ (pc[q] = "push" /\ taken'[q] = taken[q])
  PROVE  PacketInv'
<1>1. \A j : FromOnePacket(j)' <=> FromOnePacket(j)
  BY DEF FromOnePacket, PacketOf
<1>2. QED
  BY <1>1 DEF PacketInv, WholePacket

(* The first five bytes of a stream that was never cut are one packet. *)
LEMMA FirstPacket ==
  ASSUME ParserTypeOK, StreamInv, NEW c \in Conns \ short, Len(wire[c]) >= Size
  PROVE  \A i \in 1..Size : wire[c][i].pos = i /\ wire[c][i].pkt = wire[c][1].pkt
<1>1. PICK s : s = wire[c]
  OBVIOUS
<1>2. s \in Seq(ByteSet) /\ Len(s) \in Nat /\ Len(s) >= 5
  BY <1>1 DEF ParserTypeOK, Size
<1>3. /\ s[1].pos = 1 /\ Adjoins(s[1], s[1 + 1]) /\ Adjoins(s[2], s[2 + 1])
      /\ Adjoins(s[3], s[3 + 1]) /\ Adjoins(s[4], s[4 + 1])
  <2>1. /\ 1 \in 1..(Len(s) - 1) /\ 2 \in 1..(Len(s) - 1) /\ 3 \in 1..(Len(s) - 1)
        /\ 4 \in 1..(Len(s) - 1) /\ s # <<>>
    BY <1>2
  <2>2. /\ \A i \in 1..(Len(s) - 1) : Adjoins(s[i], s[i + 1])
        /\ s # <<>> => s[1].pos = 1
    BY <1>1 DEF StreamInv, StreamOf
  <2>3. QED
    BY <2>1, <2>2
<1>4. /\ s[2].pos = 2 /\ s[2].pkt = s[1].pkt /\ s[3].pos = 3 /\ s[3].pkt = s[1].pkt
      /\ s[4].pos = 4 /\ s[4].pkt = s[1].pkt /\ s[5].pos = 5 /\ s[5].pkt = s[1].pkt
  BY <1>3 DEF Adjoins, Size
<1>5. \A i \in 1..Size : i = 1 \/ i = 2 \/ i = 3 \/ i = 4 \/ i = 5
  BY DEF Size
<1>6. QED
  BY <1>1, <1>3, <1>4, <1>5

LEMMA PacketTaken ==
  ASSUME ParserTypeOK, StreamInv, PacketInv, NEW p \in Conns, RecvBytes(p), short' = {}
  PROVE  PacketInv'
<1>1. PICK n \in 1..Size, c \in Conns :
        /\ c = fd[p] /\ n <= Len(wire[c]) /\ RecvReturns(p, n)
        /\ buf' = Fill(SubSeq(wire[c], 1, n))
        /\ short' = IF n < Size THEN short \cup {c} ELSE short
  BY DEF RecvBytes
<1>2. n = Size /\ short = {} /\ Len(wire[c]) >= Size
  <2>1. ~(n < Size)
    BY <1>1
  <2>2. n = Size
    BY <2>1 DEF Size
  <2>3. QED
    BY <1>1, <2>2
<1>3. UNCHANGED <<pushed, taken>>
  BY DEF RecvBytes
<1>4. \A i \in 1..Size : buf'[i] = wire[c][i]
  BY <1>1, <1>2, BufFilled
<1>5. \A i \in 1..Size : buf'[i].pos = i /\ buf'[i].pkt = wire[c][1].pkt
  BY <1>2, <1>4, FirstPacket
<1>6. WholePacket(buf')
  BY <1>5 DEF WholePacket, Size
<1>7. \A q \in Conns : pc'[q] = "push" => pc[q] = "push"
  BY <1>1 DEF RecvReturns, Goto, ParserTypeOK
<1>8. \A j \in 1..Len(pushed) : FromOnePacket(j)'
  BY <1>2, <1>3 DEF PacketInv, FromOnePacket, PacketOf
<1>9. \A q \in Conns : pc'[q] = "push" => WholePacket(taken'[q])
  BY <1>2, <1>3, <1>7 DEF PacketInv
<1>10. QED
  BY <1>3, <1>6, <1>8, <1>9 DEF PacketInv, WholePacket

LEMMA PacketPush ==
  ASSUME ParserTypeOK, PacketInv, short = {}, NEW p \in Conns, Push(p)
  PROVE  PacketInv'
<1>1. /\ pc[p] = "push" /\ pushed' = Append(pushed, taken[p]) /\ buf' = buf
      /\ \A q \in Conns : pc'[q] = "push" => pc[q] = "push" /\ taken'[q] = taken[q]
  BY DEF Push, Goto, ParserTypeOK
<1>2. PICK n, w : n = Len(pushed) /\ w = taken[p]
  OBVIOUS
<1>3. n \in Nat /\ w \in [1..Size -> ByteSet] /\ WholePacket(w)
  BY <1>1, <1>2 DEF ParserTypeOK, PacketInv
<1>4. /\ Len(pushed') = n + 1 /\ pushed'[n + 1] = w
      /\ \A j \in 1..n : pushed'[j] = pushed[j]
  BY <1>1, <1>2, <1>3, Appended DEF ParserTypeOK
<1>5. ASSUME NEW j \in 1..Len(pushed') PROVE FromOnePacket(j)'
  <2>1. CASE j \in 1..n
    BY <1>2, <1>4, <2>1 DEF PacketInv, FromOnePacket, PacketOf
  <2>2. CASE j = n + 1
    BY <1>3, <1>4, <2>2 DEF WholePacket, FromOnePacket, PacketOf
  <2>3. QED
    BY <1>3, <1>4, <2>1, <2>2
<1>6. WholePacket(buf') /\ \A q \in Conns : pc'[q] = "push" => WholePacket(taken'[q])
  BY <1>1 DEF PacketInv
<1>7. QED
  BY <1>5, <1>6 DEF PacketInv, WholePacket

LEMMA PacketNext ==
  ASSUME ParserTypeOK, StreamInv, PacketInv, [ParserNext]_parserVars
  PROVE  PacketInv'
<1> SUFFICES ASSUME short' = {}
             PROVE  PacketInv'
  BY DEF PacketInv
<1>0. short = {}
  BY PastGrows
<1>1. ASSUME NEW p \in Conns, RecvBytes(p) PROVE PacketInv'
  BY <1>1, PacketTaken
<1>2. ASSUME NEW p \in Conns, Push(p) PROVE PacketInv'
  BY <1>0, <1>2, PacketPush
<1>3. ASSUME NEW p \in Conns, RecvEof(p) \/ RecvError(p) PROVE PacketInv'
  <2>1. UNCHANGED <<buf, pushed, taken, short>>
    BY <1>3 DEF RecvEof, RecvError, shared
  <2>2. \A q \in Conns : pc'[q] = "push" => pc[q] = "push"
    BY <1>3 DEF RecvEof, RecvError, RecvReturns, Goto, ParserTypeOK
  <2>3. QED
    BY <2>1, <2>2, PacketOthers
<1>4. ASSUME NEW p \in Conns,
             \/ HandleConnection(p) \/ CallRecv(p) \/ StoreCount(p) \/ CheckLength(p)
             \/ CheckMarkers(p) \/ Switch(p) \/ TestCount(p) \/ Leave(p)
      PROVE  PacketInv'
  <2>1. UNCHANGED <<buf, pushed, short>>
    BY <1>4
    DEF HandleConnection, CallRecv, StoreCount, CheckLength, CheckMarkers, Switch,
        TestCount, Leave, OnlyLooks, shared, past
  <2>2. /\ \A q \in Conns : q # p => pc'[q] = pc[q] /\ taken'[q] = taken[q]
        /\ pc'[p] = "push" => taken'[p] = buf
    BY <1>4
    DEF HandleConnection, CallRecv, StoreCount, CheckLength, CheckMarkers, Switch,
        TestCount, Leave, OnlyLooks, Goto, ParserTypeOK
  <2>3. QED
    BY <2>1, <2>2, PacketOthers
<1>5. CASE UNCHANGED <<buf, pushed, pc, taken, short>>
  BY <1>5, PacketOthers
<1>6. QED
  BY <1>1, <1>2, <1>3, <1>4, <1>5
  DEF ParserNext, ParserStep, Recv, parserVars, shared, thread, past, FailedAccept,
      ClientSends, ClientEnds, CloseCurrent

-----------------------------------------------------------------------------
LEMMA RepeatInit == ParserInit => RepeatInv
<1> SUFFICES ASSUME ParserInit
             PROVE  RepeatInv
  OBVIOUS
<1>1. PushedPackets = {} /\ buf[2].pkt = 0 /\ Len(pushed) = 0
  <2>1. 2 \in 1..Size
    BY DEF Size
  <2>2. buf[2].pkt = 0
    BY CreatedAs, <2>1
  <2>3. pushed = <<>> /\ Len(pushed) = 0
    BY DEF ParserInit
  <2>4. PushedPackets = {}
    BY <2>3 DEF PushedPackets
  <2>5. QED
    BY <2>2, <2>3, <2>4
<1>2. Behind(0) /\ 0 \in 0..Len(sent)
  BY DEF ParserInit, Behind, SentOn
<1>3. QED
  BY <1>1, <1>2 DEF RepeatInv

(* The steps that neither push nor touch the buffer. *)
LEMMA RepeatOthers ==
  ASSUME ParserTypeOK, RepeatInv, short = {}, ~overlapped, UNCHANGED <<pushed, buf>>,
         \A k \in 0..Len(sent) : /\ k \in 0..Len(sent')
                                 /\ Behind(k) => Behind(k)'
                                 /\ k # 0 => sent'[k] = sent[k]
  PROVE  RepeatInv'
<1>1. PushedPackets' = PushedPackets /\ buf' = buf
  BY DEF PushedPackets, PacketOf
<1>2. \A k \in PushedPackets \cup {buf[2].pkt} :
        k \in 0..Len(sent) /\ k \in 0..Len(sent') /\ Behind(k)'
  <2> SUFFICES ASSUME NEW k \in PushedPackets \cup {buf[2].pkt}
               PROVE  k \in 0..Len(sent) /\ k \in 0..Len(sent') /\ Behind(k)'
    OBVIOUS
  <2>1. k \in 0..Len(sent) /\ Behind(k)
    BY DEF RepeatInv
  <2>2. QED
    BY <2>1
<1>3. \A j \in 1..Len(pushed) : PacketOf(j)' = PacketOf(j) /\ PacketOf(j) \in PushedPackets
  BY DEF PushedPackets, PacketOf
<1>4. PacketOf(Len(pushed))' = PacketOf(Len(pushed))
  BY DEF PacketOf
<1>5. \A k, l \in 0..Len(sent) : SameConnection(k, l)' <=> SameConnection(k, l)
  BY DEF SameConnection
<1>6. \A k \in PushedPackets :
        /\ k = buf[2].pkt => PacketOf(Len(pushed))' = k
        /\ (k # 0 /\ buf[2].pkt # 0 /\ sent'[k].conn = sent'[buf[2].pkt].conn) => k <= buf[2].pkt
  BY <1>2, <1>4 DEF RepeatInv, SameConnection
<1>7. ASSUME NEW j \in 1..Len(pushed) PROVE NeverGoesBack(j)'
  <2> SUFFICES ASSUME NEW i \in 1..(j - 1)
               PROVE  /\ PacketOf(i) = PacketOf(j) => PacketOf(j - 1) = PacketOf(j)
                      /\ (PacketOf(i) # 0 /\ PacketOf(j) # 0
                             /\ sent'[PacketOf(i)].conn = sent'[PacketOf(j)].conn)
                           => PacketOf(i) <= PacketOf(j)
    BY DEF NeverGoesBack, SameConnection, PacketOf
  <2>1. NeverGoesBack(j)
    BY DEF RepeatInv
  <2>2. PacketOf(i) \in 0..Len(sent)
    <3>1. i \in 1..Len(pushed)
      BY DEF ParserTypeOK
    <3>2. QED
      BY <1>2, <1>3, <3>1
  <2>3. PacketOf(j) \in 0..Len(sent)
    BY <1>2, <1>3
  <2>4. QED
    BY <2>1, <2>2, <2>3 DEF NeverGoesBack, SameConnection
<1>8. QED
  BY <1>1, <1>2, <1>6, <1>7 DEF RepeatInv, SameConnection

(* A recv of a whole packet, which is later than the pushes of its         *)
(* connection and none of them.                                            *)
LEMMA RepeatTaken ==
  ASSUME ParserTypeOK, StreamInv, RepeatInv, NEW p \in Conns, RecvBytes(p), short' = {},
         ~overlapped
  PROVE  RepeatInv'
<1>1. PICK n \in 1..Size, c \in Conns :
        /\ c = fd[p] /\ n <= Len(wire[c])
        /\ buf' = Fill(SubSeq(wire[c], 1, n))
        /\ wire' = [wire EXCEPT ![c] = SubSeq(@, n + 1, Len(@))]
        /\ short' = IF n < Size THEN short \cup {c} ELSE short
  BY DEF RecvBytes
<1>2. n = Size /\ short = {} /\ Len(wire[c]) >= Size
  <2>1. ~(n < Size)
    BY <1>1
  <2>2. n = Size
    BY <2>1 DEF Size
  <2>3. QED
    BY <1>1, <2>2
<1>3. UNCHANGED <<sent, pushed>>
  BY DEF RecvBytes
<1>4. PICK k : k = buf'[2].pkt
  OBVIOUS
<1>5. 1 \in 1..Size /\ 2 \in 1..Size /\ Size \in 1..Size
  BY DEF Size
<1>6. /\ BufIs(c)'
      /\ \A i \in 1..Size : buf'[i] = wire[c][i]
  BY <1>1, <1>2, <1>3, BufTaken DEF RepeatInv
<1>7. \A i \in 1..Size : buf'[i].pos = i /\ buf'[i].pkt = k
  BY <1>2, <1>4, <1>5, <1>6, FirstPacket
<1>8. SentOn(k, c) /\ k \in 0..Len(sent) /\ k # 0 /\ sent[k].conn = c
  <2>1. SentOn(wire[c][1].pkt, c)
    <3>1. Len(wire[c]) \in Nat
      BY DEF ParserTypeOK
    <3>2. 1 \in 1..Len(wire[c])
      BY <1>2, <3>1 DEF Size
    <3>3. QED
      BY <3>2 DEF StreamInv, StreamOf, Genuine
  <2>2. k = wire[c][1].pkt
    BY <1>5, <1>6, <1>7
  <2>3. QED
    BY <2>1, <2>2 DEF SentOn
<1>9. Behind(k)'
  <2>1. \A d \in Conns : SentOn(k, d)' => d = c
    BY <1>3, <1>8 DEF SentOn
  <2>2. \A i \in 1..Len(wire'[c]) : k < wire'[c][i].pkt
    <3> SUFFICES ASSUME NEW i \in 1..Len(wire'[c])
                 PROVE  k < wire'[c][i].pkt
      OBVIOUS
    <3>1. Earlier(buf'[Size], wire'[c][i])
      BY <1>6 DEF BufIs, Earlier
    <3>2. buf'[Size].pkt = k /\ buf'[Size].pos = Size
      BY <1>5, <1>7
    <3>3. wire'[c][i] \in ByteSet
      <4>1. ParserTypeOK'
        BY ParserTypeStep DEF ParserNext, ParserStep, Recv
      <4>2. QED
        BY <4>1 DEF ParserTypeOK
    <3>4. QED
      BY <3>1, <3>2, <3>3 DEF Earlier, ByteSet, Size
  <2>3. QED
    BY <2>1, <2>2 DEF Behind
<1>10. \A l \in PushedPackets : l \in 0..Len(sent) /\ Behind(l) /\ Behind(l)'
  BY <1>2, BehindTaken DEF RepeatInv
<1>11. \A l \in PushedPackets : SameConnection(l, k) => l < k
  <2> SUFFICES ASSUME NEW l \in PushedPackets, SameConnection(l, k)
               PROVE  l < k
    OBVIOUS
  <2>1. SentOn(l, c)
    BY <1>8, <1>10 DEF SentOn, SameConnection
  <2>2. 1 \in 1..Len(wire[c]) /\ wire[c][1].pkt = k
    BY <1>2, <1>5, <1>6, <1>7 DEF Size, ParserTypeOK
  <2>3. QED
    BY <1>10, <2>1, <2>2 DEF Behind
<1>12. \A l \in PushedPackets : l # k
  BY <1>8, <1>10, <1>11 DEF SameConnection
<1>13. PushedPackets' = PushedPackets
  BY <1>3 DEF PushedPackets, PacketOf
<1>14. \A j \in 1..Len(pushed') : NeverGoesBack(j)'
  BY <1>2, <1>3 DEF RepeatInv, NeverGoesBack, SameConnection, PacketOf
<1>15. \A l \in PushedPackets' \cup {k} : l \in 0..Len(sent') /\ Behind(l)'
  BY <1>3, <1>8, <1>9, <1>10, <1>13
<1>16. \A l \in PushedPackets' :
         /\ l # k
         /\ l # 0 /\ k # 0 /\ sent'[l].conn = sent'[k].conn => l <= k
  BY <1>3, <1>8, <1>10, <1>11, <1>12, <1>13 DEF SameConnection
<1>17. QED
  BY <1>4, <1>7, <1>14, <1>15, <1>16 DEF RepeatInv, SameConnection

(* A push repeats the last one, or is that of a later packet. *)
LEMMA RepeatPush ==
  ASSUME ParserTypeOK, AloneInv, RepeatInv, short = {}, ~overlapped, NEW p \in Conns, Push(p)
  PROVE  RepeatInv'
<1>a. UNCHANGED <<wire, sent, buf>>
  BY DEF Push, net
<1>b. pushed' = Append(pushed, buf)
  BY DEF Push, Goto, AloneInv
<1>1. PICK n, k : n = Len(pushed) /\ k = buf[2].pkt
  OBVIOUS
<1>2. n \in Nat
  BY <1>1 DEF ParserTypeOK
<1>3. /\ Len(pushed') = n + 1 /\ pushed'[n + 1] = buf
      /\ \A j \in 1..n : pushed'[j] = pushed[j]
  BY <1>1, <1>b, Appended DEF ParserTypeOK
<1>4. /\ PacketOf(n + 1)' = k
      /\ \A j \in 1..n : PacketOf(j)' = PacketOf(j) /\ PacketOf(j) \in PushedPackets
  <2>1. PacketOf(n + 1)' = k
    BY <1>1, <1>3 DEF PacketOf
  <2>2. ASSUME NEW j \in 1..n PROVE PacketOf(j)' = PacketOf(j) /\ PacketOf(j) \in PushedPackets
    BY <1>1, <1>3 DEF PacketOf, PushedPackets
  <2>3. QED
    BY <2>1, <2>2
<1>5. PushedPackets' = PushedPackets \cup {k}
  <2>1. ASSUME NEW l \in PushedPackets' PROVE l \in PushedPackets \cup {k}
    <3>1. PICK j \in 1..Len(pushed') : l = PacketOf(j)'
      BY <2>1 DEF PushedPackets
    <3>2. j \in 1..n \/ j = n + 1
      BY <1>2, <1>3
    <3>3. QED
      BY <1>4, <3>1, <3>2
  <2>2. ASSUME NEW l \in PushedPackets PROVE l \in PushedPackets'
    <3>1. PICK j \in 1..n : l = PacketOf(j)
      BY <1>1, <2>2 DEF PushedPackets
    <3>2. j \in 1..Len(pushed') /\ l = PacketOf(j)'
      BY <1>2, <1>3, <1>4, <3>1
    <3>3. QED
      BY <3>2 DEF PushedPackets
  <2>3. k \in PushedPackets'
    <3>1. n + 1 \in 1..Len(pushed')
      BY <1>2, <1>3
    <3>2. QED
      BY <1>4, <3>1 DEF PushedPackets
  <2>4. QED
    BY <2>1, <2>2, <2>3
<1>6. \A l \in PushedPackets' \cup {k} : l \in 0..Len(sent') /\ Behind(l)'
  BY <1>1, <1>5, <1>a, BehindQuiet DEF RepeatInv
<1>7. /\ \A l \in PushedPackets : l = k => PacketOf(n) = k
      /\ \A l \in PushedPackets : SameConnection(l, k) => l <= k
      /\ k \in 0..Len(sent)
  BY <1>1 DEF RepeatInv
<1>8. PacketOf(Len(pushed))' = k
  BY <1>1, <1>3 DEF PacketOf
<1>9. \A l \in PushedPackets' :
        l # 0 /\ k # 0 /\ sent'[l].conn = sent'[k].conn => l <= k
  BY <1>5, <1>7, <1>a DEF SameConnection
<1>10. ASSUME NEW j \in 1..Len(pushed') PROVE NeverGoesBack(j)'
  <2> SUFFICES ASSUME NEW i \in 1..(j - 1)
               PROVE  /\ PacketOf(i)' = PacketOf(j)' => PacketOf(j - 1)' = PacketOf(j)'
                      /\ (PacketOf(i)' # 0 /\ PacketOf(j)' # 0
                             /\ sent'[PacketOf(i)'].conn = sent'[PacketOf(j)'].conn)
                           => PacketOf(i)' <= PacketOf(j)'
    BY DEF NeverGoesBack, SameConnection
  <2>1. CASE j \in 1..n
    <3>1. NeverGoesBack(j)
      BY <1>1, <2>1 DEF RepeatInv
    <3>2. i \in 1..n /\ j - 1 \in 1..n
      BY <1>2, <2>1
    <3>3. QED
      BY <1>4, <1>a, <2>1, <3>1, <3>2 DEF NeverGoesBack, SameConnection
  <2>2. CASE j = n + 1
    <3>1. i \in 1..n /\ n \in 1..n /\ j - 1 = n
      BY <1>2, <2>2
    <3>2. /\ PacketOf(j)' = k /\ PacketOf(i)' = PacketOf(i) /\ PacketOf(i) \in PushedPackets
          /\ PacketOf(n)' = PacketOf(n)
      BY <1>4, <2>2, <3>1
    <3>3. QED
      BY <1>7, <1>a, <3>1, <3>2 DEF SameConnection
  <2>3. QED
    BY <1>2, <1>3, <2>1, <2>2
<1>11. QED
  BY <1>1, <1>6, <1>8, <1>9, <1>10, <1>a DEF RepeatInv, SameConnection

LEMMA RepeatNext ==
  ASSUME ParserTypeOK, StreamInv, AloneInv, RepeatInv, [ParserNext]_parserVars
  PROVE  RepeatInv'
<1> SUFFICES ASSUME short' = {}, ~overlapped'
             PROVE  RepeatInv'
  BY DEF RepeatInv
<1>0. Len(sent) \in Nat /\ short = {} /\ ~overlapped
  BY PastGrows DEF ParserTypeOK
<1>1. ASSUME NEW p \in Conns, RecvBytes(p) PROVE RepeatInv'
  BY <1>0, <1>1, RepeatTaken
<1>2. ASSUME NEW c \in Conns, ClientSends(c) PROVE RepeatInv'
  <2>1. UNCHANGED <<pushed, buf, short>>
    BY <1>2 DEF ClientSends, shared, past
  <2>2. /\ Len(sent') = Len(sent) + 1
        /\ \A l \in 1..Len(sent) : sent'[l] = sent[l]
    BY <1>2, StreamSends
  <2>3. \A k \in 0..Len(sent) : Behind(k) => Behind(k)'
    BY <1>2, BehindSends
  <2>4. \A k \in 0..Len(sent) : /\ k \in 0..Len(sent')
                                /\ Behind(k) => Behind(k)'
                                /\ k # 0 => sent'[k] = sent[k]
    BY <1>0, <2>2, <2>3
  <2>5. QED
    BY <1>0, <2>1, <2>4, RepeatOthers
<1>3. ASSUME NEW p \in Conns, Push(p) PROVE RepeatInv'
  BY <1>0, <1>3, RepeatPush
<1>4. CASE UNCHANGED <<pushed, buf, wire, sent>>
  BY <1>0, <1>4, BehindQuiet, RepeatOthers
<1>5. QED
  BY <1>1, <1>2, <1>3, <1>4
  DEF ParserNext, ParserStep, Recv, parserVars, shared, net, HandleConnection, FailedAccept,
      ClientEnds, CloseCurrent, CallRecv, RecvEof, RecvError, StoreCount, CheckLength,
      CheckMarkers, Switch, TestCount, Leave, OnlyLooks

-----------------------------------------------------------------------------
LEMMA ParserInvInit == ParserInit => ParserInv
  BY ParserTypeInit, StreamInit, HandInit, PushInit, AloneInit, PacketInit, RepeatInit
  DEF ParserInv

LEMMA ParserInvNext == ParserInv /\ [ParserNext]_parserVars => ParserInv'
<1> SUFFICES ASSUME ParserInv, [ParserNext]_parserVars
             PROVE  ParserInv'
  OBVIOUS
<1>1. /\ ParserTypeOK /\ StreamInv /\ HandInv /\ PushInv
      /\ AloneInv /\ PacketInv /\ RepeatInv
  BY DEF ParserInv
<1>2. StreamInv'
  <2>1. ASSUME NEW p \in Conns, RecvBytes(p) PROVE StreamInv'
    <3>1. PICK n \in 1..Size, c \in Conns :
            /\ c = fd[p] /\ n <= Len(wire[c])
            /\ wire' = [wire EXCEPT ![c] = SubSeq(@, n + 1, Len(@))]
            /\ short' = IF n < Size THEN short \cup {c} ELSE short
            /\ sent' = sent
      BY <2>1 DEF RecvBytes
    <3>2. QED
      BY <1>1, <3>1, StreamTaken
  <2>2. ASSUME NEW c \in Conns, ClientSends(c) PROVE StreamInv'
    BY <1>1, <2>2, StreamSends
  <2>3. CASE UNCHANGED <<wire, sent, short>>
    BY <1>1, <2>3, StreamQuiet
  <2>4. QED
    BY <2>1, <2>2, <2>3
    DEF ParserNext, ParserStep, Recv, parserVars, net, past, HandleConnection, FailedAccept,
        ClientEnds, CloseCurrent, CallRecv, RecvEof, RecvError, StoreCount, CheckLength,
        CheckMarkers, Switch, Push, TestCount, Leave, OnlyLooks
<1>3. ParserTypeOK'
  BY <1>1, ParserTypeStep
<1>4. HandInv' /\ PushInv' /\ AloneInv' /\ PacketInv' /\ RepeatInv'
  BY <1>1, HandNext, PushNext, AloneNext, PacketNext, RepeatNext
<1>5. QED
  BY <1>2, <1>3, <1>4 DEF ParserInv

LEMMA ParserInvariance == ParserSpec => []ParserInv
  BY ParserInvInit, ParserInvNext, PTL DEF ParserSpec

(* Type correctness of the shared buffer, the streams and the threads. *)
THEOREM ParserTypeCorrect == ParserSpec => []ParserTypeOK
<1>1. ParserInv => ParserTypeOK
  BY DEF ParserInv
<1>2. QED
  BY <1>1, ParserInvariance, PTL

(* As long as no recv fails and the threads keep out of each other's way,  *)
(* parse_msg_client pushes only what one client sent as one packet: for    *)
(* any number of connections and of packets, wherever recv cuts them.      *)
THEOREM PushesWholePackets == ParserSpec => []WholePackets
<1>1. ParserInv => WholePackets
  BY DEF ParserInv, PushInv, WholePackets
<1>2. QED
  BY <1>1, ParserInvariance, PTL

(* Under the same condition no packet of a connection is pushed twice or   *)
(* before an earlier one, whichever threads take the bytes off the stream. *)
THEOREM PushesInOrder == ParserSpec => []PushedOnceInOrder
<1>1. ParserInv => PushedOnceInOrder
  BY DEF ParserInv, PushInv, PushedOnceInOrder
<1>2. QED
  BY <1>1, ParserInvariance, PTL

(* As long as no packet is cut: however often recv fails and however the   *)
(* threads share the buffer, every command pushed was read from one packet *)
(* (or from the buffer as it was created); and unless two threads are in   *)
(* the buffer at a time, a push that no packet of its own stands behind is *)
(* the push before it again.                                               *)
THEOREM OnlyRepeats == ParserSpec => []FailureOnlyRepeats
<1>1. ParserInv => FailureOnlyRepeats
  BY DEF ParserInv, PacketInv, RepeatInv, FailureOnlyRepeats
<1>2. QED
  BY <1>1, ParserInvariance, PTL

=============================================================================
