------------------------- MODULE CurrentSocketProofs -------------------------
(***************************************************************************)
(* For any numbers of senders, parse threads, executors and descriptors:   *)
(* no descriptor is lost or closed twice as long as no two threads replace *)
(* the handle of current_socket at a time, and an accept loop is misled    *)
(* about its socket only by what another thread has done to it.            *)
(***************************************************************************)
EXTENDS CurrentSocket, TLAPS

InSwap == {"assign", "swap", "error", "destroy"}

(* Outside of the assignment a thread has no temporary. *)
Temporaries == \A x \in Threads : pc[x] \notin InSwap => tmp[x] = INVALID_SOCKET

(* At most one thread replaces the handle, and it knows the handle. *)
ReplacesAlone ==
  /\ \A x, y \in Threads : pc[x] \in {"swap", "release"} /\ pc[y] \in {"swap", "release"}
                             => x = y
  /\ \A x \in Threads : pc[x] \in {"swap", "release"} => reg[x] = handle

HeldOnce ==
  \A x, y \in Threads, n \in Numbers :
    /\ Holds(x, n) => fd[n] = "connection" /\ handle # n
    /\ Holds(x, n) /\ Holds(y, n) => x = y
HandleOpen == handle # INVALID_SOCKET => fd[handle] = "connection"
NoneLost ==
  \A n \in Numbers :
    fd[n] = "connection" => handle = n \/ \E x \in Threads : Holds(x, n)

Owned == ReplacesAlone /\ HeldOnce /\ HandleOpen /\ NoneLost

(* A loop whose socket nobody has touched finds what it has put there. *)
Trusted ==
  /\ \A x \in Loops : got[x] /\ pc[x] \in {"assign", "swap"} => tmp[x] # INVALID_SOCKET
  /\ \A x \in Loops \ touched :
       /\ got[x] /\ pc[x] \in {"error", "destroy", "check"} => handle # INVALID_SOCKET
       /\ pc[x] \in {"destroy", "check"} => lastErr = FALSE
       /\ pc[x] = "recheck" => handle # INVALID_SOCKET /\ lastErr = FALSE

-----------------------------------------------------------------------------
LEMMA NumbersValid == INVALID_SOCKET \notin Numbers
  BY NumbersAssumption DEF INVALID_SOCKET

LEMMA TypeInit == Init => TypeOK /\ Temporaries /\ Owned /\ Trusted
<1> SUFFICES ASSUME Init PROVE TypeOK /\ Temporaries /\ Owned /\ Trusted
  OBVIOUS
<1> USE NumbersValid, MainAssumption DEF Init
<1>1. TypeOK
  BY DEF TypeOK, LoopPC, Loops, Threads
<1>2. Temporaries /\ Owned
  BY DEF Temporaries, Owned, ReplacesAlone, HeldOnce, HandleOpen, NoneLost, Holds
<1>3. Trusted
  BY DEF Trusted, Loops, Threads
<1>4. QED
  BY <1>1, <1>2, <1>3

LEMMA LoopType ==
  ASSUME TypeOK, NEW x \in Threads, AcceptLoop(x), Record
  PROVE  TypeOK'
<1> USE NumbersValid DEF TypeOK, LoopPC, Goto, Loops, Threads
<1>0. raced' \in BOOLEAN
  BY DEF Record
<1>1. CASE Accept(x)
  <2>1. CASE got' = [got EXCEPT ![x] = FALSE] /\ UNCHANGED <<fd, tmp>>
    BY <1>0, <1>1, <2>1 DEF Accept, sock
  <2>2. ASSUME NEW n \in Numbers, Become(n, "connection"), tmp' = [tmp EXCEPT ![x] = n],
               got' = [got EXCEPT ![x] = TRUE]
        PROVE  TypeOK'
    BY <1>0, <1>1, <2>2 DEF Accept, Become, sock
  <2>3. QED
    BY <1>1, <2>1, <2>2 DEF Accept
<1>2. CASE SwapRead(x)
  BY <1>0, <1>2 DEF SwapRead, sock
<1>3. CASE SwapWrite(x)
  BY <1>0, <1>3 DEF SwapWrite, Touch, Judging
<1>4. CASE CopyError(x)
  BY <1>0, <1>4 DEF CopyError, local
<1>5. CASE DestroyTemporary(x)
  BY <1>0, <1>5 DEF DestroyTemporary, Become, sock
<1>6. CASE Skip(x)
  BY <1>0, <1>6 DEF Skip, Judged, sock, local
<1>7. CASE StartThreads(x)
  BY <1>0, <1>7 DEF StartThreads, sock, local
<1>8. CASE Recheck(x)
  BY <1>0, <1>8 DEF Recheck, Judged, sock, local
<1>9. QED
  BY <1>1, <1>2, <1>3, <1>4, <1>5, <1>6, <1>7, <1>8 DEF AcceptLoop

LEMMA OtherType ==
  ASSUME TypeOK, Record,
         \/ \E x \in Threads : Use(x) \/ CloseSocket(x)
         \/ \E n \in Numbers : Foreign(n)
  PROVE  TypeOK'
<1> USE NumbersValid DEF TypeOK, LoopPC, Goto, Loops, Threads
<1>0. raced' \in BOOLEAN
  BY DEF Record
<1>1. ASSUME NEW x \in Threads, LoadHandle(x) PROVE TypeOK'
  BY <1>0, <1>1 DEF LoadHandle, sock, local
<1>2. ASSUME NEW x \in Threads, NEW ok \in BOOLEAN, CallReturns(x, ok) PROVE TypeOK'
  BY <1>0, <1>2 DEF CallReturns, Touch, Judging
<1>3. ASSUME NEW x \in Threads, CloseTest(x) PROVE TypeOK'
  BY <1>0, <1>3 DEF CloseTest, sock, local
<1>4. ASSUME NEW x \in Threads, CloseRead(x) PROVE TypeOK'
  BY <1>0, <1>4 DEF CloseRead, sock, local
<1>5. ASSUME NEW x \in Threads, CloseWrite(x) PROVE TypeOK'
  BY <1>0, <1>5 DEF CloseWrite, Touch, Judging, local
<1>6. ASSUME NEW x \in Threads, CloseNumber(x) PROVE TypeOK'
  BY <1>0, <1>6 DEF CloseNumber, Touch, Judging, Become
<1>7. ASSUME NEW n \in Numbers, Foreign(n) PROVE TypeOK'
  BY <1>0, <1>7 DEF Foreign, Become, sock, local
<1>8. QED
  BY <1>1, <1>2, <1>3, <1>4, <1>5, <1>6, <1>7 DEF Use, CloseSocket

LEMMA TypeStep == TypeOK /\ [Next]_vars => TypeOK'
<1> SUFFICES ASSUME TypeOK, [Next]_vars PROVE TypeOK'
  OBVIOUS
<1>1. CASE UNCHANGED vars
  BY <1>1 DEF vars, sock, local, history, TypeOK
<1>2. CASE Next
  BY <1>2, LoopType, OtherType DEF Next
<1>3. QED
  BY <1>1, <1>2

(* The type invariant of CurrentSocket: what its threads may do where.     *)
THEOREM TypeCorrect == Spec => []TypeOK
  BY TypeInit, TypeStep, PTL DEF Spec

-----------------------------------------------------------------------------
LEMMA TemporariesStep ==
  ASSUME TypeOK, Temporaries, Next
  PROVE  Temporaries'
<1> USE DEF Temporaries, InSwap, TypeOK, Goto
<1>1. ASSUME NEW x \in Threads, Accept(x) PROVE Temporaries'
  BY <1>1 DEF Accept, Become, sock, Free, local
<1>2. ASSUME NEW x \in Threads, SwapRead(x) PROVE Temporaries'
  BY <1>2 DEF SwapRead, sock, local
<1>3. ASSUME NEW x \in Threads, SwapWrite(x) PROVE Temporaries'
  BY <1>3 DEF SwapWrite, local
<1>4. ASSUME NEW x \in Threads, CopyError(x) PROVE Temporaries'
  BY <1>4 DEF CopyError, local
<1>5. ASSUME NEW x \in Threads, DestroyTemporary(x) PROVE Temporaries'
  BY <1>5 DEF DestroyTemporary, Become, sock, local
<1>6. ASSUME NEW x \in Threads, Skip(x) PROVE Temporaries'
  BY <1>6 DEF Skip, Judged, sock, local
<1>7. ASSUME NEW x \in Threads, StartThreads(x) PROVE Temporaries'
  BY <1>7 DEF StartThreads, sock, local
<1>8. ASSUME NEW x \in Threads, Recheck(x) PROVE Temporaries'
  BY <1>8 DEF Recheck, Judged, sock, local
<1>9. ASSUME NEW x \in Threads, LoadHandle(x) PROVE Temporaries'
  BY <1>9 DEF LoadHandle, sock, local
<1>10. ASSUME NEW x \in Threads, \E ok \in BOOLEAN : CallReturns(x, ok) PROVE Temporaries'
  BY <1>10 DEF CallReturns, local
<1>11. ASSUME NEW x \in Threads, CloseTest(x) PROVE Temporaries'
  BY <1>11 DEF CloseTest, sock, local
<1>12. ASSUME NEW x \in Threads, CloseRead(x) PROVE Temporaries'
  BY <1>12 DEF CloseRead, sock, local
<1>13. ASSUME NEW x \in Threads, CloseWrite(x) PROVE Temporaries'
  BY <1>13 DEF CloseWrite, local
<1>14. ASSUME NEW x \in Threads, CloseNumber(x) PROVE Temporaries'
  BY <1>14 DEF CloseNumber, Become, local
<1>15. ASSUME NEW n \in Numbers, Foreign(n) PROVE Temporaries'
  BY <1>15 DEF Foreign, local
<1>16. QED
  BY <1>1, <1>2, <1>3, <1>4, <1>5, <1>6, <1>7, <1>8, <1>9, <1>10, <1>11, <1>12, <1>13, <1>14, <1>15
     DEF Next, AcceptLoop, Use, CloseSocket

LEMMA Unraced ==
  ASSUME Record, ~raced'
  PROVE  /\ ~raced
         /\ \A x, y \in Threads :
              pc'[x] \in {"swap", "release"} /\ pc'[y] \in {"swap", "release"} => x = y
  BY DEF Record, Replacing

LEMMA LoopOwned ==
  ASSUME TypeOK, Temporaries, Owned, NEW x \in Threads, AcceptLoop(x), Record, ~raced'
  PROVE  Owned'
<1> USE NumbersValid DEF TypeOK, Temporaries, Owned, InSwap, Goto, Holds
<1>0. \A y, z \in Threads :
        pc'[y] \in {"swap", "release"} /\ pc'[z] \in {"swap", "release"} => y = z
  BY Unraced
<1>1. CASE Accept(x)
  <2>1. ReplacesAlone'
    BY <1>0, <1>1 DEF Accept, Become, sock, Free, local, ReplacesAlone
  <2>2. HeldOnce'
    BY <1>0, <1>1 DEF Accept, Become, sock, Free, local, HeldOnce, HandleOpen, ReplacesAlone
  <2>3. HandleOpen'
    BY <1>0, <1>1 DEF Accept, Become, sock, Free, local, HandleOpen, ReplacesAlone, HeldOnce
  <2>4. NoneLost'
    BY <1>0, <1>1 DEF Accept, Become, sock, Free, local, NoneLost, HandleOpen, ReplacesAlone
  <2>5. QED
    BY <2>1, <2>2, <2>3, <2>4
<1>2. CASE SwapRead(x)
  <2>1. ReplacesAlone'
    BY <1>0, <1>2 DEF SwapRead, sock, local, ReplacesAlone
  <2>2. HeldOnce'
    BY <1>0, <1>2 DEF SwapRead, sock, local, HeldOnce, HandleOpen, ReplacesAlone
  <2>3. HandleOpen'
    BY <1>0, <1>2 DEF SwapRead, sock, local, HandleOpen, ReplacesAlone, HeldOnce
  <2>4. NoneLost'
    BY <1>0, <1>2 DEF SwapRead, sock, local, NoneLost, HandleOpen, ReplacesAlone
  <2>5. QED
    BY <2>1, <2>2, <2>3, <2>4
<1>3. CASE SwapWrite(x)
  <2>1. ReplacesAlone'
    BY <1>0, <1>3 DEF SwapWrite, local, ReplacesAlone
  <2>2. HeldOnce'
    BY <1>0, <1>3 DEF SwapWrite, local, HeldOnce, HandleOpen, ReplacesAlone
  <2>3. HandleOpen'
    BY <1>0, <1>3 DEF SwapWrite, local, HandleOpen, ReplacesAlone, HeldOnce
  <2>4. NoneLost'
    BY <1>0, <1>3 DEF SwapWrite, local, NoneLost, HandleOpen, ReplacesAlone
  <2>5. QED
    BY <2>1, <2>2, <2>3, <2>4
<1>4. CASE CopyError(x)
  <2>1. ReplacesAlone'
    BY <1>0, <1>4 DEF CopyError, local, ReplacesAlone
  <2>2. HeldOnce'
    BY <1>0, <1>4 DEF CopyError, local, HeldOnce, HandleOpen, ReplacesAlone
  <2>3. HandleOpen'
    BY <1>0, <1>4 DEF CopyError, local, HandleOpen, ReplacesAlone, HeldOnce
  <2>4. NoneLost'
    BY <1>0, <1>4 DEF CopyError, local, NoneLost, HandleOpen, ReplacesAlone
  <2>5. QED
    BY <2>1, <2>2, <2>3, <2>4
<1>5. CASE DestroyTemporary(x)
  <2>1. ReplacesAlone'
    BY <1>0, <1>5 DEF DestroyTemporary, Become, sock, local, ReplacesAlone
  <2>2. HeldOnce'
    BY <1>0, <1>5 DEF DestroyTemporary, Become, sock, local, HeldOnce, HandleOpen, ReplacesAlone
  <2>3. HandleOpen'
    BY <1>0, <1>5 DEF DestroyTemporary, Become, sock, local, HandleOpen, ReplacesAlone, HeldOnce
  <2>4. NoneLost'
    BY <1>0, <1>5 DEF DestroyTemporary, Become, sock, local, NoneLost, HandleOpen, ReplacesAlone
  <2>5. QED
    BY <2>1, <2>2, <2>3, <2>4
<1>6. CASE Skip(x)
  <2>1. ReplacesAlone'
    BY <1>0, <1>6 DEF Skip, Judged, sock, local, ReplacesAlone
  <2>2. HeldOnce'
    BY <1>0, <1>6 DEF Skip, Judged, sock, local, HeldOnce, HandleOpen, ReplacesAlone
  <2>3. HandleOpen'
    BY <1>0, <1>6 DEF Skip, Judged, sock, local, HandleOpen, ReplacesAlone, HeldOnce
  <2>4. NoneLost'
    BY <1>0, <1>6 DEF Skip, Judged, sock, local, NoneLost, HandleOpen, ReplacesAlone
  <2>5. QED
    BY <2>1, <2>2, <2>3, <2>4
<1>7. CASE StartThreads(x)
  <2>1. ReplacesAlone'
    BY <1>0, <1>7 DEF StartThreads, sock, local, ReplacesAlone
  <2>2. HeldOnce'
    BY <1>0, <1>7 DEF StartThreads, sock, local, HeldOnce, HandleOpen, ReplacesAlone
  <2>3. HandleOpen'
    BY <1>0, <1>7 DEF StartThreads, sock, local, HandleOpen, ReplacesAlone, HeldOnce
  <2>4. NoneLost'
    BY <1>0, <1>7 DEF StartThreads, sock, local, NoneLost, HandleOpen, ReplacesAlone
  <2>5. QED
    BY <2>1, <2>2, <2>3, <2>4
<1>8. CASE Recheck(x)
  <2>1. ReplacesAlone'
    BY <1>0, <1>8 DEF Recheck, Judged, sock, local, ReplacesAlone
  <2>2. HeldOnce'
    BY <1>0, <1>8 DEF Recheck, Judged, sock, local, HeldOnce, HandleOpen, ReplacesAlone
  <2>3. HandleOpen'
    BY <1>0, <1>8 DEF Recheck, Judged, sock, local, HandleOpen, ReplacesAlone, HeldOnce
  <2>4. NoneLost'
    BY <1>0, <1>8 DEF Recheck, Judged, sock, local, NoneLost, HandleOpen, ReplacesAlone
  <2>5. QED
    BY <2>1, <2>2, <2>3, <2>4
<1>9. QED
  BY <1>1, <1>2, <1>3, <1>4, <1>5, <1>6, <1>7, <1>8 DEF AcceptLoop

LEMMA OtherOwned ==
  ASSUME TypeOK, Temporaries, Owned, Record, ~raced',
         \/ \E x \in Threads : Use(x) \/ CloseSocket(x)
         \/ \E n \in Numbers : Foreign(n)
  PROVE  Owned'
<1> USE NumbersValid DEF TypeOK, Temporaries, Owned, InSwap, Goto, Holds
<1>0. \A y, z \in Threads :
        pc'[y] \in {"swap", "release"} /\ pc'[z] \in {"swap", "release"} => y = z
  BY Unraced
<1>1. ASSUME NEW x \in Threads, LoadHandle(x)
      PROVE  Owned'
  <2>1. ReplacesAlone'
    BY <1>0, <1>1 DEF LoadHandle, sock, local, ReplacesAlone
  <2>2. HeldOnce'
    BY <1>0, <1>1 DEF LoadHandle, sock, local, HeldOnce, HandleOpen, ReplacesAlone
  <2>3. HandleOpen'
    BY <1>0, <1>1 DEF LoadHandle, sock, local, HandleOpen, ReplacesAlone, HeldOnce
  <2>4. NoneLost'
    BY <1>0, <1>1 DEF LoadHandle, sock, local, NoneLost, HandleOpen, ReplacesAlone
  <2>5. QED
    BY <2>1, <2>2, <2>3, <2>4
<1>2. ASSUME NEW x \in Threads, \E ok \in BOOLEAN : CallReturns(x, ok)
      PROVE  Owned'
  <2>1. ReplacesAlone'
    BY <1>0, <1>2 DEF CallReturns, local, ReplacesAlone
  <2>2. HeldOnce'
    BY <1>0, <1>2 DEF CallReturns, local, HeldOnce, HandleOpen, ReplacesAlone
  <2>3. HandleOpen'
    BY <1>0, <1>2 DEF CallReturns, local, HandleOpen, ReplacesAlone, HeldOnce
  <2>4. NoneLost'
    BY <1>0, <1>2 DEF CallReturns, local, NoneLost, HandleOpen, ReplacesAlone
  <2>5. QED
    BY <2>1, <2>2, <2>3, <2>4
<1>3. ASSUME NEW x \in Threads, CloseTest(x)
      PROVE  Owned'
  <2>1. ReplacesAlone'
    BY <1>0, <1>3 DEF CloseTest, sock, local, ReplacesAlone
  <2>2. HeldOnce'
    BY <1>0, <1>3 DEF CloseTest, sock, local, HeldOnce, HandleOpen, ReplacesAlone
  <2>3. HandleOpen'
    BY <1>0, <1>3 DEF CloseTest, sock, local, HandleOpen, ReplacesAlone, HeldOnce
  <2>4. NoneLost'
    BY <1>0, <1>3 DEF CloseTest, sock, local, NoneLost, HandleOpen, ReplacesAlone
  <2>5. QED
    BY <2>1, <2>2, <2>3, <2>4
<1>4. ASSUME NEW x \in Threads, CloseRead(x)
      PROVE  Owned'
  <2>1. ReplacesAlone'
    BY <1>0, <1>4 DEF CloseRead, sock, local, ReplacesAlone
  <2>2. HeldOnce'
    BY <1>0, <1>4 DEF CloseRead, sock, local, HeldOnce, HandleOpen, ReplacesAlone
  <2>3. HandleOpen'
    BY <1>0, <1>4 DEF CloseRead, sock, local, HandleOpen, ReplacesAlone, HeldOnce
  <2>4. NoneLost'
    BY <1>0, <1>4 DEF CloseRead, sock, local, NoneLost, HandleOpen, ReplacesAlone
  <2>5. QED
    BY <2>1, <2>2, <2>3, <2>4
<1>5. ASSUME NEW x \in Threads, CloseWrite(x)
      PROVE  Owned'
  <2>1. ReplacesAlone'
    BY <1>0, <1>5 DEF CloseWrite, local, ReplacesAlone
  <2>2. HeldOnce'
    BY <1>0, <1>5 DEF CloseWrite, local, HeldOnce, HandleOpen, ReplacesAlone
  <2>3. HandleOpen'
    BY <1>0, <1>5 DEF CloseWrite, local, HandleOpen, ReplacesAlone, HeldOnce
  <2>4. NoneLost'
    BY <1>0, <1>5 DEF CloseWrite, local, NoneLost, HandleOpen, ReplacesAlone
  <2>5. QED
    BY <2>1, <2>2, <2>3, <2>4
<1>6. ASSUME NEW x \in Threads, CloseNumber(x)
      PROVE  Owned'
  <2>1. ReplacesAlone'
    BY <1>0, <1>6 DEF CloseNumber, Become, local, ReplacesAlone
  <2>2. HeldOnce'
    BY <1>0, <1>6 DEF CloseNumber, Become, local, HeldOnce, HandleOpen, ReplacesAlone
  <2>3. HandleOpen'
    BY <1>0, <1>6 DEF CloseNumber, Become, local, HandleOpen, ReplacesAlone, HeldOnce
  <2>4. NoneLost'
    BY <1>0, <1>6 DEF CloseNumber, Become, local, NoneLost, HandleOpen, ReplacesAlone
  <2>5. QED
    BY <2>1, <2>2, <2>3, <2>4
<1>7. ASSUME NEW n \in Numbers, Foreign(n)
      PROVE  Owned'
  <2>1. ReplacesAlone'
    BY <1>0, <1>7 DEF Foreign, Become, Free, sock, local, ReplacesAlone
  <2>2. HeldOnce'
    BY <1>0, <1>7 DEF Foreign, Become, Free, sock, local, HeldOnce, HandleOpen, ReplacesAlone
  <2>3. HandleOpen'
    BY <1>0, <1>7 DEF Foreign, Become, Free, sock, local, HandleOpen, ReplacesAlone, HeldOnce
  <2>4. NoneLost'
    BY <1>0, <1>7 DEF Foreign, Become, Free, sock, local, NoneLost, HandleOpen, ReplacesAlone
  <2>5. QED
    BY <2>1, <2>2, <2>3, <2>4
<1>8. QED
  BY <1>1, <1>2, <1>3, <1>4, <1>5, <1>6, <1>7 DEF Use, CloseSocket

LEMMA OwnedStep ==
  TypeOK /\ Temporaries /\ (~raced => Owned) /\ [Next]_vars => (~raced => Owned)'
<1> SUFFICES ASSUME TypeOK, Temporaries, ~raced => Owned, [Next]_vars, ~raced'
             PROVE  Owned'
  OBVIOUS
<1>1. CASE UNCHANGED vars
  BY <1>1 DEF vars, sock, local, history, Owned, ReplacesAlone, HeldOnce, HandleOpen,
              NoneLost, Holds
<1>2. CASE Next
  <2>1. Record /\ ~raced
    BY <1>2, Unraced DEF Next
  <2>2. QED
    BY <1>2, <2>1, LoopOwned, OtherOwned DEF Next
<1>3. QED
  BY <1>1, <1>2

(* Mgard300_Handler.cpp:113 and 288-294: without a mutex around the        *)
(* assignment, a descriptor is lost or closed twice only after two threads *)
(* have replaced the handle at a time.                                     *)
THEOREM DescriptorsOwned == Spec => []OwnedUnlessRaced
<1> DEFINE OInv == TypeOK /\ Temporaries /\ (~raced => Owned)
<1>1. Init => OInv
  BY TypeInit
<1>2. OInv /\ [Next]_vars => OInv'
  <2>1. Temporaries /\ UNCHANGED vars => Temporaries'
    BY DEF Temporaries, vars, local
  <2>2. QED
    BY <2>1, TypeStep, TemporariesStep, OwnedStep
<1>3. OInv => OwnedUnlessRaced
  BY DEF Owned, HeldOnce, HandleOpen, NoneLost, OwnedUnlessRaced
<1>4. QED
  BY <1>1, <1>2, <1>3, PTL DEF Spec

-----------------------------------------------------------------------------
LEMMA TrustedStep ==
  ASSUME TypeOK, Trusted, Next
  PROVE  Trusted'
<1> USE NumbersValid DEF TypeOK, Trusted, Goto, Loops, Threads
<1>1. ASSUME NEW x \in Threads, Accept(x) PROVE Trusted'
  BY <1>1 DEF Accept, Become, sock, local
<1>2. ASSUME NEW x \in Threads, SwapRead(x) PROVE Trusted'
  BY <1>2 DEF SwapRead, sock, local
<1>3. ASSUME NEW x \in Threads, SwapWrite(x) PROVE Trusted'
  BY <1>3 DEF SwapWrite, Touch, Judging, local
<1>4. ASSUME NEW x \in Threads, CopyError(x) PROVE Trusted'
  BY <1>4 DEF CopyError, local
<1>5. ASSUME NEW x \in Threads, DestroyTemporary(x) PROVE Trusted'
  BY <1>5 DEF DestroyTemporary, sock, local
<1>6. ASSUME NEW x \in Threads, Skip(x) PROVE Trusted'
  BY <1>6 DEF Skip, Judged, sock, local
<1>7. ASSUME NEW x \in Threads, StartThreads(x) PROVE Trusted'
  BY <1>7 DEF StartThreads, SocketOk, sock, local
<1>8. ASSUME NEW x \in Threads, Recheck(x) PROVE Trusted'
  BY <1>8 DEF Recheck, Judged, sock, local
<1>9. ASSUME NEW x \in Threads, LoadHandle(x) PROVE Trusted'
  BY <1>9 DEF LoadHandle, sock, local
<1>10. ASSUME NEW x \in Threads, \E ok \in BOOLEAN : CallReturns(x, ok) PROVE Trusted'
  BY <1>10 DEF CallReturns, local, Touch, Judging
<1>11. ASSUME NEW x \in Threads, CloseTest(x) PROVE Trusted'
  BY <1>11 DEF CloseTest, sock, local
<1>12. ASSUME NEW x \in Threads, CloseRead(x) PROVE Trusted'
  BY <1>12 DEF CloseRead, sock, local
<1>13. ASSUME NEW x \in Threads, CloseWrite(x) PROVE Trusted'
  BY <1>13 DEF CloseWrite, local, Touch, Judging
<1>14. ASSUME NEW x \in Threads, CloseNumber(x) PROVE Trusted'
  BY <1>14 DEF CloseNumber, Become, local, Touch, Judging
<1>15. ASSUME NEW n \in Numbers, Foreign(n) PROVE Trusted'
  BY <1>15 DEF Foreign, sock, local
<1>16. QED
  BY <1>1, <1>2, <1>3, <1>4, <1>5, <1>6, <1>7, <1>8,
     <1>9, <1>10, <1>11, <1>12, <1>13, <1>14, <1>15
     DEF Next, AcceptLoop, Use, CloseSocket

(* Only a loop itself ends its accept, and it does so by one of its tests. *)
LEMMA JudgedAlone ==
  ASSUME TypeOK, Next, NEW x \in Loops,
         \/ pc[x] = "check" /\ pc'[x] = "accept"
         \/ pc[x] = "recheck" /\ pc'[x] \in {"idle", "returned"}
  PROVE  (pc[x] = "check" \/ pc[x] = "recheck") /\ ~SocketOk
<1> USE DEF TypeOK, Goto, Loops, Threads
<1>1. ASSUME NEW y \in Threads, AcceptLoop(y)
      PROVE  ~SocketOk
  BY <1>1 DEF AcceptLoop, Accept, SwapRead, SwapWrite, CopyError, DestroyTemporary,
              Skip, StartThreads, Recheck
<1>2. ASSUME NEW y \in Threads, Use(y) \/ CloseSocket(y)
      PROVE  FALSE
  BY <1>2 DEF Use, LoadHandle, CallReturns, CloseSocket, CloseTest, CloseRead,
              CloseWrite, CloseNumber
<1>3. ASSUME NEW n \in Numbers, Foreign(n)
      PROVE  FALSE
  BY <1>3 DEF Foreign
<1>4. QED
  BY <1>1, <1>2, <1>3 DEF Next

(* Mgard300_Handler.cpp:113-125: an accept loop skips the connection it    *)
(* has accepted, and it returns, only after another thread has touched     *)
(* current_socket in between.                                              *)
THEOREM LoopsMisledByOthers == Spec => JudgedByOthers
<1> DEFINE A == \A x \in Loops :
                  \/ ~ \/ pc[x] = "check" /\ got[x] /\ pc'[x] = "accept"
                       \/ pc[x] = "recheck" /\ pc'[x] \in {"idle", "returned"}
                  \/ x \in touched
<1>1. TypeOK /\ Trusted /\ [Next]_vars => Trusted'
  <2>1. Trusted /\ UNCHANGED vars => Trusted'
    BY DEF Trusted, vars, sock, local, history
  <2>2. QED
    BY <2>1, TrustedStep
<1>2. TypeOK /\ Trusted /\ [Next]_vars => [A]_vars
  <2> SUFFICES ASSUME TypeOK, Trusted, Next PROVE A
    OBVIOUS
  <2>1. ASSUME NEW x \in Loops, x \notin touched,
               \/ pc[x] = "check" /\ got[x] /\ pc'[x] = "accept"
               \/ pc[x] = "recheck" /\ pc'[x] \in {"idle", "returned"}
        PROVE  FALSE
    <3>1. ~SocketOk
      BY <2>1, JudgedAlone
    <3>2. handle # INVALID_SOCKET /\ lastErr = FALSE
      BY <2>1 DEF Trusted
    <3>3. QED
      BY <3>1, <3>2 DEF SocketOk
  <2>2. QED
    BY <2>1
<1>3. QED
  BY <1>1, <1>2, TypeInit, TypeCorrect, PTL DEF Spec, JudgedByOthers

=============================================================================
