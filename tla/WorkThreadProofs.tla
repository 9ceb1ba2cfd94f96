-------------------------- MODULE WorkThreadProofs --------------------------
(***************************************************************************)
(* For any number of work threads, with or without a camera: every image   *)
(* that is sent is whole and not older than the sender's own acquisition,  *)
(* as far as frames are; a thread whose acquisition failed sends none; and *)
(* a thread that truncated data.bin last and could write leaves it whole.  *)
(***************************************************************************)
EXTENDS WorkThread, TLAPS

(* Once a thread has seen or made an instance there is one for ever. *)
InstanceSet ==
  \A w \in Workers : wpc[w] \in WPC \ {"unborn", "test", "construct"} =>
                      uniqueInstance # Null

TypeInv == TypeOK /\ InstanceSet

(* Each half of a two-part buffer may be replaced. *)
LEMMA HalfType ==
  ASSUME NEW S, NEW f \in [S -> Halves], NEW i \in S, NEW h \in {1, 2}, NEW n \in Nat
  PROVE  /\ [f EXCEPT ![i][h] = n] \in [S -> Halves]
         /\ f[i][h] \in Nat
  BY DEF Halves

(* Program points at which a thread holds the mutex of its object. *)
Locked == {"fill_1", "fill_2", "unlock_fill", "copy_1", "copy_2", "unlock_copy"}

(* The mutex of a thread's object is the thread's while it fills or copies, *)
(* and for ever after a failed acquisition.                                *)
LockInv ==
  \A w \in Workers :
    wpc[w] \in Locked \/ w \in failed => mutex[pPRB_IMG[w]] = w

(* After a failed acquisition a thread gets no further than the mutex. *)
FailedInv ==
  \A w \in failed : wpc[w] \in {"close_stream", "no_data", "lock_copy", "finished"}

(* Acquisitions are numbered as they start, so no image is from the future. *)
NumInv ==
  /\ \A w \in Workers : own[w] <= acquired
  /\ \A i \in Workers, h \in {1, 2} : img_buf[i][h] <= acquired

(* An image is torn only while some thread is filling it, or since the last *)
(* frame was too short.                                                    *)
WholeInv ==
  \A i \in Workers :
    \/ img_buf[i][1] = img_buf[i][2]
    \/ img_buf[i][1] \in short
    \/ \E w \in Workers : wpc[w] = "fill_2" /\ pPRB_IMG[w] = i

(* What the thread that fills has written, and that it makes the image newer. *)
FillInv ==
  \A w \in Workers :
    /\ wpc[w] \in {"fill_1", "fill_2"} =>
         \A h \in {1, 2} : img_buf[pPRB_IMG[w]][h] <= own[w]
    /\ wpc[w] = "fill_2" => img_buf[pPRB_IMG[w]][1] = own[w]
    /\ wpc[w] = "unlock_fill" /\ own[w] \notin short =>
         \A h \in {1, 2} : img_buf[pPRB_IMG[w]][h] = own[w]

(* The image a thread goes on to copy never becomes older than its own. *)
FreshInv ==
  \A w \in Workers :
    /\ (wpc[w] \in {"close_stream", "lock_copy"} /\ w \notin failed)
         \/ wpc[w] \in {"copy_1", "copy_2"} =>
           (own[w] \notin short =>
              \A h \in {1, 2} : own[w] <= img_buf[pPRB_IMG[w]][h])
    /\ wpc[w] = "copy_2" => buffer[w][1] = img_buf[pPRB_IMG[w]][1]
    /\ wpc[w] \in {"unlock_copy", "send"} => Sendable(w)

IInv == TypeInv /\ LockInv /\ FailedInv /\ NumInv /\ WholeInv /\ FillInv /\ FreshInv

-----------------------------------------------------------------------------
LEMMA TypeInit == Init => TypeInv
  BY WorkerAssumption DEF Init, TypeInv, InstanceSet, TypeOK, Blank, Truncated,
     Halves, WPC, Before

LEMMA TypeStep == TypeInv /\ [Next]_vars => TypeInv'
<1> SUFFICES ASSUME TypeInv, [Next]_vars
             PROVE  TypeInv'
  OBVIOUS
<1>1. CASE UNCHANGED vars
  BY <1>1 DEF vars, shared, mine, past, disk, TypeInv, InstanceSet, TypeOK, Before
<1>2. ASSUME NEW w \in Workers,
             Start(w) \/ Step(w) \/ Send(w) \/ SaveImage(w)
      PROVE  TypeInv'
  <2> USE WorkerAssumption DEF TypeInv, InstanceSet, TypeOK, Goto, WPC, Before,
         shared, mine, past, disk
  <2>1. CASE Start(w)
    BY <2>1 DEF Start
  <2>2. CASE TestInstance(w)
    BY <2>2 DEF TestInstance
  <2>3. CASE ConstructInstance(w)
    BY <2>3 DEF ConstructInstance
  <2>4. CASE ReadInstance(w)
    BY <2>4 DEF ReadInstance
  <2>5. CASE DeviceMissing(w)
    BY <2>5 DEF DeviceMissing
  <2>6. CASE LockToFill(w)
    BY <2>6 DEF LockToFill, Lock
  <2>7. CASE FillFirst(w)
    BY <2>7 DEF FillFirst, FillHalf, Halves
  <2>8. CASE FillSecond(w)
    BY <2>8 DEF FillSecond, FillHalf, Halves
  <2>9. CASE ShortFrame(w)
    <3>1. own[w] \in Nat /\ short' = short \cup {own[w]}
      BY <2>9 DEF ShortFrame
    <3>2. /\ wpc' \in [Workers -> WPC]
         /\ \A x \in Workers : wpc[x] \in Before => wpc'[x] = wpc[x]
      BY <2>9 DEF ShortFrame
    <3>3. short' \subseteq Nat
      BY <3>1
    <3>4. QED
      BY <2>9, <3>2, <3>3 DEF ShortFrame
  <2>10. CASE UnlockFilled(w)
    BY <2>10 DEF UnlockFilled, Unlock
  <2>11. CASE AcquireFails(w)
    BY <2>11 DEF AcquireFails
  <2>12. CASE CloseStream(w)
    BY <2>12 DEF CloseStream
  <2>13. CASE GiveUp(w)
    BY <2>13 DEF GiveUp
  <2>14. CASE LockToCopy(w)
    BY <2>14 DEF LockToCopy, Lock
  <2>15. CASE CopyFirst(w)
    BY <2>15 DEF CopyFirst, CopyHalf, Halves
  <2>16. CASE CopySecond(w)
    BY <2>16 DEF CopySecond, CopyHalf, Halves
  <2>17. CASE UnlockCopied(w)
    BY <2>17 DEF UnlockCopied, Unlock
  <2>18. CASE Send(w)
    BY <2>18 DEF Send
  <2>19. CASE OpenFile(w)
    BY <2>19 DEF OpenFile, Truncated
  <2>20. CASE WriteFirst(w)
    BY <2>20 DEF WriteFirst, WriteHalf
  <2>21. CASE WriteSecond(w)
    BY <2>21 DEF WriteSecond, WriteHalf
  <2>22. CASE WriteFails(w)
    BY <2>22 DEF WriteFails
  <2>23. CASE Finish(w)
    BY <2>23 DEF Finish
  <2>24. QED
    BY <1>2, <2>1, <2>2, <2>3, <2>4, <2>5, <2>6, <2>7, <2>8, <2>9, <2>10,
       <2>11, <2>12, <2>13, <2>14, <2>15, <2>16, <2>17, <2>18, <2>19, <2>20,
       <2>21, <2>22, <2>23
    DEF Step, GetInstance, Acquire, GetImage, SaveImage
<1>3. QED
  BY <1>1, <1>2 DEF Next

(* The type invariant of WorkThread: in particular no thread goes on with  *)
(* a null PRB_IMG pointer, however the unsynchronised calls of getInstance *)
(* interleave.                                                             *)
THEOREM TypeCorrect == Spec => []TypeOK
<1>1. TypeInv => TypeOK
  BY DEF TypeInv
<1>2. QED
  BY <1>1, TypeInit, TypeStep, PTL DEF Spec

-----------------------------------------------------------------------------
LEMMA InvInit == Init => IInv
  BY TypeInit DEF Init, IInv, LockInv, FailedInv, NumInv, WholeInv, FillInv,
     FreshInv, Locked, Blank

(* Program points at which nothing is expected of a thread and its object,  *)
(* and the steps of one thread between them.                               *)
Quiet == {"unborn", "test", "construct", "read", "lock_fill", "no_data",
          "accepting", "open", "write_1", "write_2", "written", "finished", "exited"}

LEMMA QuietStep ==
  ASSUME IInv, NEW w \in Workers, NEW to \in Quiet,
         wpc[w] \in Quiet \cup {"send"}, wpc' = [wpc EXCEPT ![w] = to],
         wpc[w] = "no_data" => to = "finished", wpc[w] # "finished",
         UNCHANGED <<mutex, img_buf, acquired, mine, past>>
  PROVE  (LockInv /\ FailedInv /\ NumInv /\ WholeInv /\ FillInv /\ FreshInv)'
<1> USE DEF IInv, TypeInv, TypeOK, mine, past, Quiet, Locked
<1>1. wpc'[w] = to /\ \A x \in Workers \ {w} : wpc'[x] = wpc[x]
  OBVIOUS
<1>2. w \notin failed \/ to = "finished"
  BY DEF FailedInv
<1>3. LockInv'
  BY <1>1 DEF LockInv
<1>4. FailedInv'
  BY <1>1, <1>2 DEF FailedInv
<1>5. NumInv' /\ WholeInv'
  BY <1>1 DEF NumInv, WholeInv
<1>6. FillInv'
  BY <1>1 DEF FillInv
<1>7. FreshInv'
  BY <1>1 DEF FreshInv, Sendable
<1>8. QED
  BY <1>3, <1>4, <1>5, <1>6, <1>7

LEMMA InvStep == IInv /\ [Next]_vars => IInv'
<1> SUFFICES ASSUME IInv, [Next]_vars
             PROVE  IInv'
  OBVIOUS
<1> USE DEF IInv
<1>1. TypeInv'
  BY TypeStep
<1>2. CASE UNCHANGED vars
  BY <1>1, <1>2 DEF vars, shared, mine, past, disk, LockInv, FailedInv, NumInv,
     WholeInv, FillInv, FreshInv, Sendable
<1>3. ASSUME NEW w \in Workers,
             Start(w) \/ Step(w) \/ Send(w) \/ SaveImage(w)
      PROVE  IInv'
  <2> USE WorkerAssumption, <1>1 DEF Goto, Locked, TypeInv, TypeOK, Halves, Before,
         shared, mine, past, disk
  <2>1. CASE Start(w)
    <3>1. PICK to \in Quiet :
            /\ wpc[w] \in Quiet \cup {"send"} /\ wpc' = [wpc EXCEPT ![w] = to]
            /\ wpc[w] = "no_data" => to = "finished"
            /\ wpc[w] # "finished"
      BY <2>1 DEF Start, Quiet
    <3>2. QED
      BY <1>1, <2>1, <3>1, QuietStep DEF Start
  <2>2. CASE TestInstance(w)
    <3>1. PICK to \in Quiet :
            /\ wpc[w] \in Quiet \cup {"send"} /\ wpc' = [wpc EXCEPT ![w] = to]
            /\ wpc[w] = "no_data" => to = "finished"
            /\ wpc[w] # "finished"
      BY <2>2 DEF TestInstance, Quiet
    <3>2. QED
      BY <1>1, <2>2, <3>1, QuietStep DEF TestInstance
  <2>3. CASE ConstructInstance(w)
    <3>1. PICK to \in Quiet :
            /\ wpc[w] \in Quiet \cup {"send"} /\ wpc' = [wpc EXCEPT ![w] = to]
            /\ wpc[w] = "no_data" => to = "finished"
            /\ wpc[w] # "finished"
      BY <2>3 DEF ConstructInstance, Quiet
    <3>2. QED
      BY <1>1, <2>3, <3>1, QuietStep DEF ConstructInstance
  <2>4. CASE ReadInstance(w)
    <3>1. FreshInv'
      BY <2>4 DEF ReadInstance, FreshInv, Sendable
    <3>2. LockInv' /\ FailedInv'
      BY <2>4 DEF ReadInstance, LockInv, FailedInv
    <3>3. NumInv'
      BY <2>4 DEF ReadInstance, NumInv
    <3>4. WholeInv' /\ FillInv'
      BY <2>4 DEF ReadInstance, WholeInv, FillInv
    <3>5. QED
      BY <1>1, <3>1, <3>2, <3>3, <3>4
  <2>5. CASE DeviceMissing(w)
    <3>1. PICK to \in Quiet :
            /\ wpc[w] \in Quiet \cup {"send"} /\ wpc' = [wpc EXCEPT ![w] = to]
            /\ wpc[w] = "no_data" => to = "finished"
            /\ wpc[w] # "finished"
      BY <2>5 DEF DeviceMissing, Quiet
    <3>2. QED
      BY <1>1, <2>5, <3>1, QuietStep DEF DeviceMissing
  <2>6. CASE LockToFill(w)
    <3>1. LockInv'
      BY <2>6 DEF LockToFill, Lock, LockInv, FailedInv
    <3>2. FillInv'
      BY <2>6 DEF LockToFill, Lock, FillInv, LockInv, NumInv
    <3>3. FreshInv'
      BY <2>6 DEF LockToFill, Lock, FreshInv, Sendable, NumInv
    <3>4. FailedInv'
      BY <2>6 DEF LockToFill, Lock, FailedInv
    <3>5. NumInv'
      BY <2>6 DEF LockToFill, Lock, NumInv
    <3>6. WholeInv'
      BY <2>6 DEF LockToFill, Lock, WholeInv
    <3>7. QED
      BY <1>1, <3>1, <3>2, <3>3, <3>4, <3>5, <3>6
  <2>7. CASE FillFirst(w)
    <3>1. WholeInv'
      BY <2>7 DEF FillFirst, FillHalf, WholeInv, FillInv, LockInv
    <3>2. FillInv'
      BY <2>7 DEF FillFirst, FillHalf, FillInv, LockInv, NumInv
    <3>3. FreshInv'
      BY <2>7 DEF FillFirst, FillHalf, FreshInv, Sendable, FillInv, LockInv
    <3>4. LockInv' /\ FailedInv'
      BY <2>7 DEF FillFirst, FillHalf, LockInv, FailedInv
    <3>5. NumInv'
      BY <2>7 DEF FillFirst, FillHalf, NumInv
    <3>6. QED
      BY <1>1, <3>1, <3>2, <3>3, <3>4, <3>5
  <2>8. CASE FillSecond(w)
    <3>1. WholeInv'
      BY <2>8 DEF FillSecond, FillHalf, WholeInv, FillInv, LockInv
    <3>2. FillInv'
      BY <2>8 DEF FillSecond, FillHalf, FillInv, LockInv, NumInv
    <3>3. FreshInv'
      BY <2>8 DEF FillSecond, FillHalf, FreshInv, Sendable, FillInv, LockInv
    <3>4. LockInv' /\ FailedInv'
      BY <2>8 DEF FillSecond, FillHalf, LockInv, FailedInv
    <3>5. NumInv'
      BY <2>8 DEF FillSecond, FillHalf, NumInv
    <3>6. QED
      BY <1>1, <3>1, <3>2, <3>3, <3>4, <3>5
  <2>9. CASE ShortFrame(w)
    <3>1. WholeInv'
      BY <2>9 DEF ShortFrame, WholeInv, FillInv
    <3>2. FillInv'
      BY <2>9 DEF ShortFrame, FillInv
    <3>3. FreshInv'
      BY <2>9 DEF ShortFrame, FreshInv, Sendable
    <3>4. LockInv' /\ FailedInv'
      BY <2>9 DEF ShortFrame, LockInv, FailedInv
    <3>5. NumInv'
      BY <2>9 DEF ShortFrame, NumInv
    <3>6. QED
      BY <1>1, <3>1, <3>2, <3>3, <3>4, <3>5
  <2>10. CASE UnlockFilled(w)
    <3>1. LockInv'
      BY <2>10 DEF UnlockFilled, Unlock, LockInv, FailedInv
    <3>2. FreshInv'
      BY <2>10 DEF UnlockFilled, Unlock, FreshInv, Sendable, FillInv, FailedInv
    <3>3. FailedInv'
      BY <2>10 DEF UnlockFilled, Unlock, FailedInv
    <3>4. NumInv'
      BY <2>10 DEF UnlockFilled, Unlock, NumInv
    <3>5. WholeInv' /\ FillInv'
      BY <2>10 DEF UnlockFilled, Unlock, WholeInv, FillInv
    <3>6. QED
      BY <1>1, <3>1, <3>2, <3>3, <3>4, <3>5
  <2>11. CASE AcquireFails(w)
    <3>1. FreshInv'
      BY <2>11 DEF AcquireFails, FreshInv, Sendable, NumInv
    <3>2. LockInv' /\ FailedInv'
      BY <2>11 DEF AcquireFails, LockInv, FailedInv
    <3>3. NumInv'
      BY <2>11 DEF AcquireFails, NumInv
    <3>4. WholeInv' /\ FillInv'
      BY <2>11 DEF AcquireFails, WholeInv, FillInv
    <3>5. QED
      BY <1>1, <3>1, <3>2, <3>3, <3>4
  <2>12. CASE CloseStream(w)
    <3>1. LockInv'
      BY <2>12 DEF CloseStream, LockInv
    <3>2. FreshInv'
      BY <2>12 DEF CloseStream, FreshInv, Sendable
    <3>3. FailedInv'
      BY <2>12 DEF CloseStream, FailedInv
    <3>4. NumInv'
      BY <2>12 DEF CloseStream, NumInv
    <3>5. WholeInv' /\ FillInv'
      BY <2>12 DEF CloseStream, WholeInv, FillInv
    <3>6. QED
      BY <1>1, <3>1, <3>2, <3>3, <3>4, <3>5
  <2>13. CASE GiveUp(w)
    <3>1. PICK to \in Quiet :
            /\ wpc[w] \in Quiet \cup {"send"} /\ wpc' = [wpc EXCEPT ![w] = to]
            /\ wpc[w] = "no_data" => to = "finished"
            /\ wpc[w] # "finished"
      BY <2>13 DEF GiveUp, Quiet
    <3>2. QED
      BY <1>1, <2>13, <3>1, QuietStep DEF GiveUp
  <2>14. CASE LockToCopy(w)
    <3>1. FailedInv'
      BY <2>14 DEF LockToCopy, Lock, FailedInv, LockInv
    <3>2. FreshInv'
      BY <2>14 DEF LockToCopy, Lock, FreshInv, Sendable, LockInv
    <3>3. LockInv'
      BY <2>14 DEF LockToCopy, Lock, LockInv
    <3>4. NumInv'
      BY <2>14 DEF LockToCopy, Lock, NumInv
    <3>5. WholeInv' /\ FillInv'
      BY <2>14 DEF LockToCopy, Lock, WholeInv, FillInv
    <3>6. QED
      BY <1>1, <3>1, <3>2, <3>3, <3>4, <3>5
  <2>15. CASE CopyFirst(w)
    <3>1. LockInv'
      BY <2>15 DEF CopyFirst, CopyHalf, LockInv
    <3>2. FreshInv'
      BY <2>15 DEF CopyFirst, CopyHalf, FreshInv, Sendable, NumInv
    <3>3. FailedInv'
      BY <2>15 DEF CopyFirst, CopyHalf, FailedInv
    <3>4. NumInv'
      BY <2>15 DEF CopyFirst, CopyHalf, NumInv
    <3>5. WholeInv' /\ FillInv'
      BY <2>15 DEF CopyFirst, CopyHalf, WholeInv, FillInv
    <3>6. QED
      BY <1>1, <3>1, <3>2, <3>3, <3>4, <3>5
  <2>16. CASE CopySecond(w)
    <3>1. LockInv'
      BY <2>16 DEF CopySecond, CopyHalf, LockInv
    <3>2. FreshInv'
      BY <2>16 DEF CopySecond, CopyHalf, FreshInv, Sendable, WholeInv, LockInv
    <3>3. FailedInv'
      BY <2>16 DEF CopySecond, CopyHalf, FailedInv
    <3>4. NumInv'
      BY <2>16 DEF CopySecond, CopyHalf, NumInv
    <3>5. WholeInv' /\ FillInv'
      BY <2>16 DEF CopySecond, CopyHalf, WholeInv, FillInv
    <3>6. QED
      BY <1>1, <3>1, <3>2, <3>3, <3>4, <3>5
  <2>17. CASE UnlockCopied(w)
    <3>1. FreshInv'
      BY <2>17 DEF UnlockCopied, Unlock, FreshInv, Sendable
    <3>2. LockInv' /\ FailedInv'
      BY <2>17 DEF UnlockCopied, Unlock, LockInv, FailedInv
    <3>3. NumInv'
      BY <2>17 DEF UnlockCopied, Unlock, NumInv
    <3>4. WholeInv' /\ FillInv'
      BY <2>17 DEF UnlockCopied, Unlock, WholeInv, FillInv
    <3>5. QED
      BY <1>1, <3>1, <3>2, <3>3, <3>4
  <2>18. CASE Send(w)
    <3>1. PICK to \in Quiet :
            /\ wpc[w] \in Quiet \cup {"send"} /\ wpc' = [wpc EXCEPT ![w] = to]
            /\ wpc[w] = "no_data" => to = "finished"
            /\ wpc[w] # "finished"
      BY <2>18 DEF Send, Quiet
    <3>2. QED
      BY <1>1, <2>18, <3>1, QuietStep DEF Send
  <2>19. CASE OpenFile(w)
    <3>1. PICK to \in Quiet :
            /\ wpc[w] \in Quiet \cup {"send"} /\ wpc' = [wpc EXCEPT ![w] = to]
            /\ wpc[w] = "no_data" => to = "finished"
            /\ wpc[w] # "finished"
      BY <2>19 DEF OpenFile, Quiet
    <3>2. QED
      BY <1>1, <2>19, <3>1, QuietStep DEF OpenFile
  <2>20. CASE WriteFirst(w)
    <3>1. PICK to \in Quiet :
            /\ wpc[w] \in Quiet \cup {"send"} /\ wpc' = [wpc EXCEPT ![w] = to]
            /\ wpc[w] = "no_data" => to = "finished"
            /\ wpc[w] # "finished"
      BY <2>20 DEF WriteFirst, Quiet
    <3>2. QED
      BY <1>1, <2>20, <3>1, QuietStep DEF WriteFirst, WriteHalf
  <2>21. CASE WriteSecond(w)
    <3>1. PICK to \in Quiet :
            /\ wpc[w] \in Quiet \cup {"send"} /\ wpc' = [wpc EXCEPT ![w] = to]
            /\ wpc[w] = "no_data" => to = "finished"
            /\ wpc[w] # "finished"
      BY <2>21 DEF WriteSecond, Quiet
    <3>2. QED
      BY <1>1, <2>21, <3>1, QuietStep DEF WriteSecond, WriteHalf
  <2>22. CASE WriteFails(w)
    <3>1. PICK to \in Quiet :
            /\ wpc[w] \in Quiet \cup {"send"} /\ wpc' = [wpc EXCEPT ![w] = to]
            /\ wpc[w] = "no_data" => to = "finished"
            /\ wpc[w] # "finished"
      BY <2>22 DEF WriteFails, Quiet
    <3>2. QED
      BY <1>1, <2>22, <3>1, QuietStep DEF WriteFails
  <2>23. CASE Finish(w)
    <3>1. PICK to \in Quiet :
            /\ wpc[w] \in Quiet \cup {"send"} /\ wpc' = [wpc EXCEPT ![w] = to]
            /\ wpc[w] = "no_data" => to = "finished"
            /\ wpc[w] # "finished"
      BY <2>23 DEF Finish, Quiet
    <3>2. QED
      BY <1>1, <2>23, <3>1, QuietStep DEF Finish
  <2>24. QED
    BY <1>3, <2>1, <2>2, <2>3, <2>4, <2>5, <2>6, <2>7, <2>8, <2>9, <2>10,
       <2>11, <2>12, <2>13, <2>14, <2>15, <2>16, <2>17, <2>18, <2>19, <2>20,
       <2>21, <2>22, <2>23
    DEF Step, GetInstance, Acquire, GetImage, SaveImage
<1>4. QED
  BY <1>2, <1>3 DEF Next

(* In every run of the work threads IInv holds: the strengthening from      *)
(* which the two theorems below follow.                                      *)
LEMMA InvHolds == Spec => []IInv
  BY InvInit, InvStep, PTL DEF Spec

(* DET_State.cpp:76-88 with PRB_IMG.cpp:217-271: whatever the interleaving   *)
(* of any number of work threads, and even when they use different PRB_IMG   *)
(* objects, an image that is sent has parts of two acquisitions only if the  *)
(* frame that came last had too few bytes, and none of its parts is older    *)
(* than the sender's own acquisition, unless that one's frame had too few.   *)
THEOREM ImagesWholeAndFresh == Spec => []ImageWholeAndFresh
<1>1. IInv => ImageWholeAndFresh
  BY DEF IInv, FreshInv, ImageWholeAndFresh
<1>2. QED
  BY <1>1, InvHolds, PTL

(* PRB_IMG.cpp:233-247 with DET_State.cpp:71-78: a thread whose acquisition  *)
(* failed never sends an image, although its failure is not looked at.       *)
THEOREM FailedNeverSends == Spec => []NoImageAfterFailure
<1>1. IInv => NoImageAfterFailure
  BY DEF IInv, FailedInv, NoImageAfterFailure
<1>2. QED
  BY <1>1, InvHolds, PTL

-----------------------------------------------------------------------------
(* How far the thread that truncated data.bin last has got, unless a write  *)
(* of its own failed: what it has passed is written, by it or over it.      *)
FileInv ==
  opener # Null /\ opener \notin unwritten =>
    /\ wpc[opener] \in {"write_1", "write_2", "written", "finished"}
    /\ wpc[opener] # "write_1" => file[1] # Null
    /\ wpc[opener] \in {"written", "finished"} => file[2] # Null

LEMMA FileInvStep == TypeOK /\ FileInv /\ [Next]_vars => FileInv'
<1> SUFFICES ASSUME TypeOK, FileInv, [Next]_vars
             PROVE  FileInv'
  OBVIOUS
<1> USE WorkerAssumption DEF TypeOK, FileInv, disk
<1>1. CASE UNCHANGED vars
  BY <1>1 DEF vars
<1>2. ASSUME NEW w \in Workers,
             Start(w) \/ Step(w) \/ Send(w) \/ SaveImage(w)
      PROVE  FileInv'
  <2> USE DEF Goto
  <2>1. CASE Start(w) \/ Step(w) \/ Send(w) \/ Finish(w)
    <3>1. UNCHANGED disk
      BY <2>1 DEF Start, Step, Send, Finish, GetInstance, TestInstance,
         ConstructInstance, ReadInstance, Acquire, DeviceMissing, LockToFill,
         FillFirst, FillSecond, FillHalf, ShortFrame, UnlockFilled, AcquireFails,
         CloseStream, GiveUp, GetImage, LockToCopy, CopyFirst, CopySecond,
         CopyHalf, UnlockCopied
    <3>2. \/ wpc[w] \notin {"write_1", "write_2", "written", "finished"}
          \/ wpc[w] = "written" /\ wpc'[w] = "finished"
      BY <2>1 DEF Start, Step, Send, Finish, GetInstance, TestInstance,
         ConstructInstance, ReadInstance, Acquire, DeviceMissing, LockToFill,
         FillFirst, FillSecond, ShortFrame, UnlockFilled, AcquireFails,
         CloseStream, GiveUp, GetImage, LockToCopy, CopyFirst, CopySecond,
         UnlockCopied
    <3>3. \A x \in Workers \ {w} : wpc'[x] = wpc[x]
      BY <2>1 DEF Start, Step, Send, Finish, GetInstance, TestInstance,
         ConstructInstance, ReadInstance, Acquire, DeviceMissing, LockToFill,
         FillFirst, FillSecond, ShortFrame, UnlockFilled, AcquireFails,
         CloseStream, GiveUp, GetImage, LockToCopy, CopyFirst, CopySecond,
         UnlockCopied
    <3>4. QED
      BY <3>1, <3>2, <3>3
  <2>2. CASE OpenFile(w)
    BY <2>2 DEF OpenFile
  <2>3. CASE WriteFirst(w)
    BY <2>3 DEF WriteFirst, WriteHalf
  <2>4. CASE WriteSecond(w)
    BY <2>4 DEF WriteSecond, WriteHalf
  <2>5. CASE WriteFails(w)
    BY <2>5 DEF WriteFails
  <2>6. QED
    BY <1>2, <2>1, <2>2, <2>3, <2>4, <2>5 DEF SaveImage
<1>3. QED
  BY <1>1, <1>2 DEF Next

(* DET_State.cpp:90-96: any number of threads may truncate and write         *)
(* data.bin at a time, and any write may fail unnoticed; once the thread     *)
(* that truncated it last is through, no part is missing, unless a write or  *)
(* the close of that very thread failed.                                     *)
THEOREM FileIsComplete == Spec => []FileComplete
<1>1. Init => FileInv
  BY DEF Init, FileInv
<1>2. TypeOK /\ FileInv => FileComplete
  BY WorkerAssumption DEF TypeOK, FileInv, FileComplete, Writing
<1>3. QED
  BY <1>1, <1>2, TypeCorrect, FileInvStep, PTL DEF Spec

=============================================================================
