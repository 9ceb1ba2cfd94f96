----------------------------- MODULE WorkThread -----------------------------
(***************************************************************************)
(* The thread that WorkState::handle starts for every WORK command, with   *)
(* the part of PRB_IMG it uses.  Nothing limits how many of them run at a  *)
(* time: they share the PRB_IMG instance (its image buffer is guarded by   *)
(* one mutex, taken once to fill and once more to copy) and the file       *)
(* data.bin.  getInstance is not synchronised.                             *)
(*                                                                         *)
(* An image is the number of the acquisition that produced it, kept for    *)
(* each half of a buffer, so that a torn or a stale image shows; 0 is an   *)
(* uninitialised half.  Of the file it matters whose bytes stand in each   *)
(* half.  A PRB_IMG object is named after the thread that constructed it.  *)
(***************************************************************************)
EXTENDS Naturals, FiniteSets

CONSTANTS
  Workers,   \* work threads, one per WORK command
  Null,      \* no thread, no PRB_IMG object
  IMX8       \* built with IMX8_SOM: a camera, which can fail

ASSUME WorkerAssumption ==
  /\ IsFiniteSet(Workers)
  /\ Null \notin Workers
  /\ IMX8 \in BOOLEAN

VARIABLES
  uniqueInstance,
  mutex,      \* holder of the connection_mutex of each PRB_IMG object
  img_buf,    \* its image, as two halves
  wpc,        \* where each work thread stands
  pPRB_IMG,   \* the object a thread got from getInstance
  buffer,     \* its private copy of the image
  own,        \* the number of its acquisition, 0 before
  acquired,   \* history: acquisitions so far
  failed,     \* history: threads whose acquisition failed
  short,      \* history: acquisitions that delivered less than an image
  file,       \* data.bin: the thread whose bytes stand in each half
  opener,     \* history: the thread that truncated data.bin last
  unwritten   \* history: threads that could not write all of it

shared == <<uniqueInstance, mutex, img_buf, acquired>>
mine == <<pPRB_IMG, buffer, own>>
past == <<failed, short>>
disk == <<file, opener, unwritten>>
vars == <<shared, wpc, mine, past, disk>>

Blank == [h \in {1, 2} |-> 0]
Truncated == [h \in {1, 2} |-> Null]

(* The mutex of a PRB_IMG object is never initialised.  The object has     *)
(* more than 22 MB and therefore lies in fresh pages of the heap, where    *)
(* its mutex reads as zeros: a free one.                                   *)
Init ==
  /\ uniqueInstance = Null
  /\ mutex = [i \in Workers |-> Null]
  /\ img_buf = [i \in Workers |-> Blank]
  /\ wpc = [w \in Workers |-> "unborn"]
  /\ pPRB_IMG = [w \in Workers |-> Null]
  /\ buffer = [w \in Workers |-> Blank]
  /\ own = [w \in Workers |-> 0]
  /\ acquired = 0
  /\ failed = {} /\ short = {}
  /\ file = Truncated /\ opener = Null /\ unwritten = {}

(* exit() in one thread is the end of all of them. *)
Running == \A w \in Workers : wpc[w] # "exited"
Goto(w, from, to) ==
  Running /\ wpc[w] = from /\ wpc' = [wpc EXCEPT ![w] = to]

(* WorkState::handle starts the thread. *)
Start(w) ==
  /\ Goto(w, "unborn", "test")
  /\ UNCHANGED <<shared, mine, past, disk>>

-----------------------------------------------------------------------------
(* PRB_IMG::getInstance: test, construct and assign, read once more. *)
TestInstance(w) ==
  /\ \/ uniqueInstance = Null /\ Goto(w, "test", "construct")
     \/ uniqueInstance # Null /\ Goto(w, "test", "read")
  /\ UNCHANGED <<shared, mine, past, disk>>

(* Faulty variant: the new object is not stored. *)
ConstructUnstored(w) ==
  /\ Goto(w, "construct", "read")
  /\ UNCHANGED <<shared, mine, past, disk>>

ConstructInstance(w) ==
  /\ Goto(w, "construct", "read")
  /\ uniqueInstance' = w
  /\ UNCHANGED <<mutex, img_buf, acquired, mine, past, disk>>

ReadInstance(w) ==
  /\ Goto(w, "read", "lock_fill")
  /\ pPRB_IMG' = [pPRB_IMG EXCEPT ![w] = uniqueInstance]
  /\ UNCHANGED <<shared, buffer, own, past, disk>>

-----------------------------------------------------------------------------
(* PRB_IMG::IMG_acquire, and with IMX8 the calls around it: the results of *)
(* intialize_stream, open_stream and trigger_event are only logged.  But   *)
(* a device they cannot open, or a buffer they cannot map, ends the        *)
(* process.                                                                *)
DeviceMissing(w) ==
  /\ IMX8
  /\ Goto(w, "lock_fill", "exited")
  /\ UNCHANGED <<shared, mine, past, disk>>

Lock(w) ==
  /\ mutex[pPRB_IMG[w]] = Null
  /\ mutex' = [mutex EXCEPT ![pPRB_IMG[w]] = w]

Unlock(w) == mutex' = [mutex EXCEPT ![pPRB_IMG[w]] = Null]

LockToFill(w) ==
  /\ Goto(w, "lock_fill", "fill_1")
  /\ Lock(w)
  /\ acquired' = acquired + 1
  /\ own' = [own EXCEPT ![w] = acquired + 1]
  /\ UNCHANGED <<uniqueInstance, img_buf, pPRB_IMG, buffer, past, disk>>

FillHalf(w, h) ==
  /\ img_buf' = [img_buf EXCEPT ![pPRB_IMG[w]][h] = own[w]]
  /\ UNCHANGED <<uniqueInstance, mutex, acquired, mine, past, disk>>

FillFirst(w) == Goto(w, "fill_1", "fill_2") /\ FillHalf(w, 1)
FillSecond(w) == Goto(w, "fill_2", "unlock_fill") /\ FillHalf(w, 2)

(* A frame of fewer bytes than an image (bytesused): the rest of the       *)
(* buffer keeps what an older one left there.                              *)
ShortFrame(w) ==
  /\ IMX8
  /\ \/ Goto(w, "fill_1", "unlock_fill")
     \/ Goto(w, "fill_2", "unlock_fill")
  /\ short' = short \cup {own[w]}
  /\ UNCHANGED <<shared, mine, failed, disk>>

UnlockFilled(w) ==
  /\ Goto(w, "unlock_fill", IF IMX8 THEN "close_stream" ELSE "lock_copy")
  /\ Unlock(w)
  /\ UNCHANGED <<uniqueInstance, img_buf, acquired, mine, past, disk>>

(* Faulty variant: the mutex is released on the failure paths too. *)
AcquireFailsUnlocked(w) ==
  /\ IMX8
  /\ Goto(w, "fill_1", "close_stream")
  /\ failed' = failed \cup {w}
  /\ Unlock(w)
  /\ UNCHANGED <<uniqueInstance, img_buf, acquired, mine, short, disk>>

(* select fails, or no frame can be dequeued (a select that timed out      *)
(* included): IMG_acquire returns with the mutex held.                     *)
AcquireFails(w) ==
  /\ IMX8
  /\ Goto(w, "fill_1", "close_stream")
  /\ failed' = failed \cup {w}
  /\ UNCHANGED <<shared, mine, short, disk>>

(* ret = close_stream() replaces the result of IMG_acquire. *)
CloseStream(w) ==
  /\ \/ Goto(w, "close_stream", "lock_copy")
     \/ Goto(w, "close_stream", "no_data")
  /\ UNCHANGED <<shared, mine, past, disk>>

(* "Failed to get data from PRB." and return. *)
GiveUp(w) ==
  /\ Goto(w, "no_data", "finished")
  /\ UNCHANGED <<shared, mine, past, disk>>

-----------------------------------------------------------------------------
(* Faulty variant: the copy is made without the mutex. *)
CopyUnlocked(w) ==
  /\ Goto(w, "lock_copy", "copy_1")
  /\ UNCHANGED <<shared, mine, past, disk>>

(* PRB_IMG::get_IMG *)
LockToCopy(w) ==
  /\ Goto(w, "lock_copy", "copy_1")
  /\ Lock(w)
  /\ UNCHANGED <<uniqueInstance, img_buf, acquired, mine, past, disk>>

CopyHalf(w, h) ==
  /\ buffer' = [buffer EXCEPT ![w][h] = img_buf[pPRB_IMG[w]][h]]
  /\ UNCHANGED <<shared, pPRB_IMG, own, past, disk>>

CopyFirst(w) == Goto(w, "copy_1", "copy_2") /\ CopyHalf(w, 1)
CopySecond(w) == Goto(w, "copy_2", "unlock_copy") /\ CopyHalf(w, 2)

(* Faulty variant: the unlock is forgotten. *)
CopiedUnlockForgotten(w) ==
  /\ Goto(w, "unlock_copy", "send")
  /\ UNCHANGED <<shared, mine, past, disk>>

UnlockCopied(w) ==
  /\ Goto(w, "unlock_copy", "send")
  /\ Unlock(w)
  /\ UNCHANGED <<uniqueInstance, img_buf, acquired, mine, past, disk>>

-----------------------------------------------------------------------------
(* send_data_to_client returns, or fails and makes the thread another      *)
(* accept loop, which may return much later or never.                      *)
Send(w) ==
  /\ \/ Goto(w, "send", "open")
     \/ Goto(w, "send", "accepting")
     \/ Goto(w, "accepting", "open")
  /\ UNCHANGED <<shared, mine, past, disk>>

(* std::ofstream("data.bin"): truncates, also under a writing thread. *)
OpenFile(w) ==
  /\ \/ Goto(w, "open", "write_1") /\ file' = Truncated /\ opener' = w
     \/ Goto(w, "open", "finished") /\ UNCHANGED <<file, opener>>
  /\ UNCHANGED <<shared, mine, past, unwritten>>

WriteHalf(w, h) ==
  /\ file' = [file EXCEPT ![h] = w]
  /\ UNCHANGED <<shared, mine, past, opener, unwritten>>

(* Faulty variant: the last part is not written. *)
WriteFirstOnly(w) == Goto(w, "write_1", "written") /\ WriteHalf(w, 1)

WriteFirst(w) == Goto(w, "write_1", "write_2") /\ WriteHalf(w, 1)
WriteSecond(w) == Goto(w, "write_2", "written") /\ WriteHalf(w, 2)

(* write or close fails, as on a full disk: nobody looks at the stream.    *)
WriteFails(w) ==
  /\ \/ Goto(w, "write_1", "written")
     \/ Goto(w, "write_2", "written")
  /\ unwritten' = unwritten \cup {w}
  /\ UNCHANGED <<shared, mine, past, file, opener>>

(* "Data written to file: data.bin", in any case, then its checksum. *)
Finish(w) ==
  /\ Goto(w, "written", "finished")
  /\ UNCHANGED <<shared, mine, past, disk>>

GetInstance(w) == TestInstance(w) \/ ConstructInstance(w) \/ ReadInstance(w)
Acquire(w) ==
  \/ DeviceMissing(w) \/ LockToFill(w) \/ FillFirst(w) \/ FillSecond(w)
  \/ ShortFrame(w) \/ UnlockFilled(w) \/ AcquireFails(w) \/ CloseStream(w) \/ GiveUp(w)
GetImage(w) ==
  LockToCopy(w) \/ CopyFirst(w) \/ CopySecond(w) \/ UnlockCopied(w)
SaveImage(w) ==
  OpenFile(w) \/ WriteFirst(w) \/ WriteSecond(w) \/ WriteFails(w) \/ Finish(w)

Step(w) == GetInstance(w) \/ Acquire(w) \/ GetImage(w)

Next == \E w \in Workers : Start(w) \/ Step(w) \/ Send(w) \/ SaveImage(w)

Spec == Init /\ [][Next]_vars

(* A thread that can run does.  Nothing is assumed of Start and of Send,   *)
(* which depend on the client, or of which thread gets a contended mutex.  *)
FairSpec == Spec /\ \A w \in Workers : WF_vars(Step(w))

-----------------------------------------------------------------------------
Halves == [{1, 2} -> Nat]
WPC == {"unborn", "test", "construct", "read", "lock_fill", "fill_1", "fill_2",
        "unlock_fill", "close_stream", "no_data", "lock_copy", "copy_1",
        "copy_2", "unlock_copy", "send", "accepting", "open", "write_1",
        "write_2", "written", "finished", "exited"}

(* Program points at which a thread has no PRB_IMG object yet. *)
Before == {"unborn", "test", "construct", "read"}

(* Type invariant of the PRB_IMG objects, the threads and the file. *)
TypeOK ==
  /\ uniqueInstance \in Workers \cup {Null}
  /\ mutex \in [Workers -> Workers \cup {Null}]
  /\ img_buf \in [Workers -> Halves]
  /\ wpc \in [Workers -> WPC]
  /\ pPRB_IMG \in [Workers -> Workers \cup {Null}]
  /\ \A w \in Workers : wpc[w] \notin Before => pPRB_IMG[w] # Null
  /\ buffer \in [Workers -> Halves]
  /\ own \in [Workers -> Nat]
  /\ acquired \in Nat
  /\ failed \subseteq Workers
  /\ short \subseteq Nat
  /\ file \in [{1, 2} -> Workers \cup {Null}]
  /\ opener \in Workers \cup {Null}
  /\ unwritten \subseteq Workers

(* The image a thread sends is whole and not stale but for short frames:   *)
(* its halves come from two acquisitions only if the later one delivered   *)
(* less than an image, and neither is older than the thread's own unless   *)
(* that one did.  The mutex is given up between filling and copying, and   *)
(* the instance may have been replaced by another thread's in between      *)
(* (PRB_IMG.cpp:22-33, 217-271).                                           *)
Sendable(w) ==
  /\ buffer[w][1] # buffer[w][2] => buffer[w][1] \in short
  /\ own[w] \notin short => \A h \in {1, 2} : buffer[w][h] >= own[w]
ImageWholeAndFresh == \A w \in Workers : wpc[w] = "send" => Sendable(w)

(* A thread whose acquisition failed never sends an image, although the    *)
(* result of IMG_acquire is overwritten by that of close_stream and        *)
(* get_IMG is called all the same: it blocks on the mutex it still holds.  *)
NoImageAfterFailure == \A w \in failed : wpc[w] # "send"

(* A file truncated under another thread is completed by the one that      *)
(* truncated it: once the last to do so is through, no part of data.bin is *)
(* missing, unless that thread could not write.  (It need not be the image *)
(* of ONE thread.)                                                         *)
Writing == {w \in Workers : wpc[w] \in {"write_1", "write_2"}}
FileComplete ==
  opener \in Workers \ (Writing \cup unwritten) =>
    \A h \in {1, 2} : file[h] \in Workers

(* Every work thread gets to send an image, or is told that there is none, *)
(* however many of them compete for the instance and its mutex, unless an  *)
(* acquisition fails or a device is missing.                               *)
ImageObtained ==
  \A w \in Workers :
    wpc[w] = "test" ~>
      wpc[w] \in {"send", "no_data"} \/ failed # {} \/ ~Running

(* DET_State.cpp:80-83: when no image can be had the thread warns "Failed  *)
(* to get data from PRB." and returns.  A thread whose acquisition failed  *)
(* therefore ends.                                                         *)
FailureReported ==
  \A w \in Workers : w \in failed ~> wpc[w] = "finished" \/ ~Running

=============================================================================
