---------------------------- MODULE CameraStream ----------------------------
(***************************************************************************)
(* The camera part of a work thread in the build for the board (IMX8_SOM): *)
(* intialize_stream, open_stream, trigger_event, IMG_acquire and           *)
(* close_stream of PRB_IMG, in the order in which WorkState::handle calls  *)
(* them.  The descriptors and the array of mapped buffers are members of   *)
(* the PRB_IMG object (one, as getInstance means it to be) that all work   *)
(* threads use, and no lock covers them; every step below reads them as    *)
(* they are by then.  The results of the first three calls are only        *)
(* logged: the thread goes on.                                             *)
(*                                                                         *)
(* Descriptors and arrays are numbered in the order of their creation.     *)
(* After the first misuse the behaviour is undefined and the model stops.  *)
(***************************************************************************)
EXTENDS Naturals, FiniteSets

CONSTANTS
  Workers,   \* work threads, one per WORK command
  N_BUF      \* buffers asked for, and unmapped in the end

ASSUME CameraAssumption ==
  /\ IsFiniteSet(Workers)
  /\ N_BUF \in Nat \ {0}

VARIABLES
  cpc,            \* where each work thread stands
  i,              \* loop index of each work thread
  granted,        \* v4l2_req.count after VIDIOC_REQBUFS, per thread
  fd_mxc, fd_csi, fd_prb,   \* the members, 0 before any open
  p_dma_buffers,  \* the array the member points to, 0 for none
  opens, arrays,  \* descriptors and arrays created so far
  open,           \* descriptors that are open
  mapped,         \* buffers that are mapped, as <<array, index>>
  locked,         \* connection_mutex kept for ever by a failed IMG_acquire
  status,         \* "running", "exit", or the first misuse
  abandoned,      \* history: streams left open because VIDIOC_STREAMOFF failed
  uneven,         \* history: an initialisation did not map N_BUF buffers
  overlapped      \* history: two threads used the camera at a time

fds == <<fd_mxc, fd_csi, fd_prb, opens, open>>
buffers == <<p_dma_buffers, arrays, mapped>>
vars == <<cpc, i, granted, fds, buffers, locked, status, abandoned, uneven,
          overlapped>>

Init ==
  /\ cpc = [w \in Workers |-> "unborn"]
  /\ i = [w \in Workers |-> 1]
  /\ granted = [w \in Workers |-> N_BUF]
  /\ fd_mxc = 0 /\ fd_csi = 0 /\ fd_prb = 0
  /\ p_dma_buffers = 0
  /\ opens = 0 /\ arrays = 0
  /\ open = {}
  /\ mapped = {}
  /\ locked = FALSE
  /\ status = "running"
  /\ abandoned = {}
  /\ uneven = FALSE
  /\ overlapped = FALSE

Goto(w, from, to) ==
  status = "running" /\ cpc[w] = from /\ cpc' = [cpc EXCEPT ![w] = to]

Misuse(w, at, what) ==
  /\ Goto(w, at, at)
  /\ status' = what
  /\ UNCHANGED <<i, granted, fds, buffers, locked, abandoned, uneven>>

(* A descriptor number that is not in use. *)
NewFd == opens + 1
OpenNew == opens' = NewFd /\ open' = open \cup {NewFd}

-----------------------------------------------------------------------------
(* PRB_IMG::intialize_stream *)
OpenMxc(w) ==
  /\ Goto(w, "unborn", "open_csi")
  /\ OpenNew /\ fd_mxc' = NewFd
  /\ UNCHANGED <<i, granted, fd_csi, fd_prb, buffers, locked, status, abandoned,
                 uneven>>

OpenCsi(w) ==
  /\ Goto(w, "open_csi", "configure")
  /\ OpenNew /\ fd_csi' = NewFd
  /\ UNCHANGED <<i, granted, fd_mxc, fd_prb, buffers, locked, status, abandoned,
                 uneven>>

(* VVCSIOC_S_FMT, VIDIOC_S_FMT and VIDIOC_REQBUFS; the driver may grant    *)
(* fewer or more buffers than it was asked for.                            *)
Configure(w) ==
  /\ Goto(w, "configure", "calloc")
  /\ \E n \in 1..(N_BUF + 1) :
       /\ granted' = [granted EXCEPT ![w] = n]
       /\ uneven' = (uneven \/ n # N_BUF)
  /\ UNCHANGED <<i, fds, buffers, locked, status, abandoned>>

(* One of the calls fails ten times: return ret, with both devices open. *)
InitializeFails(w) ==
  /\ \/ Goto(w, "configure", "stream_on")
     \/ i[w] <= granted[w] /\ Goto(w, "map", "stream_on")
  /\ uneven' = TRUE
  /\ UNCHANGED <<i, granted, fds, buffers, locked, status, abandoned>>

(* Faulty variant: the buffers are mapped into the array there was. *)
CallocOmitted(w) ==
  /\ Goto(w, "calloc", "map")
  /\ i' = [i EXCEPT ![w] = 1]
  /\ UNCHANGED <<granted, fds, buffers, locked, status, abandoned, uneven>>

(* The array of the stream before is not freed. *)
Calloc(w) ==
  /\ Goto(w, "calloc", "map")
  /\ arrays' = arrays + 1
  /\ p_dma_buffers' = arrays + 1
  /\ i' = [i EXCEPT ![w] = 1]
  /\ UNCHANGED <<granted, fds, mapped, locked, status, abandoned, uneven>>

(* VIDIOC_QUERYBUF and v4l2_mmap of buffer i. *)
Map(w) ==
  /\ i[w] <= granted[w]
  /\ Goto(w, "map", "map")
  /\ mapped' = mapped \cup {<<p_dma_buffers, i[w]>>}
  /\ i' = [i EXCEPT ![w] = @ + 1]
  /\ UNCHANGED <<granted, fds, p_dma_buffers, arrays, locked, status, abandoned,
                 uneven>>

(* VIDIOC_QBUF of all buffers, whose failure is no more than logged. *)
Queue(w) ==
  /\ i[w] > granted[w]
  /\ Goto(w, "map", "stream_on")
  /\ UNCHANGED <<i, granted, fds, buffers, locked, status, abandoned, uneven>>

(* open or mmap fails: exit(EXIT_FAILURE). *)
Exit(w) ==
  /\ \/ Goto(w, "unborn", "unborn") \/ Goto(w, "open_csi", "open_csi")
     \/ i[w] <= granted[w] /\ Goto(w, "map", "map")
     \/ Goto(w, "open_prb", "open_prb")
  /\ status' = "exit"
  /\ UNCHANGED <<i, granted, fds, buffers, locked, abandoned, uneven>>

(* PRB_IMG::open_stream *)
StreamOn(w) ==
  /\ Goto(w, "stream_on", "open_prb")
  /\ UNCHANGED <<i, granted, fds, buffers, locked, status, abandoned, uneven>>

-----------------------------------------------------------------------------
(* PRB_IMG::trigger_event; whether the register was written is not looked at. *)
OpenPrb(w) ==
  /\ Goto(w, "open_prb", "close_prb")
  /\ OpenNew /\ fd_prb' = NewFd
  /\ UNCHANGED <<i, granted, fd_mxc, fd_csi, buffers, locked, status, abandoned,
                 uneven>>

Close(w, fd, from, to) ==
  \/ /\ fd \in open
     /\ Goto(w, from, to)
     /\ open' = open \ {fd}
     /\ UNCHANGED <<i, granted, fd_mxc, fd_csi, fd_prb, opens, buffers, locked,
                    status, abandoned, uneven>>
  \/ fd \notin open /\ Misuse(w, from, "double close")

ClosePrb(w) == Close(w, fd_prb, "close_prb", "acquire")

(* PRB_IMG::IMG_acquire: the frame is read from the buffer it was dequeued *)
(* as, one that some thread has queued, or the call fails and the mutex    *)
(* stays locked.                                                           *)
EverQueued == {k \in 1..(N_BUF + 1) : \E v \in Workers : k <= granted[v] /\ granted[v] < i[v]}

Acquire(w) ==
  /\ ~locked
  /\ \E k \in EverQueued :
       \/ /\ <<p_dma_buffers, k>> \in mapped
          /\ Goto(w, "acquire", "stream_off")
          /\ UNCHANGED <<i, granted, fds, buffers, locked, status, abandoned,
                         uneven>>
       \/ <<p_dma_buffers, k>> \notin mapped /\ Misuse(w, "acquire", "bad read")

AcquireFails(w) ==
  /\ ~locked
  /\ Goto(w, "acquire", "stream_off")
  /\ locked' = TRUE
  /\ UNCHANGED <<i, granted, fds, buffers, status, abandoned, uneven>>

-----------------------------------------------------------------------------
(* PRB_IMG::close_stream *)
StreamOff(w) ==
  /\ Goto(w, "stream_off", "unmap")
  /\ i' = [i EXCEPT ![w] = 1]
  /\ UNCHANGED <<granted, fds, buffers, locked, status, abandoned, uneven>>

(* VIDIOC_STREAMOFF fails: return, nothing is unmapped or closed. *)
StreamOffFails(w) ==
  /\ Goto(w, "stream_off", "finished")
  /\ abandoned' = abandoned \cup
                    {[mxc |-> fd_mxc, csi |-> fd_csi, array |-> p_dma_buffers]}
  /\ UNCHANGED <<i, granted, fds, buffers, locked, status, uneven>>

(* Faulty variant: one buffer too few is unmapped. *)
UnmapButLast(w) ==
  \/ /\ i[w] < N_BUF /\ <<p_dma_buffers, i[w]>> \in mapped
     /\ Goto(w, "unmap", "unmap")
     /\ mapped' = mapped \ {<<p_dma_buffers, i[w]>>}
     /\ i' = [i EXCEPT ![w] = @ + 1]
     /\ UNCHANGED <<granted, fds, p_dma_buffers, arrays, locked, status,
                    abandoned, uneven>>
  \/ /\ i[w] >= N_BUF
     /\ Goto(w, "unmap", "close_mxc")
     /\ UNCHANGED <<i, granted, fds, buffers, locked, status, abandoned, uneven>>

(* As many as were asked for, whatever was granted or mapped. *)
Unmap(w) ==
  \/ /\ i[w] <= N_BUF /\ <<p_dma_buffers, i[w]>> \in mapped
     /\ Goto(w, "unmap", "unmap")
     /\ mapped' = mapped \ {<<p_dma_buffers, i[w]>>}
     /\ i' = [i EXCEPT ![w] = @ + 1]
     /\ UNCHANGED <<granted, fds, p_dma_buffers, arrays, locked, status,
                    abandoned, uneven>>
  \/ /\ i[w] <= N_BUF /\ <<p_dma_buffers, i[w]>> \notin mapped
     /\ Misuse(w, "unmap", "bad unmap")
  \/ /\ i[w] > N_BUF
     /\ Goto(w, "unmap", "close_mxc")
     /\ UNCHANGED <<i, granted, fds, buffers, locked, status, abandoned, uneven>>

CloseMxc(w) == Close(w, fd_mxc, "close_mxc", "close_csi")

(* Faulty variant: the first descriptor is closed twice. *)
CloseMxcAgain(w) == Close(w, fd_mxc, "close_csi", "finished")

CloseCsi(w) == Close(w, fd_csi, "close_csi", "finished")

InitializeStream(w) ==
  \/ OpenMxc(w) \/ OpenCsi(w) \/ Configure(w) \/ InitializeFails(w)
  \/ Calloc(w) \/ Map(w) \/ Queue(w)
TriggerEvent(w) == OpenPrb(w) \/ ClosePrb(w)
CloseStream(w) ==
  \/ StreamOff(w) \/ StreamOffFails(w) \/ Unmap(w) \/ CloseMxc(w) \/ CloseCsi(w)

Step(w) ==
  \/ InitializeStream(w) \/ StreamOn(w) \/ TriggerEvent(w)
  \/ Acquire(w) \/ AcquireFails(w) \/ CloseStream(w) \/ Exit(w)

(* Threads between the first open and the end of close_stream. *)
Inside == {w \in Workers : cpc[w] \notin {"unborn", "finished"}}
Overlap == \E v, w \in Inside : v # w

Next ==
  /\ \E w \in Workers : Step(w)
  /\ overlapped' = (overlapped \/ Overlap')

Spec == Init /\ [][Next]_vars

-----------------------------------------------------------------------------
CPC == {"unborn", "open_csi", "configure", "calloc", "map", "stream_on",
        "open_prb", "close_prb", "acquire", "stream_off", "unmap", "close_mxc",
        "close_csi", "finished"}
Misused == {"double close", "bad read", "bad unmap"}

(* Type invariant of the members, the resources behind them and the threads. *)
TypeOK ==
  /\ cpc \in [Workers -> CPC]
  /\ i \in [Workers -> Nat \ {0}]
  /\ granted \in [Workers -> 1..(N_BUF + 1)]
  /\ opens \in Nat /\ arrays \in Nat
  /\ fd_mxc \in 0..opens /\ fd_csi \in 0..opens /\ fd_prb \in 0..opens
  /\ p_dma_buffers \in 0..arrays
  /\ open \subseteq 1..opens
  /\ mapped \subseteq (1..arrays) \X Nat
  /\ locked \in BOOLEAN /\ uneven \in BOOLEAN /\ overlapped \in BOOLEAN
  /\ status \in {"running", "exit"} \cup Misused
  /\ abandoned \subseteq [mxc : 0..opens, csi : 0..opens, array : 0..arrays]

(* No descriptor is closed twice and no buffer is read or unmapped that is *)
(* not mapped, as long as no two work threads use the camera at a time and *)
(* every initialisation maps exactly the N_BUF buffers that close_stream   *)
(* unmaps (PRB_IMG.cpp:208).  Failures after that, of VIDIOC_QBUF, of      *)
(* STREAMON, of the trigger, of DQBUF or of STREAMOFF, do no such harm.    *)
Undisturbed == ~overlapped /\ ~uneven
NoMisuse == Undisturbed => status \notin Misused

(* Under the same conditions nothing is held between two WORK commands     *)
(* but the streams whose VIDIOC_STREAMOFF failed: those keep both          *)
(* descriptors and all their buffers for ever (PRB_IMG.cpp:204-206).       *)
AbandonedFds == {s.mxc : s \in abandoned} \cup {s.csi : s \in abandoned}
AbandonedBuffers == {<<s.array, k>> : s \in abandoned, k \in 1..N_BUF}
StreamReleased ==
  Undisturbed /\ Inside = {} =>
    open = AbandonedFds /\ mapped = AbandonedBuffers

=============================================================================
