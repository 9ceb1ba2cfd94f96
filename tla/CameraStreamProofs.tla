------------------------- MODULE CameraStreamProofs -------------------------
(***************************************************************************)
(* Type correctness of CameraStream, and that the camera is neither misused *)
(* nor leaked as long as its users do not overlap and every initialisation *)
(* maps the N_BUF buffers it asked for, for any number of work threads and *)
(* buffers.                                                                *)
(***************************************************************************)
EXTENDS CameraStream, TLAPS

LEMMA BufferCount == N_BUF \in Nat \ {0}
BY CameraAssumption DEF CameraAssumption

USE BufferCount

-----------------------------------------------------------------------------
(* A thread that maps has an array to map into. *)
ArrayInv == \A w \in Workers : cpc[w] = "map" => p_dma_buffers # 0

TypeInv == TypeOK /\ ArrayInv

LEMMA TypeInit == Init => TypeInv
<1> SUFFICES ASSUME Init PROVE TypeInv
  OBVIOUS
<1>1. cpc \in [Workers -> CPC] /\ ArrayInv
  BY DEF Init, ArrayInv, CPC
<1>2. i \in [Workers -> Nat \ {0}] /\ granted \in [Workers -> 1..(N_BUF + 1)]
  BY DEF Init
<1>3. /\ opens \in Nat /\ arrays \in Nat
      /\ fd_mxc \in 0..opens /\ fd_csi \in 0..opens /\ fd_prb \in 0..opens
      /\ p_dma_buffers \in 0..arrays
      /\ open \subseteq 1..opens
      /\ mapped \subseteq (1..arrays) \X Nat
      /\ status \in {"running", "exit"} \cup Misused
      /\ abandoned \subseteq [mxc : 0..opens, csi : 0..opens, array : 0..arrays]
  BY DEF Init
<1>4. locked \in BOOLEAN /\ uneven \in BOOLEAN /\ overlapped \in BOOLEAN
  BY Zenon DEF Init
<1> QED BY <1>1, <1>2, <1>3, <1>4 DEF TypeInv, TypeOK

LEMMA TypeOpens ==
  ASSUME TypeInv, NEW w \in Workers,
         OpenMxc(w) \/ OpenCsi(w) \/ OpenPrb(w),
         overlapped' \in BOOLEAN
  PROVE  TypeInv'
<1>1. /\ opens' \in Nat /\ arrays' \in Nat
      /\ fd_mxc' \in 0..opens' /\ fd_csi' \in 0..opens' /\ fd_prb' \in 0..opens'
      /\ open' \subseteq 1..opens' /\ p_dma_buffers' \in 0..arrays'
  <2>1. /\ opens' = opens + 1 /\ open' = open \cup {opens + 1}
        /\ UNCHANGED <<p_dma_buffers, arrays>>
    BY DEF OpenMxc, OpenCsi, OpenPrb, OpenNew, NewFd, buffers
  <2>2. /\ fd_mxc' \in {fd_mxc, opens + 1} /\ fd_csi' \in {fd_csi, opens + 1}
        /\ fd_prb' \in {fd_prb, opens + 1}
    BY DEF OpenMxc, OpenCsi, OpenPrb, NewFd
  <2> QED BY <2>1, <2>2 DEF TypeInv, TypeOK
<1>2. cpc' \in [Workers -> CPC] /\ \A v \in Workers : cpc'[v] = "map" => cpc[v] = "map"
  BY DEF TypeInv, TypeOK, OpenMxc, OpenCsi, OpenPrb, Goto, CPC
<1>3. abandoned' \subseteq [mxc : 0..opens', csi : 0..opens', array : 0..arrays']
  BY DEF TypeInv, TypeOK, OpenMxc, OpenCsi, OpenPrb, OpenNew, NewFd, buffers
<1>4. /\ i' = i /\ granted' = granted /\ mapped' = mapped /\ arrays' = arrays
      /\ locked' = locked /\ status' = status /\ uneven' = uneven
      /\ p_dma_buffers' = p_dma_buffers
  BY DEF OpenMxc, OpenCsi, OpenPrb, buffers
<1> QED BY <1>1, <1>2, <1>3, <1>4 DEF TypeInv, TypeOK, ArrayInv

(* Steps that neither open a device nor create an array. *)
Others(w) ==
  \/ Configure(w) \/ InitializeFails(w) \/ Map(w) \/ Queue(w) \/ Exit(w)
  \/ StreamOn(w) \/ ClosePrb(w) \/ Acquire(w) \/ AcquireFails(w)
  \/ StreamOff(w) \/ StreamOffFails(w) \/ Unmap(w) \/ CloseMxc(w) \/ CloseCsi(w)

LEMMA OthersKeepMembers ==
  ASSUME NEW w \in Workers, Others(w)
  PROVE  UNCHANGED <<fd_mxc, fd_csi, fd_prb, opens, p_dma_buffers, arrays>>
BY DEF Others, Configure, InitializeFails, Map, Queue, Exit, StreamOn,
       ClosePrb, Acquire, AcquireFails, StreamOff, StreamOffFails, Unmap,
       CloseMxc, CloseCsi, Close, Misuse, fds, buffers

LEMMA TypeOthers ==
  ASSUME TypeInv, NEW w \in Workers, Others(w), overlapped' \in BOOLEAN
  PROVE  TypeInv'
<1> USE DEF TypeInv, TypeOK
<1>1. UNCHANGED <<fd_mxc, fd_csi, fd_prb, opens, p_dma_buffers, arrays>>
  BY OthersKeepMembers
<1>2. cpc' \in [Workers -> CPC]
  BY DEF Others, Configure, InitializeFails, Map, Queue, Exit, StreamOn,
         ClosePrb, Acquire, AcquireFails, StreamOff, StreamOffFails, Unmap,
         CloseMxc, CloseCsi, Close, Misuse, Goto, CPC
<1>3. i' \in [Workers -> Nat \ {0}]
  <2>1. \/ i' = i \/ i' = [i EXCEPT ![w] = @ + 1] \/ i' = [i EXCEPT ![w] = 1]
    BY DEF Others, Configure, InitializeFails, Map, Queue, Exit, StreamOn,
           ClosePrb, Acquire, AcquireFails, StreamOff, StreamOffFails, Unmap,
           CloseMxc, CloseCsi, Close, Misuse
  <2> QED BY <2>1
<1>4. granted' \in [Workers -> 1..(N_BUF + 1)]
  BY DEF Others, Configure, InitializeFails, Map, Queue, Exit, StreamOn,
         ClosePrb, Acquire, AcquireFails, StreamOff, StreamOffFails, Unmap,
         CloseMxc, CloseCsi, Close, Misuse
<1>5. open' \subseteq 1..opens'
  BY <1>1 DEF Others, Configure, InitializeFails, Map, Queue, Exit, StreamOn,
         ClosePrb, Acquire, AcquireFails, StreamOff, StreamOffFails, Unmap,
         CloseMxc, CloseCsi, Close, Misuse, fds, buffers
<1>6. mapped' \subseteq (1..arrays') \X Nat
  <2>1. CASE Map(w)
    <3>1. p_dma_buffers \in 1..arrays /\ i[w] \in Nat
      BY <2>1 DEF Map, Goto, ArrayInv
    <3> QED BY <2>1, <3>1, <1>1 DEF Map
  <2>2. CASE ~Map(w)
    <3>1. mapped' \subseteq mapped
      BY <2>2 DEF Others, Configure, InitializeFails, Queue, Exit, StreamOn,
             ClosePrb, Acquire, AcquireFails, StreamOff, StreamOffFails, Unmap,
             CloseMxc, CloseCsi, Close, Misuse, buffers
    <3> QED BY <3>1, <1>1
  <2> QED BY <2>1, <2>2
<1>7. locked' \in BOOLEAN /\ uneven' \in BOOLEAN
  <2>1. locked' = locked \/ locked' = TRUE
    BY Zenon DEF Others, Configure, InitializeFails, Map, Queue, Exit, StreamOn,
           ClosePrb, Acquire, AcquireFails, StreamOff, StreamOffFails, Unmap,
           CloseMxc, CloseCsi, Close, Misuse
  <2>2. ASSUME Configure(w) PROVE uneven' \in BOOLEAN
    BY <2>2, Zenon DEF Configure
  <2>3. Configure(w) \/ uneven' = uneven \/ uneven' = TRUE
    BY Zenon DEF Others, InitializeFails, Map, Queue, Exit, StreamOn,
           ClosePrb, Acquire, AcquireFails, StreamOff, StreamOffFails, Unmap,
           CloseMxc, CloseCsi, Close, Misuse
  <2> QED BY <2>1, <2>2, <2>3, Zenon
<1>8. status' \in {"running", "exit"} \cup Misused
  BY DEF Others, Configure, InitializeFails, Map, Queue, Exit, StreamOn,
         ClosePrb, Acquire, AcquireFails, StreamOff, StreamOffFails, Unmap,
         CloseMxc, CloseCsi, Close, Misuse, Misused
<1>9. abandoned' \subseteq [mxc : 0..opens', csi : 0..opens', array : 0..arrays']
  <2>1. \/ abandoned' = abandoned
        \/ abandoned' = abandoned \cup
             {[mxc |-> fd_mxc, csi |-> fd_csi, array |-> p_dma_buffers]}
    BY DEF Others, Configure, InitializeFails, Map, Queue, Exit, StreamOn,
         ClosePrb, Acquire, AcquireFails, StreamOff, StreamOffFails, Unmap,
         CloseMxc, CloseCsi, Close, Misuse
  <2> QED BY <2>1, <1>1
<1>10. \A v \in Workers : cpc'[v] = "map" => cpc[v] = "map"
  BY DEF Others, Configure, InitializeFails, Map, Queue, Exit, StreamOn,
         ClosePrb, Acquire, AcquireFails, StreamOff, StreamOffFails, Unmap,
         CloseMxc, CloseCsi, Close, Misuse, Goto
<1> QED BY <1>1, <1>2, <1>3, <1>4, <1>5, <1>6, <1>7, <1>8, <1>9, <1>10 DEF ArrayInv

LEMMA TypeCalloc ==
  ASSUME TypeInv, NEW w \in Workers, Calloc(w), overlapped' \in BOOLEAN
  PROVE  TypeInv'
<1> USE DEF TypeInv, TypeOK, Calloc
<1>1. cpc' \in [Workers -> CPC] /\ i' \in [Workers -> Nat \ {0}]
  BY DEF Goto, CPC
<1>2. /\ arrays' = arrays + 1 /\ p_dma_buffers' = arrays + 1
      /\ UNCHANGED <<fd_mxc, fd_csi, fd_prb, opens, open, granted, mapped,
                     locked, status, abandoned, uneven>>
  BY DEF fds
<1>3. mapped' \subseteq (1..arrays') \X Nat
  BY <1>2
<1>4. abandoned' \subseteq [mxc : 0..opens', csi : 0..opens', array : 0..arrays']
  BY <1>2
<1> QED BY <1>1, <1>2, <1>3, <1>4 DEF ArrayInv

LEMMA StepCases ==
  ASSUME NEW w \in Workers, Step(w)
  PROVE  \/ OpenMxc(w) \/ OpenCsi(w) \/ OpenPrb(w) \/ Calloc(w) \/ Others(w)
BY DEF Step, InitializeStream, TriggerEvent, CloseStream, Others

LEMMA TypeStep == TypeInv /\ [Next]_vars => TypeInv'
<1> SUFFICES ASSUME TypeInv, [Next]_vars PROVE TypeInv'
  OBVIOUS
<1>1. CASE Next
  <2>1. PICK w \in Workers : Step(w)
    BY <1>1 DEF Next
  <2>2. overlapped' \in BOOLEAN
    BY <1>1, Zenon DEF Next, TypeInv, TypeOK, Overlap
  <2> QED BY <2>1, <2>2, StepCases, TypeOpens, TypeCalloc, TypeOthers
<1>2. CASE UNCHANGED vars
  BY <1>2 DEF TypeInv, TypeOK, ArrayInv, vars, fds, buffers
<1> QED BY <1>1, <1>2

(* The members stay within what was created, and no thread maps a buffer   *)
(* into an array that does not exist (PRB_IMG.cpp:144-160).                *)
THEOREM TypeCorrect == Spec => []TypeOK
<1>1. Spec => []TypeInv
  BY TypeInit, TypeStep, PTL DEF Spec
<1>2. TypeInv => TypeOK
  BY DEF TypeInv
<1> QED BY <1>1, <1>2, PTL

-----------------------------------------------------------------------------
(* What the one thread inside holds, apart from the abandoned streams.     *)
HasMxc(w) == cpc[w] \notin {"unborn", "close_csi", "finished"}
HasCsi(w) == cpc[w] \notin {"unborn", "open_csi", "finished"}
HasPrb(w) == cpc[w] = "close_prb"
Streaming == {"stream_on", "open_prb", "close_prb", "acquire", "stream_off"}
HasArray(w) == cpc[w] \in Streaming \cup {"map", "unmap"}

HeldFds(w) ==
  {fd \in {fd_mxc, fd_csi, fd_prb} :
     \/ HasMxc(w) /\ fd = fd_mxc
     \/ HasCsi(w) /\ fd = fd_csi
     \/ HasPrb(w) /\ fd = fd_prb}
HeldIndices(w) ==
  {k \in 1..N_BUF :
     \/ cpc[w] = "map" /\ k < i[w]
     \/ cpc[w] \in Streaming
     \/ cpc[w] = "unmap" /\ i[w] <= k}
HeldBuffers(w) == {<<p_dma_buffers, k>> : k \in HeldIndices(w)}
AbandonedArrays == {s.array : s \in abandoned}

Holding(w) ==
  /\ open = AbandonedFds \cup HeldFds(w)
  /\ mapped = AbandonedBuffers \cup HeldBuffers(w)
  /\ HasMxc(w) => fd_mxc \notin AbandonedFds
  /\ HasCsi(w) => fd_csi \notin AbandonedFds
  /\ HasMxc(w) /\ HasCsi(w) => fd_mxc # fd_csi
  /\ HasPrb(w) => fd_prb \notin AbandonedFds \cup {fd_mxc, fd_csi}
  /\ HasArray(w) => p_dma_buffers \notin AbandonedArrays
  /\ cpc[w] = "map" => i[w] <= N_BUF + 1

Released == open = AbandonedFds /\ mapped = AbandonedBuffers
Granted == \A w \in Workers : granted[w] = N_BUF

Accounted ==
  /\ status \notin Misused
  /\ Granted
  /\ Inside = {} => Released
  /\ \A w \in Inside : Holding(w)

CameraInv ==
  /\ TypeInv
  /\ ~overlapped => ~Overlap
  /\ Undisturbed => Accounted

LEMMA AbandonedType ==
  ASSUME TypeInv
  PROVE  /\ opens + 1 \notin AbandonedFds
         /\ arrays + 1 \notin AbandonedArrays
<1>1. \A s \in abandoned : s.mxc \in 0..opens /\ s.csi \in 0..opens /\ s.array \in 0..arrays
  BY DEF TypeInv, TypeOK
<1> QED BY <1>1 DEF TypeInv, TypeOK, AbandonedFds, AbandonedArrays

LEMMA AbandonedFrame ==
  ASSUME abandoned' = abandoned
  PROVE  /\ AbandonedFds' = AbandonedFds
         /\ AbandonedBuffers' = AbandonedBuffers
         /\ AbandonedArrays' = AbandonedArrays
BY DEF AbandonedFds, AbandonedBuffers, AbandonedArrays

(* A buffer of an array that is not abandoned is not an abandoned one. *)
LEMMA OwnBuffer ==
  ASSUME p_dma_buffers \notin AbandonedArrays, NEW k
  PROVE  <<p_dma_buffers, k>> \notin AbandonedBuffers
BY DEF AbandonedArrays, AbandonedBuffers

LEMMA StartHolds ==
  ASSUME TypeInv, NEW w \in Workers, Released, OpenMxc(w)
  PROVE  Holding(w)' /\ granted' = granted /\ status' = status
<1>1. /\ abandoned' = abandoned /\ granted' = granted /\ status' = status
      /\ cpc'[w] = "open_csi" /\ fd_mxc' = opens + 1
      /\ open' = open \cup {opens + 1} /\ mapped' = mapped
  BY DEF OpenMxc, Goto, OpenNew, NewFd, buffers, TypeInv, TypeOK
<1>2. HeldFds(w)' = {opens + 1}
  BY <1>1 DEF HeldFds, HasMxc, HasCsi, HasPrb
<1>3. HeldBuffers(w)' = {}
  BY <1>1 DEF HeldBuffers, HeldIndices, Streaming
<1> QED
  BY <1>1, <1>2, <1>3, AbandonedType, AbandonedFrame
  DEF Holding, Released, HasMxc, HasCsi, HasPrb, HasArray, Streaming

LEMMA OpenHolds ==
  ASSUME TypeInv, NEW w \in Workers, Holding(w), OpenCsi(w) \/ OpenPrb(w)
  PROVE  Holding(w)' /\ granted' = granted /\ status' = status
<1>0. /\ abandoned' = abandoned /\ granted' = granted /\ status' = status
      /\ open' = open \cup {opens + 1} /\ mapped' = mapped
      /\ p_dma_buffers' = p_dma_buffers /\ i' = i /\ fd_mxc' = fd_mxc
  BY DEF OpenCsi, OpenPrb, OpenNew, NewFd, buffers
<1>a. /\ AbandonedFds' = AbandonedFds /\ AbandonedBuffers' = AbandonedBuffers
      /\ AbandonedArrays' = AbandonedArrays
  BY <1>0, AbandonedFrame
<1>b. fd_mxc # opens + 1 /\ fd_csi # opens + 1 /\ opens + 1 \notin AbandonedFds
  BY AbandonedType DEF TypeInv, TypeOK
<1>1. CASE OpenCsi(w)
  <2>1. cpc[w] = "open_csi" /\ cpc'[w] = "configure" /\ fd_csi' = opens + 1
    BY <1>1 DEF OpenCsi, Goto, NewFd, TypeInv, TypeOK
  <2>2. HeldFds(w)' = HeldFds(w) \cup {opens + 1}
    BY <1>0, <2>1 DEF HeldFds, HasMxc, HasCsi, HasPrb
  <2>3. HeldBuffers(w)' = {} /\ HeldBuffers(w) = {}
    BY <2>1 DEF HeldBuffers, HeldIndices, Streaming
  <2> QED
    BY <1>0, <1>a, <1>b, <2>1, <2>2, <2>3
    DEF Holding, HasMxc, HasCsi, HasPrb, HasArray, Streaming
<1>2. CASE OpenPrb(w)
  <2>1. /\ cpc[w] = "open_prb" /\ cpc'[w] = "close_prb" /\ fd_prb' = opens + 1
        /\ fd_csi' = fd_csi
    BY <1>2 DEF OpenPrb, Goto, NewFd, TypeInv, TypeOK
  <2>2. HeldFds(w)' = HeldFds(w) \cup {opens + 1}
    BY <1>0, <2>1 DEF HeldFds, HasMxc, HasCsi, HasPrb
  <2>3. HeldIndices(w)' = 1..N_BUF /\ HeldIndices(w) = 1..N_BUF
    BY <2>1 DEF HeldIndices, Streaming
  <2>4. HeldBuffers(w)' = HeldBuffers(w)
    BY <1>0, <2>3 DEF HeldBuffers
  <2> QED
    BY <1>0, <1>a, <1>b, <2>1, <2>2, <2>4
    DEF Holding, HasMxc, HasCsi, HasPrb, HasArray, Streaming
<1> QED BY <1>1, <1>2

(* The steps inside that leave the descriptors alone and misuse nothing.   *)
Working(w) ==
  \/ Configure(w) /\ granted'[w] = N_BUF
  \/ Calloc(w) \/ Map(w) \/ Queue(w)
  \/ StreamOn(w) \/ AcquireFails(w) \/ StreamOff(w)
  \/ Goto(w, "acquire", "stream_off")
       /\ UNCHANGED <<i, granted, fds, buffers, status, abandoned, uneven>>
  \/ Unmap(w) /\ <<p_dma_buffers, i[w]>> \in mapped
  \/ Unmap(w) /\ i[w] > N_BUF

LEMMA WorkingKeepsFds ==
  ASSUME TypeInv, NEW w \in Workers, Holding(w), Working(w)
  PROVE  /\ UNCHANGED <<fd_mxc, fd_csi, fd_prb, open, abandoned>>
         /\ HeldFds(w)' = HeldFds(w)
         /\ HasMxc(w) /\ HasCsi(w) /\ HasMxc(w)' /\ HasCsi(w)'
         /\ ~HasPrb(w)'
<1>1. UNCHANGED <<fd_mxc, fd_csi, fd_prb, open, abandoned>>
  BY DEF Working, Configure, Calloc, Map, Queue, StreamOn, AcquireFails,
         StreamOff, Unmap, fds, Holding, Misuse
<1>2. /\ cpc[w] \in {"configure", "calloc", "map", "stream_on", "acquire",
                     "stream_off", "unmap"}
      /\ cpc'[w] \in {"calloc", "map", "stream_on", "open_prb", "stream_off",
                      "unmap", "close_mxc"}
  BY DEF Working, Configure, Calloc, Map, Queue, StreamOn, AcquireFails,
         StreamOff, Unmap, Misuse, Goto, TypeInv, TypeOK
<1>3. /\ HasMxc(w) /\ HasCsi(w) /\ HasMxc(w)' /\ HasCsi(w)'
      /\ ~HasPrb(w) /\ ~HasPrb(w)'
  BY <1>2 DEF HasMxc, HasCsi, HasPrb
<1>4. HeldFds(w)' = HeldFds(w)
  BY <1>1, <1>3 DEF HeldFds
<1> QED BY <1>1, <1>3, <1>4

(* The loop of close_stream as long as the buffer at hand is mapped.       *)
LEMMA UnmapCases ==
  ASSUME NEW w \in Workers, cpc \in [Workers -> CPC], i \in [Workers -> Nat \ {0}],
         Unmap(w)
  PROVE  /\ cpc[w] = "unmap"
         /\ i[w] \in 1..N_BUF /\ <<p_dma_buffers, i[w]>> \in mapped =>
              /\ cpc'[w] = "unmap" /\ i'[w] = i[w] + 1
              /\ mapped' = mapped \ {<<p_dma_buffers, i[w]>>}
              /\ p_dma_buffers' = p_dma_buffers /\ status' = status
         /\ i[w] > N_BUF =>
              cpc'[w] = "close_mxc" /\ UNCHANGED <<mapped, p_dma_buffers, status>>
         /\ granted' = granted
<1>1. i[w] \in Nat \ {0}
  OBVIOUS
<1>2. CASE /\ i[w] <= N_BUF /\ <<p_dma_buffers, i[w]>> \in mapped
           /\ Goto(w, "unmap", "unmap")
           /\ mapped' = mapped \ {<<p_dma_buffers, i[w]>>}
           /\ i' = [i EXCEPT ![w] = @ + 1]
           /\ UNCHANGED <<granted, fds, p_dma_buffers, arrays, locked, status,
                          abandoned, uneven>>
  <2>1. cpc[w] = "unmap" /\ cpc'[w] = "unmap"
    BY <1>2 DEF Goto
  <2>2. i'[w] = i[w] + 1 /\ ~(i[w] > N_BUF)
    BY <1>1, <1>2
  <2>3. /\ mapped' = mapped \ {<<p_dma_buffers, i[w]>>}
        /\ p_dma_buffers' = p_dma_buffers /\ status' = status /\ granted' = granted
    BY <1>2
  <2> QED BY <2>1, <2>2, <2>3
<1>3. CASE /\ i[w] <= N_BUF /\ <<p_dma_buffers, i[w]>> \notin mapped
           /\ Misuse(w, "unmap", "bad unmap")
  <2>1. cpc[w] = "unmap" /\ granted' = granted
    BY <1>3 DEF Misuse, Goto
  <2>2. i[w] <= N_BUF /\ <<p_dma_buffers, i[w]>> \notin mapped
    BY <1>3, Zenon
  <2>3. ~(i[w] > N_BUF)
    BY <1>1, <2>2
  <2> QED BY <2>1, <2>2, <2>3
<1>4. CASE /\ i[w] > N_BUF
           /\ Goto(w, "unmap", "close_mxc")
           /\ UNCHANGED <<i, granted, fds, buffers, locked, status, abandoned, uneven>>
  <2>1. cpc[w] = "unmap" /\ cpc'[w] = "close_mxc"
    BY <1>4 DEF Goto
  <2>2. i[w] \notin 1..N_BUF
    BY <1>1, <1>4
  <2>3. UNCHANGED <<mapped, p_dma_buffers, status, granted>>
    BY <1>4 DEF buffers
  <2> QED BY <2>1, <2>2, <2>3
<1> QED BY <1>2, <1>3, <1>4, Zenon DEF Unmap

LEMMA WorkingKeepsBuffers ==
  ASSUME TypeInv, NEW w \in Workers, Holding(w), granted[w] = N_BUF, Working(w)
  PROVE  /\ mapped' = AbandonedBuffers \cup HeldBuffers(w)'
         /\ HasArray(w)' => p_dma_buffers' \notin AbandonedArrays
         /\ cpc'[w] = "map" => i'[w] <= N_BUF + 1
<1> USE DEF TypeInv, TypeOK
<1>0. mapped = AbandonedBuffers \cup HeldBuffers(w)
  BY DEF Holding
<1>1. CASE Configure(w)
  <2>1. HeldBuffers(w)' = {} /\ HeldBuffers(w) = {}
    BY <1>1 DEF Configure, Goto, HeldBuffers, HeldIndices, Streaming
  <2> QED
    BY <1>0, <1>1, <2>1 DEF Configure, Goto, buffers, HasArray, Streaming
<1>2. CASE Calloc(w)
  <2>1. cpc[w] = "calloc" /\ cpc'[w] = "map" /\ i'[w] = 1
    BY <1>2 DEF Calloc, Goto
  <2>2. HeldIndices(w)' = {} /\ HeldIndices(w) = {}
    BY <2>1 DEF HeldIndices, Streaming
  <2>3. HeldBuffers(w)' = {} /\ HeldBuffers(w) = {}
    BY <2>2 DEF HeldBuffers
  <2>4. mapped' = mapped /\ p_dma_buffers' = arrays + 1
    BY <1>2 DEF Calloc
  <2> QED BY <1>0, <2>1, <2>3, <2>4, AbandonedType
<1>3. CASE Map(w)
  <2>1. /\ cpc[w] = "map" /\ cpc'[w] = "map" /\ i'[w] = i[w] + 1
        /\ i[w] \in 1..N_BUF /\ p_dma_buffers' = p_dma_buffers
        /\ mapped' = mapped \cup {<<p_dma_buffers, i[w]>>}
    BY <1>3 DEF Map, Goto
  <2>2. HeldIndices(w)' = HeldIndices(w) \cup {i[w]}
    BY <2>1 DEF HeldIndices, Streaming
  <2>3. HeldBuffers(w)' = HeldBuffers(w) \cup {<<p_dma_buffers, i[w]>>}
    BY <2>1, <2>2 DEF HeldBuffers
  <2> QED BY <1>0, <2>1, <2>3 DEF Holding, HasArray
<1>4. CASE Unmap(w) /\ <<p_dma_buffers, i[w]>> \in mapped
  <2>1. p_dma_buffers \notin AbandonedArrays /\ cpc[w] = "unmap"
    BY <1>4 DEF Unmap, Misuse, Goto, Holding, HasArray
  <2>2. <<p_dma_buffers, i[w]>> \in HeldBuffers(w)
    BY <1>0, <1>4, <2>1, OwnBuffer
  <2>3. i[w] \in 1..N_BUF
    BY <2>1, <2>2 DEF HeldBuffers, HeldIndices
  <2>4. /\ cpc'[w] = "unmap" /\ i'[w] = i[w] + 1 /\ p_dma_buffers' = p_dma_buffers
        /\ mapped' = mapped \ {<<p_dma_buffers, i[w]>>}
    BY <1>4, <2>3, UnmapCases
  <2>5. HeldIndices(w)' = HeldIndices(w) \ {i[w]}
    BY <2>1, <2>3, <2>4 DEF HeldIndices, Streaming
  <2>6. HeldBuffers(w)' = HeldBuffers(w) \ {<<p_dma_buffers, i[w]>>}
    BY <2>4, <2>5 DEF HeldBuffers
  <2>7. <<p_dma_buffers, i[w]>> \notin AbandonedBuffers
    BY <2>1, OwnBuffer
  <2> QED BY <1>0, <2>1, <2>4, <2>6, <2>7
<1>5. CASE \/ Queue(w) \/ StreamOn(w) \/ AcquireFails(w) \/ StreamOff(w)
           \/ Goto(w, "acquire", "stream_off")
                /\ UNCHANGED <<i, granted, fds, buffers, status, abandoned, uneven>>
           \/ Unmap(w) /\ i[w] > N_BUF
  <2>1. /\ mapped' = mapped /\ p_dma_buffers' = p_dma_buffers
        /\ cpc[w] \in Streaming \cup {"map", "unmap"}
        /\ cpc'[w] # "map"
    <3>1. CASE Unmap(w) /\ i[w] > N_BUF
      BY <3>1, UnmapCases
    <3>2. CASE ~(Unmap(w) /\ i[w] > N_BUF)
      BY <1>5, <3>2 DEF Queue, StreamOn, AcquireFails, StreamOff, Goto, buffers,
                        Streaming
    <3> QED BY <3>1, <3>2
  <2>2. CASE Queue(w)
    <3>1. cpc[w] = "map" /\ i[w] = N_BUF + 1 /\ cpc'[w] = "stream_on"
      BY <2>2 DEF Queue, Goto, Holding
    <3> QED BY <3>1 , <1>0, <2>1 DEF HeldBuffers, HeldIndices, Streaming, Holding, HasArray
  <2>3. CASE StreamOff(w)
    <3>1. cpc[w] = "stream_off" /\ i'[w] = 1 /\ cpc'[w] = "unmap"
      BY <2>3 DEF StreamOff, Goto
    <3>2. HeldIndices(w) = 1..N_BUF /\ HeldIndices(w)' = 1..N_BUF
      BY <3>1 DEF HeldIndices, Streaming
    <3> QED BY <3>2, <1>0, <2>1 DEF HeldBuffers, Holding, HasArray
  <2>4. CASE Unmap(w) /\ i[w] > N_BUF
    <3>1. cpc[w] = "unmap" /\ cpc'[w] = "close_mxc"
      BY <2>4, UnmapCases
    <3>2. HeldIndices(w) = {} /\ HeldIndices(w)' = {}
      BY <2>4, <3>1 DEF HeldIndices, Streaming
    <3> QED BY <3>2, <1>0, <2>1 DEF HeldBuffers, Holding, HasArray
  <2>5. CASE \/ StreamOn(w) \/ AcquireFails(w)
             \/ Goto(w, "acquire", "stream_off")
                  /\ UNCHANGED <<i, granted, fds, buffers, status, abandoned, uneven>>
    <3>1. cpc[w] \in Streaming /\ cpc'[w] \in Streaming
      BY <2>5 DEF StreamOn, AcquireFails, Goto, Streaming
    <3>2. HeldIndices(w) = 1..N_BUF /\ HeldIndices(w)' = 1..N_BUF
      BY <3>1 DEF HeldIndices, Streaming
    <3> QED BY <3>1, <3>2, <1>0, <2>1 DEF HeldBuffers, Holding, HasArray
  <2> QED BY <1>5, <2>2, <2>3, <2>4, <2>5
<1> QED BY <1>1, <1>2, <1>3, <1>4, <1>5 DEF Working

LEMMA WorkingHolds ==
  ASSUME TypeInv, NEW w \in Workers, Holding(w), granted[w] = N_BUF, Working(w)
  PROVE  Holding(w)'
BY WorkingKeepsFds, WorkingKeepsBuffers, AbandonedFrame DEF Holding

(* What a close does when its descriptor is open: nothing is misused.      *)
LEMMA CloseOpen ==
  ASSUME NEW w \in Workers, NEW fd, NEW from, NEW to, Close(w, fd, from, to),
         fd \in open, cpc \in [Workers -> CPC]
  PROVE  /\ cpc[w] = from /\ cpc'[w] = to /\ open' = open \ {fd}
         /\ UNCHANGED <<i, granted, fd_mxc, fd_csi, fd_prb, p_dma_buffers, mapped,
                        status, abandoned>>
BY DEF Close, Misuse, Goto, buffers

LEMMA ClosePrbHolds ==
  ASSUME TypeInv, NEW w \in Workers, Holding(w), ClosePrb(w)
  PROVE  Holding(w)' /\ granted' = granted /\ status' = status
<1>1. cpc[w] = "close_prb" /\ cpc \in [Workers -> CPC]
  BY DEF ClosePrb, Close, Misuse, Goto, TypeInv, TypeOK
<1>2. fd_prb \in HeldFds(w) /\ fd_prb \in open
  BY <1>1 DEF HeldFds, HasPrb, Holding
<1>3. /\ cpc'[w] = "acquire" /\ open' = open \ {fd_prb}
      /\ UNCHANGED <<i, granted, fd_mxc, fd_csi, fd_prb, p_dma_buffers, mapped,
                     status, abandoned>>
  BY <1>1, <1>2, CloseOpen DEF ClosePrb
<1>4. HeldFds(w)' = HeldFds(w) \ {fd_prb}
  BY <1>1, <1>3 DEF HeldFds, HasMxc, HasCsi, HasPrb, Holding
<1>5. HeldIndices(w) = 1..N_BUF /\ HeldIndices(w)' = 1..N_BUF
  BY <1>1, <1>3 DEF HeldIndices, Streaming
<1>6. HeldBuffers(w)' = HeldBuffers(w)
  BY <1>3, <1>5 DEF HeldBuffers
<1> QED
  BY <1>1, <1>3, <1>4, <1>6, AbandonedFrame
  DEF Holding, HasMxc, HasCsi, HasPrb, HasArray, Streaming

LEMMA CloseMxcHolds ==
  ASSUME TypeInv, NEW w \in Workers, Holding(w), CloseMxc(w)
  PROVE  Holding(w)' /\ granted' = granted /\ status' = status
<1>1. cpc[w] = "close_mxc" /\ cpc \in [Workers -> CPC]
  BY DEF CloseMxc, Close, Misuse, Goto, TypeInv, TypeOK
<1>2. fd_mxc \in HeldFds(w) /\ fd_mxc \in open
  BY <1>1 DEF HeldFds, HasMxc, Holding
<1>3. /\ cpc'[w] = "close_csi" /\ open' = open \ {fd_mxc}
      /\ UNCHANGED <<i, granted, fd_mxc, fd_csi, fd_prb, p_dma_buffers, mapped,
                     status, abandoned>>
  BY <1>1, <1>2, CloseOpen DEF CloseMxc
<1>4. HeldFds(w)' = HeldFds(w) \ {fd_mxc}
  BY <1>1, <1>3 DEF HeldFds, HasMxc, HasCsi, HasPrb, Holding
<1>5. HeldBuffers(w) = {} /\ HeldBuffers(w)' = {}
  BY <1>1, <1>3 DEF HeldBuffers, HeldIndices, Streaming
<1> QED
  BY <1>1, <1>3, <1>4, <1>5, AbandonedFrame
  DEF Holding, HasMxc, HasCsi, HasPrb, HasArray, Streaming

LEMMA CloseCsiReleases ==
  ASSUME TypeInv, NEW w \in Workers, Holding(w), CloseCsi(w)
  PROVE  Released' /\ granted' = granted /\ status' = status /\ cpc'[w] = "finished"
<1>1. cpc[w] = "close_csi" /\ cpc \in [Workers -> CPC]
  BY DEF CloseCsi, Close, Misuse, Goto, TypeInv, TypeOK
<1>2. HeldFds(w) = {fd_csi} /\ fd_csi \in open /\ fd_csi \notin AbandonedFds
  BY <1>1 DEF HeldFds, HasMxc, HasCsi, HasPrb, Holding
<1>3. /\ cpc'[w] = "finished" /\ open' = open \ {fd_csi}
      /\ UNCHANGED <<granted, mapped, status, abandoned>>
  BY <1>1, <1>2, CloseOpen DEF CloseCsi
<1>4. HeldBuffers(w) = {}
  BY <1>1 DEF HeldBuffers, HeldIndices, Streaming
<1> QED BY <1>2, <1>3, <1>4, AbandonedFrame DEF Holding, Released

(* One more abandoned stream.                                              *)
LEMMA AbandonOne ==
  ASSUME NEW r, abandoned' = abandoned \cup {r}
  PROVE  /\ AbandonedFds' = AbandonedFds \cup {r.mxc, r.csi}
         /\ AbandonedBuffers' = AbandonedBuffers \cup {<<r.array, k>> : k \in 1..N_BUF}
<1>1. /\ {s.mxc : s \in abandoned'} = {s.mxc : s \in abandoned} \cup {r.mxc}
      /\ {s.csi : s \in abandoned'} = {s.csi : s \in abandoned} \cup {r.csi}
  OBVIOUS
<1>2. {<<s.array, k>> : s \in abandoned', k \in 1..N_BUF}
        = {<<s.array, k>> : s \in abandoned, k \in 1..N_BUF}
            \cup {<<r.array, k>> : k \in 1..N_BUF}
  OBVIOUS
<1> QED BY <1>1, <1>2 DEF AbandonedFds, AbandonedBuffers

LEMMA AbandonReleases ==
  ASSUME TypeInv, NEW w \in Workers, Holding(w), StreamOffFails(w)
  PROVE  Released' /\ granted' = granted /\ status' = status /\ cpc'[w] = "finished"
<1>1. /\ cpc[w] = "stream_off" /\ cpc'[w] = "finished" /\ open' = open
      /\ mapped' = mapped /\ granted' = granted /\ status' = status
      /\ abandoned' = abandoned \cup
            {[mxc |-> fd_mxc, csi |-> fd_csi, array |-> p_dma_buffers]}
  BY DEF StreamOffFails, Goto, fds, buffers, TypeInv, TypeOK
<1> DEFINE stream == [mxc |-> fd_mxc, csi |-> fd_csi, array |-> p_dma_buffers]
<1>2. stream.mxc = fd_mxc /\ stream.csi = fd_csi /\ stream.array = p_dma_buffers
  OBVIOUS
<1>3. /\ AbandonedFds' = AbandonedFds \cup {fd_mxc, fd_csi}
      /\ AbandonedBuffers' = AbandonedBuffers \cup {<<p_dma_buffers, k>> : k \in 1..N_BUF}
  <2>1. abandoned' = abandoned \cup {stream}
    BY <1>1
  <2> HIDE DEF stream
  <2>2. /\ AbandonedFds' = AbandonedFds \cup {stream.mxc, stream.csi}
        /\ AbandonedBuffers' = AbandonedBuffers \cup {<<stream.array, k>> : k \in 1..N_BUF}
    BY <2>1, AbandonOne
  <2> QED BY <2>2, <1>2
<1>4. HeldFds(w) = {fd_mxc, fd_csi}
  BY <1>1 DEF HeldFds, HasMxc, HasCsi, HasPrb
<1>5. HeldIndices(w) = 1..N_BUF
  BY <1>1 DEF HeldIndices, Streaming
<1> QED BY <1>1, <1>2, <1>3, <1>4, <1>5 DEF Holding, Released, HeldBuffers

(* Not misused, buffers as granted, and the thread holds what it should or *)
(* has ended with everything released.                                     *)
Kept(w) ==
  /\ status' \notin Misused
  /\ Granted'
  /\ Holding(w)' \/ (Released' /\ cpc'[w] = "finished")

LEMMA KeptBy ==
  ASSUME NEW w \in Workers, Granted, status \notin Misused,
         granted' = granted, status' = status \/ status' = "exit",
         Holding(w)' \/ (Released' /\ cpc'[w] = "finished")
  PROVE  Kept(w)
<1>1. status' \notin Misused
  BY DEF Misused
<1>2. Granted'
  BY DEF Granted
<1> QED BY <1>1, <1>2, Zenon DEF Kept

LEMMA WorkingKept ==
  ASSUME TypeInv, NEW w \in Workers, Holding(w), Granted, status \notin Misused,
         Working(w), granted' = granted, status' = status
  PROVE  Kept(w)
<1>1. granted[w] = N_BUF
  BY DEF Granted
<1>2. Holding(w)'
  BY <1>1, WorkingHolds
<1> QED BY <1>2, KeptBy

LEMMA ConfigureKept ==
  ASSUME TypeInv, NEW w \in Workers, Holding(w), Granted, status \notin Misused,
         Configure(w), ~uneven'
  PROVE  Kept(w)
<1>1. PICK n \in 1..(N_BUF + 1) :
        granted' = [granted EXCEPT ![w] = n] /\ uneven' = (uneven \/ n # N_BUF)
  BY Zenon DEF Configure
<1>2. n = N_BUF
  BY <1>1, Zenon
<1>3. Granted' /\ granted'[w] = N_BUF
  BY <1>1, <1>2 DEF Granted, TypeInv, TypeOK
<1>4. granted[w] = N_BUF /\ status' = status
  BY DEF Granted, Configure
<1>5. Holding(w)'
  BY <1>3, <1>4, WorkingHolds DEF Working
<1> QED BY <1>3, <1>4, <1>5, Zenon DEF Kept

LEMMA AcquireKept ==
  ASSUME TypeInv, NEW w \in Workers, Holding(w), Granted, status \notin Misused,
         Acquire(w)
  PROVE  Kept(w)
<1>1. cpc[w] = "acquire"
  BY DEF Acquire, Misuse, Goto, TypeInv, TypeOK
<1>2. \A k \in EverQueued : k \in 1..N_BUF
  BY DEF EverQueued, Granted
<1>3. HeldIndices(w) = 1..N_BUF
  BY <1>1 DEF HeldIndices, Streaming
<1>4. \A k \in EverQueued : <<p_dma_buffers, k>> \in mapped
  BY <1>2, <1>3 DEF HeldBuffers, Holding
<1>5. /\ Goto(w, "acquire", "stream_off")
      /\ UNCHANGED <<i, granted, fds, buffers, locked, status, abandoned, uneven>>
  BY <1>4, Zenon DEF Acquire
<1> QED BY <1>5, WorkingKept DEF Working

LEMMA UnmapKept ==
  ASSUME TypeInv, NEW w \in Workers, Holding(w), Granted, status \notin Misused,
         Unmap(w)
  PROVE  Kept(w)
<1>0. cpc \in [Workers -> CPC] /\ i \in [Workers -> Nat \ {0}]
  BY DEF TypeInv, TypeOK
<1>1. cpc[w] = "unmap" /\ granted' = granted
  BY <1>0, UnmapCases
<1>2. CASE i[w] \in 1..N_BUF
  <2>1. i[w] \in HeldIndices(w)
    BY <1>1, <1>2 DEF HeldIndices
  <2>2. <<p_dma_buffers, i[w]>> \in mapped
    BY <2>1 DEF HeldBuffers, Holding
  <2>3. status' = status
    BY <1>0, <1>2, <2>2, UnmapCases
  <2> QED BY <1>1, <2>2, <2>3, WorkingKept DEF Working
<1>3. CASE i[w] > N_BUF
  <2>1. status' = status
    BY <1>0, <1>3, UnmapCases
  <2> QED BY <1>1, <1>3, <2>1, WorkingKept DEF Working
<1>4. i[w] \in 1..N_BUF \/ i[w] > N_BUF
  BY <1>0
<1> QED BY <1>2, <1>3, <1>4

LEMMA InsideStep ==
  ASSUME TypeInv, NEW w \in Workers, Holding(w), Granted, status \notin Misused,
         Step(w), cpc[w] # "unborn", ~uneven'
  PROVE  Kept(w)
<1>1. CASE OpenCsi(w) \/ OpenPrb(w)
  BY <1>1, OpenHolds, KeptBy
<1>2. CASE Configure(w)
  BY <1>2, ConfigureKept
<1>3. CASE Calloc(w) \/ Map(w) \/ Queue(w) \/ StreamOn(w) \/ AcquireFails(w)
             \/ StreamOff(w)
  <2>1. granted' = granted /\ status' = status
    BY <1>3 DEF Calloc, Map, Queue, StreamOn, AcquireFails, StreamOff
  <2> QED BY <1>3, <2>1, WorkingKept DEF Working
<1>4. CASE Acquire(w)
  BY <1>4, AcquireKept
<1>5. CASE Unmap(w)
  BY <1>5, UnmapKept
<1>6. CASE ClosePrb(w) \/ CloseMxc(w)
  BY <1>6, ClosePrbHolds, CloseMxcHolds, KeptBy
<1>7. CASE CloseCsi(w) \/ StreamOffFails(w)
  BY <1>7, CloseCsiReleases, AbandonReleases, KeptBy
<1>8. CASE Exit(w)
  <2>1. /\ UNCHANGED <<i, granted, fd_mxc, fd_csi, fd_prb, open, p_dma_buffers,
                       mapped, abandoned>>
        /\ status' = "exit" /\ cpc'[w] = cpc[w]
    BY <1>8 DEF Exit, Goto, fds, buffers, TypeInv, TypeOK
  <2>2. HeldFds(w)' = HeldFds(w) /\ HeldBuffers(w)' = HeldBuffers(w)
    BY <2>1 DEF HeldFds, HeldBuffers, HeldIndices, HasMxc, HasCsi, HasPrb
  <2>3. Holding(w)'
    BY <2>1, <2>2, AbandonedFrame
    DEF Holding, HasMxc, HasCsi, HasPrb, HasArray
  <2> QED BY <2>1, <2>3, KeptBy
<1>9. ~OpenMxc(w) /\ ~InitializeFails(w)
  <2>1. ~OpenMxc(w)
    BY DEF OpenMxc, Goto
  <2>2. ~InitializeFails(w)
    BY Zenon DEF InitializeFails
  <2> QED BY <2>1, <2>2
<1> QED
  BY <1>1, <1>2, <1>3, <1>4, <1>5, <1>6, <1>7, <1>8, <1>9
  DEF Step, InitializeStream, TriggerEvent, CloseStream

-----------------------------------------------------------------------------
LEMMA CameraInit == Init => CameraInv
<1> SUFFICES ASSUME Init PROVE CameraInv
  OBVIOUS
<1>1. Inside = {} /\ ~Overlap
  BY DEF Init, Inside, Overlap
<1>2. AbandonedFds = {} /\ AbandonedBuffers = {}
  BY DEF Init, AbandonedFds, AbandonedBuffers
<1>3. Released /\ Granted /\ status \notin Misused
  BY <1>2 DEF Init, Released, Granted, Misused
<1> QED BY <1>1, <1>3, TypeInit DEF CameraInv, Accounted

(* A step moves no other thread, and only OpenMxc enters.                  *)
LEMMA StepMoves ==
  ASSUME TypeInv, NEW w \in Workers, Step(w)
  PROVE  /\ cpc' \in [Workers -> CPC] /\ cpc[w] # "finished"
         /\ \A v \in Workers \ {w} : cpc'[v] = cpc[v]
         /\ cpc[w] = "unborn" => OpenMxc(w) \/ Exit(w)
<1>1. CASE OpenMxc(w) \/ OpenCsi(w) \/ OpenPrb(w) \/ Calloc(w)
  BY <1>1 DEF OpenMxc, OpenCsi, OpenPrb, Calloc, Goto, TypeInv, TypeOK, CPC
<1>2. CASE Others(w)
  BY <1>2 DEF Others, Configure, InitializeFails, Map, Queue, Exit, StreamOn,
       ClosePrb, Acquire, AcquireFails, StreamOff, StreamOffFails, Unmap,
       CloseMxc, CloseCsi, Close, Misuse, Goto, TypeInv, TypeOK, CPC
<1> QED BY <1>1, <1>2, StepCases

LEMMA UnevenStays ==
  ASSUME NEW w \in Workers, Step(w), ~uneven'
  PROVE  ~uneven
<1>1. CASE Configure(w)
  BY <1>1, Zenon DEF Configure
<1>2. CASE ~Configure(w)
  <2>1. uneven' = uneven \/ uneven' = TRUE
    BY <1>2, StepCases, Zenon
    DEF Others, OpenMxc, OpenCsi, OpenPrb, Calloc, InitializeFails, Map, Queue,
        Exit, StreamOn, ClosePrb, Acquire, AcquireFails, StreamOff,
        StreamOffFails, Unmap, CloseMxc, CloseCsi, Close, Misuse
  <2> QED BY <2>1, Zenon
<1> QED BY <1>1, <1>2

LEMMA AccountedStep ==
  ASSUME TypeInv, NEW w \in Workers, Step(w), Accounted, ~Overlap, ~Overlap',
         ~uneven'
  PROVE  Accounted'
<1>1. /\ cpc' \in [Workers -> CPC] /\ cpc[w] # "finished"
      /\ \A v \in Workers \ {w} : cpc'[v] = cpc[v]
      /\ cpc[w] = "unborn" => OpenMxc(w) \/ Exit(w)
  BY StepMoves
<1>2. CASE cpc[w] # "unborn"
  <2>1. w \in Inside /\ Inside = {w}
    BY <1>1, <1>2 DEF Inside, Overlap
  <2>2. Kept(w)
    BY <1>2, <2>1, InsideStep DEF Accounted
  <2>3. Inside' \subseteq {w}
    BY <1>1, <2>1 DEF Inside
  <2>4. CASE cpc'[w] = "finished"
    <3>1. Inside' = {}
      BY <2>3, <2>4 DEF Inside
    <3>2. ASSUME Holding(w)' PROVE Released'
      <4>1. HeldFds(w)' = {}
        BY <2>4 DEF HeldFds, HasMxc, HasCsi, HasPrb
      <4>2. HeldBuffers(w)' = {}
        BY <2>4 DEF HeldBuffers, HeldIndices, Streaming
      <4> QED BY <3>2, <4>1, <4>2 DEF Holding, Released
    <3> QED BY <2>2, <3>1, <3>2 DEF Kept, Accounted
  <2>5. CASE cpc'[w] # "finished"
    <3>1. Holding(w)'
      BY <2>2, <2>5 DEF Kept
    <3>2. w \in Inside' \/ cpc'[w] = "unborn"
      BY <2>5 DEF Inside
    <3>3. cpc'[w] # "unborn"
      BY <1>1, <1>2, StepCases
      DEF OpenMxc, OpenCsi, OpenPrb, Calloc, Others, Configure, InitializeFails,
          Map, Queue, Exit, StreamOn, ClosePrb, Acquire, AcquireFails, StreamOff,
          StreamOffFails, Unmap, CloseMxc, CloseCsi, Close, Misuse, Goto,
          TypeInv, TypeOK
    <3> QED BY <2>2, <2>3, <3>1, <3>2, <3>3 DEF Kept, Accounted
  <2> QED BY <2>4, <2>5
<1>3. CASE cpc[w] = "unborn" /\ OpenMxc(w)
  <2>1. cpc'[w] = "open_csi"
    BY <1>3 DEF OpenMxc, Goto, TypeInv, TypeOK
  <2>2. Inside' = {w} /\ Inside = {}
    BY <1>1, <1>3, <2>1 DEF Inside, Overlap
  <2>3. Holding(w)' /\ granted' = granted /\ status' = status
    BY <1>3, <2>2, StartHolds DEF Accounted
  <2>4. Granted' /\ status' \notin Misused
    BY <2>3 DEF Accounted, Granted, Misused
  <2> QED BY <2>2, <2>3, <2>4 DEF Accounted
<1>4. CASE cpc[w] = "unborn" /\ Exit(w)
  <2>1. /\ UNCHANGED <<i, granted, fd_mxc, fd_csi, fd_prb, open, p_dma_buffers,
                       mapped, abandoned, cpc>>
        /\ status' = "exit"
    BY <1>4 DEF Exit, Goto, fds, buffers, TypeInv, TypeOK
  <2>2. Inside' = Inside
    BY <2>1 DEF Inside
  <2>3. ASSUME NEW v \in Inside PROVE Holding(v)'
    <3>1. HeldFds(v)' = HeldFds(v) /\ HeldBuffers(v)' = HeldBuffers(v)
      BY <2>1 DEF HeldFds, HeldBuffers, HeldIndices, HasMxc, HasCsi, HasPrb
    <3> QED
      BY <2>1, <3>1, AbandonedFrame
      DEF Accounted, Holding, HasMxc, HasCsi, HasPrb, HasArray
  <2>4. Released => Released'
    BY <2>1, AbandonedFrame DEF Released
  <2>5. Granted' /\ status' \notin Misused
    BY <2>1 DEF Accounted, Granted, Misused
  <2> QED BY <2>2, <2>3, <2>4, <2>5 DEF Accounted
<1> QED BY <1>1, <1>2, <1>3, <1>4

LEMMA CameraStep == CameraInv /\ [Next]_vars => CameraInv'
<1> SUFFICES ASSUME CameraInv, [Next]_vars PROVE CameraInv'
  OBVIOUS
<1>0. TypeInv'
  BY TypeStep DEF CameraInv
<1>1. CASE Next
  <2>1. PICK w \in Workers : Step(w)
    BY <1>1 DEF Next
  <2>2. /\ ~overlapped' => ~Overlap' /\ ~overlapped
    BY <1>1, Zenon DEF Next
  <2>3. ASSUME Undisturbed' PROVE Accounted'
    <3>1. ~uneven' /\ ~overlapped'
      BY <2>3, Zenon DEF Undisturbed
    <3>2. ~uneven
      BY <2>1, <3>1, UnevenStays
    <3>3. ~Overlap' /\ ~Overlap /\ Accounted /\ TypeInv
      BY <2>2, <3>1, <3>2, Zenon DEF CameraInv, Undisturbed
    <3> QED BY <2>1, <3>1, <3>3, AccountedStep
  <2> QED BY <1>0, <2>2, <2>3, Zenon DEF CameraInv
<1>2. CASE UNCHANGED vars
  <2>1. /\ UNCHANGED <<cpc, i, granted, fd_mxc, fd_csi, fd_prb, opens, open,
                       p_dma_buffers, arrays, mapped, locked, status, abandoned,
                       uneven, overlapped>>
    BY <1>2 DEF vars, fds, buffers
  <2>2. Inside' = Inside
    BY <2>1 DEF Inside
  <2>3. Overlap' = Overlap /\ Undisturbed' = Undisturbed
    BY <2>1, <2>2 DEF Overlap, Undisturbed
  <2>4. ASSUME Accounted PROVE Accounted'
    <3>1. ASSUME NEW v \in Inside PROVE Holding(v)'
      <4>1. HeldFds(v)' = HeldFds(v) /\ HeldBuffers(v)' = HeldBuffers(v)
        BY <2>1 DEF HeldFds, HeldBuffers, HeldIndices, HasMxc, HasCsi, HasPrb
      <4> QED
        BY <2>1, <2>4, <4>1, AbandonedFrame
        DEF Accounted, Holding, HasMxc, HasCsi, HasPrb, HasArray
    <3>2. Released => Released'
      BY <2>1, AbandonedFrame DEF Released
    <3>3. Granted' /\ status' \notin Misused
      BY <2>1, <2>4 DEF Accounted, Granted, Misused
    <3> QED BY <2>2, <2>4, <3>1, <3>2, <3>3 DEF Accounted
  <2> QED BY <1>0, <2>1, <2>3, <2>4, Zenon DEF CameraInv
<1> QED BY <1>1, <1>2

LEMMA CameraInvariant == Spec => []CameraInv
BY CameraInit, CameraStep, PTL DEF Spec

(* No descriptor is closed twice and no unmapped buffer is touched, unless *)
(* work threads overlap or an initialisation did not map the N_BUF buffers *)
(* that close_stream unmaps (PRB_IMG.cpp:84, 208-211).                     *)
THEOREM UndisturbedNoMisuse == Spec => []NoMisuse
<1>1. CameraInv => NoMisuse
  BY DEF CameraInv, NoMisuse, Accounted
<1> QED BY <1>1, CameraInvariant, PTL

(* Nothing but the streams abandoned by a failed VIDIOC_STREAMOFF is held  *)
(* while no work thread uses the camera (PRB_IMG.cpp:204-211).             *)
THEOREM UndisturbedReleased == Spec => []StreamReleased
<1>1. CameraInv => StreamReleased
  BY DEF CameraInv, StreamReleased, Accounted, Released
<1> QED BY <1>1, CameraInvariant, PTL
=============================================================================
