--------------------------- MODULE ImageSendProofs ---------------------------
(***************************************************************************)
(* For any number of senders and connections and any sizes: the bytes of   *)
(* an image go out once and in order, the counters of send_data_to_client  *)
(* agree with them, and no image is cut short while no send has failed.    *)
(***************************************************************************)
EXTENDS ImageSend, TLAPS

(* Before the outcome of an image is settled. *)
Inside == {"begin", "loop", "call", "sending", "account", "compare"}

(* What is to go and what is gone make up the image, so that no counter    *)
(* has wrapped.                                                            *)
SumInv ==
  \A s \in Senders :
    spc[s] \in Inside => offset[s] + remaining_size[s] = data_size

(* What write_n has done for the chunk in hand. *)
ChunkInv ==
  \A s \in Senders :
    /\ spc[s] \in {"call", "sending"} => nw[s] < Chunk(s)
    /\ spc[s] = "account" => n[s] <= Chunk(s)

(* How many bytes the kernel has taken. *)
LenInv ==
  \A s \in Senders :
    /\ spc[s] \in {"begin", "loop", "compare"} => Len(taken[s]) = offset[s]
    /\ spc[s] \in {"call", "sending"} => Len(taken[s]) = offset[s] + nw[s]
    /\ spc[s] = "account" =>
         Len(taken[s]) = offset[s] + (IF n[s] < 0 THEN 0 ELSE n[s])

(* The shared flag has been set once a sender is past its first step, and  *)
(* only a failure resets it.                                               *)
FlagInv ==
  (\E s \in Senders : spc[s] # "begin") /\ ~is_client_closed => failures # {}

(* A sender that has left the loop has sent all or some send has failed. *)
DoneInv ==
  \A s \in Senders :
    /\ spc[s] # "thrown"
    /\ spc[s] = "failed" => failures # {}
    /\ spc[s] \notin Inside \cup {"failed"} /\ failures = {} =>
         Len(taken[s]) = data_size

IInv == TypeOK /\ SumInv /\ ChunkInv /\ LenInv /\ SentInOrder /\ FlagInv /\ DoneInv

-----------------------------------------------------------------------------
(* What appending bytes i+1 .. i+k does to a log of i bytes in order. *)
LEMMA AppendBytes ==
  ASSUME NEW s \in Senders, fd[s] \in Conns,
         NEW q \in Seq(Taken), NEW k \in Nat,
         \A j \in 1..Len(q) : q[j].byte = j
  PROVE  LET r == q \o Bytes(s, Len(q), k)
         IN  /\ r \in Seq(Taken)
             /\ Len(r) = Len(q) + k
             /\ \A j \in 1..Len(r) : r[j].byte = j
<1> DEFINE b == Bytes(s, Len(q), k)
           r == q \o b
<1>1. b \in Seq(Taken) /\ Len(b) = k
  BY DEF Bytes, Taken
<1>2. \A j \in 1..k : b[j].byte = Len(q) + j
  BY DEF Bytes
<1>3. r \in Seq(Taken) /\ Len(r) = Len(q) + k
  BY <1>1
<1>4. ASSUME NEW j \in 1..Len(r)
      PROVE  r[j].byte = j
  <2>1. CASE j <= Len(q)
    BY <1>1, <1>3, <2>1
  <2>2. CASE j > Len(q)
    <3>1. j - Len(q) \in 1..k /\ r[j] = b[j - Len(q)]
      BY <1>1, <1>3, <2>2
    <3>2. QED
      BY <1>2, <3>1
  <2>3. QED
    BY <1>3, <2>1, <2>2
<1>5. QED
  BY <1>3, <1>4

LEMMA ChunkType ==
  ASSUME TypeOK, NEW s \in Senders
  PROVE  Chunk(s) \in Nat /\ Chunk(s) <= CHUNK_SIZE /\ Chunk(s) <= remaining_size[s]
  BY SendAssumption DEF TypeOK, Chunk

-----------------------------------------------------------------------------
LEMMA InvInit == Init => IInv
  BY SendAssumption DEF Init, IInv, TypeOK, SPC, SumInv, ChunkInv, LenInv,
     SentInOrder, FlagInv, DoneInv, Inside, Taken

LEMMA InvStep == IInv /\ [Next]_vars => IInv'
<1> SUFFICES ASSUME IInv, [Next]_vars
             PROVE  IInv'
  OBVIOUS
<1> USE SendAssumption DEF IInv
<1>1. CASE UNCHANGED vars
  BY <1>1 DEF vars, net, counters, TypeOK, SumInv, ChunkInv, LenInv, Chunk,
     SentInOrder, FlagInv, DoneInv
<1>2. ASSUME NEW c \in Conns, Accept(c) \/ ClientGone(c)
      PROVE  IInv'
  BY <1>2 DEF Accept, NewConnection, ClientGone, counters, TypeOK, SumInv,
     ChunkInv, LenInv, Chunk, SentInOrder, FlagInv, DoneInv
<1>3. CASE CloseSocket
  BY <1>3 DEF CloseSocket, counters, TypeOK, SumInv, ChunkInv, LenInv, Chunk,
     SentInOrder, FlagInv, DoneInv
<1>4. ASSUME NEW s \in Senders, Sender(s)
      PROVE  IInv'
  <2> USE DEF Goto, SPC, Inside
  <2>1. CASE Begin(s)
    <3>1. TypeOK'
      BY <2>1 DEF Begin, net, counters, TypeOK
    <3>2. SumInv' /\ SentInOrder'
      BY <2>1 DEF Begin, net, counters, SumInv, TypeOK, SentInOrder
    <3>3. ChunkInv'
      BY <2>1 DEF Begin, net, counters, ChunkInv, Chunk, TypeOK
    <3>4. LenInv'
      BY <2>1 DEF Begin, net, counters, LenInv, TypeOK
    <3>5. FlagInv'
      BY <2>1 DEF Begin, net, counters, FlagInv, TypeOK
    <3>6. DoneInv'
      BY <2>1 DEF Begin, net, counters, DoneInv, FlagInv, SumInv, LenInv, TypeOK
    <3>7. QED
      BY <3>1, <3>2, <3>3, <3>4, <3>5, <3>6
  <2>2. CASE Loop(s)
    <3>1. TypeOK'
      <4>1. spc' \in [Senders -> SPC]
        BY <2>2 DEF Loop, TypeOK
      <4>2. nw' \in [Senders -> 0..CHUNK_SIZE]
        BY <2>2 DEF Loop, TypeOK
      <4>3. QED
        BY <2>2, <4>1, <4>2 DEF Loop, net, counters, TypeOK
    <3>2. SumInv' /\ SentInOrder'
      BY <2>2 DEF Loop, counters, SumInv, SentInOrder, TypeOK
    <3>3. ChunkInv'
      BY <2>2 DEF Loop, counters, ChunkInv, Chunk, TypeOK
    <3>4. LenInv'
      BY <2>2 DEF Loop, counters, LenInv, TypeOK
    <3>5. FlagInv'
      BY <2>2 DEF Loop, FlagInv, TypeOK
    <3>6. DoneInv'
      <4>1. CASE remaining_size[s] > 0 /\ is_client_closed
        BY <2>2, <4>1 DEF Loop, DoneInv, TypeOK
      <4>2. CASE ~is_client_closed
        <5>1. failures' # {}
          BY <2>2, <4>2 DEF Loop, FlagInv
        <5>2. QED
          BY <2>2, <5>1 DEF Loop, DoneInv, TypeOK
      <4>3. CASE ~(remaining_size[s] > 0)
        <5>1. Len(taken[s]) = data_size
          BY <2>2, <4>3 DEF Loop, SumInv, LenInv, TypeOK
        <5>2. QED
          BY <2>2, <4>3, <5>1 DEF Loop, DoneInv, TypeOK
      <4>4. QED
        BY <4>1, <4>2, <4>3
    <3>7. QED
      BY <3>1, <3>2, <3>3, <3>4, <3>5, <3>6
  <2>3. CASE CallSend(s)
    <3>1. TypeOK'
      BY <2>3 DEF CallSend, net, counters, TypeOK
    <3>2. SumInv' /\ SentInOrder'
      BY <2>3 DEF CallSend, net, counters, SumInv, TypeOK, SentInOrder
    <3>3. ChunkInv'
      BY <2>3 DEF CallSend, net, counters, ChunkInv, Chunk, TypeOK
    <3>4. LenInv'
      BY <2>3 DEF CallSend, net, counters, LenInv, TypeOK
    <3>5. FlagInv'
      BY <2>3 DEF CallSend, net, counters, FlagInv, TypeOK
    <3>6. DoneInv'
      BY <2>3 DEF CallSend, net, counters, DoneInv, FlagInv, SumInv, LenInv,
         TypeOK
    <3>7. QED
      BY <3>1, <3>2, <3>3, <3>4, <3>5, <3>6
  <2>4. CASE SendTakes(s)
    <3>1. PICK k \in 1..(Chunk(s) - nw[s]) :
            /\ taken' = [taken EXCEPT ![s] = @ \o Bytes(s, offset[s] + nw[s], k)]
            /\ nw' = [nw EXCEPT ![s] = @ + k]
            /\ \/ nw[s] + k < Chunk(s) /\ Goto(s, "sending", "call") /\ UNCHANGED n
               \/ /\ nw[s] + k = Chunk(s) /\ Goto(s, "sending", "account")
                  /\ n' = [n EXCEPT ![s] = Chunk(s)]
      BY <2>4 DEF SendTakes
    <3>2. spc[s] = "sending" /\ fd[s] \in Conns
      BY <2>4, <3>1 DEF SendTakes, TypeOK
    <3>3. UNCHANGED <<net, is_client_closed, counters, fd, failures>>
      BY <2>4 DEF SendTakes
    <3>4. /\ Chunk(s) \in Nat /\ Chunk(s) <= CHUNK_SIZE
          /\ k \in Nat /\ nw[s] \in Nat /\ nw[s] + k <= Chunk(s)
      BY ChunkType DEF TypeOK
    <3>5. Len(taken[s]) = offset[s] + nw[s]
      BY <3>2 DEF LenInv
    <3>6. /\ taken'[s] \in Seq(Taken)
          /\ Len(taken'[s]) = Len(taken[s]) + k
          /\ \A j \in 1..Len(taken'[s]) : taken'[s][j].byte = j
      <4>1. taken[s] \in Seq(Taken)
        BY DEF TypeOK
      <4>2. \A j \in 1..Len(taken[s]) : taken[s][j].byte = j
        BY DEF SentInOrder
      <4>3. taken'[s] = taken[s] \o Bytes(s, Len(taken[s]), k)
        BY <3>1, <3>5 DEF TypeOK
      <4> DEFINE r == taken[s] \o Bytes(s, Len(taken[s]), k)
      <4>4. /\ r \in Seq(Taken)
            /\ Len(r) = Len(taken[s]) + k
            /\ \A j \in 1..Len(r) : r[j].byte = j
        BY <3>2, <3>4, <4>1, <4>2, AppendBytes
      <4>5. QED
        BY <4>3, <4>4
    <3>7. \A t \in Senders \ {s} : UNCHANGED <<taken[t], nw[t], n[t], spc[t]>>
      BY <3>1 DEF TypeOK
    <3>8. /\ spc'[s] \in {"call", "account"}
          /\ nw'[s] = nw[s] + k
          /\ spc'[s] = "call" => nw[s] + k < Chunk(s) /\ n'[s] = n[s]
          /\ spc'[s] = "account" => nw[s] + k = Chunk(s) /\ n'[s] = Chunk(s)
      BY <3>1 DEF TypeOK
    <3>9. Chunk(s)' = Chunk(s) /\ \A t \in Senders : Chunk(t)' = Chunk(t)
      BY <3>3 DEF Chunk, counters
    <3>10. TypeOK'
      <4>1. spc' \in [Senders -> SPC]
        BY <3>1 DEF TypeOK
      <4>2. nw' \in [Senders -> 0..CHUNK_SIZE]
        <5>1. nw[s] + k \in 0..CHUNK_SIZE
          BY <3>4, SendAssumption
        <5>2. QED
          BY <3>1, <5>1 DEF TypeOK
      <4>3. n' \in [Senders -> -1..CHUNK_SIZE]
        <5>1. Chunk(s) \in -1..CHUNK_SIZE
          BY <3>4, SendAssumption
        <5>2. QED
          BY <3>1, <5>1 DEF TypeOK
      <4>4. taken' \in [Senders -> Seq(Taken)]
        BY <3>1, <3>6, <3>7 DEF TypeOK
      <4>5. QED
        BY <3>3, <4>1, <4>2, <4>3, <4>4 DEF net, counters, TypeOK
    <3>11. SumInv'
      BY <3>2, <3>3, <3>7, <3>8 DEF counters, SumInv
    <3>12. ChunkInv'
      BY <3>7, <3>8, <3>9, <3>4 DEF ChunkInv
    <3>13. LenInv'
      <4>1. ASSUME NEW t \in Senders, t # s
            PROVE  Len(taken'[t]) = Len(taken[t]) /\ spc'[t] = spc[t] /\ nw'[t] = nw[t] /\ n'[t] = n[t]
        BY <3>7, <4>1
      <4>2. offset[s] \in Nat
        BY SendAssumption DEF TypeOK
      <4>3. spc'[s] = "call" => Len(taken'[s]) = offset'[s] + nw'[s]
        BY <3>3, <3>4, <3>5, <3>6, <3>8, <4>2 DEF counters
      <4>4. spc'[s] = "account" =>
              Len(taken'[s]) = offset'[s] + (IF n'[s] < 0 THEN 0 ELSE n'[s])
        BY <3>3, <3>4, <3>5, <3>6, <3>8, <4>2 DEF counters
      <4>5. QED
        BY <3>3, <3>8, <4>1, <4>3, <4>4 DEF counters, LenInv
    <3>14. SentInOrder'
      BY <3>6, <3>7 DEF SentInOrder
    <3>15. FlagInv'
      BY <3>2, <3>3, <3>7, <3>8 DEF FlagInv
    <3>16. DoneInv'
      BY <3>2, <3>3, <3>7, <3>8 DEF DoneInv
    <3>17. QED
      BY <3>10, <3>11, <3>12, <3>13, <3>14, <3>15, <3>16
  <2>5. CASE SendFails(s)
    <3>1. TypeOK'
      BY <2>5 DEF SendFails, net, counters, TypeOK
    <3>2. SumInv' /\ SentInOrder'
      BY <2>5 DEF SendFails, net, counters, SumInv, TypeOK, SentInOrder
    <3>3. ChunkInv'
      BY <2>5 DEF SendFails, net, counters, ChunkInv, Chunk, TypeOK
    <3>4. LenInv'
      BY <2>5 DEF SendFails, net, counters, LenInv, TypeOK
    <3>5. FlagInv'
      BY <2>5 DEF SendFails, net, counters, FlagInv, TypeOK
    <3>6. DoneInv'
      BY <2>5 DEF SendFails, net, counters, DoneInv, FlagInv, SumInv, LenInv,
         TypeOK
    <3>7. QED
      BY <3>1, <3>2, <3>3, <3>4, <3>5, <3>6
  <2>6. CASE Account(s)
    <3>1. /\ n[s] \in Int /\ -1 <= n[s]
          /\ offset[s] \in Nat /\ remaining_size[s] \in Nat
          /\ n[s] <= remaining_size[s]
          /\ offset[s] + remaining_size[s] = data_size
          /\ data_size \in Nat /\ Word \in Nat /\ data_size < Word - 1
      <4>1. spc[s] = "account"
        BY <2>6 DEF Account
      <4>2. Chunk(s) \in Nat /\ Chunk(s) <= remaining_size[s] /\ n[s] <= Chunk(s)
        BY <4>1, ChunkType DEF ChunkInv
      <4>3. QED
        BY <4>1, <4>2 DEF TypeOK, SumInv
    <3>2. CASE n[s] < 0
      <4>1. Wrap(offset[s] + n[s]) \in 0..(Word - 1)
        BY <3>1, <3>2 DEF Wrap
      <4>2. Wrap(remaining_size[s] - n[s]) \in 0..(Word - 1)
        BY <3>1, <3>2 DEF Wrap
      <4>3. TypeOK'
        BY <2>6, <3>2, <4>1, <4>2 DEF Account, net, TypeOK
      <4>4. spc'[s] = "failed" /\ s \in failures'
        BY <2>6, <3>1, <3>2 DEF Account, TypeOK
      <4>5. /\ \A t \in Senders \ {s} :
                 UNCHANGED <<spc[t], offset[t], remaining_size[t]>>
            /\ UNCHANGED <<net, is_client_closed, n, nw, fd, taken>>
        BY <2>6, <3>1, <3>2 DEF Account, TypeOK
      <4>6. SumInv' /\ LenInv' /\ SentInOrder'
        BY <4>4, <4>5 DEF SumInv, LenInv, SentInOrder
      <4>7. ChunkInv'
        BY <4>4, <4>5 DEF ChunkInv, Chunk
      <4>8. FlagInv' /\ DoneInv'
        BY <4>4, <4>5 DEF FlagInv, DoneInv
      <4>9. QED
        BY <4>3, <4>6, <4>7, <4>8
    <3>3. CASE n[s] >= 0
      <4>1. /\ Wrap(offset[s] + n[s]) = offset[s] + n[s]
            /\ Wrap(remaining_size[s] - n[s]) = remaining_size[s] - n[s]
        BY <3>1, <3>3 DEF Wrap
      <4>2. /\ spc' = [spc EXCEPT ![s] = "compare"] /\ spc[s] = "account"
            /\ offset' = [offset EXCEPT ![s] = offset[s] + n[s]]
            /\ remaining_size' = [remaining_size EXCEPT ![s] = remaining_size[s] - n[s]]
            /\ UNCHANGED <<net, is_client_closed, n, nw, fd, taken, failures>>
        <5>1. ~(n[s] < 0)
          BY <3>1, <3>3
        <5>2. QED
          BY <2>6, <4>1, <5>1 DEF Account
      <4>3. TypeOK'
        <5>1. offset[s] + n[s] \in 0..(Word - 1)
          BY <3>1, <3>3
        <5>2. remaining_size[s] - n[s] \in 0..(Word - 1)
          BY <3>1, <3>3
        <5>3. QED
          BY <4>2, <5>1, <5>2 DEF net, TypeOK
      <4>4. /\ \A t \in Senders \ {s} :
                 UNCHANGED <<spc[t], offset[t], remaining_size[t]>>
            /\ spc'[s] = "compare"
            /\ offset'[s] = offset[s] + n[s]
            /\ remaining_size'[s] = remaining_size[s] - n[s]
        BY <4>2 DEF TypeOK
      <4>5. SumInv'
        BY <3>1, <4>4 DEF SumInv
      <4>6. LenInv'
        <5>1. Len(taken[s]) = offset[s] + n[s]
          BY <3>1, <3>3, <4>2 DEF LenInv
        <5>2. QED
          BY <4>2, <4>4, <5>1 DEF LenInv
      <4>7. ChunkInv' /\ SentInOrder'
        BY <4>2, <4>4 DEF ChunkInv, Chunk, SentInOrder
      <4>8. FlagInv' /\ DoneInv'
        BY <4>2, <4>4 DEF FlagInv, DoneInv
      <4>9. QED
        BY <4>3, <4>5, <4>6, <4>7, <4>8
    <3>4. QED
      BY <3>1, <3>2, <3>3
  <2>7. CASE Compare(s)
    <3>1. TypeOK'
      BY <2>7 DEF Compare, net, counters, Incomplete, TypeOK
    <3>2. SumInv' /\ SentInOrder'
      BY <2>7 DEF Compare, net, counters, Incomplete, SumInv, TypeOK,
         SentInOrder
    <3>3. ChunkInv'
      BY <2>7 DEF Compare, net, counters, Incomplete, ChunkInv, Chunk, TypeOK
    <3>4. LenInv'
      BY <2>7 DEF Compare, net, counters, Incomplete, LenInv, TypeOK
    <3>5. FlagInv'
      BY <2>7 DEF Compare, net, counters, Incomplete, FlagInv, TypeOK
    <3>6. DoneInv'
      BY <2>7 DEF Compare, net, counters, Incomplete, DoneInv, FlagInv,
         SumInv, LenInv, TypeOK
    <3>7. QED
      BY <3>1, <3>2, <3>3, <3>4, <3>5, <3>6
  <2>8. CASE Fail(s)
    <3>1. TypeOK'
      BY <2>8 DEF Fail, net, counters, TypeOK
    <3>2. SumInv' /\ SentInOrder'
      BY <2>8 DEF Fail, net, counters, SumInv, TypeOK, SentInOrder
    <3>3. ChunkInv'
      BY <2>8 DEF Fail, net, counters, ChunkInv, Chunk, TypeOK
    <3>4. LenInv'
      BY <2>8 DEF Fail, net, counters, LenInv, TypeOK
    <3>5. FlagInv'
      BY <2>8 DEF Fail, net, counters, FlagInv, TypeOK, DoneInv
    <3>6. DoneInv'
      BY <2>8 DEF Fail, net, counters, DoneInv, FlagInv, SumInv, LenInv, TypeOK
    <3>7. QED
      BY <3>1, <3>2, <3>3, <3>4, <3>5, <3>6
  <2>9. CASE After(s)
    <3>1. TypeOK'
      BY <2>9 DEF After, net, counters, TypeOK
    <3>2. SumInv' /\ SentInOrder'
      BY <2>9 DEF After, net, counters, SumInv, TypeOK, SentInOrder
    <3>3. ChunkInv'
      BY <2>9 DEF After, net, counters, ChunkInv, Chunk, TypeOK
    <3>4. LenInv'
      BY <2>9 DEF After, net, counters, LenInv, TypeOK
    <3>5. FlagInv'
      BY <2>9 DEF After, net, counters, FlagInv, TypeOK
    <3>6. DoneInv'
      BY <2>9 DEF After, net, counters, DoneInv, FlagInv, SumInv, LenInv, TypeOK
    <3>7. QED
      BY <3>1, <3>2, <3>3, <3>4, <3>5, <3>6
  <2>10. CASE Reset(s)
    <3>1. TypeOK'
      BY <2>10 DEF Reset, net, counters, TypeOK
    <3>2. SumInv' /\ SentInOrder'
      BY <2>10 DEF Reset, net, counters, SumInv, TypeOK, SentInOrder
    <3>3. ChunkInv'
      BY <2>10 DEF Reset, net, counters, ChunkInv, Chunk, TypeOK
    <3>4. LenInv'
      BY <2>10 DEF Reset, net, counters, LenInv, TypeOK
    <3>5. FlagInv'
      BY <2>10 DEF Reset, net, counters, FlagInv, TypeOK
    <3>6. DoneInv'
      BY <2>10 DEF Reset, net, counters, DoneInv, FlagInv, SumInv, LenInv,
         TypeOK
    <3>7. QED
      BY <3>1, <3>2, <3>3, <3>4, <3>5, <3>6
  <2>11. ASSUME NEW c \in Conns, Reconnect(s, c)
        PROVE  IInv'
    <3>1. TypeOK'
      BY <2>11 DEF Reconnect, net, counters, NewConnection, TypeOK
    <3>2. SumInv' /\ SentInOrder'
      BY <2>11 DEF Reconnect, net, counters, NewConnection, SumInv, TypeOK,
         SentInOrder
    <3>3. ChunkInv'
      BY <2>11 DEF Reconnect, net, counters, NewConnection, ChunkInv, Chunk,
         TypeOK
    <3>4. LenInv'
      BY <2>11 DEF Reconnect, net, counters, NewConnection, LenInv, TypeOK
    <3>5. FlagInv'
      BY <2>11 DEF Reconnect, net, counters, NewConnection, FlagInv, TypeOK
    <3>6. DoneInv'
      BY <2>11 DEF Reconnect, net, counters, NewConnection, DoneInv, FlagInv,
         SumInv, LenInv, TypeOK
    <3>7. QED
      BY <3>1, <3>2, <3>3, <3>4, <3>5, <3>6
  <2>12. CASE Recheck(s)
    <3>1. TypeOK'
      BY <2>12 DEF Recheck, net, counters, TypeOK
    <3>2. SumInv' /\ SentInOrder'
      BY <2>12 DEF Recheck, net, counters, SumInv, TypeOK, SentInOrder
    <3>3. ChunkInv'
      BY <2>12 DEF Recheck, net, counters, ChunkInv, Chunk, TypeOK
    <3>4. LenInv'
      BY <2>12 DEF Recheck, net, counters, LenInv, TypeOK
    <3>5. FlagInv'
      BY <2>12 DEF Recheck, net, counters, FlagInv, TypeOK
    <3>6. DoneInv'
      BY <2>12 DEF Recheck, net, counters, DoneInv, FlagInv, SumInv, LenInv,
         TypeOK
    <3>7. QED
      BY <3>1, <3>2, <3>3, <3>4, <3>5, <3>6
  <2>13. CASE SayDone(s)
    <3>1. TypeOK'
      BY <2>13 DEF SayDone, net, counters, TypeOK
    <3>2. SumInv' /\ SentInOrder'
      BY <2>13 DEF SayDone, net, counters, SumInv, TypeOK, SentInOrder
    <3>3. ChunkInv'
      BY <2>13 DEF SayDone, net, counters, ChunkInv, Chunk, TypeOK
    <3>4. LenInv'
      BY <2>13 DEF SayDone, net, counters, LenInv, TypeOK
    <3>5. FlagInv'
      BY <2>13 DEF SayDone, net, counters, FlagInv, TypeOK
    <3>6. DoneInv'
      BY <2>13 DEF SayDone, net, counters, DoneInv, FlagInv, SumInv, LenInv,
         TypeOK
    <3>7. QED
      BY <3>1, <3>2, <3>3, <3>4, <3>5, <3>6
  <2>14. QED
    BY <1>4, <2>1, <2>2, <2>3, <2>4, <2>5, <2>6, <2>7, <2>8, <2>9, <2>10,
       <2>11, <2>12, <2>13 DEF Sender, Send
<1>5. QED
  BY <1>1, <1>2, <1>3, <1>4 DEF Next

LEMMA InvHolds == Spec => []IInv
  BY InvInit, InvStep, PTL DEF Spec

(* The type invariant: no counter of send_data_to_client leaves size_t. *)
THEOREM TypeCorrect == Spec => []TypeOK
<1>1. IInv => TypeOK
  BY DEF IInv
<1>2. QED
  BY <1>1, InvHolds, PTL

(* Mgard300_Handler.cpp:198-222 with stream_socket.cpp:197-215: the bytes  *)
(* of an image go out in order, none twice and none left out.              *)
THEOREM BytesInOrder == Spec => []SentInOrder
<1>1. IInv => SentInOrder
  BY DEF IInv
<1>2. QED
  BY <1>1, InvHolds, PTL

(* Mgard300_Handler.cpp:203-219: the counters, which are updated before    *)
(* the result of write_n is examined, agree with what went out whenever    *)
(* the loop uses them, and the DEBUG check never throws.                   *)
THEOREM CountersAreRight == Spec => []CountersAgree
<1>1. IInv => CountersAgree
  BY DEF IInv, SumInv, LenInv, DoneInv, Inside, CountersAgree
<1>2. QED
  BY <1>1, InvHolds, PTL

(* Mgard300_Handler.cpp:197-229: without a failed write every image is     *)
(* complete, whatever the other senders do with the shared flag.           *)
THEOREM OnlyFailureTruncates == Spec => []TruncatedOnlyAfterFailure
<1>1. IInv => TruncatedOnlyAfterFailure
  BY DEF IInv, DoneInv, Inside, TruncatedOnlyAfterFailure
<1>2. QED
  BY <1>1, InvHolds, PTL

-----------------------------------------------------------------------------
(* LoneFailureReconnects. *)

(* A sender whose write has failed is past its loop for good, and the flag *)
(* that it has cleared stays so while no other sender has begun.           *)
PastLoop == {"failed", "after", "reset", "reconnect", "recheck", "sent_all",
             "returned"}
FailedInv == \A s \in failures : s \in Senders /\ spc[s] \in PastLoop
ClearedInv ==
  \A s \in failures : spc[s] = "after" /\ Alone(s) => ~is_client_closed

LEMMA ClearedSender ==
  ASSUME TypeOK, FailedInv, ClearedInv, NEW t \in Senders, Sender(t)
  PROVE  FailedInv' /\ ClearedInv'
<1>1. PICK to \in SPC \ {"begin"} : spc' = [spc EXCEPT ![t] = to]
  BY DEF Sender, Send, Begin, Loop, CallSend, SendTakes, SendFails, Account, Compare,
     Fail, After, Reset, Reconnect, Recheck, SayDone, Goto, SPC
<1>2. \A s \in Senders : s # t => spc'[s] = spc[s]
  BY <1>1 DEF TypeOK
<1>3. \A s \in Senders : Alone(s)' => Alone(s) /\ s = t
  BY <1>1, <1>2 DEF TypeOK, Alone
<1>4. CASE Account(t)
  <2>1. /\ spc[t] = "account" /\ UNCHANGED is_client_closed
        /\ \/ spc'[t] = "failed" /\ failures' = failures \cup {t}
           \/ failures' = failures
    BY <1>4 DEF Account, Goto, net, TypeOK
  <2>2. t \notin failures
    BY <2>1 DEF FailedInv, PastLoop
  <2>3. FailedInv'
    BY <1>2, <2>1, <2>2 DEF FailedInv, PastLoop
  <2>4. ClearedInv'
    BY <1>3, <2>1, <2>2, <2>3 DEF FailedInv, ClearedInv
  <2>5. QED
    BY <2>3, <2>4
<1>5. CASE Fail(t)
  <2>1. spc'[t] = "after" /\ ~is_client_closed' /\ failures' = failures
    BY <1>5 DEF Fail, Goto, TypeOK
  <2>2. QED
    BY <1>2, <2>1 DEF FailedInv, ClearedInv, PastLoop
<1>6. CASE After(t) \/ Reset(t) \/ (\E c \in Conns : Reconnect(t, c)) \/ Recheck(t) \/ SayDone(t)
  <2>1. /\ spc'[t] \in {"reset", "reconnect", "recheck", "sent_all", "returned"}
        /\ failures' = failures
    BY <1>6 DEF After, Reset, Reconnect, Recheck, SayDone, Goto, TypeOK
  <2>2. FailedInv'
    BY <1>2, <2>1 DEF FailedInv, PastLoop
  <2>3. ClearedInv'
    BY <1>3, <2>1 DEF ClearedInv, FailedInv
  <2>4. QED
    BY <2>2, <2>3
<1>7. CASE Begin(t) \/ Loop(t) \/ Send(t) \/ Compare(t)
  <2>1. spc[t] \notin PastLoop /\ failures' = failures
    BY <1>7 DEF Begin, Loop, Send, CallSend, SendTakes, SendFails, Compare, Goto, PastLoop
  <2>2. t \notin failures
    BY <2>1 DEF FailedInv
  <2>3. FailedInv'
    BY <1>2, <2>1, <2>2 DEF FailedInv
  <2>4. ClearedInv'
    BY <1>3, <2>1, <2>2 DEF ClearedInv, FailedInv
  <2>5. QED
    BY <2>3, <2>4
<1>8. QED
  BY <1>4, <1>5, <1>6, <1>7 DEF Sender

LEMMA ClearedStep ==
  TypeOK /\ FailedInv /\ ClearedInv /\ [Next]_vars => FailedInv' /\ ClearedInv'
<1> SUFFICES ASSUME TypeOK, FailedInv, ClearedInv, [Next]_vars
             PROVE  FailedInv' /\ ClearedInv'
  OBVIOUS
<1>1. CASE UNCHANGED <<spc, failures, is_client_closed>>
  BY <1>1 DEF FailedInv, ClearedInv, Alone
<1>2. UNCHANGED vars \/ (\E c \in Conns : Accept(c) \/ ClientGone(c)) \/ CloseSocket
        => UNCHANGED <<spc, failures, is_client_closed>>
  BY DEF vars, Accept, ClientGone, CloseSocket
<1>3. QED
  BY <1>1, <1>2, ClearedSender DEF Next

(* Mgard300_Handler.cpp:223-229: a sender whose write failed reconnects if   *)
(* no other image is being sent or has been.                                 *)
THEOREM FailureReconnects == Spec => LoneFailureReconnects
<1>1. Init => FailedInv /\ ClearedInv
  BY DEF Init, FailedInv, ClearedInv
<1>2. IInv => TypeOK
  BY DEF IInv
<1>3. TypeOK /\ ClearedInv /\ [Next]_vars =>
        [\A s \in Senders :
           Alone(s) /\ s \in failures /\ spc[s] = "after" => spc'[s] # "sent_all"]_vars
  <2> SUFFICES ASSUME TypeOK, ClearedInv, Next, NEW s \in Senders,
                      Alone(s), s \in failures, spc[s] = "after"
               PROVE  spc'[s] # "sent_all"
    OBVIOUS
  <2>1. ~is_client_closed
    BY DEF ClearedInv
  <2>2. ASSUME NEW t \in Senders, Sender(t), t # s
        PROVE  spc'[s] = spc[s]
    BY <2>2 DEF Sender, Send, Begin, Loop, CallSend, SendTakes, SendFails, Account,
       Compare, Fail, After, Reset, Reconnect, Recheck, SayDone, Goto, TypeOK
  <2>3. Sender(s) => spc'[s] = "reset"
    BY <2>1 DEF Sender, Send, Begin, Loop, CallSend, SendTakes, SendFails, Account,
       Compare, Fail, After, Reset, Reconnect, Recheck, SayDone, Goto, TypeOK
  <2>4. (\E c \in Conns : Accept(c) \/ ClientGone(c)) \/ CloseSocket => spc' = spc
    BY DEF Accept, ClientGone, CloseSocket
  <2>5. QED
    BY <2>2, <2>3, <2>4 DEF Next
<1>4. QED
  BY <1>1, <1>2, <1>3, ClearedStep, InvHolds, PTL DEF Spec, LoneFailureReconnects

=============================================================================
