----------------------- MODULE SettingsBatteryProofs ------------------------
(***************************************************************************)
(* The two components that work on their own, the configuration service and*)
(* the power monitor: no other part of the program changes their state, and*)
(* their specifications share no variable.  Each lemma is about one of them.*)
(*                                                                         *)
(* For any keys and values, any number of requests and of restarts: the    *)
(* file and the object agree whenever the server waits, and the interface  *)
(* has the address of the object whenever the last attempt to set it was   *)
(* given an address and worked.                                            *)
(*                                                                         *)
(* For any fields, any cuts of the replies and any number of requests: the *)
(* readings are their own until a reply comes late or a read does not      *)
(* return one whole reply, and after a late one they never are.            *)
(***************************************************************************)
EXTENDS SettingsServer, Battery, TLAPS

(* The file agrees with the object once it has been loaded, and until a    *)
(* request overwrites it; in between it holds that request or nothing.     *)
Agree == \A k \in Restored : file[k] # Absent => memory[k] = file[k]
FileInv ==
  /\ pc \notin {"load", "write", "assign"} /\ ~unsaved /\ file \in Message => Agree
  /\ pc = "write" => file = Torn
  /\ pc = "assign" /\ ~unsaved /\ file \in Message => file = j

(* The interface agrees with the object until a request changes that, and  *)
(* then the request's address is also the object's.                        *)
AddressInv ==
  /\ pc = "load" => ~assigned
  /\ pc \in {"accept", "returned", "read", "parse", "open", "write", "assign", "changed"}
       /\ assigned => iface = memory[IP]
  /\ pc \in {"ack", "wifi", "set_ip"} /\ j[IP] \in Addresses => memory[IP] = j[IP]

(* What is saved is the request that is assigned next. *)
HasNull(m) == m \in Message /\ \E k \in Restored : m[k] = JsonNull
NullInv ==
  /\ HasNull(file) => pc \in {"load", "assign"}
  /\ HasNull(file) /\ pc = "assign" => file = j

IInv == TypeOK /\ FileInv /\ AddressInv

-----------------------------------------------------------------------------
(* What taking over a request does to the object. *)
LEMMA AssignType ==
  ASSUME memory \in [KeySet -> Addresses \cup {Empty}],
         NEW m \in Message, NEW keys \in SUBSET KeySet,
         \A k \in keys : m[k] # JsonNull
  PROVE  /\ Assign(m, keys) \in [KeySet -> Addresses \cup {Empty}]
         /\ \A k \in keys : m[k] # Absent => Assign(m, keys)[k] = m[k]
  BY DEF Assign, Message

LEMMA KeyFacts == IP \in KeySet /\ METHOD \in KeySet /\ IP \in Restored
                  /\ Restored \subseteq KeySet
  BY SettingsAssumption DEF Restored, IP, METHOD

LEMMA InvInit == Init => IInv
<1> SUFFICES ASSUME Init
             PROVE  IInv
  OBVIOUS
<1> USE SettingsAssumption DEF Init
<1>1. Nothing \in Message /\ NoSettings \in [KeySet -> Addresses \cup {Empty}]
  BY DEF Nothing, NoSettings, Message
<1>2. TypeOK
  <2>1. pc \in PC /\ requests \in 0..MaxRequests /\ crashes \in 0..MaxCrashes
    BY DEF TypeOK, PC
  <2>2. /\ memory \in [KeySet -> Addresses \cup {Empty}] /\ j \in Message
    BY <1>1
  <2>3. /\ file \in Message \cup {NoFile, Torn}
        /\ buffer \in Message \cup {Torn}
        /\ iface \in Addresses \cup {Unknown}
        /\ assigned \in BOOLEAN /\ unsaved \in BOOLEAN
    BY DEF TypeOK
  <2>4. QED
    BY <2>1, <2>2, <2>3 DEF TypeOK
<1>3. FileInv /\ AddressInv
  BY DEF FileInv, AddressInv
<1>4. QED
  BY <1>2, <1>3 DEF IInv

-----------------------------------------------------------------------------
LEMMA DieInv == IInv /\ Die => IInv'
<1> SUFFICES ASSUME IInv, Die
             PROVE  IInv'
  OBVIOUS
<1> USE SettingsAssumption DEF IInv, Die
<1>1. Nothing \in Message /\ NoSettings \in [KeySet -> Addresses \cup {Empty}]
  BY DEF Nothing, NoSettings, Message
<1>2. TypeOK'
  <2>1. pc' \in PC /\ requests' \in 0..MaxRequests /\ crashes' \in 0..MaxCrashes
    BY DEF TypeOK, PC
  <2>2. /\ memory' \in [KeySet -> Addresses \cup {Empty}] /\ j' \in Message
    BY <1>1
  <2>3. /\ file' \in Message \cup {NoFile, Torn}
        /\ buffer' \in Message \cup {Torn}
        /\ iface' \in Addresses \cup {Unknown}
        /\ assigned' \in BOOLEAN /\ unsaved' \in BOOLEAN
    BY DEF TypeOK
  <2>4. QED
    BY <2>1, <2>2, <2>3 DEF TypeOK
<1>3. FileInv' /\ AddressInv'
  BY DEF FileInv, AddressInv
<1>4. QED
  BY <1>2, <1>3

LEMMA BootInv ==
  ASSUME IInv, LoadNoFile \/ LoadFile \/ BootSetIP
  PROVE  IInv'
<1> USE SettingsAssumption, KeyFacts DEF IInv, Goto, PC, bounds
<1>1. CASE LoadNoFile
  BY <1>1 DEF LoadNoFile, TypeOK, FileInv, AddressInv, Agree
<1>2. CASE LoadFile
  <2>1. CASE file = Torn /\ UNCHANGED memory
    BY <1>2, <2>1 DEF LoadFile, TypeOK, FileInv, AddressInv
  <2>2. CASE file \in Message /\ (\A k \in Restored : file[k] # JsonNull)
             /\ memory' = Assign(file, Restored)
    <3>1. memory' \in [KeySet -> Addresses \cup {Empty}] /\ Agree'
      BY <1>2, <2>2, AssignType DEF LoadFile, TypeOK, Agree
    <3>2. QED
      BY <1>2, <3>1 DEF LoadFile, TypeOK, FileInv, AddressInv
  <2>3. QED
    BY <1>2, <2>1, <2>2 DEF LoadFile
<1>3. CASE BootSetIP
  <2>1. TypeOK'
    BY <1>3 DEF BootSetIP, SetIP, TypeOK
  <2>2. FileInv'
    BY <1>3 DEF BootSetIP, FileInv, Agree
  <2>3. AddressInv'
    BY <1>3 DEF BootSetIP, SetIP, AddressInv
  <2>4. QED
    BY <2>1, <2>2, <2>3
<1>4. QED
  BY <1>1, <1>2, <1>3

LEMMA ReceiveInv ==
  ASSUME IInv, Accept \/ AcceptFails \/ Receive
  PROVE  IInv'
<1> USE SettingsAssumption DEF IInv, Goto, PC, bounds, Agree
<1>1. CASE Accept
  BY <1>1 DEF Accept, TypeOK, FileInv, AddressInv
<1>2. CASE AcceptFails
  BY <1>2 DEF AcceptFails, TypeOK, FileInv, AddressInv
<1>3. CASE \E m \in Message : ReadWhole(m)
  BY <1>3 DEF ReadWhole, TypeOK, FileInv, AddressInv
<1>4. ASSUME NEW m \in Message, NEW i \in 0..(Len(Keys) - 1), ReadPart(m, i)
      PROVE  IInv'
  <2>1. buffer' \in Message \cup {Torn}
    <3>1. CASE buffer' = Torn
      BY <3>1
    <3>2. CASE buffer' # Torn
      BY <1>4, <3>2 DEF ReadPart, TypeOK, Message
    <3>3. QED
      BY <3>1, <3>2
  <2>2. QED
    BY <1>4, <2>1 DEF ReadPart, TypeOK, FileInv, AddressInv
<1>5. CASE ReadFails
  BY <1>5 DEF ReadFails, TypeOK, FileInv, AddressInv
<1>6. QED
  BY <1>1, <1>2, <1>3, <1>4, <1>5 DEF Receive

LEMMA ProcessInv ==
  ASSUME IInv, Process, ~AssignNull
  PROVE  IInv'
<1> USE SettingsAssumption, KeyFacts DEF IInv, Goto, PC, bounds
<1>1. CASE Parse
  BY <1>1 DEF Parse, TypeOK, FileInv, AddressInv, Agree
<1>2. CASE Open
  BY <1>2 DEF Open, TypeOK, FileInv, AddressInv
<1>3. CASE Write
  BY <1>3 DEF Write, TypeOK, FileInv, AddressInv
<1>4. CASE AssignSettings
  <2>1. /\ memory' \in [KeySet -> Addresses \cup {Empty}]
        /\ \A k \in KeySet : j[k] # Absent => memory'[k] = j[k]
    BY <1>4, AssignType DEF AssignSettings, TypeOK
  <2>2. TypeOK'
    BY <1>4, <2>1 DEF AssignSettings, TypeOK
  <2>3. FileInv'
    BY <1>4, <2>1 DEF AssignSettings, FileInv, Agree
  <2>4. AddressInv'
    BY <1>4, <2>1 DEF AssignSettings, AddressInv
  <2>5. QED
    BY <2>2, <2>3, <2>4
<1>5. CASE Acknowledge
  BY <1>5 DEF Acknowledge, TypeOK, FileInv, AddressInv, Agree
<1>6. CASE AddWifi
  BY <1>6 DEF AddWifi, TypeOK, FileInv, AddressInv, Agree
<1>7. CASE SetNewIP
  <2>1. TypeOK'
    BY <1>7 DEF SetNewIP, SetIP, TypeOK
  <2>2. FileInv'
    BY <1>7 DEF SetNewIP, FileInv, Agree
  <2>3. AddressInv'
    BY <1>7 DEF SetNewIP, SetIP, AddressInv
  <2>4. QED
    BY <2>1, <2>2, <2>3
<1>8. CASE TellChanged
  BY <1>8 DEF TellChanged, TypeOK, FileInv, AddressInv, Agree
<1>9. QED
  BY <1>1, <1>2, <1>3, <1>4, <1>5, <1>6, <1>7, <1>8 DEF Process

LEMMA InvStep == IInv /\ [Next]_vars => IInv'
<1> SUFFICES ASSUME IInv, [Next]_vars
             PROVE  IInv'
  OBVIOUS
<1>1. CASE UNCHANGED vars
  BY <1>1 DEF vars, IInv, TypeOK, FileInv, AddressInv, Agree
<1>2. CASE Crash \/ LoadNull \/ AssignNull
  BY <1>2, DieInv DEF Crash, LoadNull, AssignNull
<1>3. QED
  BY <1>1, <1>2, BootInv, ReceiveInv, ProcessInv DEF Next, Boot

LEMMA InvHolds == Spec => []IInv
  BY InvInit, InvStep, PTL DEF Spec

(* The type invariant of SettingsServer. *)
THEOREM TypeCorrect == Spec => []TypeOK
<1>1. IInv => TypeOK
  BY DEF IInv
<1>2. QED
  BY <1>1, InvHolds, PTL

(* Settings.cpp:306-371 and 394-425: between two requests the object and   *)
(* the file agree on every key that a restart restores.                    *)
THEOREM SavedSettingsAreInMemory == Spec => []SavedIsInMemory
<1>1. IInv => SavedIsInMemory
  BY DEF IInv, FileInv, Agree, SavedIsInMemory, Waiting
<1>2. QED
  BY <1>1, InvHolds, PTL

(* Settings.cpp:370 and 458: set_IP puts the address of the object in      *)
(* force on both paths, provided that it is given one and works.           *)
THEOREM AddressOfSettings == Spec => []AddressInForce
<1>1. IInv => AddressInForce
  BY DEF IInv, AddressInv, AddressInForce, Waiting
<1>2. QED
  BY <1>1, InvHolds, PTL

-----------------------------------------------------------------------------
LEMMA NullStep == IInv /\ NullInv /\ [Next]_vars => NullInv'
<1> SUFFICES ASSUME IInv, NullInv, [Next]_vars
             PROVE  NullInv'
  OBVIOUS
<1> USE SettingsAssumption, KeyFacts DEF NullInv, HasNull, Goto
<1>1. CASE UNCHANGED vars
  BY <1>1 DEF vars
<1>2. CASE Crash \/ LoadNull \/ AssignNull
  BY <1>2 DEF Crash, LoadNull, AssignNull, Die
<1>3. CASE LoadNoFile \/ LoadFile \/ BootSetIP
  BY <1>3 DEF LoadNoFile, LoadFile, BootSetIP, IInv, TypeOK
<1>4. CASE Accept \/ AcceptFails \/ Receive
  BY <1>4 DEF Accept, AcceptFails, Receive, ReadWhole, ReadPart, ReadFails
<1>5. CASE Parse \/ Open \/ Write
  BY <1>5 DEF Parse, Open, Write, IInv, FileInv
<1>6. CASE AssignSettings
  BY <1>6 DEF AssignSettings
<1>7. CASE Acknowledge \/ AddWifi \/ SetNewIP \/ TellChanged
  BY <1>7 DEF Acknowledge, AddWifi, SetNewIP, TellChanged
<1>8. QED
  BY <1>1, <1>2, <1>3, <1>4, <1>5, <1>6, <1>7 DEF Next, Boot, Process

(* Settings.cpp:335-351 and 394-425: a JSON null that has been saved ends  *)
(* this process and every later one before it serves anybody, over any     *)
(* number of restarts.                                                     *)
THEOREM SavedNullIsFatal == Spec => []NullIsFatal
<1>1. Init => NullInv
  BY SettingsAssumption DEF Init, NullInv, HasNull
<1>2. NullInv => NullIsFatal
  BY DEF NullInv, HasNull, NullIsFatal
<1>3. QED
  BY <1>1, <1>2, NullStep, InvInit, InvStep, PTL DEF Spec

-----------------------------------------------------------------------------
(***************************************************************************)
(* The power monitor.                                                      *)
(***************************************************************************)

(* Replies come in the order of the requests, and behind what is in the    *)
(* queue; and the request in progress is the last one to be answered.      *)
OrderInv ==
  /\ \A i, k \in 1..Len(replies) : i < k => replies[i].to < replies[k].to
  /\ \A i \in 1..Len(line), k \in 1..Len(replies) : line[i][1] <= replies[k].to
  /\ waiting # None /\ port = "open" /\ replies # <<>> =>
       replies[Len(replies)].to = Len(asked)

(* While all is in time and whole, what is in the queue belongs to the     *)
(* request in progress, and the rest of its reply is all that is to come.  *)
InTime ==
  late = "never" /\ ~split =>
    /\ \A i \in 1..Len(line) : line[i] = <<Len(asked), i>>
    /\ line # <<>> => waiting # None /\ port = "open"
    /\ \/ line # <<>> /\ Len(line) = FrameSize /\ replies = <<>>
       \/ line # <<>> /\ Len(replies) = 1 /\ replies[1].to = Len(asked)
          /\ replies[1].sent = Len(line)
       \/ line = <<>> /\ \A i \in 1..Len(replies) : replies[i].sent = 0
    /\ waiting # None /\ port # "open" =>
         \A i \in 1..Len(replies) : replies[i].to < Len(asked)

(* Once one is late, a request finds the answer to an earlier one before   *)
(* its own, which is the last to come.                                     *)
Oldest == IF line # <<>> THEN line[1][1] ELSE replies[1].to
StaysBehind ==
  late = "late" /\ ~split =>
    /\ line # <<>> \/ replies # <<>>
    /\ waiting # None => Oldest < Len(asked)
    /\ waiting # None /\ port = "open" /\ replies = <<>> => line[Len(line)][1] = Len(asked)

BatteryInv == BatteryTypeOK /\ OrderInv /\ InTime /\ StaysBehind /\ OwnUnlessDisturbed

-----------------------------------------------------------------------------
Reply == [to : Requests, sent : 0..FrameSize-1]
QueueByte == Requests \X (1..FrameSize)

(* What a type-correct state says of the two queues, with a byte read as   *)
(* its two parts.                                                          *)
LEMMA QueueTypes ==
  ASSUME BatteryTypeOK
  PROVE  /\ Len(asked) \in Nat /\ Len(replies) \in Nat /\ Len(line) \in Nat
         /\ asked \in Seq(1..9) /\ replies \in Seq(Reply) /\ line \in Seq(QueueByte)
         /\ \A i \in 1..Len(replies) : replies[i] \in Reply /\ replies[i].to \in 1..Len(asked)
                                       /\ replies[i].sent \in 0..8
         /\ \A i \in 1..Len(line) : line[i] \in QueueByte /\ line[i][1] \in 1..Len(asked)
                                    /\ line[i][2] \in 1..9
<1>1. /\ asked \in Seq(1..9) /\ replies \in Seq(Reply) /\ line \in Seq(QueueByte)
      /\ Len(asked) \in Nat /\ Len(replies) \in Nat /\ Len(line) \in Nat
  BY DEF BatteryTypeOK, Reply, QueueByte
<1>2. /\ \A i \in 1..Len(replies) : replies[i] \in Reply
      /\ \A i \in 1..Len(line) : line[i] \in QueueByte
  BY <1>1
<1>3. \A r \in Reply : r.to \in 1..Len(asked) /\ r.sent \in 0..8
  BY DEF Reply, Requests, FrameSize
<1>4. \A b \in QueueByte : b[1] \in 1..Len(asked) /\ b[2] \in 1..9
  BY DEF QueueByte, Requests, FrameSize
<1>5. QED
  BY <1>1, <1>2, <1>3, <1>4

(* Sequences: a larger set of elements, and what is behind the first n.    *)
LEMMA SeqSubset ==
  ASSUME NEW S, NEW T, S \subseteq T, NEW s \in Seq(S)
  PROVE  s \in Seq(T)
  OBVIOUS

LEMMA Rest ==
  ASSUME NEW s \in Seq(QueueByte), NEW n \in Nat, n <= Len(s)
  PROVE  /\ SubSeq(s, n + 1, Len(s)) \in Seq(QueueByte)
         /\ Len(SubSeq(s, n + 1, Len(s))) = Len(s) - n
         /\ \A i \in 1..(Len(s) - n) : SubSeq(s, n + 1, Len(s))[i] = s[n + i]
  OBVIOUS

LEMMA TailFacts ==
  ASSUME NEW S, NEW s \in Seq(S), s # <<>>
  PROVE  /\ Tail(s) \in Seq(S) /\ Len(Tail(s)) = Len(s) - 1 /\ Len(s) >= 1
         /\ \A i \in 1..(Len(s) - 1) : Tail(s)[i] = s[i + 1]
         /\ Head(s) = s[1]
  OBVIOUS

LEMMA Appended ==
  ASSUME NEW S, NEW s \in Seq(S), NEW e \in S
  PROVE  /\ Append(s, e) \in Seq(S) /\ Len(Append(s, e)) = Len(s) + 1
         /\ \A i \in 1..Len(s) : Append(s, e)[i] = s[i]
         /\ Append(s, e)[Len(s) + 1] = e
  OBVIOUS

LEMMA Joined ==
  ASSUME NEW s \in Seq(QueueByte), NEW t \in Seq(QueueByte)
  PROVE  /\ s \o t \in Seq(QueueByte) /\ Len(s \o t) = Len(s) + Len(t)
         /\ \A i \in 1..Len(s) : (s \o t)[i] = s[i]
         /\ \A i \in 1..Len(t) : (s \o t)[Len(s) + i] = t[i]
  OBVIOUS

-----------------------------------------------------------------------------
(* What a request changes. *)
LEMMA AskEffect ==
  ASSUME BatteryTypeOK, NEW what \in Fields \cup {"set"}, NEW register \in 1..9,
         Ask(what, register)
  PROVE  /\ Len(asked') = Len(asked) + 1 /\ Len(asked') <= MaxAsked
         /\ asked' \in Seq(1..9)
         /\ \A i \in 1..Len(asked) : asked'[i] = asked[i]
         /\ waiting' = what /\ waiting = None /\ line' = line /\ port' = port
         /\ replies' \in Seq([to : Requests', sent : 0..FrameSize-1])
         /\ port # "open" => replies' = replies
         /\ port = "open" =>
              /\ Len(replies') = Len(replies) + 1
              /\ \A i \in 1..Len(replies) : replies'[i] = replies[i]
              /\ replies'[Len(replies) + 1] = [to |-> Len(asked'), sent |-> 0]
<1>1. /\ asked' = Append(asked, register) /\ Len(asked) < MaxAsked
      /\ asked \in Seq(1..9) /\ Len(asked) \in Nat /\ MaxAsked \in Nat
  BY BoundsAssumption, QueueTypes DEF Ask
<1>2. /\ asked' \in Seq(1..9) /\ Len(asked') = Len(asked) + 1
      /\ \A i \in 1..Len(asked) : asked'[i] = asked[i]
  BY <1>1, Appended
<1>3. Len(asked') <= MaxAsked
  BY <1>1, <1>2
<1>4. waiting' = what /\ waiting = None /\ line' = line /\ port' = port
  BY DEF Ask, Ready
<1> DEFINE R == [to : Requests', sent : 0..FrameSize-1]
           e == [to |-> Len(asked'), sent |-> 0]
<1>5. Reply \subseteq R /\ e \in R
  <2>1. Requests \subseteq Requests' /\ Len(asked') \in Requests'
    BY <1>1, <1>2 DEF Requests
  <2>2. 0 \in 0..FrameSize-1
    BY DEF FrameSize
  <2>3. QED
    BY <2>1, <2>2 DEF Reply
<1>6. replies \in Seq(R)
  BY <1>5, SeqSubset, QueueTypes
<1> HIDE DEF R, e
<1>7. CASE port = "open"
  <2>1. replies' = Append(replies, e)
    BY <1>7 DEF Ask, e
  <2>2. /\ replies' \in Seq(R) /\ Len(replies') = Len(replies) + 1
        /\ \A i \in 1..Len(replies) : replies'[i] = replies[i]
        /\ replies'[Len(replies) + 1] = e
    BY <1>5, <1>6, <2>1, Appended
  <2>3. QED
    BY <1>1, <1>2, <1>3, <1>4, <1>7, <2>2 DEF R, e
<1>8. CASE port # "open"
  <2>1. replies' = replies
    BY <1>8 DEF Ask
  <2>2. QED
    BY <1>2, <1>3, <1>4, <1>6, <1>8, <2>1 DEF R
<1>9. QED
  BY <1>7, <1>8

(* What the arrival of a piece of a reply changes. *)
LEMMA ArriveEffect ==
  ASSUME BatteryTypeOK, NEW cut \in Cuts, Arrive(cut)
  PROVE  /\ Len(replies) >= 1 /\ replies[1].sent < cut /\ cut \in 1..9
         /\ line' \in Seq(QueueByte) /\ Len(line') = Len(line) + (cut - replies[1].sent)
         /\ \A i \in 1..Len(line) : line'[i] = line[i]
         /\ \A i \in 1..(cut - replies[1].sent) :
              line'[Len(line) + i] = <<replies[1].to, replies[1].sent + i>>
         /\ replies' \in Seq(Reply)
         /\ cut = FrameSize => /\ Len(replies') = Len(replies) - 1
                               /\ \A i \in 1..(Len(replies) - 1) : replies'[i] = replies[i + 1]
         /\ cut # FrameSize =>
              /\ Len(replies') = Len(replies) /\ replies'[1].to = replies[1].to
              /\ replies'[1].sent = cut
              /\ \A i \in 2..Len(replies) : replies'[i] = replies[i]
<1>1. /\ replies \in Seq(Reply) /\ line \in Seq(QueueByte) /\ replies # <<>>
      /\ Len(replies) \in Nat /\ Len(line) \in Nat
  BY QueueTypes DEF Arrive
<1>2. Head(replies) = replies[1] /\ Len(replies) >= 1
  BY <1>1, TailFacts
<1>3. PICK r, to, m : r = replies[1] /\ to = r.to /\ m = r.sent
  OBVIOUS
<1>n. PICK n : n = cut - m
  OBVIOUS
<1>t. PICK t : t = [i \in 1..n |-> <<to, m + i>>]
  OBVIOUS
<1>4. /\ m < cut /\ line' = line \o t
      /\ replies' = IF cut = FrameSize THEN Tail(replies)
                    ELSE [replies EXCEPT ![1].sent = cut]
  BY <1>2, <1>3, <1>n, <1>t DEF Arrive
<1>5. r \in Reply /\ to \in Requests /\ m \in 0..8 /\ cut \in 1..9 /\ n \in 1..9 /\ m + n = cut
  <2>1. r \in Reply
    BY <1>1, <1>2, <1>3
  <2>2. to \in Requests /\ m \in 0..8 /\ cut \in 1..9
    BY <1>3, <2>1, CutsAssumption DEF Reply, FrameSize
  <2>3. n \in 1..9 /\ m + n = cut
    BY <1>n, <1>4, <2>2
  <2>4. QED
    BY <2>1, <2>2, <2>3
<1>6. t \in Seq(QueueByte) /\ Len(t) = n
  <2>1. \A i \in 1..n : m + i \in 1..9
    BY <1>5
  <2>2. \A i \in 1..n : <<to, m + i>> \in QueueByte
    BY <1>5, <2>1 DEF QueueByte, FrameSize
  <2>3. t \in [1..n -> QueueByte]
    BY <1>t, <2>2
  <2>4. QED
    BY <1>5, <2>3
<1>7. /\ line' \in Seq(QueueByte) /\ Len(line') = Len(line) + n
      /\ \A i \in 1..Len(line) : line'[i] = line[i]
      /\ \A i \in 1..n : line'[Len(line) + i] = t[i]
  <2>1. /\ line \o t \in Seq(QueueByte) /\ Len(line \o t) = Len(line) + Len(t)
        /\ \A i \in 1..Len(line) : (line \o t)[i] = line[i]
        /\ \A i \in 1..Len(t) : (line \o t)[Len(line) + i] = t[i]
    BY <1>1, <1>6, Joined
  <2>2. QED
    BY <1>4, <1>6, <2>1
<1>8. \A i \in 1..n : t[i] = <<to, m + i>>
  BY <1>t
<1>9. CASE cut = FrameSize
  <2>1. /\ replies' \in Seq(Reply) /\ Len(replies') = Len(replies) - 1
        /\ \A i \in 1..(Len(replies) - 1) : replies'[i] = replies[i + 1]
    BY <1>1, <1>4, <1>9, TailFacts
  <2>2. QED
    BY <1>2, <1>3, <1>n, <1>4, <1>5, <1>7, <1>8, <1>9, <2>1
<1>10. CASE cut # FrameSize
  <2>1. replies' = [replies EXCEPT ![1] = [r EXCEPT !.sent = cut]]
    BY <1>1, <1>2, <1>3, <1>4, <1>10
  <2>2. [r EXCEPT !.sent = cut] \in Reply
    BY <1>5, <1>10 DEF Reply, FrameSize
  <2>3. [r EXCEPT !.sent = cut].to = r.to /\ [r EXCEPT !.sent = cut].sent = cut
    BY <1>5 DEF Reply
  <2>4. /\ replies' \in Seq(Reply) /\ Len(replies') = Len(replies)
        /\ replies'[1] = [r EXCEPT !.sent = cut]
        /\ \A i \in 2..Len(replies) : replies'[i] = replies[i]
    BY <1>1, <1>2, <2>1, <2>2
  <2>5. QED
    BY <1>2, <1>3, <1>n, <1>4, <1>5, <1>7, <1>8, <1>10, <2>3, <2>4
<1>11. QED
  BY <1>9, <1>10

(* What a read takes, and what it leaves in the queue. *)
LEMMA ConsumeEffect ==
  ASSUME BatteryTypeOK, Consume
  PROVE  /\ Taken \in 0..16 /\ Taken <= Len(line)
         /\ line # <<>> => Taken >= 1
         /\ Len(line) <= 16 => Taken = Len(line)
         /\ Chunk \in Seq(QueueByte) /\ Len(Chunk) = Taken
         /\ \A i \in 1..Taken : Chunk[i] = line[i]
         /\ line' \in Seq(QueueByte) /\ Len(line') = Len(line) - Taken
         /\ \A i \in 1..(Len(line) - Taken) : line'[i] = line[Taken + i]
         /\ split' = (split \/ ~Whole(Chunk))
<1>1. line \in Seq(QueueByte) /\ Len(line) \in Nat
  BY QueueTypes
<1>a. line # <<>> => Len(line) >= 1
  BY <1>1
<1>n. PICK n, l : n = Taken /\ l = Len(line)
  OBVIOUS
<1>2. n \in 0..16 /\ n \in Nat /\ n <= l /\ (l >= 1 => n >= 1) /\ (l <= 16 => n = l)
  <2>1. n = (IF l < 16 THEN l ELSE 16) /\ l \in Nat
    BY <1>1, <1>n DEF Taken, BufferSize
  <2>2. QED
    BY <2>1
<1>3. /\ Chunk \in Seq(QueueByte) /\ Len(Chunk) = n
      /\ \A i \in 1..n : Chunk[i] = line[i]
  BY <1>1, <1>n, <1>2 DEF Chunk
<1>4. line' = SubSeq(line, n + 1, Len(line)) /\ split' = (split \/ ~Whole(Chunk))
  BY <1>n DEF Consume
<1>5. /\ line' \in Seq(QueueByte) /\ Len(line') = Len(line) - n
      /\ \A i \in 1..(Len(line) - n) : line'[i] = line[n + i]
  <2>1. /\ SubSeq(line, n + 1, Len(line)) \in Seq(QueueByte)
        /\ Len(SubSeq(line, n + 1, Len(line))) = Len(line) - n
        /\ \A i \in 1..(Len(line) - n) : SubSeq(line, n + 1, Len(line))[i] = line[n + i]
    BY <1>1, <1>n, <1>2, Rest
  <2>2. QED
    BY <1>4, <2>1
<1>6. QED
  BY <1>n, <1>a, <1>2, <1>3, <1>4, <1>5

(* The end of a request whose reply was read. *)
LEMMA ReadEffect ==
  ASSUME BatteryTypeOK, ReadReply
  PROVE  /\ waiting # None /\ waiting' = None /\ port = "open" /\ Consume
         /\ UNCHANGED <<instance, port, opens, asked, replies, crashed, late>>
         /\ Taken >= 2
  BY DEF ReadReply, EndRequest

LEMMA DataType ==
  ASSUME BatteryTypeOK, Consume, NEW length
  PROVE  DataOf(Chunk, length) \in 0..Len(asked)
<1>1. CASE Len(Chunk) >= 7
  <2>1. 4 \in 1..Taken /\ Chunk[4] = line[4] /\ 4 \in 1..Len(line)
    <3>1. Taken \in 0..16 /\ Taken <= Len(line) /\ Len(Chunk) = Taken /\ Len(line) \in Nat
      BY ConsumeEffect, QueueTypes
    <3>2. 4 \in 1..Taken /\ 4 \in 1..Len(line)
      BY <1>1, <3>1
    <3>3. QED
      BY <3>2, ConsumeEffect
  <2>2. Chunk[4][1] \in 1..Len(asked)
    BY <2>1, QueueTypes
  <2>3. Len(asked) \in Nat
    BY QueueTypes
  <2>4. QED
    BY <2>2, <2>3 DEF DataOf
<1>2. CASE ~(Len(Chunk) >= 7)
  BY <1>2, QueueTypes DEF DataOf
<1>3. QED
  BY <1>1, <1>2

-----------------------------------------------------------------------------
LEMMA BatteryTypeInit == BatteryInit => BatteryTypeOK
<1> SUFFICES ASSUME BatteryInit PROVE BatteryTypeOK
  OBVIOUS
<1>1. asked \in Seq(1..9) /\ Len(asked) = 0 /\ Len(asked) <= MaxAsked
  BY BoundsAssumption DEF BatteryInit
<1>2. replies \in Seq([to : Requests, sent : 0..FrameSize-1])
  BY DEF BatteryInit
<1>3. line \in Seq(Requests \X (1..FrameSize))
  BY DEF BatteryInit
<1>4. reading \in [Fields -> [asked : 0..MaxAsked, from : 0..MaxAsked]]
  BY BoundsAssumption DEF BatteryInit, Unread
<1>5. opens \in 0..MaxOpens
  BY BoundsAssumption DEF BatteryInit
<1>6. QED
  BY <1>1, <1>2, <1>3, <1>4, <1>5 DEF BatteryInit, BatteryTypeOK

(* A step that makes no request leaves the numbers of the requests alone. *)
LEMMA BatteryTypeKept ==
  ASSUME BatteryTypeOK, asked' = asked,
         instance' \in BOOLEAN, crashed' \in BOOLEAN,
         late' \in {"never", "late", "mended"}, split' \in BOOLEAN,
         port' \in {"unset", "failed", "open", "closed"}, opens' \in 0..MaxOpens,
         waiting' \in Fields \cup {"set", None}, waiting' # None => instance' /\ ~crashed',
         replies' \in Seq(Reply), line' \in Seq(QueueByte),
         reading' \in [Fields -> [asked : 0..MaxAsked, from : 0..MaxAsked]]
  PROVE  BatteryTypeOK'
  BY DEF BatteryTypeOK, Reply, QueueByte, Requests

LEMMA BatteryTypeAsk ==
  ASSUME BatteryTypeOK, NEW what \in Fields \cup {"set"}, NEW register \in 1..9,
         Ask(what, register)
  PROVE  BatteryTypeOK'
<1>1. /\ Len(asked') = Len(asked) + 1 /\ Len(asked') <= MaxAsked /\ asked' \in Seq(1..9)
      /\ waiting' = what /\ line' = line
      /\ replies' \in Seq([to : Requests', sent : 0..FrameSize-1])
  BY AskEffect
<1>2. QueueByte \subseteq Requests' \X (1..FrameSize)
  BY <1>1, QueueTypes DEF QueueByte, Requests
<1>3. line' \in Seq(Requests' \X (1..FrameSize))
  BY <1>1, <1>2, SeqSubset, QueueTypes
<1>4. instance /\ ~crashed
  BY DEF Ask, Ready
<1>5. UNCHANGED <<instance, port, opens, reading, crashed, late, split>>
  BY DEF Ask, history
<1>6. QED
  BY <1>1, <1>3, <1>4, <1>5 DEF BatteryTypeOK

LEMMA RegisterType == \A f \in Fields : RegisterOf[f] \in 1..9
  BY FieldsAssumption DEF RegisterOf

LEMMA BatteryTypeStep ==
  ASSUME BatteryTypeOK, [BatteryNext]_batteryVars
  PROVE  BatteryTypeOK'
<1>a. /\ instance \in BOOLEAN /\ crashed \in BOOLEAN
      /\ late \in {"never", "late", "mended"} /\ split \in BOOLEAN
      /\ port \in {"unset", "failed", "open", "closed"} /\ opens \in 0..MaxOpens
      /\ waiting \in Fields \cup {"set", None} /\ (waiting # None => instance /\ ~crashed)
      /\ replies \in Seq(Reply) /\ line \in Seq(QueueByte)
      /\ reading \in [Fields -> [asked : 0..MaxAsked, from : 0..MaxAsked]]
  BY QueueTypes DEF BatteryTypeOK
<1>b. late \in {"never", "late", "mended"} /\ Mend => late' \in {"never", "late", "mended"}
  BY DEF Mend
<1>1. CASE GetInstance
  <2>1. reading' \in [Fields -> [asked : 0..MaxAsked, from : 0..MaxAsked]]
    BY <1>1, BoundsAssumption DEF GetInstance, Unread
  <2>2. QED
    BY <1>a, <1>1, <2>1, BatteryTypeKept DEF GetInstance, device, history
<1>2. CASE DestroyInstance
  BY <1>a, <1>2, BatteryTypeKept DEF DestroyInstance, Ready, device, history
<1>3. CASE UartInit
  <2>1. opens' \in 0..MaxOpens
    BY <1>a, <1>3, BoundsAssumption DEF UartInit
  <2>2. QED
    BY <1>a, <1>3, <2>1, BatteryTypeKept DEF UartInit, Ready, device, history
<1>4. CASE UartClose
  <2>1. /\ UNCHANGED <<instance, opens, asked, waiting, replies, reading, crashed, split>>
        /\ port' = "closed"
    BY <1>4 DEF UartClose
  <2>2. CASE UNCHANGED <<line, late>>
    BY <1>a, <2>1, <2>2, BatteryTypeKept
  <2>3. CASE line' = <<>> /\ Mend
    <3>1. line' \in Seq(QueueByte)
      BY <2>3
    <3>2. QED
      BY <1>a, <1>b, <2>1, <2>3, <3>1, BatteryTypeKept
  <2>4. QED
    BY <1>4, <2>2, <2>3 DEF UartClose
<1>5. ASSUME NEW f \in Fields, AskFor(f) PROVE BatteryTypeOK'
  BY <1>5, RegisterType, BatteryTypeAsk DEF AskFor
<1>6. ASSUME NEW f \in Fields, AskToSet(RegisterOf[f]) PROVE BatteryTypeOK'
  BY <1>6, RegisterType, BatteryTypeAsk DEF AskToSet
<1>7. ASSUME NEW cut \in Cuts, Arrive(cut) PROVE BatteryTypeOK'
  <2>1. line' \in Seq(QueueByte) /\ replies' \in Seq(Reply)
    BY <1>7, ArriveEffect
  <2>2. UNCHANGED <<instance, port, opens, asked, waiting, reading, crashed, split>>
    BY <1>7 DEF Arrive
  <2>3. late' \in {"never", "late", "mended"}
    BY <1>a, <1>7 DEF Arrive
  <2>4. QED
    BY <1>a, <2>1, <2>2, <2>3, BatteryTypeKept
<1>8. CASE Lose
  <2>1. replies' \in Seq(Reply)
    BY <1>a, <1>8, TailFacts DEF Lose
  <2>2. UNCHANGED <<instance, port, opens, asked, waiting, line, reading, crashed, split>>
    BY <1>8 DEF Lose
  <2>3. late' \in {"never", "late", "mended"}
    BY <1>a, <1>b, <1>8 DEF Lose
  <2>4. QED
    BY <1>a, <2>1, <2>2, <2>3, BatteryTypeKept
<1>9. CASE TimeOut
  BY <1>a, <1>9, BatteryTypeKept DEF TimeOut, EndRequest, device, history
<1>c. Consume => line' \in Seq(QueueByte) /\ split' \in BOOLEAN
  BY <1>a, ConsumeEffect DEF Whole
<1>10. CASE RunAway
  <2>1. line' \in Seq(QueueByte) /\ split' \in BOOLEAN
    BY <1>a, <1>c, <1>10 DEF RunAway
  <2>2. /\ crashed' = TRUE /\ waiting' = None
        /\ UNCHANGED <<instance, port, opens, asked, replies, reading, late>>
    BY <1>10 DEF RunAway, EndRequest
  <2>3. QED
    BY <1>a, <2>1, <2>2, BatteryTypeKept
<1>11. CASE Refuse \/ AcknowledgeSet
  <2>1. ReadReply /\ reading' = reading
    BY <1>11 DEF Refuse, AcknowledgeSet
  <2>2. QED
    BY <1>a, <1>c, <2>1, ReadEffect, BatteryTypeKept
<1>12. CASE Store
  <2>1. ReadReply /\ waiting \in Fields
    BY <1>12 DEF Store
  <2>2. PICK length : reading' = [reading EXCEPT ![waiting] =
                        [asked |-> Len(asked), from |-> DataOf(Chunk, length)]]
    BY <1>12 DEF Store
  <2>3. DataOf(Chunk, length) \in 0..Len(asked)
    BY <2>1, ReadEffect, DataType
  <2>4. Len(asked) \in Nat /\ Len(asked) <= MaxAsked /\ MaxAsked \in Nat
    BY QueueTypes, BoundsAssumption DEF BatteryTypeOK
  <2>5. DataOf(Chunk, length) \in 0..MaxAsked /\ Len(asked) \in 0..MaxAsked
    BY <2>3, <2>4
  <2>6. reading' \in [Fields -> [asked : 0..MaxAsked, from : 0..MaxAsked]]
    BY <1>a, <2>2, <2>5
  <2>7. QED
    BY <1>a, <1>c, <2>1, <2>6, ReadEffect, BatteryTypeKept
<1>13. CASE UNCHANGED batteryVars
  BY <1>a, <1>13, BatteryTypeKept DEF batteryVars, device, history
<1>14. QED
  BY <1>1, <1>2, <1>3, <1>4, <1>5, <1>6, <1>7, <1>8, <1>9, <1>10, <1>11, <1>12, <1>13
  DEF BatteryNext, Answer

-----------------------------------------------------------------------------
(* The order of the replies: kept where the replies stay and nothing is    *)
(* added to the queue.                                                     *)
LEMMA OrderKept ==
  ASSUME BatteryTypeOK, OrderInv, replies' = replies,
         \A i \in 1..Len(line') : \E m \in 1..Len(line) : line'[i] = line[m],
         waiting' = None
  PROVE  OrderInv'
  BY DEF OrderInv

LEMMA OrderAsk ==
  ASSUME BatteryTypeOK, OrderInv, NEW what \in Fields \cup {"set"}, NEW register \in 1..9,
         Ask(what, register)
  PROVE  OrderInv'
<1>1. /\ Len(asked') = Len(asked) + 1 /\ line' = line /\ port' = port
      /\ Len(asked) \in Nat /\ Len(replies) \in Nat /\ Len(line) \in Nat
      /\ waiting' = what
      /\ \A i \in 1..Len(replies) : replies[i].to \in 1..Len(asked)
      /\ \A i \in 1..Len(line) : line[i][1] \in 1..Len(asked)
  BY AskEffect, QueueTypes
<1>2. CASE port = "open"
  <2>1. /\ Len(replies') = Len(replies) + 1
        /\ \A i \in 1..Len(replies) : replies'[i] = replies[i]
        /\ replies'[Len(replies) + 1].to = Len(asked')
    BY <1>2, AskEffect
  <2>2. \A i, k \in 1..Len(replies') : i < k => replies'[i].to < replies'[k].to
    <3>1. SUFFICES ASSUME NEW i \in 1..Len(replies'), NEW k \in 1..Len(replies'), i < k
                   PROVE  replies'[i].to < replies'[k].to
      OBVIOUS
    <3>2. i \in 1..Len(replies) /\ (k \in 1..Len(replies) \/ k = Len(replies) + 1)
      BY <1>1, <2>1, <3>1
    <3>3. CASE k \in 1..Len(replies)
      BY <2>1, <3>1, <3>2, <3>3 DEF OrderInv
    <3>4. CASE k = Len(replies) + 1
      <4>1. replies'[k].to = Len(asked) + 1 /\ replies'[i].to \in 1..Len(asked)
        BY <1>1, <2>1, <3>2, <3>4
      <4>2. QED
        BY <1>1, <4>1
    <3>5. QED
      BY <3>2, <3>3, <3>4
  <2>3. \A i \in 1..Len(line'), k \in 1..Len(replies') : line'[i][1] <= replies'[k].to
    <3>1. SUFFICES ASSUME NEW i \in 1..Len(line), NEW k \in 1..Len(replies')
                   PROVE  line[i][1] <= replies'[k].to
      BY <1>1
    <3>2. k \in 1..Len(replies) \/ k = Len(replies) + 1
      BY <1>1, <2>1
    <3>3. CASE k \in 1..Len(replies)
      BY <2>1, <3>3 DEF OrderInv
    <3>4. CASE k = Len(replies) + 1
      <4>1. replies'[k].to = Len(asked) + 1 /\ line[i][1] \in 1..Len(asked)
        BY <1>1, <2>1, <3>4
      <4>2. QED
        BY <1>1, <4>1
    <3>5. QED
      BY <3>2, <3>3, <3>4
  <2>4. QED
    BY <2>1, <2>2, <2>3 DEF OrderInv
<1>3. CASE port # "open"
  <2>1. replies' = replies
    BY <1>3, AskEffect
  <2>2. QED
    BY <1>1, <1>3, <2>1 DEF OrderInv
<1>4. QED
  BY <1>2, <1>3

LEMMA OrderArrive ==
  ASSUME BatteryTypeOK, OrderInv, NEW cut \in Cuts, Arrive(cut)
  PROVE  OrderInv'
<1>1. PICK n, d : n = cut - replies[1].sent /\ d = IF cut = FrameSize THEN 1 ELSE 0
  OBVIOUS
<1>2. /\ Len(replies) \in Nat /\ Len(line) \in Nat /\ Len(replies) >= 1 /\ n \in 1..9 /\ d \in {0, 1}
      /\ Len(line') = Len(line) + n
      /\ \A i \in 1..Len(line) : line'[i] = line[i]
      /\ \A i \in 1..n : line'[Len(line) + i][1] = replies[1].to
  <2>1. Len(replies) \in Nat /\ Len(line) \in Nat /\ Len(replies) >= 1 /\ d \in {0, 1}
    BY <1>1, QueueTypes, ArriveEffect
  <2>2. n \in 1..9
    <3>1. 1 \in 1..Len(replies)
      BY <2>1
    <3>2. replies[1].sent \in 0..8 /\ cut \in 1..9 /\ replies[1].sent < cut
      BY <3>1, QueueTypes, ArriveEffect
    <3>3. QED
      BY <1>1, <3>2
  <2>3. /\ Len(line') = Len(line) + n
        /\ \A i \in 1..Len(line) : line'[i] = line[i]
        /\ \A i \in 1..n : line'[Len(line) + i] = <<replies[1].to, replies[1].sent + i>>
    BY <1>1, ArriveEffect
  <2>4. ASSUME NEW i \in 1..n PROVE line'[Len(line) + i][1] = replies[1].to
    BY <2>3
  <2>5. QED
    BY <2>1, <2>2, <2>3, <2>4
<1>3. /\ Len(replies') = Len(replies) - d
      /\ \A i \in 1..(Len(replies) - d) : replies'[i].to = replies[i + d].to
  <2>1. CASE cut = FrameSize
    BY <1>1, <2>1, ArriveEffect
  <2>2. CASE cut # FrameSize
    <3>1. Len(replies') = Len(replies) /\ d = 0 /\ replies'[1].to = replies[1].to
          /\ \A i \in 2..Len(replies) : replies'[i] = replies[i]
      BY <1>1, <2>2, ArriveEffect
    <3>2. \A i \in 1..Len(replies) : i + d = i /\ (i = 1 \/ i \in 2..Len(replies))
      BY <1>2, <3>1
    <3>3. QED
      BY <1>2, <3>1, <3>2
  <2>3. QED
    BY <2>1, <2>2
<1>4. \A i \in 1..Len(replies') : i + d \in 1..Len(replies)
  BY <1>2, <1>3
<1>5. /\ \A i, k \in 1..Len(replies) : i < k => replies[i].to < replies[k].to
      /\ \A i \in 1..Len(line), k \in 1..Len(replies) : line[i][1] <= replies[k].to
      /\ \A i \in 1..Len(replies) : replies[i].to \in 1..Len(asked)
      /\ Len(asked) \in Nat
  BY QueueTypes DEF OrderInv
<1>6. \A i, k \in 1..Len(replies') : i < k => replies'[i].to < replies'[k].to
  <2>1. SUFFICES ASSUME NEW i \in 1..Len(replies'), NEW k \in 1..Len(replies'), i < k
                 PROVE  replies'[i].to < replies'[k].to
    OBVIOUS
  <2>2. replies'[i].to = replies[i + d].to /\ replies'[k].to = replies[k + d].to /\ i + d < k + d
    BY <1>2, <1>3, <2>1
  <2>3. QED
    BY <1>4, <1>5, <2>2
<1>7. \A i \in 1..Len(line'), k \in 1..Len(replies') : line'[i][1] <= replies'[k].to
  <2>1. SUFFICES ASSUME NEW i \in 1..Len(line'), NEW k \in 1..Len(replies')
                 PROVE  line'[i][1] <= replies'[k].to
    OBVIOUS
  <2>2. replies'[k].to = replies[k + d].to /\ k + d \in 1..Len(replies)
    BY <1>2, <1>3, <1>4
  <2>3. CASE i \in 1..Len(line)
    BY <1>2, <1>5, <2>2, <2>3
  <2>4. CASE i \notin 1..Len(line)
    <3>1. i - Len(line) \in 1..n /\ Len(line) + (i - Len(line)) = i
      BY <1>2, <2>4
    <3>2. line'[i][1] = replies[1].to
      BY <1>2, <3>1
    <3>3. 1 \in 1..Len(replies) /\ (k + d = 1 \/ 1 < k + d)
      BY <1>2, <2>2
    <3>4. replies[1].to <= replies[k + d].to
      BY <1>5, <2>2, <3>3
    <3>5. QED
      BY <2>2, <3>2, <3>4
  <2>5. QED
    BY <2>3, <2>4
<1>8. waiting # None /\ port = "open" /\ replies' # <<>> => replies'[Len(replies')].to = Len(asked)
  <2>1. SUFFICES ASSUME waiting # None, port = "open", replies' # <<>>
                 PROVE  replies'[Len(replies')].to = Len(asked)
    OBVIOUS
  <2>2. Len(replies') >= 1
    <3>1. replies' \in Seq(Reply)
      BY ArriveEffect
    <3>2. QED
      BY <2>1, <3>1
  <2>3. replies # <<>>
    BY <1>2
  <2>4. Len(replies') \in 1..Len(replies') /\ Len(replies') + d = Len(replies)
    BY <1>2, <1>3, <2>2
  <2>5. replies'[Len(replies')].to = replies[Len(replies)].to
    BY <1>3, <2>4
  <2>6. QED
    BY <2>1, <2>3, <2>5 DEF OrderInv
<1>9. asked' = asked /\ waiting' = waiting /\ port' = port
  BY DEF Arrive
<1>10. QED
  BY <1>6, <1>7, <1>8, <1>9 DEF OrderInv

LEMMA OrderLose ==
  ASSUME BatteryTypeOK, OrderInv, Lose
  PROVE  OrderInv'
<1>1. /\ replies \in Seq(Reply) /\ Len(replies) \in Nat /\ replies # <<>>
      /\ replies' = Tail(replies) /\ UNCHANGED <<asked, waiting, port, line>>
  BY QueueTypes DEF Lose
<1>2. /\ Len(replies) >= 1 /\ Len(replies') = Len(replies) - 1 /\ replies' \in Seq(Reply)
      /\ \A i \in 1..(Len(replies) - 1) : replies'[i] = replies[i + 1]
  BY <1>1, TailFacts
<1>3. \A i \in 1..Len(replies') : replies'[i] = replies[i + 1] /\ i + 1 \in 1..Len(replies)
  BY <1>1, <1>2
<1>4. replies' # <<>> => Len(replies') \in 1..Len(replies') /\ Len(replies') + 1 = Len(replies)
  BY <1>1, <1>2
<1>5. \A i, k \in 1..Len(replies') : i < k => replies'[i].to < replies'[k].to
  <2>1. \A i, k \in 1..Len(replies') : i < k => i + 1 < k + 1
    BY <1>1, <1>2
  <2>2. QED
    BY <1>3, <2>1 DEF OrderInv
<1>6. \A i \in 1..Len(line'), k \in 1..Len(replies') : line'[i][1] <= replies'[k].to
  BY <1>1, <1>3 DEF OrderInv
<1>7. waiting' # None /\ port' = "open" /\ replies' # <<>> =>
        replies'[Len(replies')].to = Len(asked')
  <2>1. replies' # <<>> => replies'[Len(replies')] = replies[Len(replies)]
    BY <1>3, <1>4
  <2>2. QED
    BY <1>1, <2>1 DEF OrderInv
<1>8. QED
  BY <1>5, <1>6, <1>7 DEF OrderInv

(* What a step does to the queue and the replies, and what it needs, when  *)
(* it neither asks nor lets a reply arrive or be lost: a step of a caller  *)
(* between requests, the end of a request, or none.                        *)
Between ==
  /\ UNCHANGED <<asked, replies, split>> /\ waiting = None /\ waiting' = None
  /\ (line' = line /\ late' = late) \/ (line' = <<>> /\ Mend)

LEMMA CallsBetween ==
  ASSUME BatteryTypeOK, GetInstance \/ DestroyInstance \/ UartInit \/ UartClose
  PROVE  Between
<1>1. waiting # None => instance
  BY DEF BatteryTypeOK
<1>2. CASE GetInstance
  BY <1>1, <1>2 DEF GetInstance, Between, device, history
<1>3. CASE DestroyInstance
  BY <1>3 DEF DestroyInstance, Ready, Between, device, history
<1>4. CASE UartInit
  BY <1>4 DEF UartInit, Ready, Between, device, history
<1>5. CASE UartClose
  <2>1. UNCHANGED <<asked, replies, split>> /\ waiting = None /\ waiting' = None
    BY <1>5 DEF UartClose, Ready
  <2>2. (line' = line /\ late' = late) \/ (line' = <<>> /\ Mend)
    BY <1>5 DEF UartClose
  <2>3. QED
    BY <2>1, <2>2 DEF Between
<1>6. QED
  BY <1>2, <1>3, <1>4, <1>5

LEMMA OrderStep ==
  ASSUME BatteryTypeOK, OrderInv, [BatteryNext]_batteryVars
  PROVE  OrderInv'
<1>1. CASE GetInstance \/ DestroyInstance \/ UartInit \/ UartClose
  <2>1. Between
    BY <1>1, CallsBetween
  <2>2. \A i \in 1..Len(line') : \E m \in 1..Len(line) : line'[i] = line[m]
    <3>1. CASE line' = line
      BY <3>1
    <3>2. CASE line' = <<>>
      BY <3>2
    <3>3. QED
      BY <2>1, <3>1, <3>2 DEF Between
  <2>3. QED
    BY <2>1, <2>2, OrderKept DEF Between
<1>2. ASSUME NEW f \in Fields, AskFor(f) \/ AskToSet(RegisterOf[f]) PROVE OrderInv'
  BY <1>2, RegisterType, OrderAsk DEF AskFor, AskToSet
<1>3. ASSUME NEW cut \in Cuts, Arrive(cut) PROVE OrderInv'
  BY <1>3, OrderArrive
<1>4. CASE Lose
  BY <1>4, OrderLose
<1>5. CASE Answer
  <2>1. waiting' = None /\ replies' = replies
    BY <1>5 DEF Answer, TimeOut, RunAway, Refuse, Store, AcknowledgeSet, ReadReply, EndRequest, device
  <2>2. line' = line \/ Consume
    BY <1>5 DEF Answer, TimeOut, RunAway, Refuse, Store, AcknowledgeSet, ReadReply, device
  <2>3. \A i \in 1..Len(line') : \E m \in 1..Len(line) : line'[i] = line[m]
    <3>1. CASE line' = line
      BY <3>1
    <3>2. CASE Consume
      <4>1. PICK n : n = Taken
        OBVIOUS
      <4>2. /\ n \in 0..16 /\ n <= Len(line) /\ Len(line') = Len(line) - n /\ Len(line) \in Nat
            /\ \A i \in 1..(Len(line) - n) : line'[i] = line[n + i]
        BY <3>2, <4>1, ConsumeEffect, QueueTypes
      <4>3. \A i \in 1..Len(line') : n + i \in 1..Len(line)
        BY <4>2
      <4>4. QED
        BY <4>2, <4>3
    <3>3. QED
      BY <2>2, <3>1, <3>2
  <2>4. QED
    BY <2>1, <2>3, OrderKept
<1>6. CASE UNCHANGED batteryVars
  BY <1>6 DEF OrderInv, batteryVars, device
<1>7. QED
  BY <1>1, <1>2, <1>3, <1>4, <1>5, <1>6 DEF BatteryNext

-----------------------------------------------------------------------------
LEMMA Exactly == \A n, k \in Int : n >= k /\ n <= k => n = k
  OBVIOUS

(* While all is in time, no more is in the queue than the reply to the     *)
(* request in progress.                                                    *)
LEMMA InTimeQueue ==
  ASSUME BatteryTypeOK, InTime, late = "never", ~split
  PROVE  /\ Len(line) \in 0..9
         /\ waiting = None \/ port # "open" => line = <<>>
         /\ line = <<>> => \A i \in 1..Len(replies) : replies[i].sent = 0
<1>1. /\ \A i \in 1..Len(line) : line[i] = <<Len(asked), i>>
      /\ line # <<>> => waiting # None /\ port = "open"
      /\ line = <<>> => \A i \in 1..Len(replies) : replies[i].sent = 0
  BY DEF InTime
<1>2. line \in Seq(QueueByte) /\ Len(line) \in Nat /\ \A i \in 1..Len(line) : line[i][2] \in 1..9
  BY QueueTypes
<1>3. Len(line) >= 1 => Len(line) \in 1..9
  <2>1. SUFFICES ASSUME Len(line) >= 1 PROVE Len(line) \in 1..9
    OBVIOUS
  <2>2. Len(line) \in 1..Len(line)
    BY <1>2, <2>1
  <2>3. line[Len(line)][2] = Len(line)
    BY <1>1, <2>2
  <2>4. QED
    BY <1>2, <2>2, <2>3
<1>4. QED
  BY <1>1, <1>2, <1>3

(* A read that returned one whole reply took nine bytes, all of the same   *)
(* request.                                                                *)
LEMMA WholeRead ==
  ASSUME BatteryTypeOK, Consume, ~split'
  PROVE  /\ ~split /\ Taken = 9 /\ Len(Chunk) = 9 /\ Len(line) >= 9
         /\ \A i \in 1..9 : Chunk[i] = line[i] /\ Chunk[i] = <<line[1][1], i>>
         /\ line[1][1] \in 1..Len(asked)
<1>1. ~split /\ Whole(Chunk) /\ Len(Chunk) = Taken /\ Taken <= Len(line)
  BY ConsumeEffect
<1>2. Len(Chunk) = 9 /\ \A i \in 1..9 : Chunk[i] = <<Chunk[1][1], i>>
  BY <1>1 DEF Whole, FrameSize
<1>3. \A i \in 1..9 : Chunk[i] = line[i]
  BY <1>1, <1>2, ConsumeEffect
<1>4. Chunk[1] = line[1]
  BY <1>3
<1>5. Len(line) >= 9 /\ 1 \in 1..Len(line)
  BY <1>1, <1>2, QueueTypes
<1>6. line[1][1] \in 1..Len(asked)
  BY <1>5, QueueTypes
<1>7. QED
  BY <1>1, <1>2, <1>3, <1>4, <1>5, <1>6

LEMMA InTimeAsk ==
  ASSUME BatteryTypeOK, InTime, NEW what \in Fields \cup {"set"}, NEW register \in 1..9,
         Ask(what, register)
  PROVE  InTime'
<1>1. SUFFICES ASSUME late' = "never", ~split' PROVE InTime'
  BY DEF InTime
<1>2. late = "never" /\ ~split
  BY <1>1 DEF Ask, history
<1>3. /\ Len(asked') = Len(asked) + 1 /\ line' = line /\ port' = port /\ waiting = None
      /\ Len(asked) \in Nat /\ Len(replies) \in Nat
  BY AskEffect, QueueTypes
<1>4. line = <<>> /\ \A i \in 1..Len(replies) : replies[i].sent = 0
  BY <1>2, <1>3, InTimeQueue
<1>5. \A i \in 1..Len(replies') : replies'[i].sent = 0
  <2>1. CASE port = "open"
    <3>1. /\ Len(replies') = Len(replies) + 1
          /\ \A i \in 1..Len(replies) : replies'[i] = replies[i]
          /\ replies'[Len(replies) + 1].sent = 0
      BY <2>1, AskEffect
    <3>2. \A i \in 1..Len(replies') : i \in 1..Len(replies) \/ i = Len(replies) + 1
      BY <1>3, <3>1
    <3>3. QED
      BY <1>4, <3>1, <3>2
  <2>2. CASE port # "open"
    BY <1>4, <2>2, AskEffect
  <2>3. QED
    BY <2>1, <2>2
<1>6. port # "open" => \A i \in 1..Len(replies') : replies'[i].to < Len(asked')
  <2>1. \A i \in 1..Len(replies) : replies[i].to \in 1..Len(asked)
    BY QueueTypes
  <2>2. \A i \in 1..Len(replies) : replies[i].to < Len(asked) + 1
    BY <1>3, <2>1
  <2>3. QED
    BY <1>3, <2>2, AskEffect
<1>7. line' = <<>>
  BY <1>3, <1>4
<1>8. QED
  BY <1>3, <1>5, <1>6, <1>7 DEF InTime

LEMMA InTimeArrive ==
  ASSUME BatteryTypeOK, OrderInv, InTime, NEW cut \in Cuts, Arrive(cut)
  PROVE  InTime'
<1>1. SUFFICES ASSUME late' = "never", ~split' PROVE InTime'
  BY DEF InTime
<1>2. /\ UNCHANGED <<asked, waiting, port, split>>
      /\ late' = IF waiting = None \/ Head(replies).to # Len(asked) THEN "late" ELSE late
      /\ replies # <<>> /\ replies \in Seq(Reply)
  BY QueueTypes DEF Arrive
<1>3. late = "never" /\ ~split /\ waiting # None /\ replies[1].to = Len(asked)
  BY <1>1, <1>2, TailFacts
<1>4. /\ Len(replies) \in Nat /\ Len(replies) >= 1 /\ 1 \in 1..Len(replies) /\ Len(asked) \in Nat
      /\ \A i \in 1..Len(replies) : replies[i].to \in 1..Len(asked)
      /\ replies[1].sent < cut /\ cut \in 1..9 /\ replies[1].sent \in 0..8
      /\ Len(line) \in Nat
  BY QueueTypes, ArriveEffect
<1>5. port = "open"
  <2>1. waiting # None /\ port # "open" => \A i \in 1..Len(replies) : replies[i].to < Len(asked)
    BY <1>3 DEF InTime
  <2>2. QED
    BY <1>3, <1>4, <2>1
<1>6. Len(replies) = 1
  <2>1. ASSUME Len(replies) >= 2 PROVE FALSE
    <3>1. 2 \in 1..Len(replies) /\ 1 < 2
      BY <1>4, <2>1
    <3>2. replies[1].to < replies[2].to
      BY <1>4, <3>1 DEF OrderInv
    <3>3. QED
      BY <1>3, <1>4, <3>1, <3>2
  <2>2. Len(replies) \in Int /\ 1 \in Int /\ Len(replies) >= 1
    BY <1>4
  <2>3. Len(replies) <= 1
    BY <2>1, <2>2
  <2>4. QED
    BY <2>2, <2>3, Exactly
<1>7. Len(line) = replies[1].sent /\ \A i \in 1..Len(line) : line[i] = <<Len(asked), i>>
  <2>1. /\ \A i \in 1..Len(line) : line[i] = <<Len(asked), i>>
        /\ \/ line # <<>> /\ Len(line) = FrameSize /\ replies = <<>>
           \/ line # <<>> /\ Len(replies) = 1 /\ replies[1].to = Len(asked)
              /\ replies[1].sent = Len(line)
           \/ line = <<>> /\ \A i \in 1..Len(replies) : replies[i].sent = 0
    BY <1>3 DEF InTime
  <2>2. line = <<>> => Len(line) = 0
    OBVIOUS
  <2>3. QED
    BY <1>2, <1>4, <2>1, <2>2
<1>8. PICK m, n : m = replies[1].sent /\ n = cut - m
  OBVIOUS
<1>9. /\ m \in 0..8 /\ n \in 1..9 /\ m + n = cut /\ Len(line) = m
      /\ Len(line') = cut
      /\ \A i \in 1..m : line'[i] = <<Len(asked), i>>
      /\ \A i \in 1..n : line'[m + i] = <<Len(asked), m + i>>
  <2>1. m \in 0..8 /\ n \in 1..9 /\ m + n = cut /\ Len(line) = m
    <3>1. m \in 0..8 /\ m < cut /\ cut \in 1..9 /\ Len(line) = m /\ n = cut - m
      BY <1>4, <1>7, <1>8
    <3>2. QED
      BY <3>1
  <2>2. /\ Len(line') = m + n
        /\ \A i \in 1..m : line'[i] = line[i]
        /\ \A i \in 1..n : line'[m + i] = <<Len(asked), m + i>>
    BY <1>3, <1>8, <2>1, ArriveEffect
  <2>3. QED
    BY <1>7, <2>1, <2>2
<1>10. \A i \in 1..Len(line') : line'[i] = <<Len(asked), i>>
  <2>1. SUFFICES ASSUME NEW i \in 1..Len(line') PROVE line'[i] = <<Len(asked), i>>
    OBVIOUS
  <2>2. CASE i \in 1..m
    BY <1>9, <2>2
  <2>3. CASE i \notin 1..m
    <3>1. i - m \in 1..n /\ m + (i - m) = i
      BY <1>4, <1>9, <2>3
    <3>2. QED
      BY <1>9, <3>1
  <2>4. QED
    BY <2>2, <2>3
<1>11. line' # <<>> /\ Len(line') = cut
  <2>1. line' = <<>> => Len(line') = 0
    OBVIOUS
  <2>2. QED
    BY <1>4, <1>9, <2>1
<1>12. CASE cut = FrameSize
  <2>1. replies' \in Seq(Reply) /\ Len(replies') = 0
    BY <1>6, <1>12, ArriveEffect
  <2>2. replies' = <<>>
    BY <2>1
  <2>3. QED
    BY <1>2, <1>3, <1>5, <1>10, <1>11, <1>12, <2>2 DEF InTime
<1>13. CASE cut # FrameSize
  <2>1. Len(replies') = 1 /\ replies'[1].to = Len(asked) /\ replies'[1].sent = cut
    BY <1>3, <1>6, <1>13, ArriveEffect
  <2>2. QED
    BY <1>2, <1>3, <1>5, <1>10, <1>11, <2>1 DEF InTime
<1>14. QED
  BY <1>12, <1>13

LEMMA InTimeLose ==
  ASSUME BatteryTypeOK, InTime, Lose
  PROVE  InTime'
<1>1. SUFFICES ASSUME late' = "never", ~split' PROVE InTime'
  BY DEF InTime
<1>2. /\ UNCHANGED <<asked, waiting, port, line, split>> /\ replies # <<>>
      /\ replies' = Tail(replies) /\ Head(replies).sent = 0
      /\ replies \in Seq(Reply) /\ Len(replies) \in Nat
  BY QueueTypes DEF Lose
<1>3. late = "never" /\ ~split
  BY <1>1, <1>2 DEF Lose, Mend
<1>4. /\ Len(replies) >= 1 /\ Len(replies') = Len(replies) - 1 /\ replies[1].sent = 0
      /\ \A i \in 1..(Len(replies) - 1) : replies'[i] = replies[i + 1]
  BY <1>2, TailFacts
<1>5. \A i \in 1..Len(replies') : replies'[i] = replies[i + 1] /\ i + 1 \in 1..Len(replies)
  BY <1>2, <1>4
<1>6. line = <<>>
  <2>1. line # <<>> => replies = <<>> \/ replies[1].sent = Len(line)
    BY <1>3 DEF InTime
  <2>2. line # <<>> => Len(line) # 0
    BY QueueTypes
  <2>3. QED
    BY <1>2, <1>4, <2>1, <2>2
<1>7. \A i \in 1..Len(replies') : replies'[i].sent = 0
  BY <1>3, <1>5, <1>6, InTimeQueue
<1>8. waiting' # None /\ port' # "open" => \A i \in 1..Len(replies') : replies'[i].to < Len(asked')
  BY <1>2, <1>3, <1>5 DEF InTime
<1>9. line' = <<>>
  BY <1>2, <1>6
<1>10. QED
  BY <1>7, <1>8, <1>9 DEF InTime

(* A request ends: the reply was read whole, or there was none. *)
LEMMA InTimeAnswer ==
  ASSUME BatteryTypeOK, InTime, Answer
  PROVE  InTime'
<1>1. SUFFICES ASSUME late' = "never", ~split' PROVE InTime'
  BY DEF InTime
<1>2. /\ waiting' = None /\ replies' = replies /\ late' = late /\ asked' = asked
      /\ port' = port
  BY DEF Answer, TimeOut, RunAway, Refuse, Store, AcknowledgeSet, ReadReply, EndRequest,
         device, history
<1>3. ~split
  <2>1. split' = split \/ Consume
    BY DEF Answer, TimeOut, RunAway, Refuse, Store, AcknowledgeSet, ReadReply, history
  <2>2. QED
    BY <1>1, <2>1, ConsumeEffect
<1>4. late = "never"
  BY <1>1, <1>2
<1>5. line' = <<>> /\ \A i \in 1..Len(replies) : replies[i].sent = 0
  <2>1. CASE TimeOut
    BY <1>3, <1>4, <2>1, InTimeQueue DEF TimeOut, device
  <2>2. CASE RunAway
    <3>1. port # "open"
      <4>1. Taken = 1 /\ Consume => split'
        BY WholeRead
      <4>2. QED
        BY <1>1, <2>2, <4>1 DEF RunAway
    <3>2. line' = line
      BY <2>2, <3>1 DEF RunAway
    <3>3. QED
      BY <1>3, <1>4, <3>1, <3>2, InTimeQueue
  <2>3. CASE Refuse \/ Store \/ AcknowledgeSet
    <3>1. Consume
      BY <2>3 DEF Refuse, Store, AcknowledgeSet, ReadReply
    <3>2. Taken = 9 /\ Len(line) = 9
      <4>1. Taken = 9 /\ Len(line) >= 9
        BY <1>1, <3>1, WholeRead
      <4>2. Len(line) \in 0..9
        BY <1>3, <1>4, InTimeQueue
      <4>3. \A n \in 0..9 : n >= 9 => n = 9
        OBVIOUS
      <4>4. QED
        BY <4>1, <4>2, <4>3
    <3>3. line' = <<>>
      <4>1. line' \in Seq(QueueByte) /\ Len(line') = 0
        BY <3>1, <3>2, ConsumeEffect
      <4>2. QED
        BY <4>1
    <3>4. replies = <<>>
      <4>1. line # <<>>
        BY <3>2
      <4>2. replies = <<>> \/ (Len(replies) = 1 /\ replies[1].sent = Len(line))
        BY <1>3, <1>4, <4>1 DEF InTime
      <4>3. Len(replies) = 1 => replies[1].sent \in 0..8
        BY QueueTypes
      <4>4. QED
        BY <3>2, <4>2, <4>3
    <3>5. QED
      BY <3>3, <3>4
  <2>4. QED
    BY <2>1, <2>2, <2>3 DEF Answer
<1>6. QED
  BY <1>2, <1>5 DEF InTime

LEMMA InTimeStep ==
  ASSUME BatteryTypeOK, OrderInv, InTime, [BatteryNext]_batteryVars
  PROVE  InTime'
<1>1. CASE GetInstance \/ DestroyInstance \/ UartInit \/ UartClose
  <2>1. SUFFICES ASSUME late' = "never", ~split' PROVE InTime'
    BY DEF InTime
  <2>2. Between
    BY <1>1, CallsBetween
  <2>3. late = "never" /\ ~split
    BY <2>1, <2>2 DEF Between, Mend
  <2>4. line = <<>> /\ \A i \in 1..Len(replies) : replies[i].sent = 0
    BY <2>2, <2>3, InTimeQueue DEF Between
  <2>5. line' = <<>> /\ replies' = replies /\ waiting' = None
    BY <2>2, <2>4 DEF Between
  <2>6. QED
    BY <2>4, <2>5 DEF InTime
<1>2. ASSUME NEW f \in Fields, AskFor(f) \/ AskToSet(RegisterOf[f]) PROVE InTime'
  BY <1>2, RegisterType, InTimeAsk DEF AskFor, AskToSet
<1>3. ASSUME NEW cut \in Cuts, Arrive(cut) PROVE InTime'
  BY <1>3, InTimeArrive
<1>4. CASE Lose
  BY <1>4, InTimeLose
<1>5. CASE Answer
  BY <1>5, InTimeAnswer
<1>6. CASE UNCHANGED batteryVars
  BY <1>6 DEF InTime, batteryVars, device, history
<1>7. QED
  BY <1>1, <1>2, <1>3, <1>4, <1>5, <1>6 DEF BatteryNext

-----------------------------------------------------------------------------
LEMMA OldestType ==
  ASSUME BatteryTypeOK, line # <<>> \/ replies # <<>>
  PROVE  Oldest \in 1..Len(asked)
<1>1. /\ line \in Seq(QueueByte) /\ replies \in Seq(Reply)
      /\ \A i \in 1..Len(replies) : replies[i].to \in 1..Len(asked)
      /\ \A i \in 1..Len(line) : line[i][1] \in 1..Len(asked)
  BY QueueTypes
<1>2. line # <<>> => 1 \in 1..Len(line)
  BY <1>1
<1>3. replies # <<>> => 1 \in 1..Len(replies)
  BY <1>1
<1>4. QED
  BY <1>1, <1>2, <1>3 DEF Oldest

LEMMA BehindAsk ==
  ASSUME BatteryTypeOK, StaysBehind, NEW what \in Fields \cup {"set"}, NEW register \in 1..9,
         Ask(what, register)
  PROVE  StaysBehind'
<1>1. SUFFICES ASSUME late' = "late", ~split' PROVE StaysBehind'
  BY DEF StaysBehind
<1>2. late = "late" /\ ~split
  BY <1>1 DEF Ask, history
<1>3. line # <<>> \/ replies # <<>>
  BY <1>2 DEF StaysBehind
<1>4. /\ line' = line /\ port' = port /\ Len(asked') = Len(asked) + 1 /\ Len(asked) \in Nat
      /\ replies \in Seq(Reply) /\ Len(replies) \in Nat
  BY AskEffect, QueueTypes
<1>5. replies # <<>> => Len(replies) >= 1
  BY <1>4
<1>6. /\ port = "open" => replies' # <<>>
      /\ replies # <<>> => replies' # <<>> /\ replies'[1] = replies[1]
  <2>1. CASE port = "open"
    <3>1. /\ Len(replies') = Len(replies) + 1
          /\ \A i \in 1..Len(replies) : replies'[i] = replies[i]
      BY <2>1, AskEffect
    <3>2. Len(replies') # 0
      BY <1>4, <3>1
    <3>3. replies' # <<>>
      BY <3>2
    <3>4. replies # <<>> => 1 \in 1..Len(replies)
      BY <1>4, <1>5
    <3>5. QED
      BY <3>1, <3>3, <3>4
  <2>2. CASE port # "open"
    BY <2>2, AskEffect
  <2>3. QED
    BY <2>1, <2>2
<1>7. Oldest' = Oldest /\ (line' # <<>> \/ replies' # <<>>)
  BY <1>3, <1>4, <1>6 DEF Oldest
<1>8. Oldest' < Len(asked')
  <2>1. Oldest \in 1..Len(asked)
    BY <1>3, OldestType
  <2>2. Oldest < Len(asked) + 1
    BY <1>4, <2>1
  <2>3. QED
    BY <1>4, <1>7, <2>2
<1>9. QED
  BY <1>4, <1>6, <1>7, <1>8 DEF StaysBehind

LEMMA BehindArrive ==
  ASSUME BatteryTypeOK, OrderInv, StaysBehind, NEW cut \in Cuts, Arrive(cut)
  PROVE  StaysBehind'
<1>1. SUFFICES ASSUME late' = "late", ~split' PROVE StaysBehind'
  BY DEF StaysBehind
<1>2. /\ UNCHANGED <<asked, waiting, port, split>>
      /\ late' = IF waiting = None \/ Head(replies).to # Len(asked) THEN "late" ELSE late
      /\ replies # <<>> /\ replies \in Seq(Reply)
  BY QueueTypes DEF Arrive
<1>3. /\ Len(replies) \in Nat /\ Len(replies) >= 1 /\ 1 \in 1..Len(replies) /\ Len(asked) \in Nat
      /\ replies[1].to \in 1..Len(asked) /\ Len(line) \in Nat /\ line \in Seq(QueueByte)
  BY QueueTypes, ArriveEffect
<1>n. PICK n : n = cut - replies[1].sent
  OBVIOUS
<1>4. /\ n \in 1..9 /\ Len(line') = Len(line) + n
      /\ \A i \in 1..Len(line) : line'[i] = line[i]
      /\ \A i \in 1..n : line'[Len(line) + i][1] = replies[1].to
  <2>1. replies[1].sent \in 0..8 /\ cut \in 1..9 /\ replies[1].sent < cut
    BY <1>3, QueueTypes, ArriveEffect
  <2>2. n \in 1..9
    BY <1>n, <2>1
  <2>3. /\ Len(line') = Len(line) + n
        /\ \A i \in 1..Len(line) : line'[i] = line[i]
        /\ \A i \in 1..n : line'[Len(line) + i] = <<replies[1].to, replies[1].sent + i>>
    BY <1>n, ArriveEffect
  <2>4. ASSUME NEW i \in 1..n PROVE line'[Len(line) + i][1] = replies[1].to
    BY <2>3
  <2>5. QED
    BY <2>2, <2>3, <2>4
<1>5. line' # <<>>
  <2>1. Len(line') # 0
    BY <1>3, <1>4
  <2>2. QED
    BY <2>1
<1>6. Oldest' = Oldest
  <2>1. CASE line = <<>>
    <3>1. Len(line) = 0 /\ 1 \in 1..n
      BY <1>4, <2>1
    <3>2. line'[1][1] = replies[1].to
      BY <1>4, <3>1
    <3>3. QED
      BY <1>5, <2>1, <3>2 DEF Oldest
  <2>2. CASE line # <<>>
    <3>1. 1 \in 1..Len(line)
      BY <1>3, <2>2
    <3>2. line'[1] = line[1]
      BY <1>4, <3>1
    <3>3. QED
      BY <1>5, <2>2, <3>2 DEF Oldest
  <2>3. QED
    BY <2>1, <2>2
<1>7. Oldest <= replies[1].to
  <2>1. line # <<>> => 1 \in 1..Len(line)
    BY <1>3
  <2>2. QED
    BY <1>3, <2>1 DEF Oldest, OrderInv
<1>8. waiting # None => Oldest < Len(asked)
  <2>1. CASE late = "late"
    BY <1>1, <1>2, <2>1 DEF StaysBehind
  <2>2. CASE late # "late"
    <3>1. waiting # None => replies[1].to # Len(asked)
      BY <1>1, <1>2, <2>2, TailFacts
    <3>2. Oldest \in 1..Len(asked)
      BY <1>2, OldestType
    <3>3. waiting # None => replies[1].to < Len(asked)
      BY <1>3, <3>1
    <3>4. QED
      BY <1>3, <1>7, <3>2, <3>3
  <2>3. QED
    BY <2>1, <2>2
<1>9. waiting # None /\ port = "open" /\ replies' = <<>> => line'[Len(line')][1] = Len(asked)
  <2>1. SUFFICES ASSUME waiting # None, port = "open", replies' = <<>>
                 PROVE  line'[Len(line')][1] = Len(asked)
    OBVIOUS
  <2>2. Len(replies') = 0
    BY <2>1
  <2>3. Len(replies) = 1
    <3>1. Len(replies') = Len(replies) \/ Len(replies') = Len(replies) - 1
      BY ArriveEffect
    <3>2. QED
      BY <1>3, <2>2, <3>1
  <2>4. replies[1].to = Len(asked)
    BY <1>2, <2>1, <2>3 DEF OrderInv
  <2>5. n \in 1..n /\ Len(line') = Len(line) + n
    BY <1>4
  <2>6. QED
    BY <1>4, <2>4, <2>5
<1>10. QED
  BY <1>2, <1>5, <1>6, <1>8, <1>9 DEF StaysBehind

(* A request ends: what was read was an earlier reply, or there was none.  *)
LEMMA BehindAnswer ==
  ASSUME BatteryTypeOK, StaysBehind, Answer
  PROVE  StaysBehind'
<1>1. SUFFICES ASSUME late' = "late", ~split' PROVE StaysBehind'
  BY DEF StaysBehind
<1>2. waiting' = None /\ replies' = replies /\ late' = late
  BY DEF Answer, TimeOut, RunAway, Refuse, Store, AcknowledgeSet, ReadReply, EndRequest,
         device, history
<1>3. ~split
  <2>1. split' = split \/ Consume
    BY DEF Answer, TimeOut, RunAway, Refuse, Store, AcknowledgeSet, ReadReply, history
  <2>2. QED
    BY <1>1, <2>1, ConsumeEffect
<1>4. /\ line # <<>> \/ replies # <<>>
      /\ waiting # None => Oldest < Len(asked)
      /\ waiting # None /\ port = "open" /\ replies = <<>> => line[Len(line)][1] = Len(asked)
  BY <1>1, <1>2, <1>3 DEF StaysBehind
<1>5. line' # <<>> \/ replies' # <<>>
  <2>1. CASE line' = line
    BY <1>2, <1>4, <2>1
  <2>2. CASE line' # line
    <3>1. Consume /\ waiting # None /\ port = "open"
      BY <2>2 DEF Answer, TimeOut, RunAway, Refuse, Store, AcknowledgeSet, ReadReply, device
    <3>2. /\ Taken = 9 /\ Len(line) >= 9 /\ Len(line') = Len(line) - 9 /\ Len(line) \in Nat
          /\ \A i \in 1..9 : line[i] = <<line[1][1], i>>
          /\ line[1][1] \in 1..Len(asked)
      <4>1. /\ Taken = 9 /\ Len(line) >= 9
            /\ \A i \in 1..9 : Chunk[i] = line[i] /\ Chunk[i] = <<line[1][1], i>>
            /\ line[1][1] \in 1..Len(asked)
        BY <1>1, <3>1, WholeRead
      <4>2. Len(line') = Len(line) - Taken /\ Len(line) \in Nat
        BY <3>1, ConsumeEffect, QueueTypes
      <4>3. QED
        BY <4>1, <4>2
    <3>3. line # <<>>
      BY <3>2
    <3>4. ASSUME replies = <<>>, Len(line) = 9 PROVE FALSE
      <4>1. line[9] = <<line[1][1], 9>>
        BY <3>2
      <4>2. line[9][1] = line[1][1] /\ line[9][1] = Len(asked)
        BY <1>4, <3>1, <3>4, <4>1
      <4>3. line[1][1] < Len(asked)
        BY <1>4, <3>1, <3>3 DEF Oldest
      <4>4. QED
        BY <3>2, <4>2, <4>3, QueueTypes
    <3>5. replies = <<>> => Len(line') # 0
      BY <3>2, <3>4
    <3>6. Len(line') # 0 => line' # <<>>
      OBVIOUS
    <3>7. QED
      BY <1>2, <3>5, <3>6
  <2>3. QED
    BY <2>1, <2>2
<1>6. QED
  BY <1>2, <1>5 DEF StaysBehind

LEMMA BehindStep ==
  ASSUME BatteryTypeOK, OrderInv, StaysBehind, [BatteryNext]_batteryVars
  PROVE  StaysBehind'
<1>1. CASE GetInstance \/ DestroyInstance \/ UartInit \/ UartClose
  <2>1. SUFFICES ASSUME late' = "late", ~split' PROVE StaysBehind'
    BY DEF StaysBehind
  <2>2. Between
    BY <1>1, CallsBetween
  <2>3. Mend => late' # "late"
    BY DEF Mend
  <2>4. line' = line /\ late = "late" /\ ~split /\ replies' = replies /\ waiting' = None
    BY <2>1, <2>2, <2>3 DEF Between
  <2>5. QED
    BY <2>4 DEF StaysBehind
<1>2. ASSUME NEW f \in Fields, AskFor(f) \/ AskToSet(RegisterOf[f]) PROVE StaysBehind'
  BY <1>2, RegisterType, BehindAsk DEF AskFor, AskToSet
<1>3. ASSUME NEW cut \in Cuts, Arrive(cut) PROVE StaysBehind'
  BY <1>3, BehindArrive
<1>4. CASE Lose
  <2>1. late' # "late"
    BY <1>4 DEF Lose, Mend
  <2>2. QED
    BY <2>1 DEF StaysBehind
<1>5. CASE Answer
  BY <1>5, BehindAnswer
<1>6. CASE UNCHANGED batteryVars
  BY <1>6 DEF StaysBehind, Oldest, batteryVars, device, history
<1>7. QED
  BY <1>1, <1>2, <1>3, <1>4, <1>5, <1>6 DEF BatteryNext

-----------------------------------------------------------------------------
(* What a getter stores from one whole reply: what that reply answers, or  *)
(* nothing that was asked for.                                             *)
LEMMA DataOfWhole ==
  ASSUME BatteryTypeOK, Consume, ~split', NEW length
  PROVE  DataOf(Chunk, length) \in {0, line[1][1]}
<1>1. \A i \in 1..9 : Chunk[i] = <<line[1][1], i>>
  BY WholeRead
<1>2. Chunk[4][1] = line[1][1]
  BY <1>1
<1>3. QED
  BY <1>2 DEF DataOf

LEMMA DataOfOwn ==
  ASSUME BatteryTypeOK, Consume, ~split', NEW length \in LengthsOf(Chunk)
  PROVE  DataOf(Chunk, length) = line[1][1]
<1>1. PICK r : r = line[1][1]
  OBVIOUS
<1>2. Len(Chunk) = 9 /\ \A i \in 1..9 : Chunk[i] = <<r, i>>
  BY <1>1, WholeRead
<1>3. Chunk[3][2] = 3 /\ Chunk[4][1] = r /\ ~(Len(Chunk) < 3)
  BY <1>2
<1>4. length = 4
  <2>1. LengthsOf(Chunk) = {4}
    BY <1>3 DEF LengthsOf, FrameSize
  <2>2. QED
    BY <2>1
<1>5. \A i \in 4..7 : Chunk[i] = <<Chunk[4][1], i>>
  BY <1>2, <1>3
<1>6. QED
  BY <1>1, <1>2, <1>3, <1>4, <1>5 DEF DataOf

LEMMA OwnStep ==
  ASSUME BatteryTypeOK, InTime, OwnUnlessDisturbed, [BatteryNext]_batteryVars
  PROVE  OwnUnlessDisturbed'
<1>1. SUFFICES ASSUME late' = "never", ~split'
               PROVE  /\ \A f \in Fields : reading'[f].from = reading'[f].asked
                      /\ crashed' => port' # "open"
  BY DEF OwnUnlessDisturbed
<1>t. late \in {"never", "late", "mended"} /\ (waiting # None => ~crashed)
      /\ reading \in [Fields -> [asked : 0..MaxAsked, from : 0..MaxAsked]]
  BY DEF BatteryTypeOK
<1>b. CASE GetInstance \/ DestroyInstance \/ UartInit \/ UartClose
  <2>1. Between
    BY <1>b, CallsBetween
  <2>2. late = "never" /\ ~split
    BY <1>1, <2>1 DEF Between, Mend
  <2>3. \A f \in Fields : reading[f].from = reading[f].asked
    BY <2>2 DEF OwnUnlessDisturbed
  <2>4. reading' = Unread \/ reading' = reading
    BY <1>b DEF GetInstance, DestroyInstance, UartInit, UartClose
  <2>5. \A f \in Fields : reading'[f].from = reading'[f].asked
    BY <2>3, <2>4 DEF Unread
  <2>6. ~crashed'
    BY <1>b DEF GetInstance, DestroyInstance, UartInit, UartClose, Ready
  <2>7. QED
    BY <2>5, <2>6
<1>2. ASSUME NEW f \in Fields, AskFor(f) \/ AskToSet(RegisterOf[f])
      PROVE  /\ \A g \in Fields : reading'[g].from = reading'[g].asked
             /\ crashed' => port' # "open"
  <2>1. reading' = reading /\ late' = late /\ split' = split /\ ~crashed'
    BY <1>2 DEF AskFor, AskToSet, Ask, Ready, history
  <2>2. QED
    BY <1>1, <2>1 DEF OwnUnlessDisturbed
<1>3. ASSUME NEW cut \in Cuts, Arrive(cut)
      PROVE  /\ \A g \in Fields : reading'[g].from = reading'[g].asked
             /\ crashed' => port' # "open"
  <2>1. reading' = reading /\ split' = split /\ crashed' = crashed /\ port' = port
        /\ (late' = "late" \/ late' = late)
    BY <1>3 DEF Arrive
  <2>2. QED
    BY <1>1, <2>1 DEF OwnUnlessDisturbed
<1>4. CASE Lose
  <2>1. reading' = reading /\ split' = split /\ crashed' = crashed /\ port' = port /\ late = "never"
    BY <1>1, <1>4 DEF Lose, Mend
  <2>2. QED
    BY <1>1, <2>1 DEF OwnUnlessDisturbed
<1>5. CASE Answer
  <2>1. late' = late /\ port' = port
    BY <1>5 DEF Answer, TimeOut, RunAway, Refuse, Store, AcknowledgeSet, ReadReply, history
  <2>2. split' = split \/ Consume
    BY <1>5 DEF Answer, TimeOut, RunAway, Refuse, Store, AcknowledgeSet, ReadReply, history
  <2>a. late = "never"
    BY <1>1, <2>1
  <2>b. ~split
    BY <1>1, <2>2, ConsumeEffect
  <2>3. late = "never" /\ ~split
    BY <2>a, <2>b
  <2>4. /\ \A f \in Fields : reading[f].from = reading[f].asked
        /\ crashed => port # "open"
    BY <2>3 DEF OwnUnlessDisturbed
  <2>5. CASE TimeOut
    BY <2>1, <2>4, <2>5 DEF TimeOut
  <2>6. CASE RunAway
    <3>1. Taken = 1 /\ Consume => split'
      BY WholeRead
    <3>2. port # "open" /\ reading' = reading
      BY <1>1, <2>6, <3>1 DEF RunAway
    <3>3. QED
      BY <2>1, <2>4, <3>2
  <2>7. CASE Refuse \/ AcknowledgeSet
    <3>1. reading' = reading /\ crashed' = crashed
      BY <2>7 DEF Refuse, AcknowledgeSet, ReadReply
    <3>2. QED
      BY <2>1, <2>4, <3>1
  <2>8. CASE Store
    <3>1. Consume /\ waiting # None /\ crashed' = crashed
      BY <2>8 DEF Store, ReadReply
    <3>2. PICK length \in LengthsOf(Chunk) :
            reading' = [reading EXCEPT ![waiting] =
                          [asked |-> Len(asked), from |-> DataOf(Chunk, length)]]
      BY <2>8 DEF Store
    <3>3. DataOf(Chunk, length) = Len(asked)
      <4>1. Len(line) >= 9 /\ DataOf(Chunk, length) = line[1][1]
        BY <1>1, <3>1, DataOfOwn, WholeRead
      <4>2. 1 \in 1..Len(line)
        BY <4>1, QueueTypes
      <4>3. line[1] = <<Len(asked), 1>>
        BY <2>3, <4>2 DEF InTime
      <4>4. QED
        BY <4>1, <4>3
    <3>4. \A f \in Fields : reading'[f].from = reading'[f].asked
      BY <1>t, <2>4, <3>2, <3>3
    <3>5. QED
      BY <2>1, <2>4, <3>1, <3>4
  <2>9. QED
    BY <1>5, <2>5, <2>6, <2>7, <2>8 DEF Answer
<1>6. CASE UNCHANGED batteryVars
  BY <1>1, <1>6 DEF OwnUnlessDisturbed, batteryVars, history
<1>7. QED
  BY <1>b, <1>2, <1>3, <1>4, <1>5, <1>6 DEF BatteryNext

(* The step of a getter on a line that is out of step. *)
LEMMA OutOfStepStep ==
  ASSUME BatteryTypeOK, StaysBehind, [BatteryNext]_batteryVars, NEW f \in Fields,
         late = "late", ~split', reading'[f].asked > reading[f].asked
  PROVE  reading'[f].from < reading'[f].asked
<1>1. /\ reading \in [Fields -> [asked : 0..MaxAsked, from : 0..MaxAsked]]
      /\ MaxAsked \in Nat /\ Len(asked) \in Nat
  BY BoundsAssumption, QueueTypes DEF BatteryTypeOK
<1>2. reading[f].asked \in 0..MaxAsked
  BY <1>1
<1>3. reading' # reading /\ reading' # Unread
  <2>1. reading' = reading => FALSE
    BY <1>2
  <2>2. reading' = Unread => reading'[f].asked = 0
    BY DEF Unread
  <2>3. QED
    BY <1>1, <1>2, <2>1, <2>2
<1>4. Store
  BY <1>3 DEF BatteryNext, GetInstance, DestroyInstance, UartInit, UartClose, AskFor, AskToSet, Ask,
              Arrive, Lose, Answer, TimeOut, RunAway, Refuse, AcknowledgeSet, batteryVars
<1>5. Consume /\ waiting # None /\ port = "open" /\ waiting \in Fields
  BY <1>4 DEF Store, ReadReply
<1>6. PICK length : reading' = [reading EXCEPT ![waiting] =
                      [asked |-> Len(asked), from |-> DataOf(Chunk, length)]]
  BY <1>4 DEF Store
<1>7. f = waiting
  <2>1. f # waiting => reading'[f] = reading[f]
    BY <1>1, <1>6
  <2>2. QED
    BY <1>2, <2>1
<1>8. reading'[f].asked = Len(asked) /\ reading'[f].from = DataOf(Chunk, length)
  BY <1>1, <1>6, <1>7
<1>9. line[1][1] \in 1..Len(asked) /\ line[1][1] < Len(asked)
  <2>1. ~split /\ Len(line) >= 9 /\ line[1][1] \in 1..Len(asked)
    BY <1>5, WholeRead
  <2>2. line # <<>>
    BY <2>1
  <2>3. Oldest < Len(asked)
    BY <1>5, <2>1 DEF StaysBehind
  <2>4. QED
    BY <2>1, <2>2, <2>3 DEF Oldest
<1>10. DataOf(Chunk, length) \in {0, line[1][1]}
  BY <1>5, DataOfWhole
<1>11. QED
  BY <1>1, <1>8, <1>9, <1>10

-----------------------------------------------------------------------------
LEMMA BatteryInvInit == BatteryInit => BatteryInv
<1> SUFFICES ASSUME BatteryInit PROVE BatteryInv
  OBVIOUS
<1>1. BatteryTypeOK
  BY BatteryTypeInit
<1>2. /\ replies = <<>> /\ line = <<>> /\ late = "never" /\ crashed = FALSE
      /\ waiting = None /\ reading = Unread
  BY DEF BatteryInit
<1>3. OrderInv
  BY <1>2 DEF OrderInv
<1>4. InTime
  BY <1>2 DEF InTime
<1>5. StaysBehind
  BY <1>2 DEF StaysBehind
<1>6. OwnUnlessDisturbed
  BY <1>2 DEF OwnUnlessDisturbed, Unread
<1>7. QED
  BY <1>1, <1>3, <1>4, <1>5, <1>6 DEF BatteryInv

LEMMA BatteryInvStep == BatteryInv /\ [BatteryNext]_batteryVars => BatteryInv'
  BY BatteryTypeStep, OrderStep, InTimeStep, BehindStep, OwnStep DEF BatteryInv

LEMMA BatteryInvAlways == BatterySpec => []BatteryInv
<1>1. BatteryInit => BatteryInv
  BY BatteryInvInit
<1>2. BatteryInv /\ [BatteryNext]_batteryVars => BatteryInv'
  BY BatteryInvStep
<1>3. QED
  BY <1>1, <1>2, PTL DEF BatterySpec

(* Type correctness of the power monitor: a byte in the queue belongs to a *)
(* request that was made, and a request is in progress only on a living    *)
(* instance.                                                               *)
THEOREM BatteryTypeCorrect == BatterySpec => []BatteryTypeOK
<1>1. BatteryInv => BatteryTypeOK
  BY DEF BatteryInv
<1>2. QED
  BY <1>1, BatteryInvAlways, PTL

(* As long as every reply came in time and in one piece, every field shows *)
(* what the controller answered to the last request for it, and CRC8 never *)
(* runs off the buffer on an open port: for every set of fields, of cuts   *)
(* and any number of requests.                                             *)
THEOREM OwnReadings == BatterySpec => []OwnUnlessDisturbed
<1>1. BatteryInv => OwnUnlessDisturbed
  BY DEF BatteryInv
<1>2. QED
  BY <1>1, BatteryInvAlways, PTL

(* After one late reply no reading is in step again, whatever is asked and *)
(* however often, until a reply is lost or the port is closed.             *)
THEOREM NeverInStepAgain == BatterySpec => OutOfStep
<1>1. BatteryInv /\ [BatteryNext]_batteryVars =>
        [\A f \in Fields :
           late = "late" /\ ~split' /\ reading'[f].asked > reading[f].asked =>
             reading'[f].from < reading'[f].asked]_batteryVars
  BY OutOfStepStep DEF BatteryInv
<1>2. QED
  BY <1>1, BatteryInvAlways, PTL DEF BatterySpec, OutOfStep

=============================================================================
