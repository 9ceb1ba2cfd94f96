--------------------------- MODULE SettingsServer ---------------------------
(***************************************************************************)
(* The configuration service on port 12345: Settings as main loads it at   *)
(* start (Read_Json_Configuration) and as thread_12345 replaces it on      *)
(* request (receive_processJson), the file received_data.json that carries *)
(* it over a restart, and the address of the network interface.            *)
(*                                                                         *)
(* A request is a function from the keys to a value or Absent; it reaches  *)
(* the server through ONE read into an uninitialised stack buffer that     *)
(* nobody terminates, so what is parsed can continue with the bytes of an  *)
(* earlier request.  A JSON null makes json_object_get_string return a     *)
(* null pointer, whose assignment to a std::string ends the process.       *)
(***************************************************************************)
EXTENDS Naturals, Sequences

CONSTANTS
  Keys,          \* the keys of a request, in the order they are sent in
  Addresses,     \* valid values, addresses where the key is the address
  JsonNull, Absent,
  Empty,         \* the empty string
  Unknown,       \* an address nobody chose
  NoFile, Torn,  \* a file that does not exist, or does not parse
  MaxRequests,   \* bound: connections accepted
  MaxCrashes     \* bound: ends of the process

IP == "ip-address"
METHOD == "logging-method"

KeySet == {Keys[i] : i \in 1..Len(Keys)}

(* What "settings" holds, for each key.  Left out: a "settings" that is    *)
(* null or no object.                                                      *)
Message == [KeySet -> Addresses \cup {JsonNull, Absent}]

ASSUME SettingsAssumption ==
  /\ Keys \in Seq(STRING) /\ {IP, METHOD} \subseteq KeySet
  /\ {JsonNull, Absent, Empty, Unknown} \cap Addresses = {}
  /\ JsonNull # Absent /\ NoFile # Torn /\ {NoFile, Torn} \cap Message = {}
  /\ MaxRequests \in Nat /\ MaxCrashes \in Nat

VARIABLES
  pc,        \* where the process stands: main until "accept", then thread_12345
  memory,    \* the Settings object
  file,      \* received_data.json
  iface,     \* address of the interface
  buffer,    \* what the stack buffer holds: a message, or Torn
  j,         \* the request parsed
  assigned,  \* history: the last set_IP had an address and worked
  unsaved,   \* history: the last request was processed though not saved
  requests, crashes

bounds == <<requests, crashes>>
vars == <<pc, memory, file, iface, buffer, j, assigned, unsaved,
          requests, crashes>>

NoSettings == [k \in KeySet |-> Empty]
Nothing == [k \in KeySet |-> Absent]

Init ==
  /\ pc = "load"
  /\ memory = NoSettings
  /\ file = NoFile
  /\ iface = Unknown
  /\ buffer = Torn
  /\ j = Nothing
  /\ assigned = FALSE
  /\ unsaved = FALSE
  /\ requests = 0 /\ crashes = 0

Goto(from, to) == pc = from /\ pc' = to

(* Faulty variant: a key that is absent is assigned too. *)
AssignAll(m, keys) ==
  [k \in KeySet |-> IF k \in keys THEN m[k] ELSE memory[k]]

(* The values of m that are not absent replace those of the object. *)
Assign(m, keys) ==
  [k \in KeySet |-> IF k \in keys /\ m[k] # Absent THEN m[k] ELSE memory[k]]

(* The process ends: the Settings object and the stack are gone. *)
Die ==
  /\ crashes < MaxCrashes
  /\ crashes' = crashes + 1
  /\ pc' = "load"
  /\ memory' = NoSettings
  /\ buffer' = Torn
  /\ j' = Nothing
  /\ assigned' = FALSE
  /\ unsaved' = FALSE
  /\ UNCHANGED <<file, iface, requests>>

(* It ends at any time, also by a fault in the other threads. *)
Crash == Die

-----------------------------------------------------------------------------
(* Read_Json_Configuration, in main before any thread is started. *)

(* Faulty variant: the file is opened, and none of it taken over. *)
LoadNothing ==
  /\ file # NoFile
  /\ Goto("load", "boot_ip")
  /\ UNCHANGED <<memory, file, iface, buffer, j, assigned, unsaved, bounds>>

(* "Error opening file." and return: neither network nor address is set. *)
LoadNoFile ==
  /\ file = NoFile
  /\ Goto("load", "accept")
  /\ UNCHANGED <<memory, file, iface, buffer, j, assigned, unsaved, bounds>>

(* A file that does not parse is logged and treated as one without         *)
(* settings.  The key logging-method is not among those restored.          *)
Restored == KeySet \ {METHOD}
LoadFile ==
  /\ file # NoFile
  /\ Goto("load", "boot_ip")
  /\ \/ file = Torn /\ UNCHANGED memory
     \/ /\ file \in Message
        /\ \A k \in Restored : file[k] # JsonNull
        /\ memory' = Assign(file, Restored)
  /\ UNCHANGED <<file, iface, buffer, j, assigned, unsaved, bounds>>

LoadNull ==
  /\ pc = "load"
  /\ file \in Message /\ \E k \in Restored : file[k] = JsonNull
  /\ Die

(* set_IP reports nothing: an ioctl may fail, and for a string that is no  *)
(* address the structure passed to it is uninitialised.                    *)
SetIP(ip) ==
  \/ ip \in Addresses /\ iface' = ip /\ assigned' = TRUE
  \/ iface' = iface /\ assigned' = FALSE
  \/ ip \notin Addresses /\ iface' \in Addresses \cup {Unknown} /\ assigned' = FALSE

(* After add_wifi and get_IP. *)
BootSetIP ==
  /\ Goto("boot_ip", "accept")
  /\ SetIP(memory[IP])
  /\ UNCHANGED <<memory, file, buffer, j, unsaved, bounds>>

-----------------------------------------------------------------------------
(* thread_12345: one connection at a time. *)
Accept ==
  /\ Goto("accept", "read")
  /\ requests < MaxRequests
  /\ requests' = requests + 1
  /\ UNCHANGED <<memory, file, iface, buffer, j, assigned, unsaved, crashes>>

(* accept() fails: the thread returns and the service is gone for good. *)
AcceptFails ==
  /\ Goto("accept", "returned")
  /\ UNCHANGED <<memory, file, iface, buffer, j, assigned, unsaved, bounds>>

(* The client sends m, and the read returns all of it. *)
ReadWhole(m) ==
  /\ Goto("read", "parse")
  /\ buffer' = m
  /\ UNCHANGED <<memory, file, iface, j, assigned, unsaved, bounds>>

(* The read returns the first i keys of m (none at all if the client just  *)
(* closes); behind them stands what an earlier request has left there.     *)
ReadPart(m, i) ==
  /\ Goto("read", "parse")
  /\ \/ buffer' = Torn
     \/ /\ buffer # Torn
        /\ buffer' = [k \in KeySet |->
                        IF \E h \in 1..i : Keys[h] = k THEN m[k] ELSE buffer[k]]
  /\ UNCHANGED <<memory, file, iface, j, assigned, unsaved, bounds>>

ReadFails ==
  /\ Goto("read", "accept")
  /\ UNCHANGED <<memory, file, iface, buffer, j, assigned, unsaved, bounds>>

Parse ==
  /\ \/ buffer # Torn /\ Goto("parse", "open") /\ j' = buffer
     \/ buffer = Torn /\ Goto("parse", "accept") /\ UNCHANGED j
  /\ UNCHANGED <<memory, file, iface, buffer, assigned, unsaved, bounds>>

(* std::ofstream truncates the file, or cannot open it. *)
Open ==
  /\ \/ Goto("open", "write") /\ file' = Torn /\ unsaved' = FALSE
     \/ Goto("open", "assign") /\ UNCHANGED file /\ unsaved' = TRUE
  /\ UNCHANGED <<memory, iface, buffer, j, assigned, bounds>>

(* Whether the data could be written is not looked at. *)
Write ==
  /\ Goto("write", "assign")
  /\ \/ file' = j
     \/ UNCHANGED file
  /\ UNCHANGED <<memory, iface, buffer, j, assigned, unsaved, bounds>>

(* Faulty variant: a null is skipped like a key that is absent. *)
AssignSkippingNull ==
  /\ Goto("assign", "ack")
  /\ memory' = Assign(j, {k \in KeySet : j[k] # JsonNull})
  /\ UNCHANGED <<file, iface, buffer, j, assigned, unsaved, bounds>>

AssignSettings ==
  /\ Goto("assign", "ack")
  /\ \A k \in KeySet : j[k] # JsonNull
  /\ memory' = Assign(j, KeySet)
  /\ UNCHANGED <<file, iface, buffer, j, assigned, unsaved, bounds>>

AssignNull ==
  /\ pc = "assign"
  /\ \E k \in KeySet : j[k] = JsonNull
  /\ Die

(* Acknowledged, whether it was saved or not. *)
Acknowledge ==
  /\ Goto("ack", "wifi")
  /\ UNCHANGED <<memory, file, iface, buffer, j, assigned, unsaved, bounds>>

(* add_wifi waits for NetworkManager's answer and only logs it; then the   *)
(* present address is sent.                                                *)
AddWifi ==
  /\ Goto("wifi", "set_ip")
  /\ UNCHANGED <<memory, file, iface, buffer, j, assigned, unsaved, bounds>>

(* Faulty variant: the interface is not touched before a restart. *)
SetIPNotCalled ==
  /\ Goto("set_ip", "changed")
  /\ assigned' = (j[IP] \in Addresses)
  /\ UNCHANGED <<memory, file, iface, buffer, j, unsaved, bounds>>

(* set_IP with the address of this request, not with that of the object. *)
SetNewIP ==
  /\ Goto("set_ip", "changed")
  /\ SetIP(j[IP])
  /\ UNCHANGED <<memory, file, buffer, j, unsaved, bounds>>

(* "IP address changed successfully to ..." *)
TellChanged ==
  /\ Goto("changed", "accept")
  /\ UNCHANGED <<memory, file, iface, buffer, j, assigned, unsaved, bounds>>

Boot == LoadNoFile \/ LoadFile \/ LoadNull \/ BootSetIP

Receive ==
  \/ \E m \in Message : ReadWhole(m)
  \/ \E m \in Message, i \in 0..(Len(Keys) - 1) : ReadPart(m, i)
  \/ ReadFails

Process ==
  \/ Parse \/ Open \/ Write \/ AssignSettings \/ AssignNull
  \/ Acknowledge \/ AddWifi \/ SetNewIP \/ TellChanged

Next == Crash \/ Boot \/ Accept \/ AcceptFails \/ Receive \/ Process

Spec == Init /\ [][Next]_vars

-----------------------------------------------------------------------------
PC == {"load", "boot_ip", "accept", "returned", "read", "parse", "open", "write",
       "assign", "ack", "wifi", "set_ip", "changed"}

(* Type invariant of the settings, the file and the request in hand. *)
TypeOK ==
  /\ pc \in PC
  /\ memory \in [KeySet -> Addresses \cup {Empty}]
  /\ file \in Message \cup {NoFile, Torn}
  /\ iface \in Addresses \cup {Unknown}
  /\ buffer \in Message \cup {Torn}
  /\ j \in Message
  /\ assigned \in BOOLEAN /\ unsaved \in BOOLEAN
  /\ requests \in 0..MaxRequests /\ crashes \in 0..MaxCrashes

Waiting == pc \in {"accept", "returned"}

(* Whenever no request is being processed, what the file says is what the  *)
(* object holds, but for logging-method: also if the process ended between *)
(* the save and the update of the object, and if only some keys were sent. *)
(* The exception is a request processed although the file would not open.  *)
SavedIsInMemory ==
  Waiting /\ ~unsaved /\ file \in Message =>
    \A k \in Restored : file[k] # Absent => memory[k] = file[k]

(* When set_IP had an address and worked, the interface has the address    *)
(* that the object and (if it could be saved) the file name, although      *)
(* set_IP is given the one of the request on one path and that of the      *)
(* object on the other.                                                    *)
AddressInForce == Waiting /\ assigned => iface = memory[IP]

(* A request with a JSON null is saved before it ends the process, and     *)
(* every start after that reads it back and ends as well: once such a file *)
(* is written, no start gets past loading it, and neither of the two ports *)
(* is served again.  Only the request that wrote it is still in hand.      *)
NullIsFatal ==
  file \in Message /\ (\E k \in Restored : file[k] = JsonNull)
    => pc \in {"load", "assign"}

=============================================================================
