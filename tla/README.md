# Verification of the detector server

This directory models the C++ detector server of this repository in TLA+,
checks the models with TLC on small instances, and proves theorems about them
with TLAPS. Source lines below are those of `src/src/*.cpp` (written without
that prefix) and of the vendored sockpp headers in `src/include/sockpp/`.

The build that is modelled is the one the generated makefiles make: x86, `-O0`,
`-DDEBUG`, without `IMX8_SOM`. Where the build for the board differs and the
difference matters (the camera), a constant selects it.

## 1. The system

`main` (main.cpp:64-118) sets up the logger and SIGPIPE, loads the settings,
creates the handler and starts two threads: `thread_1024`, which serves the
detector protocol, and `thread_12345`, which serves configuration requests.
Every accepted detector connection adds two threads that are detached at once
(a parse thread and an executor), and every WORK command adds a work thread.
All of them share one `Mgard300_Handler`.

```
 client --TCP 1024--> accept loop --starts--> parse thread --push--> q_execute_cmd
                        ^   |                     |                        |
        re-entered by   |   +--starts--> executor <--------- pop ----------+
        a failed send   |                   | transition_to_state
                        |                   v
                     work thread <-starts- WorkState::handle
                        |      \--> PRB_IMG (shared image buffer), data.bin
                        +--send_data_to_client--> current_socket (shared)

 client --TCP 12345--> thread_12345 --> Settings object, received_data.json,
                                        address of the interface, NetworkManager
```

### Inventory

| component | state | operations | hard behaviour | what makes it correct |
|---|---|---|---|---|
| connection counting and accept loop (`Mgard300_Handler.cpp` 12-42, 86-127, 250-268) | `number_connection`, the threads in `tm_` | accept, increment, start threads, exit of a parse thread, re-entry after a failed send | several accept loops; check and decrement under separate locks | the counter says how many parse threads run; the current client has a parse thread |
| current socket (`Mgard300_Handler.cpp` 108-127, 235-244, 288-294) | `current_socket`: a handle and a last error, shared by every thread | assignment after an accept, tests of the accept loop, reads, writes, close | the assignment takes no lock and swaps and closes a handle that other threads read, close or replace | no connection lost or closed twice; a connection is judged by what happened to it |
| packet parser (`Mgard300_Handler.cpp` 131-177) | `buf`, `n_read_bytes`, shared by all parse threads | one read, length check, marker check, push | a stream cut anywhere, failing reads, a signed result compared unsigned, several readers of one buffer, a switch whose push comes later, a loop that ends at a count of 2 | only received packets are dispatched, once and in order; every whole packet is heard |
| command queue, executors, states (`Mgard300_Handler.cpp` 45-66, 181-187, 269-286, `DET_State.cpp`) | `q_execute_cmd`, `current_state`, the state objects | `set_state`, `get_state`, `transition_to_state`, four handlers | one executor per connection, none ever ends, `transition_to_state` takes no lock | no command lost, doubled, reordered or forgotten; no state object misused or leaked |
| work thread and image source (`DET_State.cpp` 43-110, `PRB_IMG.cpp`) | the instance, its mutex and image, `data.bin`; with a camera its descriptors and mapped buffers | `getInstance`, `intialize_stream`, `open_stream`, `trigger_event`, `IMG_acquire`, `close_stream`, `get_IMG`, send, save, checksum | unsynchronised singleton, mutex released between fill and copy, early returns that keep it, frames that are too short, writes that fail unnoticed; descriptors in unlocked members, results that are only logged | images whole and fresh; failures reported; nobody blocked; nothing closed twice, touched unmapped, or left open |
| image transfer (`Mgard300_Handler.cpp` 191-235, `stream_socket.cpp` 171-215) | `is_client_closed`, the counters of each sender | chunk loop, `write_n`, reconnect | senders share the flag and the socket, which is replaced and closed under them; unsigned counters take a -1 | every byte once and in order; a failure is noticed and leads to a reconnect |
| configuration service (`Settings.cpp`, main.cpp 98-111) | the `Settings` object, `received_data.json`, the interface | load at start, receive, save, assign, acknowledge, `add_wifi`, `set_IP` | crash between save and assignment, partial requests, JSON nulls, an unterminated buffer, failures nobody reports | file, object and interface agree between requests; the service starts again |
| battery monitor (`PowerMonitor`) | the instance, the serial port, the fields | `uart_init`, `uart_close`, `uart_set_data`, ten getters over `uart_get_data` | replies cut, late or lost; a one second wait; tests of the reply that let nearly anything pass | a reading is the answer to its own request |
| sockpp sockets (vendored: `socket`, `acceptor`, `connector`, `stream_socket`, `datagram_socket`) | handle and cached error of each object | create, move, clone, reset, release, close, shutdown, open, connect with and without a time, `read_n`, `write_n` and the vector forms | ownership over any order of calls; open and connect fail half way; short transfers and interrupts | one owner for every descriptor; results say what happened; loops end |
| sockpp addresses and exceptions (vendored) | - | conversions | - | values without state: not modelled |
| start-up and logging (main.cpp, logger) | - | - | order of initialisation | initial states of the two services |
| utilities (`checksum.h`, `get_connection.hpp`, `Common.h`) | - | - | - | not modelled: used by no running code, or constants |

`PROJECT.json` lists the same components, and under `hazards` each thing that
can go wrong and a test would hardly reach, at its line.

## 2. The modules

| module | models | state and actions |
|---|---|---|
| `NumberConnection` | `increment_/decrement_number_connection` | two operators; each method holds the lock for its whole body |
| `ConnectionCount` | `handle_connections`, `start_thread_parse_thread`, the end of a parse thread, `close_socket`, re-entry | one action per locked method and per unlocked read of `current_socket`; the socket is its valid-handle and last-error flags |
| `CurrentSocket` | `current_socket` as its threads use it: accept and assignment, the tests of the accept loop, reads, writes, `close_socket` | one action per access to `handle_` or `lastErr_` and per system call; the move assignment of connector.h is a read, a write and a close; descriptor numbers are given out lowest first, to connections and to the rest of the program |
| `PacketParser` | `parse_msg_client` over TCP streams | a read is a call that fixes the descriptor, a return that moves a prefix of the bytes, and the store of the result; the checks follow, then the switch, which reads the buffer without a lock and settles what will be pushed (`Switch`), then the locked push (`Push`); after every pass the thread reads the connection count and leaves at 2 (`TestCount`, `Leave`). A failed accept is counted too. `short`, `failed` and `overlapped` remember that a read cut a packet, that one failed, and that two threads were between their read and their push at a time |
| `CommandService` | what the command path promises (abstract) | a queue of pending commands, the sequence of those carried out, and the moment at which a second connection ends the promise (`Share`) |
| `Executors` | `set_state`, `get_state`, `execute_cmd_thread`, `transition_to_state`, the handlers' object lifetimes | each access to `current_state` is a step; objects are numbered; the first memory error ends the behaviour |
| `WorkThread` | the work thread, `getInstance`, `IMG_acquire`, `get_IMG`, `data.bin` | an image is the number of its acquisition, kept for two halves; test, construct and read of the singleton are three steps; a frame may fill the image, a half of it or nothing (`ShortFrame`), a write to the file or its close may fail (`WriteFails`), and a missing device ends the process (`DeviceMissing`). `short`, `unwritten` and `opener` remember the short frames, the threads that could not write, and who truncated the file last |
| `CameraStream` | `intialize_stream`, `open_stream`, `trigger_event`, `IMG_acquire`, `close_stream` in the build for the board | descriptors and buffer arrays are numbered as they are created; each call on a member reads what the member is by then; every call may fail |
| `ImageSend` | `send_data_to_client` and `write_n` | bytes are numbers; the kernel takes any part; counters are modulo `Word` |
| `SettingsServer` | `Read_Json_Configuration`, `receive_processJson`, `set_IP`, crashes | a request maps each key to a value, null or absent; the file is absent, torn or a request |
| `Battery` | `PowerMonitor` and its serial line | a byte is the request it answers and its place in the reply; replies arrive cut at `Cuts`, late, or not at all; a read takes what is there or waits a second. `late` and `split` remember that a reply was late, and that a read did not return one whole reply |
| `Sockets` | `socket`, `acceptor`, `connector`, `stream_socket`, `datagram_socket` | objects of four classes that are built, moved, cloned, reset and destroyed; open, connect and the loops are one action per system call |
| `MC...` | definitions for TLC (symmetry, key lists, parameters, constraints) | |
| `...Proofs` | theorems and proofs | |

`ParseThreadProofs` is about `ConnectionCount` and `PacketParser`, the two views
of a parse thread, and `SettingsBatteryProofs` about `SettingsServer` and
`Battery`, the two components that no other changes. The two specifications of
such a module share no variable and no lemma; so that one module can extend
both, `PacketParser` and `Battery` prefix the usual names (`ParserInit`,
`BatterySpec`, ...).

`Executors` instantiates `CommandService` with a refinement mapping: pending is
the command in the executor's hand followed by the queue, done is the history
of handler calls, and `Share` is the start of a second executor.
`ConnectionCount` and `PacketParser` extend `NumberConnection`. `WorkThread` and `CameraStream`
are two views of the same thread: what happens to the image and the mutex,
whatever object the thread has, and what happens to the devices of one object.
`ConnectionCount` and `CurrentSocket` are two views of the same loop: which
threads it counts and starts, with the socket as two flags, and what its
assignment does to the descriptors. `Sockets` is the library under the
contract of the library, one thread per object at a time; `CurrentSocket` is
the one object for which the program breaks it.

The other modules are separate because their components meet in one or two
variables only. Each of them lets the rest of the program do to those variables
whatever it may: `ConnectionCount` has `SendReturns` and `CloseSocket` for the
threads it leaves out, `PacketParser` and `ImageSend` have actions that replace,
break and close the current socket, and `WorkThread` lets a send return or
become an accept loop at any time.

Operators whose comment begins "Faulty variant" or "Variant" are not used by
any specification. Each is a mutated form of the definition after it, used to
see that a property notices the change.

Undefined behaviour is either a choice or the end. An uninitialised
`is_client_closed`, `buf` or stack buffer starts with any value the program
tells apart. A use after free, a double free or a destroyed joinable thread
sets `error` (`status` in `CameraStream`, where a second close or an access to
an unmapped buffer does it; `crashed` in `Battery`, where CRC8 gets a negative
length), and nothing is claimed after it. When the accept loop of
`thread_1024` returns, the handler it owns is destroyed under all other threads,
and `ConnectionCount` and `CurrentSocket` go no further.

## 3. What the runs check

Runs that pass:

| run | instance | shows |
|---|---|---|
| `count` | 2 accept loops, 4 parse threads, 5 accepts | the counter equals running parse threads, counted connections about to get one, and those that never got one (`CountConserved`); a surplus of three is permanent, because the test is for equality with 2 (`SurplusIsPermanent`) |
| `current_socket` | the first accept loop, a sender, a parse thread, 2 executors that close, 3 descriptor numbers | until two threads replace the handle at a time, every connection is held once and nothing that was closed is held (`OwnedUnlessRaced`); a loop skips the connection it accepted, or returns, only because another thread touched the socket since (`JudgedByOthers`): a successful accept is thrown away, and with the first loop the handler ends, for an error that may belong to the connection before |
| `parse` | 2 connections with a parse thread each, 2 packets with parameters that look like a head and a command, failed accepts, ends, resets and closed sockets | while no receive has failed and threads do not overlap, no false packet is assembled from two (`WholePackets`) and nothing is pushed twice or out of order (`PushedOnceInOrder`); as long as TCP cuts no packet, whatever overlaps or fails, a command is never made of two packets, and a failing receive can at most push the last one again while threads do not overlap (`FailureOnlyRepeats`); a lone client's commands are all heard unless TCP cuts one, a receive fails, or an accept that failed brings the count to 2 (`CommandHeard`). A lock around `parse_msg_client` would secure that threads do not overlap |
| `executors` | 2 executors, 4 commands of three kinds | no command is lost or doubled between queue and handlers (`CommandsConserved`); memory errors and leaks need two overlapping transitions (`SafeUnlessOverlapped`), so one lock over `transition_to_state` would be enough; while there is one executor it carries out every command once, in order and in the end (`ImplementsService`) |
| `work` | 2 work threads, a camera that can fail, deliver short frames or be missing, a disk that can be full | although the singleton is not one, an image that is sent is torn only by a short frame that came last, and is older than the sender's acquisition only if that one's frame was short (`ImageWholeAndFresh`); a failed acquisition sends none (`NoImageAfterFailure`); once the thread that truncated `data.bin` last is through, no part of it is missing, unless a write of that very thread failed (`FileComplete`); nobody starves for the mutex as long as no acquisition fails (`ImageObtained`) |
| `camera_stream` | 2 work threads, the 3 buffers of the code, every call may fail, the driver may grant 1 to 4 buffers | no descriptor is closed twice and no unmapped buffer touched (`NoMisuse`), and nothing is held between two WORK commands but the streams whose STREAMOFF failed (`StreamReleased`), unless two threads use the camera at a time or an initialisation maps another number of buffers than `close_stream` unmaps. Both exceptions are reached, and each leads to misuse: a lock around the use of the camera and a check of the results at DET_State.cpp:61 and of `v4l2_req.count` would remove them |
| `senders` | 2 senders, 2 connections | bytes of each image in order and once (`SentInOrder`), the wrapped counters are never used (`CountersAgree`), nobody stops early unless some write failed (`TruncatedOnlyAfterFailure`), and a sender whose write failed reconnects if it is alone (`LoneFailureReconnects`) |
| `settings` | 2 requests, 2 crashes, 3 keys | file and object agree between requests on every key a restart restores (`SavedIsInMemory`); a `set_IP` that worked has put the object's address in force (`AddressInForce`); a JSON null that was saved ends every later start while it is loaded, so that neither port is served again (`NullIsFatal`) |
| `battery` | 4 requests for two registers, 2 calls of `uart_init`, replies cut after 1, 2 or 5 bytes, late or lost | readings are the answers to their own requests as long as every reply comes whole and in its second (`OwnUnlessDisturbed`); after a late one every reading is that of an earlier request, since the queue is never flushed (`OutOfStep`) |
| `sockets` | 2 objects at a time of 6 in four classes, 3 descriptors, 2 bytes, every call may fail | a descriptor has one owner, in the middle of open and connect too (`OneOwner`); only `shutdown` loses one (`LostOnlyByShutdown`); open and connect say truly what they leave behind (`OutcomeTrue`); a loop never asks for more than is wanted (`TypeOK`), and the loops end, but for `read_n_r` at the end of a stream (`LoopReturns`) |

Runs that end in a counterexample, each a disagreement between the code and
what the repository says of it (quoted under `findings`):

| run | the counterexample |
|---|---|
| `served` | two accepts succeed, none fails; the two parse threads both read 2 before either has taken one off, and both leave: a connected client nobody reads from. The property has the premise that no accept has failed (`unparsed = 0`), so that a count which is too high for that reason does not explain it |
| `camera_failure` | a failed acquisition keeps the mutex, its result is overwritten, and the thread blocks in `get_IMG` instead of reporting it |

The models also have these behaviours, which no run singles out:

* -1 from a read passes the length check as an unsigned number
  (Mgard300_Handler.cpp:138) and the old packet is dispatched again
  (`CheckLength`; `FailureOnlyRepeats` says that this is all it does);
* one accept fails and is counted, one succeeds: the count is 2, and the only
  parse thread leaves after its first packet (`FailedAccept`, `TestCount`;
  excluded by the premises of `CommandHeard` and `CurrentClientServed`);
* a thread switches on one command, another receives and pushes the next, and
  the first pushes its own: an earlier command behind a later one
  (Mgard300_Handler.cpp:150 and 273-276, `Switch`, `Push`);
* after a frame of too few bytes the image sent has the rest of an older one, or
  of uninitialised memory (PRB_IMG.cpp:248, `ShortFrame`);
* a full disk leaves `data.bin` with a part missing while the log says "Data
  written to file: data.bin" (DET_State.cpp:93-95, `WriteFails`);
* bytes of an earlier request behind or instead of the new one are saved and
  applied (Settings.cpp:380-385, `ReadPart`);
* two senders write chunks of two images into one stream (`SendTakes` in
  `ImageSend`);
* `decrement_number_connection` ignores a count of 0, so that a decrement that
  runs before its increment leaves a surplus (the test in test.cc:22-42 starts
  such a pair of threads);
* a read of another thread fails between the two socket checks of one iteration
  and the accept loop of `thread_1024` ends (`Recheck`);
* a parse thread that read nothing passes the length check with the count that
  another stored (`StoreCount`, `CheckLength`);
* `close_all_threads` closes no thread, since all are detached (`Accept` in
  `Executors`);
* two first calls of `getInstance` make two objects (`ConstructInstance`);
* two threads write `data.bin` at a time (`WriteFirst`, `WriteSecond`);
* a second sender sets the shared flag again before the failed one reads it
  (`Begin`, `After`), and after a failed write and a reconnect the log says
  "Sent all data to Client" (`SayDone`);
* the "changed successfully" message goes out when the address could not be set
  (`TellChanged`);
* a socket that is shut down before it is destroyed keeps its descriptor open,
  where socket.h:172 says that the class owns and closes it (`Shutdown`);
* `stream_socket::pair` and its datagram twin do not keep the error of
  `socketpair` where the caller looks for it, the objects it returns
  (`SocketPair`);
* a `connect` whose `socket()` fails returns false while the connector still
  holds the connection it had (`OutcomeTrue` names this as the one exception);
* `get_serial_number` asks for the register of the cycle count
  (PowerMonitor.cpp:294, PowerMonitor.h:24; `RegisterOf`).

The code also differs from what the header says of it in one point that the
models leave out. stream_socket.h:159-160 and 172 say of `read_n` and `read_n_r`
"The number of bytes read on success, or @em -1 on error. If successful, the
number of bytes read should always be 'n'", 219 the same of `write_n`, and
result.h:70 says of the count of an `ioresult` "Byte count, or 0 on error or
EOF". The code returns -1 only when nothing was moved before the error: after a
part was moved, `read_n` and `write_n` return that part (stream_socket.cpp:106,
214), as `read_n` does at the end of a stream, and `read_n_r` and `write_n_r`
keep the count beside the error (118-125, 226-233). A caller that compares with
-1 misses the error. What the loops return is therefore not in `Sockets`, and
no property is about it; the bytes that `write_n` moves are in `ImageSend`.

### Bounds

* `MaxAccepts`, `Acceptors`, `Parsers` (ConnectionCount): the interesting counts
  are 0 to 3 (2 triggers an exit and 3 is past it). Five accepts and four
  parse threads reach a surplus and a parse thread that exits on either side
  of it.
* `Numbers` = 0..2 (CurrentSocket): the accepted connection, the one it
  replaces, and a number that was closed and given out again. One sender is the
  second accept loop that a race needs; two closers race with each other. The
  constraint `Unraced` stops where two threads have replaced the handle at a
  time, because `OwnedUnlessRaced` claims nothing after that; the step into the
  race is explored and `JudgedByOthers` checked on it.
* `MaxPackets` = 2 (PacketParser): a false packet or a repetition involves two
  packets in a row. The parameters are a HEAD and a WORK, in this order, so that
  a window shifted by two bytes has a head and a command where the code wants
  them. A parameter TAIL adds no false packet: the only window it can complete
  begins at the second parameter of the packet before and has that packet's TAIL
  as its command, which no case of the switch takes. `MaxPushed` = 2 stops
  reads from failing without end after enough pushes; a failing read repeats a
  push for ever in the code. `MaxCount` = 2: accepts fail up to the count at
  which threads leave.
  With two connections and all faults there are past 27 million states, so the
  constraint `FewFaults` divides the work: while there is one parse thread
  everything may befall it, and from the second one on the packets are whole,
  no receive fails and the connections stay open. The two threads are explored
  in all orders of their receives, checks, switches and pushes, with overlap and
  with leaving at a count of 2. The safety theorems of section 4 are about all
  faults with any number of threads.
* `MaxCommands` = 4: an object is created, published, replaced and deleted
  within three commands, and the fourth lets one overlap with any of these.
* `data_size` = 5, `CHUNK_SIZE` = 2: two full chunks and a short one, the case
  split of the loop. `Word` = 16 only has to exceed the image, as 2^64 does.
* `MaxRequests` = 2, `MaxCrashes` = 2 (SettingsServer): a stale buffer needs an
  earlier request, and a restart restores what an earlier process saved. The
  three keys are the ones that are treated differently, and one for all the
  others.
* `N_BUF` = 3 (CameraStream) is the value of Common.h:5. Two work threads give
  both an overlap and a use after another: what a third finds is what the
  second left.
* Images and `data.bin` have two halves, enough to tell a torn from a whole one:
  a short frame or a failed write leaves one half or none behind.
* `MaxAsked` = 4 (Battery): a late reply, a reading that takes it, and two
  more that are out of step. `Cuts` = {1, 2, 5, 9}: a byte alone, the least that
  CRC8 survives, a cut in the data, and the whole frame. A second `uart_init`
  opens the line again while the queue holds a reply.
* `MaxAlive` = 2 (Sockets): ownership moves between two objects at most, and a
  third only waits. Three descriptors are what two objects and a connect that
  replaces one of them, or a caller of `release`, can hold. `MaxBytes` = 2: a
  transfer that is complete, short, and nothing. The constraint `LoopAlone`
  leaves out loops beside another object: a loop touches its own object only.

The theorems of section 4 hold without these bounds: they are proved for
arbitrary values of the constants.

`CHECK_DEADLOCK FALSE` stands where a bound on inputs ends the run, where the
program really stops (`error`, `returned`, "finished"), or where a thread is
really blocked (camera, `parse` after its last allowed push).

### Fairness

* `PacketParser`: a parse thread that can run does, and bytes that were sent
  arrive. The thread has nothing to wait for but data; the count it tests after
  each pass, and its exit at 2, are steps of it like the others. No fairness on
  clients or on accepts.
* `Executors`: every executor and the accept loop's start of an executor are
  threads of their own that the kernel schedules; an executor on an empty queue
  sleeps a second and polls again, so weak fairness of its step is what the
  code does. No fairness on clients.
* `WorkThread`: a runnable thread runs up to its `send`. Nothing is assumed
  about who gets a contended mutex: weak fairness is enough since each thread
  takes it only twice. Nothing is assumed about `Send` (a client may stop
  reading), `Start` or the file, and `ImageObtained` is claimed only as long as
  no acquisition has failed, since a failed one keeps the mutex, and no missing
  device has ended the process.
* `Sockets`: a system call that a loop makes returns in the end, and is not
  interrupted for ever. This is an assumption on the peer and the kernel under
  which the loops alone are to blame for not ending; `read_n_r` does not end
  even then.
* Safety runs assume none.

## 4. What is proved

Assumptions are those named in the modules: thread sets are finite, special
values are distinct, bounds are naturals, and the image is shorter than
`size_t`'s range. No theorem depends on the number of threads, connections,
commands, descriptors or bytes.

* `ParseThreadProofs`, of `ConnectionCount`: `TypeCorrect`, `CountIsConserved`, `ExitIsCounted`,
  `SurplusStays`. The count is a sum of cardinalities of sets defined by program
  counters. Each step moves at most one thread in or out of one of them, and
  the finite-set lemmas turn that into plus or minus one. `ExitIsCounted`
  follows: an exiting thread is itself in the sum, so the count is at least 1
  and the clamp has no effect.
* `ParseThreadProofs`, of `PacketParser`: `ParserTypeCorrect`,
  `PushesWholePackets`, `PushesInOrder`, `OnlyRepeats`, for any number of
  connections, packets, commands and parameters, and however `recv` cuts the
  stream. What is on its way on a connection is the rest of the packets sent
  there: every byte is that of a packet of this connection, with the value its
  place has, each is followed by the next of its packet or the first of a later
  one, and the last ends a packet (`StreamInv`). While nothing has failed or
  overlapped, at most one thread is past its receive; if it received five
  bytes, they are such a run, behind all that was pushed and before all that is
  on its way, and only with five does it get past the length check (`HandInv`).
  A run that does not start at a packet's first byte has a TAIL or a command
  where the code wants a HEAD, or the reverse (`Window`); so what is pushed is a
  packet, later than all earlier pushes of the connection (`PushInv`).
  `FailureOnlyRepeats` needs other invariants, since it also holds after a
  failure, and its first half with threads that overlap. While no packet is cut,
  every receive replaces all five bytes by those of one packet, so the buffer,
  what each switch saw of it and what was pushed are each of one packet,
  whichever threads come between a receive, a switch and its push
  (`PacketInv`). Without an overlap at most one thread is between its receive
  and its push (`AloneInv`), so that the buffer is behind all that is on its
  way, what a switch saw is still in the buffer when it is pushed, no pushed
  packet of its connection is later, and once pushed it is the last push
  (`RepeatInv`). That the two markers, the filler value and the commands are
  distinct is used (`ParserAssumption`), as Common.h:11-16 has it; a parameter
  can be any of them.
* `CurrentSocketProofs`: `TypeCorrect`, `DescriptorsOwned`,
  `LoopsMisledByOthers`. The temporaries of the loops and the numbers that
  executors are about to close are connections, each held once and by nobody
  else (`Temporaries`, `Owned`); a loop between its assignment and its second
  test that nobody has disturbed still has the handle it accepted and no error
  (`Trusted`), so that it passes both tests.
* `ExecutorsProofs`: `TypeCorrect`, `NoOverlapNoMisuse`, `LoneExecutorSafe`,
  `ExecutorsImplementService`, `CommandsAreConserved`. The invariant says for
  behaviours without overlap where the one executor that is inside stands:
  before the delete, `current_state` is alive and nothing else is but the new
  object; after it, only the new object is; a joinable thread belongs to the
  object whose handler is running. With one executor there is never an overlap,
  and each step maps to a step or a stutter of `CommandService`. Conservation
  is a count again: an executor enters `Holding` when it shortens the queue and
  leaves it when it lengthens the history.
* `WorkThreadProofs`: `TypeCorrect`, `ImagesWholeAndFresh`, `FailedNeverSends`,
  `FileIsComplete`. The invariant says that a thread between a lock and its
  unlock holds the mutex of its object (`LockInv`), that a failed thread holds
  it for ever (`FailedInv`), that an image nobody is filling is whole unless its
  newer half came with a short frame (`WholeInv`), and that what a thread has
  filled stays at least as new as its acquisition, unless its own frame was
  short (`FillInv`, `FreshInv`), because acquisition numbers are taken under the
  mutex. It does not assume a single object. A thread keeps the pointer it has
  read, so it locks the same object twice. For the file, all that counts is the
  thread that truncated it last: what it has passed is written, by itself or by
  another over it, unless a write of its own failed (`FileInv`).
* `CameraStreamProofs`: `TypeCorrect`, `UndisturbedNoMisuse`,
  `UndisturbedReleased`. While threads have not overlapped and every
  initialisation has mapped `N_BUF` buffers, the open descriptors are those of
  the abandoned streams and those the one thread inside holds by its program
  counter, and likewise the mapped buffers, index by index while they are mapped
  and unmapped (`Holding`). Numbers are new when created, so what a thread holds
  is never among the abandoned. `OpenMxc` starts from nothing held, and the last
  close or a failed STREAMOFF ends with nothing held.
* `ImageSendProofs`: `TypeCorrect`, `BytesInOrder`, `CountersAreRight`,
  `OnlyFailureTruncates`, `FailureReconnects`. Within `write_n` the bytes taken are `offset + nw`,
  and between chunks `offset`. After a failure the counters may be wrapped, but
  the sender is then past the loop, for good (`FailedInv`), and the flag it has
  cleared stays so while no other sender begins (`ClearedInv`).
* `SettingsBatteryProofs`, of `SettingsServer`: `TypeCorrect`, `SavedSettingsAreInMemory`,
  `AddressOfSettings`, `SavedNullIsFatal`. While a request is between saving and
  assigning, the file holds the request in hand and the rest of the object's
  keys are not concerned; a crash there is repaired by the load, which assigns
  the same keys. A file with a null is only in place while the request that
  wrote it is in hand or a start is loading it (`NullInv`).
* `SettingsBatteryProofs`, of `Battery`: `BatteryTypeCorrect`, `OwnReadings`,
  `NeverInStepAgain`, for any set of the fields, any cuts and any number of
  requests. Replies come in the order of the requests, behind what is in the
  queue, and the request in progress is the last of them (`OrderInv`). While all
  is in time and whole, the queue holds a prefix of the reply to the request in
  progress, and the rest of that is all that can still come (`InTime`), so a
  read of one whole reply empties the queue and reads the request's own. Once
  one is late, the oldest reply that is in the queue or on its way belongs to an
  earlier request, and the last one to the request in progress (`StaysBehind`):
  a whole read takes an earlier reply and leaves at least one, so the next
  request finds the line out of step again. `NeverInStepAgain` is an action
  property, proved of each step from this invariant.
* `SocketsProofs`: `TypeCorrect`, `OwnersUnique`, `OnlyShutdownLoses`,
  `OutcomesTrue`. The handles of the objects alive, the one a
  connect is about to replace (`OldInv`), what callers got from `release` and
  what `shutdown` gave up are apart from each other and open, and together are
  all that is open (`OwnInv`, `OpenInv`); a loop has never moved more than it
  was asked for (`LoopInv`).

Only model-checked: the liveness properties (`CommandHeard`, `ImageObtained`,
`LoopReturns`, the liveness part of `ImplementsService`), which are out of the
prover's reach. Every invariant and action property that a passing run checks
is a theorem.

## 5. What is not modelled

* The address classes and exceptions of sockpp: conversions without state. Of
  its sockets, the flags and options of a descriptor, `read_r` and `write_r` by
  themselves (they change no object), and the `recv_from` and binding
  constructor of `datagram_socket`, which are declared and have no body here.
* `FD_SET` with a handle past `FD_SETSIZE` (connector.cpp:105): a program with
  over a thousand open descriptors; the models have three.
* The values of CRC8 and of the data in `Battery`: a test of one of them may come
  out either way.
* The MD5 of the file in the work thread; the formatting of logs and JSON.
* In `CameraStream`: the contents of frames, the order in which the driver
  returns buffers, the memory of `p_dma_buffers` (allocated per stream and
  never freed), a second `PRB_IMG` object, and the reuse of a descriptor number
  after its close: there a second close is the misuse.
* The mutex of a `PRB_IMG` object, which is never initialised (PRB_IMG.h:74-78):
  using it is undefined. The object is larger than 22 MB, so `new` takes it from
  fresh pages that read as zeros, which is a free mutex; `WorkThread` begins with
  that. Likewise, the `exit` of a missing device (PRB_IMG.cpp:63-66, 106-115,
  161-164) is the end of all threads, whichever of these calls it comes from.
* In `SettingsServer` a value of "settings" that is null or no object at all
  (Settings.cpp:335-336, 406-407): json-c iterates over it as undefined
  behaviour. A null for a single key is modelled.
* In `Battery` a device that opens and whose attributes cannot be read or set
  (PowerMonitor.cpp:126, 160): it stays in line mode and without the timeout
  of a second.
* The deletion of `current_state` by the destructor of the handler
  (Mgard300_Handler.cpp:17-19), which only runs when the accept loop has ended.
* NetworkManager: `add_wifi` waits for an answer and logs it, nothing depends on
  it. It is a point in the order of `SettingsServer`.
* In `PacketParser` and `ImageSend`, descriptors as numbers: connections have
  identities there. That a number may be closed twice or given out again
  between the read of a handle and the system call is in `CurrentSocket`.
* The program after the handler is destroyed or after a first memory error.
* `logging-method` is not among the keys that a start restores. This is in the
  model (`Restored`) and excluded from `SavedIsInMemory`.
* A parse thread's scheduling against the executor's start is in `Executors`
  only as `starting`.

## 6. Plan

Done, in this order: counter and accept loop, parser, executors and their
abstract service, work thread, image transfer, configuration service, camera;
the sockets of sockpp, `current_socket` and its descriptors, the battery
monitor; the theorems of section 4.

Left, in order:

1. A composed `Server`: accept loops, parse threads, executors and senders with
   their shared socket and counter, to check that what each module assumes of
   the others is what the others do.
2. The CRC-8 of `PowerMonitor` against its polynomial, and the MD5 of a file
   whose length is not a multiple of the buffer.
