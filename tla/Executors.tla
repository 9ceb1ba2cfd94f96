----------------------------- MODULE Executors ------------------------------
(***************************************************************************)
(* From q_execute_cmd to DET_State::handle.  Every accepted connection     *)
(* starts one more execute_cmd_thread and none of them ever ends: they all *)
(* pop the same queue (under connection_mutex) and drive the same pointer  *)
(* current_state through transition_to_state, which takes no lock.  Each   *)
(* access to current_state is a step of its own here.                      *)
(*                                                                         *)
(* State objects are numbered in the order of their allocation.  After the *)
(* first memory error the behaviour of the program is undefined and the    *)
(* model stops.                                                            *)
(***************************************************************************)
EXTENDS Naturals, Sequences, FiniteSets

CONSTANTS
  Executors,     \* execute_cmd_thread instances, one per connection
  Commands,      \* the DET_STATE_xxx commands
  WORK,          \* DET_STATE_WORK, the one whose handler starts a thread
  MaxCommands    \* bound: commands put on the queue

ASSUME ExecutorAssumption ==
  /\ IsFiniteSet(Executors)
  /\ WORK \in Commands
  /\ MaxCommands \in Nat

VARIABLES
  starting,        \* the accept loop has started a parse thread, not yet its executor
  connections,     \* connections accepted
  submits,         \* commands pushed so far, for the bound
  q_execute_cmd,
  epc,             \* where each executor stands
  cmd,             \* the command each executor has popped
  new_state,       \* argument of transition_to_state, per executor
  current_state,   \* object number, 0 for nullptr
  kind,            \* history: the command behind each object allocated
  freed,           \* objects deleted
  joinable,        \* WorkState objects whose thread is not yet detached
  handled,         \* history: commands whose handle() has run
  error,           \* first memory error
  overlapped       \* history: two executors were in a transition at a time

object == <<current_state, kind, freed, joinable>>
vars == <<starting, connections, submits, q_execute_cmd, epc, cmd, new_state,
          object, handled, error, overlapped>>

None == 0

(* Ids of the state objects. *)
Objects == 1..Len(kind)

Init ==
  /\ starting = FALSE
  /\ connections = 0
  /\ submits = 0
  /\ q_execute_cmd = <<>>
  /\ epc = [e \in Executors |-> "unborn"]
  /\ cmd = [e \in Executors |-> WORK]
  /\ new_state = [e \in Executors |-> None]
  /\ current_state = None
  /\ kind = <<>>
  /\ freed = {}
  /\ joinable = {}
  /\ handled = <<>>
  /\ error = "none"
  /\ overlapped = FALSE

-----------------------------------------------------------------------------
(* handle_connections: the old executor is in tm_ but detached, hence not  *)
(* joinable, and close_all_threads leaves it running.                      *)
Accept ==
  /\ error = "none"
  /\ ~starting /\ connections < Cardinality(Executors)
  /\ starting' = TRUE
  /\ connections' = connections + 1
  /\ UNCHANGED <<submits, q_execute_cmd, epc, cmd, new_state, object, handled,
                 error>>

(* start_thread_checkstate_thread *)
StartExecutor(e) ==
  /\ error = "none"
  /\ starting /\ epc[e] = "unborn"
  /\ starting' = FALSE
  /\ epc' = [epc EXCEPT ![e] = "get_state"]
  /\ UNCHANGED <<connections, submits, q_execute_cmd, cmd, new_state, object,
                 handled, error>>

(* Faulty variant: only the newest command is kept. *)
SetStateReplaces(c) ==
  /\ error = "none"
  /\ connections > 0 /\ submits < MaxCommands
  /\ submits' = submits + 1
  /\ q_execute_cmd' = <<c>>
  /\ UNCHANGED <<starting, connections, epc, cmd, new_state, object, handled,
                 error>>

(* set_state, from a parse thread. *)
SetState(c) ==
  /\ error = "none"
  /\ connections > 0 /\ submits < MaxCommands
  /\ submits' = submits + 1
  /\ q_execute_cmd' = Append(q_execute_cmd, c)
  /\ UNCHANGED <<starting, connections, epc, cmd, new_state, object, handled,
                 error>>

-----------------------------------------------------------------------------
Goto(e, from, to) ==
  /\ error = "none"
  /\ epc[e] = from
  /\ epc' = [epc EXCEPT ![e] = to]
  /\ UNCHANGED <<starting, connections, submits>>

(* Faulty variant: the newest command is taken first. *)
GetNewest(e) ==
  /\ Goto(e, "get_state", "new")
  /\ q_execute_cmd # <<>>
  /\ cmd' = [cmd EXCEPT ![e] = q_execute_cmd[Len(q_execute_cmd)]]
  /\ q_execute_cmd' = SubSeq(q_execute_cmd, 1, Len(q_execute_cmd) - 1)
  /\ UNCHANGED <<new_state, object, handled, error>>

(* get_state: front and pop under the lock; on an empty queue the thread   *)
(* sleeps and tries again.                                                 *)
GetState(e) ==
  /\ Goto(e, "get_state", "new")
  /\ q_execute_cmd # <<>>
  /\ cmd' = [cmd EXCEPT ![e] = Head(q_execute_cmd)]
  /\ q_execute_cmd' = Tail(q_execute_cmd)
  /\ UNCHANGED <<new_state, object, handled, error>>

(* Faulty variant: the pointer is used though nothing was allocated. *)
NewStateFails(e) ==
  /\ Goto(e, "new", "test")
  /\ new_state' = [new_state EXCEPT ![e] = Len(kind) + 1]
  /\ UNCHANGED <<q_execute_cmd, cmd, object, handled, error>>

(* The argument new XxxState() of the call. *)
NewState(e) ==
  /\ Goto(e, "new", "test")
  /\ kind' = Append(kind, cmd[e])
  /\ new_state' = [new_state EXCEPT ![e] = Len(kind) + 1]
  /\ UNCHANGED <<q_execute_cmd, cmd, current_state, freed, joinable, handled,
                 error>>

(* if (current_state != nullptr) *)
TestState(e) ==
  /\ \/ current_state # None /\ Goto(e, "test", "delete")
     \/ current_state = None /\ Goto(e, "test", "assign")
  /\ UNCHANGED <<q_execute_cmd, cmd, new_state, object, handled, error>>

(* delete current_state; the object of a WORK whose thread is still        *)
(* joinable takes the process down with it.                                *)
DeleteState(e) ==
  /\ Goto(e, "delete", "assign")
  /\ \/ /\ current_state \notin freed \cup joinable
        /\ freed' = freed \cup {current_state}
        /\ UNCHANGED error
     \/ /\ current_state \in freed
        /\ error' = "double free"
        /\ UNCHANGED freed
     \/ /\ current_state \in joinable \ freed
        /\ error' = "terminate"
        /\ UNCHANGED freed
  /\ UNCHANGED <<q_execute_cmd, cmd, new_state, current_state, kind, joinable,
                 handled>>

(* Faulty variant: the assignment belongs to the null branch only. *)
AssignOnlyFirst(e) ==
  /\ Goto(e, "assign", "handle")
  /\ current_state' = IF current_state = None THEN new_state[e] ELSE current_state
  /\ UNCHANGED <<q_execute_cmd, cmd, new_state, kind, freed, joinable, handled,
                 error>>

AssignState(e) ==
  /\ Goto(e, "assign", "handle")
  /\ current_state' = new_state[e]
  /\ UNCHANGED <<q_execute_cmd, cmd, new_state, kind, freed, joinable, handled,
                 error>>

(* The call current_state->handle reads the pointer once more, and what    *)
(* runs is the handler of the object it points to by then.                 *)
HandleState(e) ==
  /\ epc[e] = "handle"
  /\ \/ /\ current_state \in freed
        /\ Goto(e, "handle", "handle")
        /\ error' = "use after free"
        /\ UNCHANGED <<new_state, handled>>
     \/ /\ current_state \notin freed
        /\ Goto(e, "handle",
                IF kind[current_state] = WORK THEN "spawn" ELSE "get_state")
        /\ new_state' = [new_state EXCEPT ![e] = current_state]
        /\ handled' = Append(handled, kind[current_state])
        /\ UNCHANGED error
  /\ UNCHANGED <<q_execute_cmd, cmd, object>>

(* WorkState::handle: work_thread = std::thread(...) writes to the object  *)
(* and terminates the process if the member still owns a thread.           *)
SpawnWork(e) ==
  /\ Goto(e, "spawn", "detach")
  /\ \/ /\ new_state[e] \in freed
        /\ error' = "use after free"
        /\ UNCHANGED joinable
     \/ /\ new_state[e] \in joinable
        /\ error' = "terminate"
        /\ UNCHANGED joinable
     \/ /\ new_state[e] \notin freed \cup joinable
        /\ joinable' = joinable \cup {new_state[e]}
        /\ UNCHANGED error
  /\ UNCHANGED <<q_execute_cmd, cmd, new_state, current_state, kind, freed,
                 handled>>

(* work_thread.detach(); while it is joinable the object cannot be deleted *)
(* without ending the process.                                             *)
DetachWork(e) ==
  /\ Goto(e, "detach", "get_state")
  /\ joinable' = joinable \ {new_state[e]}
  /\ UNCHANGED <<q_execute_cmd, cmd, new_state, current_state, kind, freed,
                 handled, error>>

ExecutorStep(e) ==
  \/ GetState(e) \/ NewState(e) \/ TestState(e) \/ DeleteState(e)
  \/ AssignState(e) \/ HandleState(e) \/ SpawnWork(e) \/ DetachWork(e)

(* Executors inside transition_to_state, the handler it calls included. *)
Inside == {e \in Executors : epc[e] \in {"test", "delete", "assign", "handle",
                                         "spawn", "detach"}}
Overlap == \E d, e \in Inside : d # e

Record == overlapped' = (overlapped \/ Overlap')

StartSome == \E e \in Executors : StartExecutor(e)

Next ==
  /\ \/ Accept
     \/ StartSome
     \/ \E c \in Commands : SetState(c)
     \/ \E e \in Executors : ExecutorStep(e)
  /\ Record

Spec == Init /\ [][Next]_vars

(* The accept loop and the executors are threads of their own. *)
FairSpec ==
  /\ Spec
  /\ WF_vars(StartSome /\ Record)
  /\ \A e \in Executors : WF_vars(ExecutorStep(e) /\ Record)

-----------------------------------------------------------------------------
EPC == {"unborn", "get_state", "new", "test", "delete", "assign", "handle",
        "spawn", "detach"}

(* Type invariant of the queue, the executors and the state objects. *)
TypeOK ==
  /\ starting \in BOOLEAN
  /\ connections \in Nat /\ submits \in Nat
  /\ q_execute_cmd \in Seq(Commands)
  /\ epc \in [Executors -> EPC]
  /\ cmd \in [Executors -> Commands]
  /\ new_state \in [Executors -> Objects \cup {None}]
  /\ current_state \in Objects \cup {None}
  /\ kind \in Seq(Commands)
  /\ freed \subseteq Objects
  /\ joinable \subseteq Objects
  /\ handled \in Seq(Commands)
  /\ error \in {"none", "double free", "use after free", "terminate"}
  /\ overlapped \in BOOLEAN

(* No state object is deleted twice, used after its deletion, or deleted   *)
(* while it still owns a running thread (Mgard300_Handler.cpp:181-187      *)
(* tests, deletes, assigns and calls without a lock).                      *)
MemorySafe == error = "none"

(* Objects an executor has allocated and not yet published. *)
InHand == {new_state[e] : e \in {x \in Executors :
                                   epc[x] \in {"test", "delete", "assign"}}}

(* Nothing leaks: an object not deleted is current_state or still on its   *)
(* way there.                                                              *)
NoLeak == Objects \ freed \subseteq InHand \cup {current_state}

(* With several executors the above fails, but only because transitions    *)
(* overlap: as long as no two executors are between the test of            *)
(* current_state and the end of the handler at a time, no object is        *)
(* misused and none leaks.  One lock held over transition_to_state would   *)
(* be enough; connection_mutex, which the handlers take, is not held there. *)
SafeUnlessOverlapped == ~overlapped => MemorySafe /\ NoLeak

(* No command is lost or carried out twice between the queue and the       *)
(* handlers, however many executors pop the queue: every command pushed is *)
(* queued, in the hands of one executor, or has led to one handler call.   *)
(* Which handler ran is another matter once transitions overlap.           *)
Holding == {e \in Executors :
              epc[e] \in {"new", "test", "delete", "assign", "handle"}}
CommandsConserved ==
  Len(q_execute_cmd) + Cardinality(Holding) + Len(handled) = submits

(* The executors implement CommandService: the pending commands are the    *)
(* one that the executor of the first connection has popped and not yet    *)
(* handled, then the queue, until a second executor has been started.      *)
Born == {e \in Executors : epc[e] # "unborn"}
Shared == \E d, e \in Born : d # e
Popped ==
  LET holder == CHOOSE x \in Holding : TRUE
  IN IF Holding = {} THEN <<>> ELSE <<cmd[holder]>>

Service == INSTANCE CommandService
             WITH pending <- IF Shared THEN <<>> ELSE Popped \o q_execute_cmd,
                  done <- IF Shared THEN <<>> ELSE handled,
                  shared <- Shared

ImplementsService == Service!Spec

=============================================================================
