-------------------------- MODULE ExecutorsProofs ---------------------------
(***************************************************************************)
(* For any set of executors: transitions that do not overlap never misuse  *)
(* a state object and never leak one.  For the executor of a single        *)
(* connection: memory safety without a condition, and the implementation   *)
(* of CommandService.                                                      *)
(***************************************************************************)
EXTENDS Executors, FiniteSetTheorems, TLAPS

(* Queue operations stay within sequences of commands. *)
LEMMA QueueTypes ==
  ASSUME NEW S, NEW s \in Seq(S)
  PROVE  /\ \A c \in S : Append(s, c) \in Seq(S) /\ Len(Append(s, c)) = Len(s) + 1
         /\ Len(s) \in Nat
         /\ s # <<>> => Head(s) \in S /\ Tail(s) \in Seq(S)
         /\ \A i \in 1..Len(s) : s[i] \in S
         /\ \A c \in S : Append(s, c)[Len(s) + 1] = c
  OBVIOUS

(* The last element of an appended sequence, and the length of a tail. *)
LEMMA AppendedLast ==
  ASSUME NEW S, NEW s \in Seq(S), NEW c \in S
  PROVE  Append(s, c)[Len(s) + 1] = c
  BY QueueTypes

LEMMA TailLength ==
  ASSUME NEW S, NEW s \in Seq(S), s # <<>>
  PROVE  Len(Tail(s)) = Len(s) - 1
  OBVIOUS

(* The number of the next object is not in use. *)
LEMMA NextIsNew == \A n \in Nat : n + 1 \notin 1..n /\ n + 1 # 0
  OBVIOUS

-----------------------------------------------------------------------------
(* What TypeOK needs to be inductive: an executor that carries an object   *)
(* has one, and current_state has been assigned by the time it is used.    *)
PointersSet ==
  \A e \in Executors :
    /\ epc[e] \in {"test", "delete", "assign", "spawn", "detach"} =>
         new_state[e] # None
    /\ epc[e] \in {"delete", "handle", "spawn", "detach"} =>
         current_state # None

TypeInv == TypeOK /\ PointersSet

LEMMA TypeInit == Init => TypeInv
<1> SUFFICES ASSUME Init PROVE TypeInv
  OBVIOUS
<1>1. starting \in BOOLEAN /\ overlapped \in BOOLEAN
  BY Zenon DEF Init
<1>2. kind \in Seq(Commands) /\ handled \in Seq(Commands)
        /\ q_execute_cmd \in Seq(Commands)
  BY DEF Init
<1>3. /\ epc \in [Executors -> EPC] /\ cmd \in [Executors -> Commands]
      /\ new_state \in [Executors -> Objects \cup {None}]
  BY ExecutorAssumption DEF Init, EPC
<1>4. PointersSet
  BY DEF Init, PointersSet
<1>5. QED
  BY <1>1, <1>2, <1>3, <1>4 DEF Init, TypeOK, TypeInv

(* Steps of the accept loop and of the parse threads. *)
LEMMA TypeEnvironment ==
  ASSUME TypeInv,
         Record,
         Accept \/ StartSome \/ (\E c \in Commands : SetState(c))
  PROVE  TypeInv'
<1>0. overlapped' \in BOOLEAN
  BY Zenon DEF Record, TypeInv, TypeOK, Overlap
<1>1. CASE Accept
  <2>1. starting' \in BOOLEAN
    BY <1>1, Zenon DEF Accept
  <2>2. QED
    BY <1>0, <1>1, <2>1
    DEF Accept, object, TypeInv, TypeOK, PointersSet, Objects
<1>2. ASSUME NEW e \in Executors, StartExecutor(e)
      PROVE  TypeInv'
  <2>1. starting' \in BOOLEAN
    BY <1>2, Zenon DEF StartExecutor
  <2>2. QED
    BY <1>0, <1>2, <2>1
    DEF StartExecutor, object, TypeInv, TypeOK, PointersSet, Objects, EPC
<1>3. ASSUME NEW c \in Commands, SetState(c)
      PROVE  TypeInv'
  <2>1. starting' \in BOOLEAN
    BY <1>3, Zenon DEF SetState, TypeInv, TypeOK
  <2>2. QED
    BY <1>0, <1>3, <2>1
    DEF SetState, object, TypeInv, TypeOK, PointersSet, Objects
<1>4. QED
  BY <1>1, <1>2, <1>3 DEF StartSome

(* Steps of an executor. *)
LEMMA TypeExecutor ==
  ASSUME TypeInv, Record, NEW e \in Executors, ExecutorStep(e)
  PROVE  TypeInv'
<1>0. starting' \in BOOLEAN /\ overlapped' \in BOOLEAN
  <2>1. starting' = starting
    BY DEF ExecutorStep, GetState, NewState, TestState, DeleteState,
       AssignState, HandleState, SpawnWork, DetachWork, Goto
  <2>2. QED
    BY <2>1, Zenon DEF TypeInv, TypeOK, Record, Overlap
<1> USE <1>0 DEF Goto, EPC, TypeInv
<1>1. CASE GetState(e)
  BY <1>1 DEF GetState, object, TypeOK, PointersSet, Objects
<1>2. CASE NewState(e)
  <2>1. /\ kind' \in Seq(Commands)
        /\ Objects \subseteq Objects'
        /\ Len(kind) + 1 \in Objects'
        /\ Len(kind) + 1 # None
    BY <1>2 DEF NewState, TypeOK, Objects, None
  <2>2. TypeOK'
    BY <1>2, <2>1 DEF NewState, TypeOK
  <2>3. PointersSet'
    BY <1>2, <2>1 DEF NewState, TypeOK, PointersSet
  <2>4. QED
    BY <2>2, <2>3
<1>3. CASE TestState(e)
  BY <1>3 DEF TestState, object, TypeOK, PointersSet, Objects
<1>4. CASE DeleteState(e)
  <2>1. Objects' = Objects /\ current_state \in Objects
    BY <1>4 DEF DeleteState, Objects, TypeOK, PointersSet
  <2>2. freed' \subseteq Objects'
    BY <1>4, <2>1 DEF DeleteState, TypeOK
  <2>3. error' \in {"none", "double free", "use after free", "terminate"}
    BY <1>4 DEF DeleteState, TypeOK
  <2>4. QED
    BY <1>4, <2>1, <2>2, <2>3 DEF DeleteState, TypeOK, PointersSet
<1>5. CASE AssignState(e)
  BY <1>5 DEF AssignState, TypeOK, PointersSet, Objects
<1>6. CASE HandleState(e)
  <2>0. current_state \in Objects
    BY <1>6 DEF HandleState, TypeOK, PointersSet
  <2>1. kind[current_state] \in Commands
    BY <2>0, QueueTypes DEF TypeOK, Objects
  <2>2. Objects' = Objects /\ UNCHANGED <<q_execute_cmd, cmd, object>>
    BY <1>6 DEF HandleState, object, Objects
  <2>3. CASE current_state \in freed
    <3>1. error' = "use after free" /\ UNCHANGED <<new_state, handled, epc>>
      BY <1>6, <2>3 DEF HandleState, TypeOK
    <3>2. QED
      BY <1>6, <2>2, <2>3, <3>1 DEF HandleState, object, TypeOK, PointersSet
  <2>4. CASE current_state \notin freed
    <3>1. /\ new_state' = [new_state EXCEPT ![e] = current_state]
          /\ handled' = Append(handled, kind[current_state])
          /\ UNCHANGED error
      BY <1>6, <2>4 DEF HandleState
    <3>2. handled' \in Seq(Commands)
      BY <2>1, <3>1, QueueTypes DEF TypeOK
    <3>3. PICK to \in {"spawn", "get_state"} : epc' = [epc EXCEPT ![e] = to]
      BY <1>6, <2>4 DEF HandleState
    <3>4. TypeOK'
      <4>1. UNCHANGED <<connections, submits>>
        BY <1>6, <2>4 DEF HandleState
      <4>2. /\ new_state' \in [Executors -> Objects' \cup {None}]
            /\ epc' \in [Executors -> EPC]
        BY <2>0, <2>2, <3>1, <3>3 DEF TypeOK
      <4>3. UNCHANGED <<current_state, kind, freed, joinable, q_execute_cmd, cmd>>
        BY <2>2 DEF object
      <4>4. /\ freed' \subseteq Objects' /\ joinable' \subseteq Objects'
            /\ current_state' \in Objects' \cup {None}
        BY <2>2, <4>3 DEF TypeOK
      <4>5. QED
        BY <3>1, <3>2, <4>1, <4>2, <4>3, <4>4 DEF TypeOK
    <3>5. PointersSet'
      <4>1. current_state # None /\ UNCHANGED current_state
        BY <1>6, <2>2 DEF HandleState, PointersSet, object
      <4>2. QED
        BY <3>1, <3>3, <4>1 DEF TypeOK, PointersSet
    <3>6. QED
      BY <3>4, <3>5
  <2>5. QED
    BY <2>3, <2>4
<1>7. CASE SpawnWork(e)
  <2>1. Objects' = Objects /\ new_state[e] \in Objects
    BY <1>7 DEF SpawnWork, Objects, TypeOK, PointersSet
  <2>2. joinable' \subseteq Objects'
    BY <1>7, <2>1 DEF SpawnWork, TypeOK
  <2>3. error' \in {"none", "double free", "use after free", "terminate"}
    BY <1>7 DEF SpawnWork, TypeOK
  <2>4. QED
    BY <1>7, <2>1, <2>2, <2>3 DEF SpawnWork, TypeOK, PointersSet
<1>8. CASE DetachWork(e)
  BY <1>8 DEF DetachWork, TypeOK, PointersSet, Objects
<1>9. QED
  BY <1>1, <1>2, <1>3, <1>4, <1>5, <1>6, <1>7, <1>8 DEF ExecutorStep

LEMMA TypeStep == TypeInv /\ [Next]_vars => TypeInv'
<1>1. TypeInv /\ Next => TypeInv'
  BY TypeEnvironment, TypeExecutor DEF Next
<1>2. TypeInv /\ UNCHANGED vars => TypeInv'
  BY DEF vars, object, TypeInv, TypeOK, PointersSet, Objects
<1>3. QED
  BY <1>1, <1>2

(* The type invariant of Executors, for any number of executors: object    *)
(* numbers always denote objects that were allocated.                      *)
THEOREM TypeCorrect == Spec => []TypeOK
<1>1. TypeInv => TypeOK
  BY DEF TypeInv
<1>2. QED
  BY <1>1, TypeInit, TypeStep, PTL DEF Spec

-----------------------------------------------------------------------------
(* What holds as long as no two transitions have overlapped: the dangling  *)
(* current_state is seen by nobody but the executor about to replace it,   *)
(* the object in hand is fresh, and only an executor between the start of  *)
(* its work thread and the detach owns a joinable one.                     *)
OneInside == \A d, e \in Inside : d = e
DanglingReplaced ==
  current_state \in freed => \E e \in Executors : epc[e] = "assign"
JoinableOwned ==
  \A o \in joinable :
    \E e \in Executors : epc[e] = "detach" /\ new_state[e] = o
HandFresh ==
  \A e \in Executors :
    /\ epc[e] \in {"test", "delete", "assign"} =>
         new_state[e] \notin freed \cup joinable \cup {current_state}
    /\ epc[e] \in {"spawn", "detach"} => new_state[e] = current_state
    /\ epc[e] = "assign" => current_state \in freed \cup {None}
Reachable ==
  \A o \in Objects \ freed :
    \/ o = current_state
    \/ \E e \in Executors :
         epc[e] \in {"test", "delete", "assign"} /\ new_state[e] = o

Quiet ==
  /\ error = "none"
  /\ OneInside /\ DanglingReplaced /\ JoinableOwned /\ HandFresh /\ Reachable

SafeInv == ~overlapped => Quiet

(* The executor that steps is the only one inside a transition. *)
LEMMA Alone ==
  ASSUME TypeInv, Quiet, ~Overlap',
         NEW e \in Executors, ExecutorStep(e), ~GetState(e)
  PROVE  \A d \in Executors \ {e} : d \notin Inside /\ epc'[d] = epc[d]
<1>1. \A d \in Executors \ {e} : epc'[d] = epc[d]
  BY DEF ExecutorStep, NewState, TestState, DeleteState, AssignState,
     HandleState, SpawnWork, DetachWork, Goto, TypeInv, TypeOK
<1>2. e \in Inside \/ e \in Inside'
  BY DEF ExecutorStep, NewState, TestState, DeleteState, AssignState,
     HandleState, SpawnWork, DetachWork, Goto, TypeInv, TypeOK, Inside
<1>3. CASE e \in Inside
  BY <1>1, <1>3 DEF Quiet, OneInside
<1>4. CASE e \in Inside'
  BY <1>1, <1>4 DEF Overlap, Inside
<1>5. QED
  BY <1>1, <1>2, <1>3, <1>4

LEMMA QuietExecutor ==
  ASSUME TypeInv, Quiet, ~Overlap', NEW e \in Executors, ExecutorStep(e)
  PROVE  Quiet'
<1> USE DEF TypeInv, TypeOK, Goto
<1>1. CASE GetState(e)
  <2>1. /\ epc[e] = "get_state" /\ epc'[e] = "new"
        /\ \A d \in Executors \ {e} : epc'[d] = epc[d]
        /\ UNCHANGED <<current_state, kind, freed, joinable, new_state, error>>
    BY <1>1 DEF GetState, object
  <2>2. Inside' = Inside /\ Objects' = Objects
    BY <2>1 DEF Inside, Objects
  <2>3. DanglingReplaced' /\ JoinableOwned' /\ HandFresh'
    BY <2>1 DEF Quiet, DanglingReplaced, JoinableOwned, HandFresh
  <2>4. OneInside' /\ Reachable'
    BY <2>1, <2>2 DEF Quiet, OneInside, Reachable
  <2>5. QED
    BY <2>1, <2>3, <2>4 DEF Quiet
<1>2. CASE ~GetState(e)
  <2>1. \A d \in Executors \ {e} : d \notin Inside /\ epc'[d] = epc[d]
    BY <1>2, Alone
  <2>2. \A d \in Executors \ {e} : new_state'[d] = new_state[d]
    BY <1>2 DEF ExecutorStep, NewState, TestState, DeleteState, AssignState,
       HandleState, SpawnWork, DetachWork
  <2>3. OneInside'
    BY DEF Overlap, OneInside
  <2>4. CASE NewState(e)
    <3>1. error' = "none"
      BY <2>1, <2>4
      DEF NewState, Quiet, DanglingReplaced, JoinableOwned, HandFresh, Inside
    <3>2. DanglingReplaced'
      BY <2>1, <2>4
      DEF NewState, Quiet, DanglingReplaced, JoinableOwned, HandFresh,
         PointersSet, Inside, Objects
    <3>3. JoinableOwned'
      BY <2>1, <2>2, <2>4 DEF NewState, Quiet, JoinableOwned, Inside
    <3>4. HandFresh'
      <4>1. Len(kind) + 1 \notin freed \cup joinable \cup {current_state}
        <5>1. Len(kind) \in Nat
          BY QueueTypes
        <5>2. Len(kind) + 1 \notin Objects \cup {None}
          BY <5>1, NextIsNew DEF Objects, None
        <5>3. freed \subseteq Objects /\ joinable \subseteq Objects
                /\ current_state \in Objects \cup {None}
          OBVIOUS
        <5>4. QED
          BY <5>2, <5>3
      <4>2. /\ epc'[e] = "test" /\ new_state'[e] = Len(kind) + 1
            /\ UNCHANGED <<current_state, freed, joinable>>
        BY <2>4 DEF NewState
      <4>3. QED
        BY <2>1, <4>1, <4>2 DEF HandFresh, Inside
    <3>5. Reachable'
      BY <2>1, <2>2, <2>4
      DEF NewState, Quiet, Reachable, HandFresh, PointersSet, Inside,
         Objects
    <3>6. QED
      BY <2>3, <3>1, <3>2, <3>3, <3>4, <3>5 DEF Quiet
  <2>5. CASE TestState(e)
    <3>1. error' = "none"
      BY <2>1, <2>5
      DEF TestState, object, Quiet, DanglingReplaced, JoinableOwned, HandFresh,
          Inside
    <3>2. DanglingReplaced'
      BY <2>1, <2>5
      DEF TestState, object, Quiet, DanglingReplaced, JoinableOwned, HandFresh,
         PointersSet, Inside, Objects
    <3>3. JoinableOwned'
      BY <2>1, <2>2, <2>5 DEF TestState, object, Quiet, JoinableOwned, Inside
    <3>4. HandFresh'
      BY <2>1, <2>2, <2>5
      DEF TestState, object, Quiet, DanglingReplaced, JoinableOwned, HandFresh,
         PointersSet, Inside, Objects
    <3>5. Reachable'
      BY <2>1, <2>2, <2>5
      DEF TestState, object, Quiet, Reachable, HandFresh, PointersSet, Inside,
         Objects
    <3>6. QED
      BY <2>3, <3>1, <3>2, <3>3, <3>4, <3>5 DEF Quiet
  <2>6. CASE DeleteState(e)
    <3>1. error' = "none"
      BY <2>1, <2>6
      DEF DeleteState, Quiet, DanglingReplaced, JoinableOwned, HandFresh, Inside
    <3>2. DanglingReplaced'
      BY <2>1, <2>6
      DEF DeleteState, Quiet, DanglingReplaced, JoinableOwned, HandFresh,
         PointersSet, Inside, Objects
    <3>3. JoinableOwned'
      BY <2>1, <2>2, <2>6 DEF DeleteState, Quiet, JoinableOwned, Inside
    <3>4. HandFresh'
      BY <2>1, <2>2, <2>6
      DEF DeleteState, Quiet, DanglingReplaced, JoinableOwned, HandFresh,
         PointersSet, Inside, Objects
    <3>5. Reachable'
      BY <2>1, <2>2, <2>6
      DEF DeleteState, Quiet, Reachable, HandFresh, PointersSet, Inside,
         Objects
    <3>6. QED
      BY <2>3, <3>1, <3>2, <3>3, <3>4, <3>5 DEF Quiet
  <2>7. CASE AssignState(e)
    <3>1. error' = "none"
      BY <2>1, <2>7
      DEF AssignState, Quiet, DanglingReplaced, JoinableOwned, HandFresh, Inside
    <3>2. DanglingReplaced'
      BY <2>1, <2>7
      DEF AssignState, Quiet, DanglingReplaced, JoinableOwned, HandFresh,
         PointersSet, Inside, Objects
    <3>3. JoinableOwned'
      BY <2>1, <2>2, <2>7 DEF AssignState, Quiet, JoinableOwned, Inside
    <3>4. HandFresh'
      BY <2>1, <2>2, <2>7
      DEF AssignState, Quiet, DanglingReplaced, JoinableOwned, HandFresh,
         PointersSet, Inside, Objects
    <3>5. Reachable'
      <4>1. /\ epc[e] = "assign" /\ current_state' = new_state[e]
            /\ UNCHANGED <<kind, freed>> /\ Objects' = Objects
        BY <2>7 DEF AssignState, Objects
      <4>2. current_state \in freed \cup {None}
        BY <4>1 DEF Quiet, HandFresh
      <4>3. \A o \in Objects \ freed : o = new_state[e]
        BY <2>1, <4>2 DEF Quiet, Reachable, Inside, Objects, None
      <4>4. QED
        BY <4>1, <4>3 DEF Reachable
    <3>6. QED
      BY <2>3, <3>1, <3>2, <3>3, <3>4, <3>5 DEF Quiet
  <2>8. CASE HandleState(e)
    <3>1. error' = "none"
      BY <2>1, <2>8
      DEF HandleState, object, Quiet, DanglingReplaced, JoinableOwned,
          HandFresh, Inside
    <3>2. DanglingReplaced'
      BY <2>1, <2>8
      DEF HandleState, object, Quiet, DanglingReplaced, JoinableOwned,
          HandFresh,
         PointersSet, Inside, Objects
    <3>3. JoinableOwned'
      BY <2>1, <2>2, <2>8 DEF HandleState, object, Quiet, JoinableOwned, Inside
    <3>4. HandFresh'
      BY <2>1, <2>2, <2>8
      DEF HandleState, object, Quiet, DanglingReplaced, JoinableOwned,
          HandFresh,
         PointersSet, Inside, Objects
    <3>5. Reachable'
      BY <2>1, <2>2, <2>8
      DEF HandleState, object, Quiet, Reachable, HandFresh, PointersSet, Inside,
         Objects
    <3>6. QED
      BY <2>3, <3>1, <3>2, <3>3, <3>4, <3>5 DEF Quiet
  <2>9. CASE SpawnWork(e)
    <3>1. error' = "none"
      BY <2>1, <2>9
      DEF SpawnWork, Quiet, DanglingReplaced, JoinableOwned, HandFresh, Inside
    <3>2. DanglingReplaced'
      BY <2>1, <2>9
      DEF SpawnWork, Quiet, DanglingReplaced, JoinableOwned, HandFresh,
         PointersSet, Inside, Objects
    <3>3. JoinableOwned'
      BY <2>1, <2>2, <2>9 DEF SpawnWork, Quiet, JoinableOwned, Inside
    <3>4. HandFresh'
      BY <2>1, <2>2, <2>9
      DEF SpawnWork, Quiet, DanglingReplaced, JoinableOwned, HandFresh,
         PointersSet, Inside, Objects
    <3>5. Reachable'
      BY <2>1, <2>2, <2>9
      DEF SpawnWork, Quiet, Reachable, HandFresh, PointersSet, Inside,
         Objects
    <3>6. QED
      BY <2>3, <3>1, <3>2, <3>3, <3>4, <3>5 DEF Quiet
  <2>10. CASE DetachWork(e)
    <3>1. error' = "none"
      BY <2>1, <2>10
      DEF DetachWork, Quiet, DanglingReplaced, JoinableOwned, HandFresh, Inside
    <3>2. DanglingReplaced'
      BY <2>1, <2>10
      DEF DetachWork, Quiet, DanglingReplaced, JoinableOwned, HandFresh,
         PointersSet, Inside, Objects
    <3>3. JoinableOwned'
      BY <2>1, <2>2, <2>10 DEF DetachWork, Quiet, JoinableOwned, Inside
    <3>4. HandFresh'
      BY <2>1, <2>2, <2>10
      DEF DetachWork, Quiet, DanglingReplaced, JoinableOwned, HandFresh,
         PointersSet, Inside, Objects
    <3>5. Reachable'
      BY <2>1, <2>2, <2>10
      DEF DetachWork, Quiet, Reachable, HandFresh, PointersSet, Inside,
         Objects
    <3>6. QED
      BY <2>3, <3>1, <3>2, <3>3, <3>4, <3>5 DEF Quiet
  <2>11. QED
    BY <1>2, <2>4, <2>5, <2>6, <2>7, <2>8, <2>9, <2>10 DEF ExecutorStep
<1>3. QED
  BY <1>1, <1>2

LEMMA QuietEnvironment ==
  ASSUME TypeInv, Quiet, ~Overlap',
         Accept \/ StartSome \/ (\E c \in Commands : SetState(c))
  PROVE  Quiet'
<1>1. UNCHANGED <<current_state, kind, freed, joinable, new_state, error>>
  BY DEF Accept, StartSome, StartExecutor, SetState, object
<1>2. \A e \in Executors :
        \/ epc'[e] = epc[e]
        \/ epc[e] = "unborn" /\ epc'[e] = "get_state"
  BY DEF Accept, StartSome, StartExecutor, SetState, TypeInv, TypeOK
<1>3. Inside' = Inside /\ Objects' = Objects
  BY <1>1, <1>2 DEF Inside, Objects
<1>4. DanglingReplaced' /\ JoinableOwned' /\ HandFresh'
  BY <1>1, <1>2 DEF Quiet, DanglingReplaced, JoinableOwned, HandFresh
<1>5. OneInside' /\ Reachable'
  BY <1>1, <1>2, <1>3 DEF Quiet, OneInside, Reachable
<1>6. QED
  BY <1>1, <1>4, <1>5 DEF Quiet

LEMMA SafeInit == Init => SafeInv
<1> SUFFICES ASSUME Init PROVE Quiet
  BY DEF SafeInv
<1>1. Inside = {} /\ Objects = {}
  BY DEF Init, Inside, Objects
<1>2. QED
  BY <1>1 DEF Init, Quiet, OneInside, DanglingReplaced, JoinableOwned, HandFresh,
     Reachable

LEMMA SafeStep == TypeInv /\ SafeInv /\ [Next]_vars => SafeInv'
<1> SUFFICES ASSUME TypeInv, SafeInv, [Next]_vars, ~overlapped'
             PROVE  Quiet'
  BY DEF SafeInv
<1>1. CASE Next
  <2>1. ~overlapped /\ ~Overlap'
    BY <1>1, Zenon DEF Next, Record
  <2>2. Quiet
    BY <2>1 DEF SafeInv
  <2>3. QED
    BY <1>1, <2>1, <2>2, QuietExecutor, QuietEnvironment DEF Next
<1>2. CASE UNCHANGED vars
  <2>1. ~overlapped /\ Quiet
    BY <1>2, Zenon DEF SafeInv, vars
  <2>2. QED
    BY <1>2, <2>1 DEF vars, object, Quiet, OneInside, DanglingReplaced,
       JoinableOwned, HandFresh, Reachable, Inside, Objects
<1>3. QED
  BY <1>1, <1>2

(* As long as no two executors are inside transition_to_state at a time,   *)
(* no state object is used after its deletion, deleted twice, deleted with *)
(* its thread still joinable, or lost.                                     *)
THEOREM NoOverlapNoMisuse == Spec => []SafeUnlessOverlapped
<1>1. TypeInv /\ SafeInv => SafeUnlessOverlapped
  <2> SUFFICES ASSUME TypeInv, Quiet PROVE MemorySafe /\ NoLeak
    BY DEF SafeInv, SafeUnlessOverlapped
  <2>1. QED
    BY DEF Quiet, Reachable, MemorySafe, NoLeak, InHand
<1>2. QED
  BY <1>1, TypeInit, TypeStep, SafeInit, SafeStep, PTL DEF Spec

-----------------------------------------------------------------------------
(* With one executor transitions cannot overlap. *)
(* At most one executor has been started, and started ones never end. *)
Lone == \A d, e \in Born : d = e

LoneInv == Lone => ~overlapped

LEMMA BornStays ==
  ASSUME TypeInv, [Next]_vars
  PROVE  Born \subseteq Born'
<1> USE DEF TypeInv, TypeOK, Born, Goto
<1>1. CASE UNCHANGED vars
  BY <1>1 DEF vars
<1>2. CASE Accept \/ StartSome \/ \E c \in Commands : SetState(c)
  BY <1>2 DEF Accept, StartSome, StartExecutor, SetState
<1>3. ASSUME NEW e \in Executors, ExecutorStep(e)
      PROVE  Born \subseteq Born'
  BY <1>3 DEF ExecutorStep, GetState, NewState, TestState, DeleteState,
     AssignState, HandleState, SpawnWork, DetachWork
<1>4. QED
  BY <1>1, <1>2, <1>3 DEF Next

LEMMA LoneNoOverlap == Lone => ~Overlap
  BY DEF Lone, Born, Overlap, Inside

LEMMA LoneStep ==
  ASSUME TypeInv, LoneInv, [Next]_vars
  PROVE  LoneInv'
<1> SUFFICES ASSUME Lone' PROVE ~overlapped'
  BY DEF LoneInv
<1>1. Lone
  BY BornStays DEF Lone
<1>2. ~overlapped
  BY <1>1 DEF LoneInv
<1>3. CASE UNCHANGED vars
  BY <1>2, <1>3 DEF vars
<1>4. CASE Next
  <2>1. ~Overlap'
    BY LoneNoOverlap DEF Lone, Born, Overlap, Inside
  <2>2. overlapped' = (overlapped \/ Overlap')
    BY <1>4, Zenon DEF Next, Record
  <2>3. QED
    BY <1>2, <2>1, <2>2, Zenon
<1>5. QED
  BY <1>3, <1>4

LEMMA NeverOverlapped == Spec => []LoneInv
<1>1. Init => LoneInv
  BY Zenon DEF Init, LoneInv
<1>2. QED
  BY <1>1, LoneStep, TypeInit, TypeStep, PTL DEF Spec

(* The executor of a single connection never misuses a state object and    *)
(* never leaks one.                                                        *)
THEOREM LoneExecutorSafe == Spec => [](Lone => MemorySafe /\ NoLeak)
<1>1. SafeUnlessOverlapped /\ LoneInv => (Lone => MemorySafe /\ NoLeak)
  BY DEF SafeUnlessOverlapped, LoneInv
<1>2. QED
  BY <1>1, NoOverlapNoMisuse, NeverOverlapped, PTL

-----------------------------------------------------------------------------
(* The command a lone executor carries is the one its object was made for. *)
CarriesOwn ==
  \A e \in Executors :
    /\ epc[e] \in {"test", "delete", "assign"} => kind[new_state[e]] = cmd[e]
    /\ epc[e] = "handle" => kind[current_state] = cmd[e]

Carries == Lone => CarriesOwn

(* The object that NewState makes is of the kind of the command popped. *)
LEMMA KindOfNext ==
  ASSUME TypeOK, NEW e \in Executors
  PROVE  Append(kind, cmd[e])[Len(kind) + 1] = cmd[e]
<1>1. kind \in Seq(Commands) /\ cmd[e] \in Commands
  BY DEF TypeOK
<1>2. QED
  BY <1>1, AppendedLast

LEMMA CarriesStep ==
  ASSUME Lone, TypeInv, CarriesOwn, Next
  PROVE  CarriesOwn'
<1> USE DEF TypeInv, TypeOK
<1>1. CASE Accept \/ StartSome \/ \E c \in Commands : SetState(c)
  <2>1. UNCHANGED <<current_state, kind, new_state, cmd>>
    BY <1>1 DEF Accept, StartSome, StartExecutor, SetState, object
  <2>2. \A e \in Executors :
          epc'[e] = epc[e] \/ epc'[e] = "get_state"
    BY <1>1 DEF Accept, StartSome, StartExecutor, SetState
  <2>3. QED
    BY <2>1, <2>2 DEF CarriesOwn
<1>2. ASSUME NEW e \in Executors, ExecutorStep(e)
      PROVE  CarriesOwn'
  <2>1. \A d \in Executors : d = e \/ (epc[d] = "unborn" /\ epc'[d] = "unborn")
    <3>1. e \in Born
      BY <1>2 DEF Born, ExecutorStep, GetState, NewState, TestState,
         DeleteState, AssignState, HandleState, SpawnWork, DetachWork, Goto
    <3>2. \A d \in Executors \ {e} : epc[d] = "unborn"
      BY <3>1 DEF Lone, Born
    <3>3. \A d \in Executors \ {e} : epc'[d] = epc[d]
      BY <1>2 DEF ExecutorStep, GetState, NewState, TestState,
         DeleteState, AssignState, HandleState, SpawnWork, DetachWork, Goto
    <3>4. QED
      BY <3>2, <3>3
  <2> USE DEF Goto, CarriesOwn
  <2>2. CASE GetState(e)
    BY <2>1, <2>2 DEF GetState
  <2>3. CASE NewState(e)
    <3>1. /\ epc'[e] = "test" /\ new_state'[e] = Len(kind) + 1
          /\ cmd' = cmd /\ kind' = Append(kind, cmd[e]) /\ cmd[e] \in Commands
      BY <2>3 DEF NewState
    <3>2. kind'[Len(kind) + 1] = cmd[e]
      BY <3>1, KindOfNext
    <3>3. QED
      BY <2>1, <3>1, <3>2
  <2>4. CASE TestState(e)
    BY <2>1, <2>4 DEF TestState, object
  <2>5. CASE DeleteState(e)
    BY <2>1, <2>5 DEF DeleteState
  <2>6. CASE AssignState(e)
    BY <2>1, <2>6 DEF AssignState
  <2>7. CASE HandleState(e)
    <3>1. UNCHANGED <<current_state, kind, cmd>>
      BY <2>7 DEF HandleState, object
    <3>2. epc'[e] \in {"handle", "spawn", "get_state"} /\ epc[e] = "handle"
      BY <2>7 DEF HandleState
    <3>3. QED
      BY <2>1, <3>1, <3>2
  <2>8. CASE SpawnWork(e) \/ DetachWork(e)
    BY <2>1, <2>8 DEF SpawnWork, DetachWork
  <2>9. QED
    BY <1>2, <2>2, <2>3, <2>4, <2>5, <2>6, <2>7, <2>8 DEF ExecutorStep
<1>3. QED
  BY <1>1, <1>2 DEF Next

(* Facts about the mapped queue <<x>> \o s. *)
LEMMA EmptyInFront == \A s \in Seq(Commands) : <<>> \o s = s
  OBVIOUS

LEMMA HeadInFront ==
  \A s \in Seq(Commands), x \in Commands :
    /\ <<x>> \o s # <<>> /\ Head(<<x>> \o s) = x /\ Tail(<<x>> \o s) = s
    /\ \A c \in Commands : Append(<<x>> \o s, c) = <<x>> \o Append(s, c)
  OBVIOUS

LEMMA HeadAndTail ==
  \A s \in Seq(Commands) : s # <<>> => <<Head(s)>> \o Tail(s) = s
  OBVIOUS

(* What is pending while Lone holds. *)
Queue == Popped \o q_execute_cmd

LEMMA PoppedIs ==
  ASSUME Lone, NEW e \in Born
  PROVE  Popped = IF e \in Holding THEN <<cmd[e]>> ELSE <<>>
<1>1. Holding \subseteq Born
  BY DEF Holding, Born
<1>2. \A d \in Holding : d = e
  BY <1>1 DEF Lone
<1>3. CASE e \in Holding
  <2>1. Holding = {e}
    BY <1>2, <1>3
  <2>2. QED
    BY <2>1 DEF Popped
<1>4. CASE e \notin Holding
  BY <1>2, <1>4 DEF Popped
<1>5. QED
  BY <1>3, <1>4

LEMMA NonePopped == Born = {} => Popped = <<>>
  BY DEF Popped, Holding, Born

LEMMA PoppedType ==
  ASSUME TypeInv
  PROVE  Popped = <<>> \/ \E c \in Commands : Popped = <<c>>
<1>1. Holding # {} => cmd[CHOOSE e \in Holding : TRUE] \in Commands
  BY DEF TypeInv, TypeOK, Holding
<1>2. QED
  BY <1>1 DEF Popped

LEMMA ServiceStep ==
  ASSUME Lone, Lone', TypeInv, Quiet, CarriesOwn, Next
  PROVE  \/ \E c \in Commands :
              Queue' = Append(Queue, c) /\ handled' = handled
         \/ /\ Queue # <<>> /\ handled' = Append(handled, Head(Queue))
            /\ Queue' = Tail(Queue)
         \/ UNCHANGED <<Queue, handled>>
<1> USE DEF TypeInv, TypeOK
<1>3. CASE Accept \/ StartSome
  <2>1. UNCHANGED <<q_execute_cmd, cmd, handled>>
    BY <1>3 DEF Accept, StartSome, StartExecutor
  <2>2. Holding' = Holding
    BY <1>3 DEF Accept, StartSome, StartExecutor, Holding
  <2>3. QED
    BY <2>1, <2>2 DEF Queue, Popped
<1>4. ASSUME NEW c \in Commands, SetState(c)
      PROVE  Queue' = Append(Queue, c) /\ handled' = handled
  <2>1. Popped' = Popped /\ UNCHANGED handled
    BY <1>4 DEF SetState, Popped, Holding
  <2>2. q_execute_cmd' = Append(q_execute_cmd, c)
    BY <1>4 DEF SetState
  <2>3. Append(q_execute_cmd, c) \in Seq(Commands)
    BY QueueTypes
  <2>4. CASE Popped = <<>>
    BY <2>1, <2>2, <2>3, <2>4, EmptyInFront DEF Queue
  <2>5. ASSUME NEW x \in Commands, Popped = <<x>>
        PROVE  Queue' = Append(Queue, c)
    <3>1. Queue' = <<x>> \o Append(q_execute_cmd, c)
      BY <2>1, <2>2, <2>5 DEF Queue
    <3>2. Append(<<x>> \o q_execute_cmd, c) = <<x>> \o Append(q_execute_cmd, c)
      BY HeadInFront, Zenon
    <3>3. QED
      BY <2>5, <3>1, <3>2 DEF Queue
  <2>6. QED
    BY <2>1, <2>4, <2>5, PoppedType
<1>5. ASSUME NEW e \in Executors, ExecutorStep(e)
      PROVE  \/ /\ Queue # <<>> /\ handled' = Append(handled, Head(Queue))
                /\ Queue' = Tail(Queue)
             \/ UNCHANGED <<Queue, handled>>
  <2> USE DEF Goto
  <2>0. e \in Born /\ e \in Born'
    BY <1>5 DEF Born, ExecutorStep, GetState, NewState, TestState,
       DeleteState, AssignState, HandleState, SpawnWork, DetachWork
  <2>a. Popped = IF e \in Holding THEN <<cmd[e]>> ELSE <<>>
    BY <2>0, PoppedIs
  <2>b. Popped' = IF e \in Holding' THEN <<cmd'[e]>> ELSE <<>>
    <3>1. Holding' \subseteq Born'
      BY DEF Holding, Born
    <3>2. \A d \in Holding' : d = e
      BY <2>0, <3>1 DEF Lone
    <3>3. CASE e \in Holding'
      <4>1. Holding' = {e}
        BY <3>2, <3>3
      <4>2. (CHOOSE x \in Holding' : TRUE) = e
        BY <4>1
      <4>3. QED
        BY <4>1, <4>2 DEF Popped
    <3>4. CASE e \notin Holding'
      BY <3>2, <3>4 DEF Popped
    <3>5. QED
      BY <3>3, <3>4
  <2>1. CASE GetState(e)
    <3>1. /\ e \notin Holding /\ e \in Holding'
          /\ cmd'[e] = Head(q_execute_cmd)
          /\ q_execute_cmd' = Tail(q_execute_cmd) /\ q_execute_cmd # <<>>
          /\ UNCHANGED handled
      BY <2>1 DEF GetState, Holding
    <3>2. Queue = q_execute_cmd
      BY <2>a, <3>1, EmptyInFront DEF Queue
    <3>3. Queue' = q_execute_cmd
      BY <2>b, <3>1, HeadAndTail DEF Queue
    <3>4. QED
      BY <3>1, <3>2, <3>3
  <2>2. CASE NewState(e) \/ TestState(e) \/ DeleteState(e) \/ AssignState(e)
              \/ SpawnWork(e) \/ DetachWork(e)
    <3>1. UNCHANGED <<q_execute_cmd, cmd, handled>>
      BY <2>2 DEF NewState, TestState, DeleteState, AssignState, SpawnWork,
         DetachWork
    <3>2. e \in Holding' <=> e \in Holding
      BY <2>2 DEF NewState, TestState, DeleteState, AssignState, SpawnWork,
         DetachWork, Holding
    <3>3. QED
      BY <2>a, <2>b, <3>1, <3>2 DEF Queue
  <2>3. CASE HandleState(e)
    <3>1. epc[e] = "handle" /\ kind[current_state] = cmd[e]
      BY <2>3 DEF HandleState, CarriesOwn
    <3>2. current_state \notin freed
      <4>1. \A d \in Executors : epc[d] = "assign" => d = e
        BY <2>0 DEF Lone, Born
      <4>2. QED
        BY <3>1, <4>1 DEF Quiet, DanglingReplaced
    <3>3. /\ handled' = Append(handled, cmd[e])
          /\ UNCHANGED q_execute_cmd
          /\ epc'[e] \in {"spawn", "get_state"}
      BY <2>3, <3>1, <3>2 DEF HandleState
    <3>4. Popped = <<cmd[e]>> /\ Popped' = <<>>
      BY <2>a, <2>b, <3>1, <3>3 DEF Holding
    <3>5. /\ Queue # <<>> /\ Head(Queue) = cmd[e]
          /\ Tail(Queue) = q_execute_cmd
      BY <3>4, HeadInFront DEF Queue
    <3>7. Queue' = q_execute_cmd
      BY <3>3, <3>4, EmptyInFront DEF Queue
    <3>6. QED
      BY <3>3, <3>5, <3>7
  <2>4. QED
    BY <1>5, <2>1, <2>2, <2>3 DEF ExecutorStep
<1>6. QED
  BY <1>3, <1>4, <1>5 DEF Next

LEMMA LoneOrShared == Lone <=> ~Shared
  BY DEF Lone, Shared

LEMMA MapsStep ==
  ASSUME TypeInv, SafeInv, LoneInv, Carries, [Next]_vars
  PROVE  [Service!Next]_(Service!svars)
<1>1. CASE ~Lone
  <2>1. ~Lone'
    BY <1>1, BornStays DEF Lone
  <2>2. Shared /\ Shared'
    BY <1>1, <2>1 DEF Lone, Shared
  <2>3. QED
    BY <2>2 DEF Service!svars
<1>2. CASE Lone /\ ~Lone'
  <2>1. ~Shared /\ Shared'
    BY <1>2 DEF Lone, Shared
  <2>2. Service!Share
    BY <2>1 DEF Service!Share
  <2>3. QED
    BY <2>2 DEF Service!Next
<1>3. CASE Lone /\ Lone'
  <2>1. Shared = FALSE /\ Shared' = FALSE
    BY <1>3 DEF Lone, Shared
  <2>2. CASE UNCHANGED vars
    <3>1. UNCHANGED <<epc, cmd, q_execute_cmd, handled>>
      BY <2>2 DEF vars
    <3>2. Holding' = Holding
      BY <3>1 DEF Holding
    <3>3. Popped' = Popped
      BY <3>1, <3>2 DEF Popped
    <3>4. QED
      BY <2>1, <3>1, <3>3 DEF Service!svars
  <2>3. CASE Next
    <3>1. Quiet /\ CarriesOwn
      BY <1>3 DEF SafeInv, LoneInv, Carries
    <3>2. \/ \E c \in Commands :
                Queue' = Append(Queue, c) /\ handled' = handled
          \/ /\ Queue # <<>> /\ handled' = Append(handled, Head(Queue))
             /\ Queue' = Tail(Queue)
          \/ UNCHANGED <<Queue, handled>>
      BY <1>3, <2>3, <3>1, ServiceStep
    <3>3. ASSUME NEW c \in Commands,
                 Queue' = Append(Queue, c), handled' = handled
          PROVE  Service!Submit(c)
      BY <2>1, <3>3 DEF Queue, Service!Submit
    <3>4. ASSUME Queue # <<>>, handled' = Append(handled, Head(Queue)),
                 Queue' = Tail(Queue)
          PROVE  Service!Serve
      BY <2>1, <3>4 DEF Queue, Service!Serve
    <3>5. ASSUME UNCHANGED <<Queue, handled>>
          PROVE  UNCHANGED Service!svars
      BY <2>1, <3>5 DEF Queue, Service!svars
    <3>6. QED
      BY <3>2, <3>3, <3>4, <3>5 DEF Service!Next
  <2>4. QED
    BY <2>2, <2>3
<1>4. QED
  BY <1>1, <1>2, <1>3

(* Commands are carried out one at a time, exactly once and in the order   *)
(* of the queue, for as long as one executor has been started: the         *)
(* executors implement the safety part of CommandService, the second       *)
(* connection being its Share.                                             *)
THEOREM ExecutorsImplementService == Spec => Service!SafeSpec
<1>1. Init => Service!Init
  <2> SUFFICES ASSUME Init PROVE Service!Init
    OBVIOUS
  <2>1. Born = {}
    BY DEF Init, Born
  <2>2. Popped = <<>> /\ ~Shared
    BY <2>1, NonePopped DEF Shared
  <2>3. QED
    BY <2>2 DEF Init, Service!Init
<1>2. Init => Carries
  BY DEF Init, Carries, CarriesOwn
<1>3. TypeInv /\ Carries /\ [Next]_vars => Carries'
  <2> SUFFICES ASSUME TypeInv, Carries, [Next]_vars, Lone' PROVE CarriesOwn'
    BY DEF Carries
  <2>1. Lone /\ CarriesOwn
    BY BornStays DEF Lone, Carries
  <2>2. CASE UNCHANGED vars
    BY <2>1, <2>2 DEF vars, object, CarriesOwn
  <2>3. QED
    BY <2>1, <2>2, CarriesStep
<1>4. QED
  BY <1>1, <1>2, <1>3, MapsStep, TypeInit, TypeStep, SafeInit, SafeStep,
     NeverOverlapped, PTL DEF Spec, Service!SafeSpec

-----------------------------------------------------------------------------
(* CommandsConserved. *)

InHands == {"new", "test", "delete", "assign", "handle"}

LEMMA HoldingIs == Holding = {e \in Executors : epc[e] \in InHands}
  BY DEF Holding, InHands

(* Moving one executor changes the number of commands in hand by one at    *)
(* most.                                                                   *)
LEMMA HoldingMoves ==
  ASSUME TypeOK, NEW e \in Executors, NEW to \in EPC, epc' = [epc EXCEPT ![e] = to]
  PROVE  /\ Cardinality(Holding) \in Nat
         /\ (epc[e] \in InHands <=> to \in InHands) => Holding' = Holding
         /\ epc[e] \notin InHands /\ to \in InHands =>
              Cardinality(Holding') = Cardinality(Holding) + 1
         /\ epc[e] \in InHands /\ to \notin InHands =>
              Cardinality(Holding') = Cardinality(Holding) - 1
<1>1. IsFiniteSet(Holding) /\ Cardinality(Holding) \in Nat
  BY ExecutorAssumption, FS_Subset, FS_CardinalityType, HoldingIs
<1>2. /\ e \in Holding <=> epc[e] \in InHands
      /\ Holding' = IF to \in InHands THEN Holding \cup {e} ELSE Holding \ {e}
  BY HoldingIs DEF Holding, InHands, TypeOK
<1>3. (epc[e] \in InHands <=> to \in InHands) => Holding' = Holding
  BY <1>2, Zenon
<1>4. ASSUME epc[e] \notin InHands, to \in InHands
      PROVE  Cardinality(Holding') = Cardinality(Holding) + 1
  <2>1. e \notin Holding /\ Holding' = Holding \cup {e}
    BY <1>2, <1>4
  <2>2. QED
    BY <1>1, <2>1, FS_AddElement
<1>5. ASSUME epc[e] \in InHands, to \notin InHands
      PROVE  Cardinality(Holding') = Cardinality(Holding) - 1
  <2>1. e \in Holding /\ Holding' = Holding \ {e}
    BY <1>2, <1>5
  <2>2. QED
    BY <1>1, <2>1, FS_RemoveElement
<1>6. QED
  BY <1>1, <1>3, <1>4, <1>5

LEMMA ConservedExecutor ==
  ASSUME TypeInv, CommandsConserved, NEW e \in Executors, ExecutorStep(e)
  PROVE  CommandsConserved'
<1>0. /\ Len(q_execute_cmd) \in Nat /\ Len(handled) \in Nat /\ submits \in Nat
      /\ submits' = submits
  <2>1. submits' = submits
    BY DEF ExecutorStep, GetState, NewState, TestState, DeleteState, AssignState,
       HandleState, SpawnWork, DetachWork, Goto
  <2>2. q_execute_cmd \in Seq(Commands) /\ handled \in Seq(Commands) /\ submits \in Nat
    BY DEF TypeInv, TypeOK
  <2>3. QED
    BY <2>1, <2>2, QueueTypes
<1>1. CASE GetState(e)
  <2>0. epc[e] = "get_state" /\ epc' = [epc EXCEPT ![e] = "new"]
    BY <1>1 DEF GetState, Goto
  <2>1. Cardinality(Holding') = Cardinality(Holding) + 1 /\ Cardinality(Holding) \in Nat
    BY <2>0, HoldingMoves DEF InHands, EPC, TypeInv
  <2>2. Len(q_execute_cmd') = Len(q_execute_cmd) - 1 /\ handled' = handled
    <3>1. /\ q_execute_cmd # <<>> /\ q_execute_cmd' = Tail(q_execute_cmd)
          /\ handled' = handled
      BY <1>1 DEF GetState
    <3>2. q_execute_cmd \in Seq(Commands)
      BY DEF TypeInv, TypeOK
    <3>3. Len(Tail(q_execute_cmd)) = Len(q_execute_cmd) - 1
      BY <3>1, <3>2, TailLength
    <3>4. QED
      BY <3>1, <3>3
  <2>3. QED
    BY <1>0, <2>1, <2>2 DEF CommandsConserved
<1>2. CASE HandleState(e) /\ current_state \notin freed
  <2>0. PICK to \in {"spawn", "get_state"} : epc' = [epc EXCEPT ![e] = to]
    BY <1>2 DEF HandleState, Goto
  <2>a. epc[e] \in InHands /\ to \notin InHands /\ to \in EPC
    BY <1>2 DEF HandleState, Goto, InHands, EPC
  <2>1. Cardinality(Holding') = Cardinality(Holding) - 1 /\ Cardinality(Holding) \in Nat
    BY <2>0, <2>a, HoldingMoves DEF TypeInv
  <2>2. handled' = Append(handled, kind[current_state]) /\ q_execute_cmd' = q_execute_cmd
    BY <1>2 DEF HandleState
  <2>3. Len(handled') = Len(handled) + 1
    <3>1. handled \in Seq(Commands)
      BY DEF TypeInv, TypeOK
    <3>2. current_state \in 1..Len(kind) /\ kind \in Seq(Commands)
      BY <1>2 DEF HandleState, TypeInv, TypeOK, PointersSet, Objects, None
    <3>3. kind[current_state] \in Commands
      BY <3>2, QueueTypes
    <3>4. QED
      BY <2>2, <3>1, <3>3, QueueTypes
  <2>4. Len(q_execute_cmd') = Len(q_execute_cmd)
    BY <2>2
  <2>5. QED
    BY <1>0, <2>1, <2>3, <2>4 DEF CommandsConserved
<1>3. CASE \/ NewState(e) \/ TestState(e) \/ DeleteState(e) \/ AssignState(e)
           \/ SpawnWork(e) \/ DetachWork(e)
           \/ HandleState(e) /\ current_state \in freed
  <2>1. PICK to \in EPC : /\ epc' = [epc EXCEPT ![e] = to]
                          /\ epc[e] \in InHands <=> to \in InHands
    BY <1>3 DEF NewState, TestState, DeleteState, AssignState, SpawnWork, DetachWork,
       HandleState, Goto, InHands, EPC
  <2>2. Holding' = Holding
    BY <2>1, HoldingMoves DEF TypeInv
  <2>3. UNCHANGED <<q_execute_cmd, handled>>
    BY <1>3 DEF NewState, TestState, DeleteState, AssignState, SpawnWork, DetachWork,
       HandleState
  <2>4. QED
    BY <1>0, <2>2, <2>3 DEF CommandsConserved
<1>4. QED
  BY <1>1, <1>2, <1>3 DEF ExecutorStep

(* Mgard300_Handler.cpp:261-276: however many executors pop the queue, every *)
(* command that was pushed is queued, in the hands of one executor, or has   *)
(* led to one handler call.                                                  *)
THEOREM CommandsAreConserved == Spec => []CommandsConserved
<1>1. Init => CommandsConserved
  <2> SUFFICES ASSUME Init PROVE CommandsConserved
    OBVIOUS
  <2>1. Holding = {}
    BY DEF Init, Holding
  <2>2. QED
    BY <2>1, FS_EmptySet DEF Init, CommandsConserved
<1>2. TypeInv /\ CommandsConserved /\ [Next]_vars => CommandsConserved'
  <2> SUFFICES ASSUME TypeInv, CommandsConserved, [Next]_vars
               PROVE  CommandsConserved'
    OBVIOUS
  <2>0. TypeOK
    BY DEF TypeInv
  <2>1. CASE UNCHANGED vars
    BY <2>1 DEF vars, CommandsConserved, Holding
  <2>2. CASE Accept
    BY <2>2 DEF Accept, CommandsConserved, Holding
  <2>3. ASSUME NEW e \in Executors, StartExecutor(e)
        PROVE  CommandsConserved'
    <3>a. epc[e] = "unborn" /\ epc' = [epc EXCEPT ![e] = "get_state"]
      BY <2>3 DEF StartExecutor
    <3>1. Holding' = Holding
      BY <2>0, <3>a, HoldingMoves DEF InHands, EPC
    <3>2. QED
      BY <2>3, <3>1 DEF StartExecutor, CommandsConserved
  <2>4. ASSUME NEW c \in Commands, SetState(c)
        PROVE  CommandsConserved'
    <3>1. Holding' = Holding /\ Cardinality(Holding) \in Nat
      <4>1. Holding' = Holding
        BY <2>4 DEF SetState, Holding
      <4>2. QED
        BY <4>1, ExecutorAssumption, FS_Subset, FS_CardinalityType, HoldingIs
    <3>2. Len(q_execute_cmd') = Len(q_execute_cmd) + 1 /\ Len(q_execute_cmd) \in Nat
      <4>1. q_execute_cmd \in Seq(Commands) /\ q_execute_cmd' = Append(q_execute_cmd, c)
        BY <2>0, <2>4 DEF SetState, TypeOK
      <4>2. QED
        BY <4>1, QueueTypes
    <3>3. Len(handled) \in Nat /\ submits \in Nat
      <4>1. handled \in Seq(Commands) /\ submits \in Nat
        BY <2>0 DEF TypeOK
      <4>2. QED
        BY <4>1, QueueTypes
    <3>4. QED
      BY <2>4, <3>1, <3>2, <3>3 DEF SetState, CommandsConserved
  <2>5. QED
    BY <2>1, <2>2, <2>3, <2>4, ConservedExecutor DEF Next, StartSome
<1>3. QED
  BY <1>1, <1>2, TypeInit, TypeStep, PTL DEF Spec

=============================================================================
