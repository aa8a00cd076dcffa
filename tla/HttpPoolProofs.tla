--------------------------- MODULE HttpPoolProofs ---------------------------
(***************************************************************************)
(* What HttpPool.tla guarantees for every number of threads and tasks:     *)
(* its type, that no wake-up is lost, that quitting leaves nothing behind, *)
(* and that it implements the abstract queue of TaskPool.tla.              *)
(***************************************************************************)
EXTENDS HttpPool, FiniteSetTheorems, TLAPS

-----------------------------------------------------------------------------
(* Type correctness                                                        *)

\* A thread runs a task, and has none while it does not.
Holds == \A w \in Threads : IF pc[w] = "running" THEN cur[w] \in Tasks
                                                ELSE cur[w] = NoTask

TypeInv == TypeOK /\ Holds

\* A wake-up moves at most one thread from the wait to the lock.
LEMMA WakeEffect ==
    ASSUME TypeOK, WakeUpOne
    PROVE  \/ Idle = {} /\ pc' = pc
           \/ \E w \in Idle : pc' = [pc EXCEPT ![w] = "lock"]
  BY DEF WakeUpOne, Idle, TypeOK

\* The constructor gives every variable a value of its type.
LEMMA TypeInit == Init => TypeInv
  <1> SUFFICES ASSUME Init PROVE TypeInv
    OBVIOUS
  <1>1. << >> \in Seq(Tasks)
    OBVIOUS
  <1>2. TypeOK
    <2>1. task_queue \in Seq(Tasks) /\ thread_cur \in Int
      BY <1>1 DEF Init
    <2>2. pc \in [Threads -> ThreadPlaces]
      BY DEF Init, ThreadPlaces
    <2>3. cur \in [Threads -> Tasks \union {NoTask}]
      BY DEF Init
    <2> QED
      BY <2>1, <2>2, <2>3 DEF Init, TypeOK
  <1>3. Holds
    BY DEF Init, Holds
  <1> QED
    BY <1>2, <1>3 DEF TypeInv

\* A queue keeps its type when it gains a task at the end or loses the first.
LEMMA QueueType ==
    ASSUME task_queue \in Seq(Tasks)
    PROVE  /\ \A t \in Tasks : Append(task_queue, t) \in Seq(Tasks)
           /\ task_queue # << >> => /\ Head(task_queue) \in Tasks
                                    /\ Tail(task_queue) \in Seq(Tasks)
  OBVIOUS

\* Every step keeps the types.
LEMMA TypeStep == TypeInv /\ [Next]_vars => TypeInv'
  <1> SUFFICES ASSUME TypeInv, [Next]_vars PROVE TypeInv'
    OBVIOUS
  <1> USE TasksAssumption
  <1>1. CASE TP_PoolInit
    BY <1>1 DEF TP_PoolInit, CreateThread, CreateFails, TypeInv, TypeOK, Holds,
                ThreadPlaces, threadVars, quitVars, pushVars
  <1>2. CASE \E t \in Tasks : TP_PushTask(t)
    <2> PICK t \in Tasks : TP_PushTask(t)
      BY <1>2
    <2>1. CASE tp_quit
      BY <2>1 DEF TP_PushTask, Refuses, TypeInv, TypeOK, Holds, initVars,
                  quitVars
    <2>2. CASE ~tp_quit
      <3>1. task_queue' \in Seq(Tasks) /\ pushed' \subseteq Tasks
        BY <2>2, QueueType DEF TP_PushTask, Refuses, TypeInv, TypeOK
      <3>2. WakeUpOne
        BY <2>2 DEF TP_PushTask, Refuses
      <3>3. /\ pc' \in [Threads -> ThreadPlaces]
            /\ \A w \in Threads : pc'[w] = "running" <=> pc[w] = "running"
        BY <3>2, WakeEffect DEF Idle, TypeInv, TypeOK, ThreadPlaces
      <3> QED
        BY <2>2, <3>1, <3>3 DEF TP_PushTask, Refuses, TypeInv, TypeOK, Holds,
                                initVars, quitVars
    <2> QED
      BY <2>1, <2>2
  <1>3. CASE \E w \in Threads : thr_start(w)
    <2> PICK w \in Threads : thr_start(w)
      BY <1>3
    <2>1. CASE TP_PopTask(w)
      <3>1. FirstTask \in Tasks /\ task_queue' \in Seq(Tasks)
        BY <2>1, QueueType DEF TP_PopTask, IsEmpty, FirstTask, TypeInv, TypeOK
      <3> QED
        BY <2>1, <3>1 DEF TP_PopTask, TypeInv, TypeOK, Holds, ThreadPlaces,
                          initVars, quitVars, pushVars
    <2>2. CASE ThreadWait(w)
      BY <2>2 DEF ThreadWait, TypeInv, TypeOK, Holds, ThreadPlaces, initVars,
                  quitVars, pushVars
    <2>3. CASE ThreadQuit(w)
      BY <2>3 DEF ThreadQuit, TypeInv, TypeOK, Holds, ThreadPlaces, initVars,
                  quitVars, pushVars
    <2>4. CASE TT_RunEnds(w)
      BY <2>4 DEF TT_RunEnds, Ran, TypeInv, TypeOK, Holds, ThreadPlaces,
                  initVars, quitVars, pushVars
    <2> QED
      BY <2>1, <2>2, <2>3, <2>4 DEF thr_start
  <1>4. CASE \E w \in Threads : WakesSpuriously(w)
    BY <1>4 DEF WakesSpuriously, TypeInv, TypeOK, Holds, ThreadPlaces, initVars,
                quitVars, pushVars
  <1>5. CASE TP_Quit
    BY <1>5 DEF TP_Quit, QuitBegin, QuitTurn, WakeUpAll, Idle, TypeInv, TypeOK,
                Holds, ThreadPlaces, threadVars, initVars, pushVars
  <1>6. CASE UNCHANGED vars
    BY <1>6 DEF vars, TypeInv, TypeOK, Holds, threadVars, initVars, quitVars,
                pushVars
  <1> QED
    BY <1>1, <1>2, <1>3, <1>4, <1>5, <1>6 DEF Next

\* Every variable keeps its type.
THEOREM TypeCorrect == Spec => []TypeOK
  <1>1. TypeInv => TypeOK
    BY DEF TypeInv
  <1> QED
    BY <1>1, TypeInit, TypeStep, PTL DEF Spec

-----------------------------------------------------------------------------
(* No wake-up is lost.  EnoughAwake is inductive once the types are known. *)

AwakeInv == TypeInv /\ EnoughAwake

\* How the number of threads on their way to the queue changes.
LEMMA AwakeCount ==
    /\ IsFiniteSet(Awake) /\ Cardinality(Awake) \in Nat
    /\ \A w \in Threads \ Awake :
          Cardinality(Awake \union {w}) = Cardinality(Awake) + 1
    /\ \A w \in Awake : Cardinality(Awake \ {w}) = Cardinality(Awake) - 1
  <1>1. IsFiniteSet(Awake) /\ Cardinality(Awake) \in Nat
    BY ThreadsAssumption, FS_Subset, FS_CardinalityType DEF Awake
  <1> QED
    BY <1>1, FS_AddElement, FS_RemoveElement

\* A thread that comes to the lock from anywhere keeps enough of them awake,
\* also when the queue has grown by one.
LEMMA OneMoreAwake ==
    ASSUME AwakeInv, NEW w \in Threads, pc[w] # "lock",
           Idle # {},
           pc' = [pc EXCEPT ![w] = "lock"],
           Len(task_queue') \in Nat,
           Len(task_queue') <= Len(task_queue) + 1
    PROVE  EnoughAwake'
  <1>1. Awake' = Awake \union {w} /\ w \notin Awake
    BY DEF AwakeInv, TypeInv, TypeOK, Awake
  <1>2. Cardinality(Awake') = Cardinality(Awake) + 1
    BY <1>1, AwakeCount
  <1>3. Len(task_queue) \in Nat /\ Cardinality(Awake) \in Nat
    BY AwakeCount DEF AwakeInv, TypeInv, TypeOK
  <1>4. Len(task_queue) <= Cardinality(Awake)
    BY DEF AwakeInv, EnoughAwake
  <1> QED
    BY <1>2, <1>3, <1>4 DEF EnoughAwake

\* Every step keeps enough threads awake.
LEMMA AwakeStep == AwakeInv /\ [Next]_vars => AwakeInv'
  <1> SUFFICES ASSUME AwakeInv, [Next]_vars PROVE EnoughAwake'
    BY TypeStep DEF AwakeInv
  <1>0. /\ task_queue \in Seq(Tasks) /\ Len(task_queue) \in Nat
        /\ pc \in [Threads -> ThreadPlaces]
        /\ Cardinality(Awake) \in Nat
    BY AwakeCount DEF AwakeInv, TypeInv, TypeOK
  <1>1. ASSUME NEW w \in Threads, pc[w] # "lock", UNCHANGED task_queue,
               pc' = [pc EXCEPT ![w] = "lock"]
        PROVE  EnoughAwake'
    <2>1. CASE Idle = {}
      BY <1>0, <1>1, <2>1 DEF EnoughAwake, Idle
    <2>2. CASE Idle # {}
      <3>1. Len(task_queue') \in Nat /\ Len(task_queue') <= Len(task_queue) + 1
        BY <1>0, <1>1
      <3> QED
        BY <1>1, <2>2, <3>1, OneMoreAwake
    <2> QED
      BY <2>1, <2>2
  <1>2. ASSUME UNCHANGED <<task_queue, pc>> PROVE EnoughAwake'
    BY <1>2 DEF AwakeInv, EnoughAwake, Idle, Awake
  <1>3. CASE TP_PoolInit
    BY <1>1, <1>2, <1>3 DEF TP_PoolInit, CreateThread, CreateFails, threadVars
  <1>4. CASE \E t \in Tasks : TP_PushTask(t)
    <2> PICK t \in Tasks : TP_PushTask(t)
      BY <1>4
    <2>1. CASE tp_quit
      BY <1>2, <2>1 DEF TP_PushTask, Refuses
    <2>2. CASE ~tp_quit
      <3>1. task_queue' = Append(task_queue, t) /\ WakeUpOne
        BY <2>2 DEF TP_PushTask, Refuses
      <3>2. Len(task_queue') = Len(task_queue) + 1
        BY <1>0, <3>1
      <3>3. CASE Idle = {}
        BY <3>1, <3>3 DEF WakeUpOne, EnoughAwake, Idle
      <3>4. CASE Idle # {}
        <4>1. PICK w \in Idle : pc' = [pc EXCEPT ![w] = "lock"]
          BY <3>1, <3>4 DEF WakeUpOne
        <4>2. w \in Threads /\ pc[w] # "lock"
          BY <4>1 DEF Idle
        <4>3. Len(task_queue') \in Nat /\ Len(task_queue') <= Len(task_queue) + 1
          BY <1>0, <3>2
        <4> QED
          BY <3>4, <4>1, <4>2, <4>3, OneMoreAwake
      <3> QED
        BY <3>3, <3>4
    <2> QED
      BY <2>1, <2>2
  <1>5. CASE \E w \in Threads : thr_start(w)
    <2> PICK w \in Threads : thr_start(w)
      BY <1>5
    <2>1. CASE TP_PopTask(w)
      <3>1. Awake' = Awake \ {w} /\ w \in Awake /\ Idle' = Idle
        BY <1>0, <2>1 DEF TP_PopTask, Awake, Idle
      <3>2. Len(task_queue') = Len(task_queue) - 1
        BY <1>0, <2>1 DEF TP_PopTask, IsEmpty
      <3>3. Cardinality(Awake') = Cardinality(Awake) - 1
        BY <3>1, AwakeCount
      <3> QED
        BY <1>0, <3>1, <3>2, <3>3 DEF AwakeInv, EnoughAwake
    <2>2. CASE ThreadWait(w) \/ ThreadQuit(w)
      <3>1. Len(task_queue') = 0
        BY <1>0, <2>2 DEF ThreadWait, ThreadQuit, MayQuit, IsEmpty
      <3>2. Cardinality(Awake') \in Nat
        BY ThreadsAssumption, FS_Subset, FS_CardinalityType DEF Awake
      <3> QED
        BY <3>1, <3>2 DEF EnoughAwake
    <2>3. CASE TT_RunEnds(w)
      BY <1>1, <2>3 DEF TT_RunEnds
    <2> QED
      BY <2>1, <2>2, <2>3 DEF thr_start
  <1>6. CASE \E w \in Threads : WakesSpuriously(w)
    BY <1>1, <1>6 DEF WakesSpuriously
  <1>7. CASE TP_Quit
    <2>1. CASE WakeUpAll
      <3>1. Idle' = {}
        BY <1>0, <2>1 DEF WakeUpAll, Idle
      <3> QED
        BY <3>1 DEF EnoughAwake
    <2> QED
      BY <1>2, <1>7, <2>1 DEF TP_Quit, QuitBegin, QuitTurn, threadVars
  <1>8. CASE UNCHANGED vars
    BY <1>2, <1>8 DEF vars, threadVars
  <1> QED
    BY <1>3, <1>4, <1>5, <1>6, <1>7, <1>8 DEF Next

\* While a thread waits, each task of the queue has another thread on the way
\* to it: the one signal of TP_PushTask is never wasted.
THEOREM WakeupsKept == Spec => []EnoughAwake
  <1>1. Init => AwakeInv
    <2>1. Init => EnoughAwake
      BY DEF Init, EnoughAwake, Idle
    <2> QED
      BY <2>1, TypeInit DEF AwakeInv
  <1>2. AwakeInv => EnoughAwake
    BY DEF AwakeInv
  <1> QED
    BY <1>1, <1>2, AwakeStep, PTL DEF Spec

-----------------------------------------------------------------------------
(* Quitting.  NothingLeftBehind alone is not inductive: that no task comes *)
(* after a thread has left needs _tp_quit to be set for good.              *)

LeftInv ==
    /\ TypeInv
    /\ (\E w \in Threads : pc[w] = "ended") => tp_quit
    /\ NothingLeftBehind

\* Every step keeps the queue empty once a thread has left.
LEMMA LeftStep == LeftInv /\ [Next]_vars => LeftInv'
  <1> SUFFICES ASSUME LeftInv, [Next]_vars,
                      NEW v \in Threads, pc'[v] = "ended"
               PROVE  tp_quit' /\ IsEmpty'
    BY TypeStep DEF LeftInv, NothingLeftBehind
  <1>0. pc \in [Threads -> ThreadPlaces] /\ tp_quit \in BOOLEAN
    BY DEF LeftInv, TypeInv, TypeOK
  <1>1. ASSUME pc[v] = "ended" PROVE tp_quit /\ IsEmpty
    BY <1>1 DEF LeftInv, NothingLeftBehind
  <1>2. CASE TP_PoolInit
    BY <1>0, <1>1, <1>2 DEF TP_PoolInit, CreateThread, CreateFails, threadVars,
                            quitVars, IsEmpty
  <1>3. CASE \E t \in Tasks : TP_PushTask(t)
    <2> PICK t \in Tasks : TP_PushTask(t)
      BY <1>3
    <2>1. CASE tp_quit
      BY <1>0, <1>1, <2>1 DEF TP_PushTask, Refuses, IsEmpty, quitVars
    <2>2. CASE ~tp_quit
      <3>1. pc[v] = "ended"
        BY <1>0, <2>2 DEF TP_PushTask, Refuses, WakeUpOne, Idle
      <3> QED
        BY <1>1, <2>2, <3>1
    <2> QED
      BY <2>1, <2>2
  <1>4. CASE \E w \in Threads : thr_start(w)
    <2> PICK w \in Threads : thr_start(w)
      BY <1>4
    <2>1. CASE TP_PopTask(w)
      BY <1>0, <1>1, <2>1 DEF TP_PopTask
    <2>2. CASE ThreadWait(w)
      BY <1>0, <1>1, <2>2 DEF ThreadWait
    <2>3. CASE ThreadQuit(w)
      BY <1>0, <2>3 DEF ThreadQuit, MayQuit, IsEmpty, quitVars
    <2>4. CASE TT_RunEnds(w)
      BY <1>0, <1>1, <2>4 DEF TT_RunEnds, IsEmpty, quitVars
    <2> QED
      BY <2>1, <2>2, <2>3, <2>4 DEF thr_start
  <1>5. CASE \E w \in Threads : WakesSpuriously(w)
    BY <1>0, <1>1, <1>5 DEF WakesSpuriously, IsEmpty, quitVars
  <1>6. CASE TP_Quit
    BY <1>0, <1>1, <1>6 DEF TP_Quit, QuitBegin, QuitTurn, WakeUpAll, Idle,
                            IsEmpty, threadVars
  <1>7. CASE UNCHANGED vars
    BY <1>1, <1>7 DEF vars, threadVars, quitVars, IsEmpty
  <1> QED
    BY <1>2, <1>3, <1>4, <1>5, <1>6, <1>7 DEF Next

\* Once a thread has left, the queue is empty and stays so: what TP_PushTask
\* has accepted is taken before anybody leaves.
THEOREM QuitLeavesNothing == Spec => []NothingLeftBehind
  <1>1. Init => LeftInv
    <2>1. Init => \A w \in Threads : pc[w] # "ended"
      BY DEF Init
    <2> QED
      BY <2>1, TypeInit DEF LeftInv, NothingLeftBehind
  <1>2. LeftInv => NothingLeftBehind
    BY DEF LeftInv
  <1> QED
    BY <1>1, <1>2, LeftStep, PTL DEF Spec

-----------------------------------------------------------------------------
(* The pool implements the queue of TaskPool.tla.  Each accepted task is in *)
(* one place: once in the queue, with one thread, or done.                  *)

Queued == {task_queue[i] : i \in 1..Len(task_queue)}

OncePending == \A i, j \in 1..Len(task_queue) :
                  task_queue[i] = task_queue[j] => i = j

OnceRunning == \A v, w \in Busy : cur[v] = cur[w] => v = w

OnePlace ==
    /\ Queued \union Running \union done \subseteq pushed
    /\ Queued \cap Running = {}
    /\ (Queued \union Running) \cap done = {}

FlowInv == TypeInv /\ OncePending /\ OnceRunning /\ OnePlace

\* What a push does to the queue and to what is in it.
LEMMA QueueGrows ==
    ASSUME task_queue \in Seq(Tasks), OncePending, NEW t \in Tasks, t \notin Queued,
           task_queue' = Append(task_queue, t)
    PROVE  OncePending' /\ Queued' = Queued \union {t}
  <1>1. /\ Len(task_queue) \in Nat
        /\ Len(task_queue') = Len(task_queue) + 1
        /\ task_queue'[Len(task_queue) + 1] = t
        /\ \A i \in 1..Len(task_queue) : task_queue'[i] = task_queue[i]
    OBVIOUS
  <1>2. \A i \in 1..Len(task_queue') :
           i \in 1..Len(task_queue) \/ i = Len(task_queue) + 1
    BY <1>1
  <1>3. \A i \in 1..Len(task_queue) : task_queue[i] # t
    BY DEF Queued
  <1>4. OncePending'
    BY <1>1, <1>2, <1>3 DEF OncePending
  <1>5. 1..Len(task_queue') = 1..Len(task_queue) \union {Len(task_queue) + 1}
    BY <1>1
  <1>6. Queued' = Queued \union {t}
    BY <1>1, <1>5 DEF Queued
  <1> QED
    BY <1>4, <1>6

\* What taking the first task does to them.
LEMMA QueueShrinks ==
    ASSUME task_queue \in Seq(Tasks), OncePending, task_queue # << >>,
           task_queue' = Tail(task_queue)
    PROVE  /\ OncePending'
           /\ FirstTask \in Queued
           /\ Queued' = Queued \ {FirstTask}
  <1>1. /\ Len(task_queue) \in Nat /\ Len(task_queue) >= 1
        /\ Len(task_queue') = Len(task_queue) - 1
        /\ FirstTask = task_queue[1]
        /\ \A i \in 1..Len(task_queue') : task_queue'[i] = task_queue[i + 1]
    BY DEF FirstTask
  <1>2. \A i \in 1..Len(task_queue') : i + 1 \in 2..Len(task_queue)
    BY <1>1
  <1>3. \A i \in 2..Len(task_queue) :
           i - 1 \in 1..Len(task_queue') /\ task_queue'[i - 1] = task_queue[i]
    BY <1>1
  <1>4. OncePending'
    <2> SUFFICES ASSUME NEW i \in 1..Len(task_queue'),
                        NEW j \in 1..Len(task_queue'),
                        task_queue'[i] = task_queue'[j]
                 PROVE  i = j
      BY DEF OncePending
    <2>1. task_queue[i + 1] = task_queue[j + 1]
      BY <1>1
    <2>2. i + 1 \in 1..Len(task_queue) /\ j + 1 \in 1..Len(task_queue)
      BY <1>1
    <2>3. i + 1 = j + 1
      BY <2>1, <2>2 DEF OncePending
    <2> QED
      BY <2>3
  <1>5. \A i \in 2..Len(task_queue) : task_queue[i] # task_queue[1]
    BY <1>1 DEF OncePending
  <1>6. Queued' \subseteq Queued \ {FirstTask}
    BY <1>1, <1>2, <1>5 DEF Queued
  <1>7. Queued \ {FirstTask} \subseteq Queued'
    <2> SUFFICES ASSUME NEW i \in 1..Len(task_queue), i # 1
                 PROVE  task_queue[i] \in Queued'
      BY <1>1 DEF Queued
    <2>1. i \in 2..Len(task_queue)
      BY <1>1
    <2>2. i - 1 \in 1..Len(task_queue') /\ task_queue'[i - 1] = task_queue[i]
      BY <1>3, <2>1
    <2> QED
      BY <2>2 DEF Queued
  <1>8. 1 \in 1..Len(task_queue)
    BY <1>1
  <1>9. FirstTask \in Queued
    BY <1>1, <1>8 DEF Queued
  <1> QED
    BY <1>4, <1>6, <1>7, <1>9

\* There is room in the abstract queue for a task that is not in it.
LEMMA RoomForTask ==
    ASSUME task_queue \in Seq(Tasks), OncePending, NEW t \in Tasks, t \notin Queued
    PROVE  Len(task_queue) < Cardinality(Tasks)
  <1> DEFINE n == Len(task_queue)
             f == [i \in 1..n |-> task_queue[i]]
  <1>1. n \in Nat /\ \A i \in 1..n : task_queue[i] \in Tasks \ {t}
    BY DEF Queued
  <1>2. f \in Injection(1..n, Tasks \ {t})
    BY <1>1 DEF OncePending, Injection, IsInjective
  <1>3. /\ IsFiniteSet(Tasks \ {t})
        /\ Cardinality(Tasks \ {t}) = Cardinality(Tasks) - 1
    BY TasksAssumption, FS_RemoveElement
  <1>4. Cardinality(1..n) <= Cardinality(Tasks \ {t})
    BY <1>2, <1>3, FS_Injection
  <1>5. Cardinality(1..n) = n
    BY <1>1, FS_Interval
  <1>6. Cardinality(Tasks) \in Nat
    BY TasksAssumption, FS_CardinalityType
  <1> HIDE DEF n
  <1>7. n < Cardinality(Tasks)
    BY <1>1, <1>3, <1>4, <1>5, <1>6
  <1> QED
    BY <1>7 DEF n

\* There is a thread free for the task that one takes.
LEMMA ThreadForTask ==
    ASSUME NEW w \in Threads, w \notin Busy
    PROVE  Cardinality(Running) < Cardinality(Threads)
  <1> DEFINE f == [t \in Running |-> CHOOSE v \in Busy : cur[v] = t]
  <1>1. \A t \in Running : f[t] \in Busy /\ cur[f[t]] = t
    BY DEF Running
  <1>2. f \in [Running -> Threads \ {w}]
    BY <1>1 DEF Busy
  <1>3. f \in Injection(Running, Threads \ {w})
    BY <1>1, <1>2 DEF Injection, IsInjective
  <1>4. /\ IsFiniteSet(Threads \ {w})
        /\ Cardinality(Threads \ {w}) = Cardinality(Threads) - 1
    BY ThreadsAssumption, FS_RemoveElement
  <1>5. IsFiniteSet(Running) /\ Cardinality(Running) <= Cardinality(Threads \ {w})
    BY <1>3, <1>4, FS_Injection
  <1>6. Cardinality(Threads) \in Nat /\ Cardinality(Running) \in Nat
    BY <1>5, ThreadsAssumption, FS_CardinalityType
  <1> QED
    BY <1>4, <1>5, <1>6

\* TaskPool counts as this module does.
LEMMA PromiseCardinality == \A S : Promise!Cardinality(S) = Cardinality(S)
  BY DEF Promise!Cardinality, Promise!IsFiniteSet, Cardinality, IsFiniteSet

\* A step that starts and ends no task and leaves the queue alone is a stutter
\* of the abstract queue.
LEMMA FlowFrame ==
    ASSUME FlowInv, UNCHANGED <<task_queue, done, cur>>, pushed \subseteq pushed',
           \A v \in Threads : pc'[v] = "running" <=> pc[v] = "running"
    PROVE  /\ (OncePending /\ OnceRunning /\ OnePlace)'
           /\ UNCHANGED Promise!vars
  <1>1. Busy' = Busy
    BY DEF Busy
  <1>2. Running' = Running /\ Queued' = Queued
    BY <1>1 DEF Running, Queued
  <1> QED
    BY <1>1, <1>2 DEF FlowInv, OncePending, OnceRunning, OnePlace, Promise!vars

\* A push that is accepted submits the task.
LEMMA PushFlow ==
    ASSUME FlowInv, NEW t \in Tasks, TP_PushTask(t), ~tp_quit
    PROVE  (OncePending /\ OnceRunning /\ OnePlace)' /\ Promise!Submit(t)
  <1>1. /\ task_queue \in Seq(Tasks) /\ OncePending
        /\ task_queue' = Append(task_queue, t)
        /\ pushed' = pushed \union {t} /\ t \notin pushed
        /\ UNCHANGED <<cur, done>> /\ WakeUpOne
    BY DEF FlowInv, TypeInv, TypeOK, TP_PushTask, Refuses
  <1>2. t \notin Queued \union Running \union done
    BY <1>1 DEF FlowInv, OnePlace
  <1>3. Busy' = Busy
    BY <1>1, WakeEffect DEF FlowInv, TypeInv, TypeOK, Busy, Idle
  <1>4. Running' = Running
    BY <1>1, <1>3 DEF Running
  <1>5. OncePending' /\ Queued' = Queued \union {t}
    BY <1>1, <1>2, QueueGrows
  <1>6. OnceRunning' /\ OnePlace'
    BY <1>1, <1>2, <1>3, <1>4, <1>5 DEF FlowInv, OnceRunning, OnePlace
  <1>7. Len(task_queue) < Cardinality(Tasks)
    BY <1>1, <1>2, RoomForTask
  <1>8. Promise!Submit(t)
    BY <1>1, <1>2, <1>4, <1>7 DEF Promise!Submit, Promise!InPending, Queued
  <1> QED
    BY <1>5, <1>6, <1>8

\* TP_PopTask starts the task that has been in the queue for longest.
LEMMA PopFlow ==
    ASSUME FlowInv, NEW w \in Threads, TP_PopTask(w)
    PROVE  (OncePending /\ OnceRunning /\ OnePlace)' /\ Promise!Start
  <1>1. /\ task_queue \in Seq(Tasks) /\ task_queue # << >> /\ OncePending
        /\ task_queue' = Tail(task_queue)
        /\ w \notin Busy
        /\ cur' = [cur EXCEPT ![w] = FirstTask]
        /\ pc' = [pc EXCEPT ![w] = "running"]
        /\ UNCHANGED <<pushed, done>>
        /\ pc \in [Threads -> ThreadPlaces]
        /\ cur \in [Threads -> Tasks \union {NoTask}]
    BY DEF FlowInv, TypeInv, TypeOK, TP_PopTask, IsEmpty, Busy, pushVars
  <1>2. OncePending' /\ FirstTask \in Queued /\ Queued' = Queued \ {FirstTask}
    BY <1>1, QueueShrinks
  <1>3. Busy' = Busy \union {w}
    BY <1>1 DEF Busy
  <1>4. cur'[w] = FirstTask /\ \A v \in Busy : cur'[v] = cur[v]
    BY <1>1 DEF Busy
  <1>5. Running' = Running \union {FirstTask}
    BY <1>3, <1>4 DEF Running
  <1>6. FirstTask \notin Running
    BY <1>2 DEF FlowInv, OnePlace
  <1>7. \A v \in Busy : cur[v] # FirstTask
    BY <1>6 DEF Running
  <1>8. OnceRunning'
    BY <1>3, <1>4, <1>7 DEF FlowInv, OnceRunning
  <1>9. OnePlace'
    BY <1>1, <1>2, <1>5, <1>6 DEF FlowInv, OnePlace
  <1>10. Cardinality(Running) < Cardinality(Threads)
    BY <1>1, ThreadForTask
  <1>11. Promise!Start
    BY <1>1, <1>5, <1>10, PromiseCardinality DEF Promise!Start, FirstTask
  <1> QED
    BY <1>2, <1>8, <1>9, <1>11

\* A handler that returns finishes its task.
LEMMA EndFlow ==
    ASSUME FlowInv, NEW w \in Threads, TT_RunEnds(w)
    PROVE  /\ (OncePending /\ OnceRunning /\ OnePlace)'
           /\ \E t \in Tasks : Promise!Finish(t)
  <1>1. /\ w \in Busy /\ cur[w] \in Tasks
        /\ cur' = [cur EXCEPT ![w] = NoTask]
        /\ pc' = [pc EXCEPT ![w] = "lock"]
        /\ done' = done \union {cur[w]}
        /\ UNCHANGED <<pushed, task_queue>>
        /\ pc \in [Threads -> ThreadPlaces]
        /\ cur \in [Threads -> Tasks \union {NoTask}]
    BY DEF FlowInv, TypeInv, TypeOK, Holds, TT_RunEnds, Ran, Busy, pushVars
  <1>2. Busy' = Busy \ {w}
    BY <1>1 DEF Busy
  <1>3. \A v \in Busy' : cur'[v] = cur[v]
    BY <1>1, <1>2 DEF Busy
  <1>4. \A v \in Busy' : cur[v] # cur[w]
    BY <1>1, <1>2 DEF FlowInv, OnceRunning
  <1>5. Running' = Running \ {cur[w]} /\ cur[w] \in Running
    BY <1>1, <1>2, <1>3, <1>4 DEF Running
  <1>6. OncePending' /\ Queued' = Queued
    BY <1>1 DEF FlowInv, OncePending, Queued
  <1>7. OnceRunning'
    BY <1>2, <1>3 DEF FlowInv, OnceRunning
  <1>8. OnePlace'
    BY <1>1, <1>5, <1>6 DEF FlowInv, OnePlace
  <1>9. Promise!Finish(cur[w])
    BY <1>1, <1>5 DEF Promise!Finish
  <1> QED
    BY <1>1, <1>6, <1>7, <1>8, <1>9

\* Every step of the pool is a step of the abstract queue or a stutter.
LEMMA FlowStep ==
    ASSUME FlowInv, [Next]_vars
    PROVE  FlowInv' /\ [Promise!Next]_(Promise!vars)
  <1>0. /\ TypeInv' /\ tp_quit \in BOOLEAN
        /\ pc \in [Threads -> ThreadPlaces]
    BY TypeStep DEF FlowInv, TypeInv, TypeOK
  <1> SUFFICES (OncePending /\ OnceRunning /\ OnePlace)'
               /\ [Promise!Next]_(Promise!vars)
    BY <1>0 DEF FlowInv
  <1>1. CASE TP_PoolInit
    BY <1>0, <1>1, FlowFrame DEF TP_PoolInit, CreateThread, CreateFails,
                                 threadVars, pushVars
  <1>2. CASE \E t \in Tasks : TP_PushTask(t)
    <2> PICK t \in Tasks : TP_PushTask(t)
      BY <1>2
    <2>1. CASE tp_quit
      BY <2>1, FlowFrame DEF TP_PushTask, Refuses
    <2>2. CASE ~tp_quit
      BY <2>2, PushFlow DEF Promise!Next
    <2> QED
      BY <1>0, <2>1, <2>2
  <1>3. CASE \E w \in Threads : thr_start(w)
    <2> PICK w \in Threads : thr_start(w)
      BY <1>3
    <2>1. CASE TP_PopTask(w)
      BY <2>1, PopFlow DEF Promise!Next
    <2>2. CASE ThreadWait(w) \/ ThreadQuit(w)
      BY <1>0, <2>2, FlowFrame DEF ThreadWait, ThreadQuit, pushVars
    <2>3. CASE TT_RunEnds(w)
      BY <2>3, EndFlow DEF Promise!Next
    <2> QED
      BY <2>1, <2>2, <2>3 DEF thr_start
  <1>4. CASE \E w \in Threads : WakesSpuriously(w)
    BY <1>0, <1>4, FlowFrame DEF WakesSpuriously, pushVars
  <1>5. CASE TP_Quit
    <2>1. \A v \in Threads : pc'[v] = "running" <=> pc[v] = "running"
      BY <1>0, <1>5 DEF TP_Quit, QuitBegin, QuitTurn, WakeUpAll, Idle, threadVars
    <2> QED
      BY <1>5, <2>1, FlowFrame DEF TP_Quit, QuitBegin, QuitTurn, threadVars,
                                   pushVars
  <1>6. CASE UNCHANGED vars
    BY <1>6, FlowFrame DEF vars, threadVars, pushVars
  <1> QED
    BY <1>1, <1>2, <1>3, <1>4, <1>5, <1>6 DEF Next

\* The pool is a queue: what TP_PushTask accepts is started first in, first
\* out, once, by at most _thread_max threads, and TP_Quit loses none of it.
THEOREM PromiseKept == Spec => KeepsPromise
  <1>1. Init => FlowInv /\ Promise!Init
    <2> SUFFICES ASSUME Init PROVE FlowInv /\ Promise!Init
      OBVIOUS
    <2>1. Busy = {} /\ Queued = {}
      BY DEF Init, Busy, Queued
    <2>2. Running = {}
      BY <2>1 DEF Running
    <2>3. OncePending /\ OnceRunning
      BY <2>1 DEF Init, OncePending, OnceRunning
    <2>4. OnePlace
      BY <2>1, <2>2 DEF Init, OnePlace
    <2> QED
      BY <2>2, <2>3, <2>4, TypeInit DEF FlowInv, Init, Promise!Init
  <1>2. FlowInv /\ [Next]_vars => FlowInv' /\ [Promise!Next]_(Promise!vars)
    BY FlowStep
  <1> QED
    BY <1>1, <1>2, PTL DEF Spec, KeepsPromise, Promise!Spec
=============================================================================
