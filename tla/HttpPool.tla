------------------------------ MODULE HttpPool ------------------------------
(***************************************************************************)
(* code/threadpool.hpp: the worker pool of the HTTP server.  TP_PoolInit   *)
(* starts the threads, TP_PushTask appends to an unbounded queue and wakes *)
(* one thread, thr_start takes tasks from it, TP_Quit asks the threads to  *)
(* leave.                                                                  *)
(*                                                                         *)
(* A step is one critical section of _lock, or one unlocked access.  The   *)
(* test of the queue and of _tp_quit and the wait that follows are one     *)
(* section: every writer of either holds the lock.                         *)
(***************************************************************************)
EXTENDS Integers, Sequences, FiniteSets

CONSTANTS
    Threads,        \* the threads TP_PoolInit is to start (_thread_max)
    Tasks,          \* what is pushed; a ThreadTask is new for each push
    NoTask,         \* no task
    CreateMayFail   \* pthread_create may fail

ASSUME ThreadsAssumption == IsFiniteSet(Threads) /\ Threads # {}
ASSUME TasksAssumption == IsFiniteSet(Tasks) /\ NoTask \notin Tasks
ASSUME CreateAssumption == CreateMayFail \in BOOLEAN

VARIABLES
    task_queue,     \* _task_queue, oldest first
    tp_quit,        \* _tp_quit
    thread_cur,     \* _thread_cur
    pc, cur,        \* each thread's place in thr_start, its task
    ipc,            \* TP_PoolInit: under way, or what it returned
    qpc,            \* TP_Quit: its place
    pushed,         \* history: tasks TP_PushTask has accepted
    refused,        \* history: tasks it has refused
    done            \* history: tasks that have run

initVars == <<ipc>>
quitVars == <<tp_quit, qpc>>
pushVars == <<pushed, refused>>
threadVars == <<pc, cur, thread_cur, done>>
vars == <<task_queue, threadVars, initVars, quitVars, pushVars>>

ThreadPlaces == {"none", "lock", "waiting", "running", "ended"}

TypeOK ==
    /\ task_queue \in Seq(Tasks)
    /\ tp_quit \in BOOLEAN
    /\ thread_cur \in Int
    /\ pc \in [Threads -> ThreadPlaces]
    /\ cur \in [Threads -> Tasks \union {NoTask}]
    /\ ipc \in {"creating", "true", "false"}
    /\ qpc \in {"idle", "loop", "returned"}
    /\ pushed \subseteq Tasks
    /\ refused \subseteq Tasks
    /\ done \subseteq Tasks

Init ==
    /\ task_queue = << >>
    /\ tp_quit = FALSE
    /\ thread_cur = 0
    /\ pc = [w \in Threads |-> "none"]
    /\ cur = [w \in Threads |-> NoTask]
    /\ ipc = "creating"
    /\ qpc = "idle"
    /\ pushed = {}
    /\ refused = {}
    /\ done = {}

-----------------------------------------------------------------------------
(* TP_PoolInit: a thread runs from the moment it is created; the first     *)
(* failure ends the loop, and nobody counts in _thread_cur.                *)

NotStarted == {w \in Threads : pc[w] = "none"}

CreateThread(w) ==
    /\ ipc = "creating"
    /\ pc[w] = "none"
    /\ pc' = [pc EXCEPT ![w] = "lock"]
    /\ ipc' = IF NotStarted = {w} THEN "true" ELSE ipc
    /\ UNCHANGED <<task_queue, cur, thread_cur, done, quitVars, pushVars>>

CreateFails ==
    /\ CreateMayFail
    /\ ipc = "creating"
    /\ ipc' = "false"
    /\ UNCHANGED <<task_queue, threadVars, quitVars, pushVars>>

TP_PoolInit == CreateFails \/ \E w \in Threads : CreateThread(w)

-----------------------------------------------------------------------------
Idle == {w \in Threads : pc[w] = "waiting"}
Awake == {w \in Threads : pc[w] = "lock"}
Busy == {w \in Threads : pc[w] = "running"}

WakeUpNone == UNCHANGED pc       \* variant: the signal is forgotten

\* pthread_cond_signal: one waiter, if there is one, competes for the lock.
WakeUpOne ==
    IF Idle = {} THEN UNCHANGED pc
                 ELSE \E w \in Idle : pc' = [pc EXCEPT ![w] = "lock"]

WakeUpAll == pc' = [w \in Threads |-> IF w \in Idle THEN "lock" ELSE pc[w]]

RefusesNobody == FALSE      \* variant: _tp_quit is not looked at
Refuses == tp_quit

\* The pool has been set up, or its caller does not care that it has not.
TP_PushTask(t) ==
    /\ ipc # "creating"
    /\ t \notin pushed \union refused
    /\ IF Refuses
         THEN /\ refused' = refused \union {t}
              /\ UNCHANGED <<task_queue, pc, pushed>>
         ELSE /\ task_queue' = Append(task_queue, t)
              /\ pushed' = pushed \union {t}
              /\ WakeUpOne
              /\ UNCHANGED refused
    /\ UNCHANGED <<cur, thread_cur, done, initVars, quitVars>>

-----------------------------------------------------------------------------
(* thr_start: a thread that has the lock takes a task, waits, or quits.    *)

IsEmpty == task_queue = << >>

NewestTask == task_queue[Len(task_queue)]   \* variant: a stack
FirstTask == Head(task_queue)

TP_PopTask(w) ==
    /\ pc[w] = "lock"
    /\ ~IsEmpty
    /\ cur' = [cur EXCEPT ![w] = FirstTask]
    /\ task_queue' = Tail(task_queue)
    /\ pc' = [pc EXCEPT ![w] = "running"]
    /\ UNCHANGED <<thread_cur, done, initVars, quitVars, pushVars>>

ThreadWait(w) ==
    /\ pc[w] = "lock"
    /\ IsEmpty
    /\ ~tp_quit
    /\ pc' = [pc EXCEPT ![w] = "waiting"]
    /\ UNCHANGED <<task_queue, cur, thread_cur, done, initVars, quitVars,
                   pushVars>>

MayQuitEarly == tp_quit      \* variant: the queue need not be empty
MayQuit == IsEmpty /\ tp_quit

ThreadQuit(w) ==
    /\ pc[w] = "lock"
    /\ MayQuit
    /\ thread_cur' = thread_cur - 1
    /\ pc' = [pc EXCEPT ![w] = "ended"]
    /\ UNCHANGED <<task_queue, cur, done, initVars, quitVars, pushVars>>

Ran(w) == cur[w]

\* The handler has returned (handlers do not run for ever).
TT_RunEnds(w) ==
    /\ pc[w] = "running"
    /\ done' = done \union {Ran(w)}
    /\ cur' = [cur EXCEPT ![w] = NoTask]
    /\ pc' = [pc EXCEPT ![w] = "lock"]
    /\ UNCHANGED <<task_queue, thread_cur, initVars, quitVars, pushVars>>

thr_start(w) ==
    \/ TP_PopTask(w)
    \/ ThreadWait(w)
    \/ ThreadQuit(w)
    \/ TT_RunEnds(w)

WakesSpuriously(w) ==
    /\ pc[w] = "waiting"
    /\ pc' = [pc EXCEPT ![w] = "lock"]
    /\ UNCHANGED <<task_queue, cur, thread_cur, done, initVars, quitVars,
                   pushVars>>

-----------------------------------------------------------------------------
(* TP_Quit                                                                 *)

QuitBegin ==
    /\ ipc # "creating"
    /\ qpc = "idle"
    /\ tp_quit' = TRUE
    /\ qpc' = "loop"
    /\ UNCHANGED <<task_queue, threadVars, initVars, pushVars>>

\* _thread_cur is read without the lock.
QuitTurn ==
    /\ qpc = "loop"
    /\ IF thread_cur > 0
         THEN WakeUpAll /\ UNCHANGED qpc
         ELSE qpc' = "returned" /\ UNCHANGED pc
    /\ UNCHANGED <<task_queue, cur, thread_cur, done, tp_quit, initVars,
                   pushVars>>

TP_Quit == QuitBegin \/ QuitTurn

-----------------------------------------------------------------------------
Next ==
    \/ TP_PoolInit
    \/ \E t \in Tasks : TP_PushTask(t)
    \/ \E w \in Threads : thr_start(w)
    \/ \E w \in Threads : WakesSpuriously(w)
    \/ TP_Quit

Spec == Init /\ [][Next]_vars

(***************************************************************************)
(* The threads are scheduled and get the lock when they want it.  Nobody   *)
(* has to push or to call TP_Quit, and no wake-up is spurious that must    *)
(* be.                                                                     *)
(***************************************************************************)
FairSpec ==
    /\ Spec
    /\ \A w \in Threads : WF_vars(thr_start(w))

-----------------------------------------------------------------------------
(* Properties *)

\* While a thread waits, each task in the queue has another thread on the way
\* to it, before and after TP_Quit: no wake-up of TP_PushTask is lost.
EnoughAwake == Idle # {} => Len(task_queue) <= Cardinality(Awake)

\* A thread that has left after TP_Quit leaves no task behind, and none comes
\* any more.
NothingLeftBehind == (\E w \in Threads : pc[w] = "ended") => IsEmpty

Running == {cur[w] : w \in Busy}

Promise == INSTANCE TaskPool WITH
    Capacity <- Cardinality(Tasks),
    MaxRunning <- Cardinality(Threads),
    pending <- task_queue,
    running <- Running,
    finished <- done,
    open <- TRUE

\* The pool is a queue whose tasks are started first in, first out, each once,
\* by at most _thread_max threads; TP_Quit loses none of them.
KeepsPromise == Promise!Spec

\* What has been pushed is run, also when TP_Quit has been called meanwhile,
\* if there is a thread to run it.
PushedIsRun ==
    \A t \in Tasks : (t \in pushed) ~> (t \in done \/ NotStarted = Threads)
=============================================================================
