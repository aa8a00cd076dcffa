----------------------------- MODULE ThreadPool -----------------------------
(***************************************************************************)
(* thread_pool/threadpool.c: a pool that keeps between min_thr_num and     *)
(* max_thr_num workers.  Any number of callers add tasks to a ring, the    *)
(* workers take them, a manager thread looks at the load from time to time *)
(* and starts or retires workers, and one caller destroys the pool.        *)
(*                                                                         *)
(* A worker is named by its slot in pool->threads.  That is exact: a slot  *)
(* is written again only when it is 0 or its thread is reported dead.      *)
(*                                                                         *)
(* A step is one critical section of pool->lock or of thread_counter, or   *)
(* one unlocked access to shared state.  The one critical section that is  *)
(* cut in two is the worker's test of queue_size and shutdown followed by  *)
(* pthread_cond_wait (pc "wait"): destroy writes shutdown without the lock *)
(* and can fall between the two.                                           *)
(***************************************************************************)
EXTENDS Integers, Sequences, FiniteSets

CONSTANTS
    MinThr,         \* min_thr_num
    MaxThr,         \* max_thr_num
    QueueMax,       \* queue_max_size
    MinWaitTask,    \* MIN_WAIT_TASK_NUM
    Vary,           \* DEFAULT_THREAD_VARY
    Tasks,          \* what is added; each task stands for its arg as well
    Adders,         \* threads that call threadpool_add
    NoTask,         \* no task, or a NULL arg
    Garbage,        \* an arg read from memory nobody has written
    GarbageInts,    \* what the unwritten wait_exit_thr_num may hold at first
    DirtyHeap,      \* malloc of task_queue may return memory that is not zero
    CreateMayFail,  \* pthread_create may fail
    KillSeesExit,   \* pthread_kill returns ESRCH for a thread that has exited
    Overlap         \* destroy may be called while calls of add are under way

Slots == 0..MaxThr-1
Cells == 0..QueueMax-1

ASSUME SizesAssumption ==
    /\ MinThr \in Nat
    /\ MaxThr \in Nat \ {0}
    /\ MinThr <= MaxThr
    /\ QueueMax \in Nat \ {0}
    /\ MinWaitTask \in Nat
    /\ Vary \in Nat \ {0}
    /\ GarbageInts \subseteq Int

ASSUME FlagsAssumption ==
    /\ DirtyHeap \in BOOLEAN
    /\ CreateMayFail \in BOOLEAN
    /\ KillSeesExit \in BOOLEAN
    /\ Overlap \in BOOLEAN

ASSUME NamesAssumption ==
    /\ NoTask \notin Tasks
    /\ Garbage \notin Tasks
    /\ NoTask # Garbage

NoOwner == -1

VARIABLES
    lock,               \* the worker that holds pool->lock between two steps
    pc, cur,            \* each worker's place in threadpool_thread, its task
    task_queue, queue_front, queue_rear, queue_size,
    live_thr_num, busy_thr_num, wait_exit_thr_num, shutdown,
    apc, want, local,   \* each caller's place in threadpool_add, its task, and
                        \* what it read of the ring without the lock
    mpc, seen, sigLeft, \* adjust_thread: place, what it sampled, signals to send
    dpc, di,            \* threadpool_destroy: place, loop counter
    submitted, done,    \* history: tasks handed to add, tasks whose callback ended
    freed,              \* history: tasks whose arg the pool has freed
    aborted             \* the process died on a wild free or join

queueVars == <<task_queue, queue_front, queue_rear, queue_size>>
putVars == <<task_queue, queue_rear, queue_size>>
adderVars == <<apc, want, local>>
adjustVars == <<mpc, seen, sigLeft>>
destroyVars == <<dpc, di>>
counterVars == <<live_thr_num, busy_thr_num, wait_exit_thr_num>>
historyVars == <<submitted, done, freed, aborted>>
vars == <<lock, pc, cur, queueVars, counterVars, shutdown, adderVars,
          adjustVars, destroyVars, historyVars>>

WorkerPlaces == {"none", "top", "wait", "waiting", "woken", "taken", "running",
                 "exiting", "exited", "quitting", "quit"}
AdderPlaces == {"idle", "lock", "waiting", "unlocked"}
AdjustPlaces == {"loop", "sample", "busy", "grow", "shrink", "signal", "done"}
DestroyPlaces == {"idle", "joinAdjust", "broadcast", "join", "freeing", "done"}

Args == Tasks \union {NoTask, Garbage}

\* Variables of a block that is not being executed.
NothingSeen == [queue |-> 0, live |-> 0, busy |-> 0]
NothingRead == [rear |-> 0, size |-> 0, old |-> NoTask]

TypeOK ==
    /\ lock \in Slots \union {NoOwner}
    /\ pc \in [Slots -> WorkerPlaces]
    /\ cur \in [Slots -> Args]
    /\ task_queue \in [Cells -> Args]
    /\ queue_front \in Cells
    /\ queue_rear \in Cells
    /\ queue_size \in Nat
    /\ live_thr_num \in Int
    /\ busy_thr_num \in Int
    /\ wait_exit_thr_num \in Int
    /\ shutdown \in BOOLEAN
    /\ apc \in [Adders -> AdderPlaces]
    /\ want \in [Adders -> Tasks \union {NoTask}]
    /\ local \in [Adders -> [rear : Cells, size : Nat, old : Args]]
    /\ mpc \in AdjustPlaces
    /\ seen \in [queue : Nat, live : Int, busy : Int]
    /\ sigLeft \in 0..Vary
    /\ dpc \in DestroyPlaces
    /\ di \in Nat
    /\ submitted \subseteq Tasks
    /\ done \subseteq Args
    /\ freed \subseteq Args
    /\ aborted \in BOOLEAN

-----------------------------------------------------------------------------
(***************************************************************************)
(* threadpool_create.  wait_exit_thr_num and the cells of task_queue are   *)
(* never written: they hold what malloc returned.  A pthread_create that   *)
(* fails is not noticed and leaves its slot 0.                             *)
(***************************************************************************)
FirstArgs == IF DirtyHeap THEN {NoTask, Garbage} ELSE {NoTask}

Started(New) == IF CreateMayFail THEN SUBSET New ELSE {New}

Init ==
    /\ lock = NoOwner
    /\ \E S \in Started(0..MinThr-1) :
          pc = [w \in Slots |-> IF w \in S THEN "top" ELSE "none"]
    /\ cur = [w \in Slots |-> NoTask]
    /\ task_queue \in [Cells -> FirstArgs]
    /\ queue_front = 0
    /\ queue_rear = 0
    /\ queue_size = 0
    /\ live_thr_num = MinThr
    /\ busy_thr_num = 0
    /\ wait_exit_thr_num \in GarbageInts
    /\ shutdown = FALSE
    /\ apc = [a \in Adders |-> "idle"]
    /\ want = [a \in Adders |-> NoTask]
    /\ local = [a \in Adders |-> NothingRead]
    /\ mpc = "loop"
    /\ seen = NothingSeen
    /\ sigLeft = 0
    /\ dpc = "idle"
    /\ di = 0
    /\ submitted = {}
    /\ done = {}
    /\ freed = {}
    /\ aborted = FALSE

(***************************************************************************)
(* The threads run until the process dies or destroy frees what they use;  *)
(* what they do with a freed pool is undefined and NoUseAfterFree forbids  *)
(* that it comes to that.                                                  *)
(***************************************************************************)
PoolFreed == dpc \in {"freeing", "done"}
Runs == ~aborted /\ ~PoolFreed

-----------------------------------------------------------------------------
(* Condition variables: who waits, and what a wake-up does.                *)

Idle == {w \in Slots : pc[w] = "waiting"}

NoSignal == UNCHANGED pc       \* variant: the signal is forgotten

\* pthread_cond_signal(&queue_not_empty): one waiter, if there is one.
SignalNotEmpty ==
    IF Idle = {}
      THEN UNCHANGED pc
      ELSE \E w \in Idle : pc' = [pc EXCEPT ![w] = "woken"]

\* pthread_cond_broadcast(&queue_not_empty)
BroadcastNotEmpty ==
    pc' = [w \in Slots |-> IF pc[w] = "waiting" THEN "woken" ELSE pc[w]]

\* Variant: nobody is told that there is room.
SilentNotFull == UNCHANGED apc

\* pthread_cond_broadcast(&queue_not_full): a caller that wakes tests again.
BroadcastNotFull ==
    apc' = [a \in Adders |-> IF apc[a] = "waiting" THEN "lock" ELSE apc[a]]

-----------------------------------------------------------------------------
(* threadpool_add *)

CellAfter(i) == (i + 1) % QueueMax

CallAdd(a, t) ==
    /\ apc[a] = "idle"
    /\ t \notin submitted
    /\ Overlap \/ ~shutdown
    /\ apc' = [apc EXCEPT ![a] = "lock"]
    /\ want' = [want EXCEPT ![a] = t]
    /\ submitted' = submitted \union {t}
    /\ UNCHANGED <<lock, pc, putVars, local, freed, aborted>>

NotFull == queue_size # QueueMax

\* The queue is full: wait for queue_not_full.
AddBlock(a) ==
    /\ apc[a] = "lock"
    /\ lock = NoOwner
    /\ ~NotFull
    /\ ~shutdown
    /\ apc' = [apc EXCEPT ![a] = "waiting"]
    /\ UNCHANGED <<lock, pc, putVars, want, local, submitted, freed, aborted>>

MayAdd(a) ==
    /\ apc[a] = "lock"
    /\ lock = NoOwner
    /\ NotFull
    /\ ~shutdown

\* Append to the ring; the arg left in the cell is freed first, if not NULL.
AddTask(a) ==
    LET old == task_queue[queue_rear] IN
    /\ MayAdd(a)
    /\ old # Garbage
    /\ freed' = IF old = NoTask THEN freed ELSE freed \union {old}
    /\ task_queue' = [task_queue EXCEPT ![queue_rear] = want[a]]
    /\ queue_rear' = CellAfter(queue_rear)
    /\ queue_size' = queue_size + 1
    /\ SignalNotEmpty
    /\ apc' = [apc EXCEPT ![a] = "idle"]
    /\ want' = [want EXCEPT ![a] = NoTask]
    /\ UNCHANGED <<lock, local, submitted, aborted>>

\* The cell was never written: its arg is whatever malloc left, and free dies.
AddAborts(a) ==
    /\ MayAdd(a)
    /\ task_queue[queue_rear] = Garbage
    /\ aborted' = TRUE
    /\ UNCHANGED <<lock, pc, putVars, adderVars, submitted, freed>>

(***************************************************************************)
(* The pool is shut down: unlock, and go on all the same.  What follows    *)
(* runs without the lock, so that two callers can read the same cell; the  *)
(* unlock at the end releases the lock whoever holds it.                   *)
(***************************************************************************)
AddFallsThrough(a) ==
    /\ apc[a] = "lock"
    /\ lock = NoOwner
    /\ shutdown
    /\ local' = [local EXCEPT ![a] = [rear |-> queue_rear, size |-> queue_size,
                                      old |-> task_queue[queue_rear]]]
    /\ apc' = [apc EXCEPT ![a] = "unlocked"]
    /\ UNCHANGED <<lock, pc, putVars, want, submitted, freed, aborted>>

AddUnlocked(a) ==
    LET r == local[a] IN
    /\ apc[a] = "unlocked"
    /\ IF r.old = Garbage \/ r.old \in freed
         THEN /\ aborted' = TRUE        \* wild free, double free
              /\ UNCHANGED <<lock, pc, putVars, adderVars, freed>>
         ELSE /\ freed' = IF r.old = NoTask THEN freed ELSE freed \union {r.old}
              /\ task_queue' = [task_queue EXCEPT ![r.rear] = want[a]]
              /\ queue_rear' = CellAfter(r.rear)
              /\ queue_size' = r.size + 1
              /\ SignalNotEmpty
              /\ lock' = NoOwner
              /\ apc' = [apc EXCEPT ![a] = "idle"]
              /\ want' = [want EXCEPT ![a] = NoTask]
              /\ local' = [local EXCEPT ![a] = NothingRead]
              /\ UNCHANGED aborted
    /\ UNCHANGED submitted

AdderWakesSpuriously(a) ==
    /\ apc[a] = "waiting"
    /\ apc' = [apc EXCEPT ![a] = "lock"]
    /\ UNCHANGED <<lock, pc, putVars, want, local, submitted, freed, aborted>>

\* What no step of a caller changes.
AdderFrame ==
    UNCHANGED <<cur, queue_front, counterVars, shutdown, adjustVars,
                destroyVars, done>>

AdderStep(a) ==
    /\ Runs
    /\ AdderFrame
    /\ \/ AddBlock(a)
       \/ AddTask(a)
       \/ AddAborts(a)
       \/ AddFallsThrough(a)
       \/ AddUnlocked(a)

-----------------------------------------------------------------------------
(***************************************************************************)
(* threadpool_thread.  A worker that has the lock, at the top of its loop  *)
(* or back from pthread_cond_wait, does one of four things: retire because *)
(* the manager asked, wait, quit because of the shutdown, take a task.     *)
(***************************************************************************)
HasLock(w) == pc[w] \in {"top", "woken"} /\ lock = NoOwner

\* Back from the wait the worker counts one request to retire as served, ...
Asked(w) == pc[w] = "woken" /\ wait_exit_thr_num > 0

NoteAsked(w) ==
    wait_exit_thr_num' = IF Asked(w) THEN wait_exit_thr_num - 1
                                     ELSE wait_exit_thr_num

\* ... and retires only if that leaves enough workers.
EnoughOffByOne == live_thr_num >= MinThr     \* variant: one worker too few stay
Enough == live_thr_num > MinThr

MustExit(w) == Asked(w) /\ Enough

LeaveLiveForgotten == UNCHANGED live_thr_num \* variant: the count is not kept
LeaveLive == live_thr_num' = live_thr_num - 1

ExitWorker(w) ==
    /\ HasLock(w)
    /\ MustExit(w)
    /\ NoteAsked(w)
    /\ LeaveLive
    /\ pc' = [pc EXCEPT ![w] = "exiting"]
    /\ UNCHANGED <<lock, cur, queueVars, busy_thr_num, apc, done>>

\* Nothing to do: the worker has made up its mind to wait, and has the lock.
DecideToWait(w) ==
    /\ HasLock(w)
    /\ ~MustExit(w)
    /\ queue_size = 0
    /\ ~shutdown
    /\ NoteAsked(w)
    /\ lock' = w
    /\ pc' = [pc EXCEPT ![w] = "wait"]
    /\ UNCHANGED <<cur, queueVars, live_thr_num, busy_thr_num, apc, done>>

\* pthread_cond_wait: from here on a signal reaches the worker.
StartWait(w) ==
    /\ pc[w] = "wait"
    /\ lock' = NoOwner
    /\ pc' = [pc EXCEPT ![w] = "waiting"]
    /\ UNCHANGED <<cur, queueVars, counterVars, apc, done>>

QuitWorker(w) ==
    /\ HasLock(w)
    /\ ~MustExit(w)
    /\ shutdown
    /\ NoteAsked(w)
    /\ pc' = [pc EXCEPT ![w] = "quitting"]
    /\ UNCHANGED <<lock, cur, queueVars, live_thr_num, busy_thr_num, apc, done>>

NewestTask == task_queue[(queue_rear + QueueMax - 1) % QueueMax] \* variant: a stack
NextTask == task_queue[queue_front]

TakeTask(w) ==
    /\ HasLock(w)
    /\ ~MustExit(w)
    /\ queue_size # 0
    /\ ~shutdown
    /\ NoteAsked(w)
    /\ cur' = [cur EXCEPT ![w] = NextTask]
    /\ queue_front' = CellAfter(queue_front)
    /\ queue_size' = queue_size - 1
    /\ BroadcastNotFull
    /\ pc' = [pc EXCEPT ![w] = "taken"]
    /\ UNCHANGED <<lock, task_queue, queue_rear, live_thr_num, busy_thr_num,
                   done>>

RunTask(w) ==
    /\ pc[w] = "taken"
    /\ busy_thr_num' = busy_thr_num + 1
    /\ pc' = [pc EXCEPT ![w] = "running"]
    /\ UNCHANGED <<lock, cur, queueVars, live_thr_num, wait_exit_thr_num,
                   apc, done>>

LeaveBusy == busy_thr_num' = busy_thr_num - 1

\* The callback has returned (tasks do not run for ever).
FinishTask(w) ==
    /\ pc[w] = "running"
    /\ done' = done \union {cur[w]}
    /\ cur' = [cur EXCEPT ![w] = NoTask]
    /\ LeaveBusy
    /\ pc' = [pc EXCEPT ![w] = "top"]
    /\ UNCHANGED <<lock, queueVars, live_thr_num, wait_exit_thr_num, apc>>

\* pthread_exit: from here on the thread can be joined.
EndThread(w) ==
    /\ pc[w] \in {"exiting", "quitting"}
    /\ pc' = [pc EXCEPT ![w] = IF pc[w] = "exiting" THEN "exited" ELSE "quit"]
    /\ UNCHANGED <<lock, cur, queueVars, counterVars, apc, done>>

WorkerWakesSpuriously(w) ==
    /\ pc[w] = "waiting"
    /\ pc' = [pc EXCEPT ![w] = "woken"]
    /\ UNCHANGED <<lock, cur, queueVars, counterVars, apc, done>>

\* What no step of a worker changes.
WorkerFrame ==
    UNCHANGED <<shutdown, want, local, adjustVars, destroyVars, submitted,
                freed, aborted>>

WorkerStep(w) ==
    /\ Runs
    /\ WorkerFrame
    /\ \/ ExitWorker(w)
       \/ DecideToWait(w)
       \/ StartWait(w)
       \/ QuitWorker(w)
       \/ TakeTask(w)
       \/ RunTask(w)
       \/ FinishTask(w)
       \/ EndThread(w)

-----------------------------------------------------------------------------
(***************************************************************************)
(* adjust_thread.  It samples the queue and the live workers in one        *)
(* critical section, the busy ones in another, and acts on the samples in  *)
(* a third and a fourth.                                                   *)
(***************************************************************************)
AdjustLoopForEver ==        \* variant: shutdown is not looked at
    /\ mpc = "loop"
    /\ mpc' = "sample"
    /\ UNCHANGED <<pc, live_thr_num, wait_exit_thr_num, seen, sigLeft>>

AdjustLoop ==
    /\ mpc = "loop"
    /\ mpc' = IF shutdown THEN "done" ELSE "sample"
    /\ UNCHANGED <<pc, live_thr_num, wait_exit_thr_num, seen, sigLeft>>

AdjustSample ==
    /\ mpc = "sample"
    /\ lock = NoOwner
    /\ seen' = [seen EXCEPT !.queue = queue_size, !.live = live_thr_num]
    /\ mpc' = "busy"
    /\ UNCHANGED <<pc, live_thr_num, wait_exit_thr_num, sigLeft>>

AdjustSampleBusy ==
    /\ mpc = "busy"
    /\ seen' = [seen EXCEPT !.busy = busy_thr_num]
    /\ mpc' = "grow"
    /\ UNCHANGED <<pc, live_thr_num, wait_exit_thr_num, sigLeft>>

MustGrow == seen.queue >= MinWaitTask /\ seen.live < MaxThr
MustShrinkLate == seen.busy * 2 < seen.live /\ seen.live > MinThr + 1  \* variant
MustShrink == seen.busy * 2 < seen.live /\ seen.live > MinThr

AliveForEver(w) == TRUE     \* variant: no thread is ever reported dead
is_thread_alive(w) == ~ (KillSeesExit /\ pc[w] \in {"exited", "quit"})

\* The slots the manager may fill: 0, or a thread reported dead.
FreeSlots == {w \in Slots : pc[w] = "none" \/ ~is_thread_alive(w)}

\* The loop of the manager stops at Vary threads, at MaxThr live ones, or at
\* the end of the slots, and takes the free slots in their order.
Chosen(New) ==
    /\ New \subseteq FreeSlots
    /\ Cardinality(New) <= Vary
    /\ Cardinality(New) + live_thr_num <= MaxThr
    /\ \A w \in New, v \in FreeSlots : v < w => v \in New
    /\ \/ Cardinality(New) = Vary
       \/ Cardinality(New) + live_thr_num = MaxThr
       \/ New = FreeSlots

Grow ==
    /\ mpc = "grow"
    /\ MustGrow
    /\ lock = NoOwner
    /\ \E New \in SUBSET Slots :
          /\ Chosen(New)
          /\ \E S \in Started(New) :
                pc' = [w \in Slots |-> IF w \in S THEN "top" ELSE pc[w]]
          /\ live_thr_num' = live_thr_num + Cardinality(New)
    /\ mpc' = "shrink"
    /\ UNCHANGED <<wait_exit_thr_num, seen, sigLeft>>

NoGrow ==
    /\ mpc = "grow"
    /\ ~MustGrow
    /\ mpc' = "shrink"
    /\ UNCHANGED <<pc, live_thr_num, wait_exit_thr_num, seen, sigLeft>>

Shrink ==
    /\ mpc = "shrink"
    /\ MustShrink
    /\ lock = NoOwner
    /\ wait_exit_thr_num' = Vary
    /\ sigLeft' = Vary
    /\ mpc' = "signal"
    /\ UNCHANGED <<pc, live_thr_num, seen>>

NoShrink ==
    /\ mpc = "shrink"
    /\ ~MustShrink
    /\ mpc' = "loop"
    /\ seen' = NothingSeen
    /\ UNCHANGED <<pc, live_thr_num, wait_exit_thr_num, sigLeft>>

\* One of the Vary signals, sent without the lock.
SignalIdle ==
    /\ mpc = "signal"
    /\ SignalNotEmpty
    /\ sigLeft' = sigLeft - 1
    /\ IF sigLeft = 1
         THEN mpc' = "loop" /\ seen' = NothingSeen
         ELSE UNCHANGED <<mpc, seen>>
    /\ UNCHANGED <<live_thr_num, wait_exit_thr_num>>

\* What no step of the manager changes.
AdjustFrame ==
    UNCHANGED <<lock, cur, queueVars, busy_thr_num, shutdown, adderVars,
                destroyVars, historyVars>>

AdjustStep ==
    /\ Runs
    /\ AdjustFrame
    /\ \/ AdjustLoop
       \/ AdjustSample
       \/ AdjustSampleBusy
       \/ Grow
       \/ NoGrow
       \/ Shrink
       \/ NoShrink
       \/ SignalIdle

-----------------------------------------------------------------------------
(* threadpool_destroy *)

\* shutdown is written without the lock.
DestroyBegin ==
    /\ dpc = "idle"
    /\ Overlap \/ \A a \in Adders : apc[a] = "idle"
    /\ shutdown' = TRUE
    /\ dpc' = "joinAdjust"
    /\ UNCHANGED <<pc, di, aborted>>

JoinAdjust ==
    /\ dpc = "joinAdjust"
    /\ mpc = "done"
    /\ dpc' = "broadcast"
    /\ di' = 0
    /\ UNCHANGED <<pc, shutdown, aborted>>

MoreToJoinShort == di + 1 < live_thr_num      \* variant: one thread is not joined
MoreToJoin == di < live_thr_num

\* Both loops read live_thr_num anew, and without the lock, at every turn.
BroadcastTurn ==
    /\ dpc = "broadcast"
    /\ IF di < live_thr_num
         THEN BroadcastNotEmpty /\ di' = di + 1 /\ UNCHANGED dpc
         ELSE dpc' = "join" /\ di' = 0 /\ UNCHANGED pc
    /\ UNCHANGED <<shutdown, aborted>>

\* Workers are joined by slot, from slot 0 on.  Joining a slot no thread was
\* ever started in is joining thread 0.
JoinTurn ==
    /\ dpc = "join"
    /\ IF MoreToJoin
         THEN \/ /\ pc[di] \in {"exited", "quit"}
                 /\ di' = di + 1
                 /\ UNCHANGED <<dpc, aborted>>
              \/ /\ pc[di] = "none"
                 /\ aborted' = TRUE
                 /\ UNCHANGED <<dpc, di>>
         ELSE dpc' = "freeing" /\ UNCHANGED <<di, aborted>>
    /\ UNCHANGED <<pc, shutdown>>

\* threadpool_free: task_queue and threads are gone already when it asks for
\* the lock, to destroy it.
FreePool ==
    /\ dpc = "freeing"
    /\ lock = NoOwner
    /\ dpc' = "done"
    /\ UNCHANGED <<pc, shutdown, di, aborted>>

\* What no step of destroy changes.
DestroyFrame ==
    UNCHANGED <<lock, cur, queueVars, counterVars, adderVars, adjustVars,
                submitted, done, freed>>

DestroyStep ==
    /\ ~aborted
    /\ DestroyFrame
    /\ \/ JoinAdjust
       \/ BroadcastTurn
       \/ JoinTurn
       \/ FreePool

-----------------------------------------------------------------------------
Call ==
    /\ Runs
    /\ AdderFrame
    /\ \E a \in Adders, t \in Tasks : CallAdd(a, t)

SpuriousWakeup ==
    /\ Runs
    /\ \/ WorkerFrame /\ \E w \in Slots : WorkerWakesSpuriously(w)
       \/ AdderFrame /\ \E a \in Adders : AdderWakesSpuriously(a)

CallDestroy == ~aborted /\ DestroyFrame /\ DestroyBegin

Next ==
    \/ \E w \in Slots : WorkerStep(w)
    \/ \E a \in Adders : AdderStep(a)
    \/ AdjustStep
    \/ DestroyStep
    \/ Call
    \/ CallDestroy
    \/ SpuriousWakeup

Spec == Init /\ [][Next]_vars

(***************************************************************************)
(* A thread that competes for the lock gets it in the end (SF), the        *)
(* manager's sleep ends, and tasks finish.  Nobody has to call add or      *)
(* destroy, and no wake-up is spurious that must be.                       *)
(***************************************************************************)
Fairness ==
    /\ \A w \in Slots : SF_vars(WorkerStep(w))
    /\ \A a \in Adders : SF_vars(AdderStep(a))
    /\ SF_vars(AdjustStep)
    /\ SF_vars(DestroyStep)

FairSpec == Spec /\ Fairness

-----------------------------------------------------------------------------
(* What threadpool_all_threadnum and threadpool_busy_threadnum return.     *)

threadpool_all_threadnum == live_thr_num
threadpool_busy_threadnum == busy_thr_num

LiveSlots == {w \in Slots : pc[w] \notin {"none", "exiting", "exited"}}
BusySlots == {w \in Slots : pc[w] = "running"}
Awake == {w \in Slots : pc[w] \in {"top", "woken"}}
HasTask == {w \in Slots : pc[w] \in {"taken", "running"}}

-----------------------------------------------------------------------------
(* Safety properties *)

\* threadpool_all_threadnum tells the truth until the shutdown: the counter
\* that create, the manager and retiring workers each change on their own is
\* the number of threads that have neither decided to exit nor failed to start.
LiveCountExact ==
    shutdown \/ threadpool_all_threadnum = Cardinality(LiveSlots)

\* threadpool_busy_threadnum is the number of callbacks under way.
BusyCountExact == threadpool_busy_threadnum = Cardinality(BusySlots)

\* Whatever the manager does on the strength of old samples, and however many
\* workers answer a request to retire, the pool keeps its two bounds.
LiveWithinBounds == MinThr <= live_thr_num /\ live_thr_num <= MaxThr

\* A pool below its maximum can grow: a slot is free, or about to be, for the
\* thread that live_thr_num no longer counts (is_thread_alive, l.61-63).
RoomToGrow ==
    ~shutdown /\ live_thr_num < MaxThr =>
        FreeSlots # {} \/ \E w \in Slots : pc[w] = "exiting"

\* The queue never holds more than queue_max_size tasks (threadpool.c l.42).
QueueWithinCapacity == queue_size <= QueueMax

\* No caller of threadpool_add sleeps on queue_not_full while there is room:
\* the broadcast of the worker that made room has reached it.
BlockedOnlyWhenFull ==
    (\E a \in Adders : apc[a] = "waiting") => shutdown \/ queue_size = QueueMax

\* While a worker waits for a task, each task in the queue has another worker
\* on the way to it: the signal of threadpool_add (l.152-153) was not spent on
\* a thread that does something else, and no task waits beside an idle worker.
NoStrandedTask ==
    ~shutdown /\ Idle # {} => queue_size <= Cardinality(Awake)

\* When destroy frees the pool no thread is left that will touch it
\* (threadpool.h l.28: "Stops and destroys a thread pool").
NoUseAfterFree ==
    PoolFreed => /\ \A w \in Slots : pc[w] \in {"none", "exited", "quit"}
                 /\ \A a \in Adders : apc[a] = "idle"
                 /\ mpc = "done"

-----------------------------------------------------------------------------
(***************************************************************************)
(* The abstract pool: the ring from queue_front on is its queue, and a     *)
(* task runs from the moment a worker has taken it.                        *)
(***************************************************************************)
Pending == [i \in 1..queue_size |-> task_queue[(queue_front + i - 1) % QueueMax]]

Promise == INSTANCE TaskPool WITH
    Capacity <- QueueMax,
    MaxRunning <- MaxThr,
    pending <- Pending,
    running <- {cur[w] : w \in HasTask},
    finished <- done,
    open <- ~shutdown

\* The pool is a bounded queue whose tasks are started first in, first out,
\* by at most MaxThr threads, each once, and none lost while it is open.
KeepsPromise == Promise!Spec

-----------------------------------------------------------------------------
(* Liveness *)

\* Every task handed to threadpool_add is run, unless the pool is shut down (no
\* task is handed in twice, so that all of them are run in the end).
TasksRun == submitted \subseteq done \/ shutdown
TasksFinish == []<>TasksRun

\* A pool that is left alone goes back to its minimal size and stays there.
IdlePoolShrinks == <>(shutdown \/ aborted) \/ <>[](live_thr_num = MinThr)

\* shutdown is written and broadcast without the lock (l.287, l.292-295): a worker
\* that has tested it and does not wait yet is not reached, and waits for ever.
MissedBroadcast == dpc = "join" /\ Idle # {}

\* What was begun comes to an end: what waits is run as long as the pool is open,
\* what was started finishes whether it is or not, and threadpool_destroy returns;
\* a missed broadcast is the only thing that can keep it from doing so.
PoolSettles ==
    []<>(/\ TasksRun
         /\ HasTask = {}
         /\ dpc \in {"idle", "done"} \/ MissedBroadcast)
=============================================================================
