-------------------------- MODULE ThreadPoolProofs --------------------------
(***************************************************************************)
(* What ThreadPool.tla guarantees for every number of workers, tasks and   *)
(* callers, every size of the queue and every choice of the other          *)
(* constants that its assumptions allow.                                   *)
(***************************************************************************)
EXTENDS ThreadPool, FiniteSetTheorems, TLAPS

-----------------------------------------------------------------------------
(* Facts about the ring, the slots and the condition variables.            *)

\* A ring index stays a ring index.
LEMMA CellAfterType == \A i \in Cells : CellAfter(i) \in Cells
  BY SizesAssumption DEF Cells, CellAfter

\* There are finitely many slots, so that sets of them can be counted.
LEMMA SlotsFinite ==
    /\ IsFiniteSet(Slots)
    /\ \A S \in SUBSET Slots : IsFiniteSet(S) /\ Cardinality(S) \in Nat
  <1>1. IsFiniteSet(Slots)
    BY FS_Interval, SizesAssumption DEF Slots
  <1>2. \A S \in SUBSET Slots : IsFiniteSet(S) /\ Cardinality(S) \in Nat
    BY <1>1, FS_Subset, FS_CardinalityType
  <1> QED
    BY <1>1, <1>2

\* NoOwner is not a slot.
LEMMA NoOwnerNotSlot == NoOwner \notin Slots
  BY SizesAssumption DEF NoOwner, Slots

\* A signal on queue_not_empty wakes one waiting worker and touches no other.
LEMMA SignalEffect ==
    ASSUME TypeOK, SignalNotEmpty
    PROVE  /\ pc' \in [Slots -> WorkerPlaces]
           /\ \/ Idle = {} /\ pc' = pc
              \/ \E v \in Idle : pc' = [pc EXCEPT ![v] = "woken"]
  BY DEF TypeOK, SignalNotEmpty, Idle, WorkerPlaces

-----------------------------------------------------------------------------
(* Type correctness.  The manager sends a signal only while one is left.   *)

SignalsLeft == mpc = "signal" => sigLeft > 0

TypeInv == TypeOK /\ SignalsLeft

\* create gives every variable a value of its type.
LEMMA TypeInit == Init => TypeInv
  <1> SUFFICES ASSUME Init PROVE TypeInv
    OBVIOUS
  <1> USE SizesAssumption, FlagsAssumption
  <1>1. 0 \in Cells
    BY DEF Cells
  <1>2. pc \in [Slots -> WorkerPlaces]
    BY DEF Init, WorkerPlaces
  <1>3. task_queue \in [Cells -> Args]
    BY DEF Init, FirstArgs, Args
  <1>4. wait_exit_thr_num \in Int
    BY DEF Init
  <1>5. local \in [Adders -> [rear : Cells, size : Nat, old : Args]]
    BY <1>1 DEF Init, NothingRead, Args
  <1>6. cur \in [Slots -> Args] /\ lock \in Slots \union {NoOwner}
    BY DEF Init, Args
  <1>7. seen \in [queue : Nat, live : Int, busy : Int]
    BY DEF Init, NothingSeen
  <1>8. /\ apc \in [Adders -> AdderPlaces]
        /\ want \in [Adders -> Tasks \union {NoTask}]
        /\ mpc \in AdjustPlaces
        /\ dpc \in DestroyPlaces
    BY DEF Init, AdderPlaces, AdjustPlaces, DestroyPlaces
  <1>9. /\ queue_front \in Cells /\ queue_rear \in Cells /\ queue_size \in Nat
        /\ live_thr_num \in Int /\ busy_thr_num \in Int
        /\ sigLeft \in 0..Vary /\ di \in Nat
    BY <1>1 DEF Init
  <1>10. /\ submitted \subseteq Tasks /\ done \subseteq Args
         /\ freed \subseteq Args /\ aborted \in BOOLEAN
         /\ shutdown \in BOOLEAN
    BY DEF Init
  <1>11. SignalsLeft
    BY DEF Init, SignalsLeft
  <1> QED
    BY <1>2, <1>3, <1>4, <1>5, <1>6, <1>7, <1>8, <1>9, <1>10, <1>11
    DEF TypeInv, TypeOK

\* The steps of a caller of threadpool_add keep the types, the unlocked ones
\* after a shutdown included.
LEMMA TypeAdder ==
    ASSUME TypeInv, AdderFrame, NEW a \in Adders,
           \/ AddBlock(a) \/ AddTask(a) \/ AddAborts(a) \/ AddFallsThrough(a)
           \/ AddUnlocked(a) \/ AdderWakesSpuriously(a)
           \/ \E t \in Tasks : CallAdd(a, t)
    PROVE  TypeInv'
  <1> USE DEF TypeInv, SignalsLeft, AdderFrame, counterVars, adjustVars,
              destroyVars
  <1>1. CASE AddBlock(a)
    BY <1>1 DEF AddBlock, putVars, TypeOK, AdderPlaces
  <1>2. CASE AddTask(a)
    <2>1. pc' \in [Slots -> WorkerPlaces]
      BY <1>2, SignalEffect DEF AddTask
    <2>2. queue_rear' \in Cells
      BY <1>2, CellAfterType DEF AddTask, TypeOK
    <2>3. task_queue' \in [Cells -> Args] /\ freed' \subseteq Args
      BY <1>2 DEF AddTask, TypeOK, Args
    <2>4. queue_size' \in Nat
      BY <1>2 DEF AddTask, TypeOK
    <2>5. /\ apc' \in [Adders -> AdderPlaces]
          /\ want' \in [Adders -> Tasks \union {NoTask}]
      BY <1>2 DEF AddTask, TypeOK, AdderPlaces
    <2> QED
      BY <1>2, <2>1, <2>2, <2>3, <2>4, <2>5 DEF AddTask, TypeOK
  <1>3. CASE AddAborts(a)
    BY <1>3 DEF AddAborts, putVars, adderVars, TypeOK
  <1>4. CASE AddFallsThrough(a)
    <2>1. local' \in [Adders -> [rear : Cells, size : Nat, old : Args]]
      BY <1>4 DEF AddFallsThrough, TypeOK
    <2> QED
      BY <1>4, <2>1 DEF AddFallsThrough, putVars, TypeOK, AdderPlaces
  <1>5. CASE AddUnlocked(a)
    <2>1. CASE UNCHANGED <<lock, pc, putVars, adderVars, freed>> /\ aborted' = TRUE
      BY <1>5, <2>1 DEF AddUnlocked, putVars, adderVars, TypeOK
    <2>2. CASE ~ (UNCHANGED <<lock, pc, putVars, adderVars, freed>> /\ aborted' = TRUE)
      <3>1. /\ local[a] \in [rear : Cells, size : Nat, old : Args]
            /\ want[a] \in Args
        BY DEF TypeOK, Args
      <3>2. pc' \in [Slots -> WorkerPlaces]
        BY <1>5, <2>2, SignalEffect DEF AddUnlocked
      <3>3. queue_rear' \in Cells
        BY <1>5, <2>2, <3>1, CellAfterType DEF AddUnlocked
      <3>4. task_queue' \in [Cells -> Args] /\ freed' \subseteq Args
        BY <1>5, <2>2, <3>1 DEF AddUnlocked, TypeOK
      <3>5. queue_size' \in Nat
        BY <1>5, <2>2, <3>1 DEF AddUnlocked
      <3>6. NothingRead \in [rear : Cells, size : Nat, old : Args]
        BY SizesAssumption DEF NothingRead, Cells, Args
      <3>7. lock' \in Slots \union {NoOwner} /\ aborted' \in BOOLEAN
        BY <1>5, <2>2 DEF AddUnlocked, TypeOK
      <3>8. /\ apc' = [apc EXCEPT ![a] = "idle"]
            /\ want' = [want EXCEPT ![a] = NoTask]
            /\ local' = [local EXCEPT ![a] = NothingRead]
        BY <1>5, <2>2 DEF AddUnlocked
      <3>9. /\ apc' \in [Adders -> AdderPlaces]
            /\ want' \in [Adders -> Tasks \union {NoTask}]
            /\ local' \in [Adders -> [rear : Cells, size : Nat, old : Args]]
        BY <3>6, <3>8 DEF TypeOK, AdderPlaces
      <3> QED
        BY <1>5, <3>2, <3>3, <3>4, <3>5, <3>7, <3>9 DEF AddUnlocked, TypeOK
    <2> QED
      BY <2>1, <2>2
  <1>6. CASE AdderWakesSpuriously(a)
    BY <1>6 DEF AdderWakesSpuriously, putVars, TypeOK, AdderPlaces
  <1>7. CASE \E t \in Tasks : CallAdd(a, t)
    BY <1>7 DEF CallAdd, putVars, TypeOK, AdderPlaces
  <1> QED
    BY <1>1, <1>2, <1>3, <1>4, <1>5, <1>6, <1>7

\* The steps of a worker keep the types; a worker takes a task only when one is
\* there, so that queue_size does not go below zero.
LEMMA TypeWorker ==
    ASSUME TypeInv, WorkerFrame, NEW w \in Slots,
           \/ ExitWorker(w) \/ DecideToWait(w) \/ StartWait(w) \/ QuitWorker(w)
           \/ TakeTask(w) \/ RunTask(w) \/ FinishTask(w) \/ EndThread(w)
           \/ WorkerWakesSpuriously(w)
    PROVE  TypeInv'
  <1> USE DEF TypeInv, SignalsLeft, WorkerFrame, adjustVars, destroyVars,
              queueVars, counterVars, NoteAsked
  <1>1. CASE ExitWorker(w)
    BY <1>1 DEF ExitWorker, LeaveLive, TypeOK, WorkerPlaces
  <1>2. CASE DecideToWait(w)
    BY <1>2 DEF DecideToWait, TypeOK, WorkerPlaces
  <1>3. CASE StartWait(w)
    BY <1>3 DEF StartWait, TypeOK, WorkerPlaces
  <1>4. CASE QuitWorker(w)
    BY <1>4 DEF QuitWorker, TypeOK, WorkerPlaces
  <1>5. CASE TakeTask(w)
    <2>1. queue_front' \in Cells
      BY <1>5, CellAfterType DEF TakeTask, TypeOK
    <2>2. cur' \in [Slots -> Args]
      BY <1>5 DEF TakeTask, NextTask, TypeOK
    <2>3. queue_size' \in Nat /\ wait_exit_thr_num' \in Int
      BY <1>5 DEF TakeTask, TypeOK
    <2>4. pc' \in [Slots -> WorkerPlaces] /\ apc' \in [Adders -> AdderPlaces]
      BY <1>5 DEF TakeTask, BroadcastNotFull, TypeOK, WorkerPlaces, AdderPlaces
    <2> QED
      BY <1>5, <2>1, <2>2, <2>3, <2>4 DEF TakeTask, TypeOK
  <1>6. CASE RunTask(w)
    BY <1>6 DEF RunTask, TypeOK, WorkerPlaces
  <1>7. CASE FinishTask(w)
    <2>1. cur' \in [Slots -> Args] /\ done' \subseteq Args
      BY <1>7 DEF FinishTask, TypeOK, Args
    <2> QED
      BY <1>7, <2>1 DEF FinishTask, LeaveBusy, TypeOK, WorkerPlaces
  <1>8. CASE EndThread(w)
    BY <1>8 DEF EndThread, TypeOK, WorkerPlaces
  <1>9. CASE WorkerWakesSpuriously(w)
    BY <1>9 DEF WorkerWakesSpuriously, TypeOK, WorkerPlaces
  <1> QED
    BY <1>1, <1>2, <1>3, <1>4, <1>5, <1>6, <1>7, <1>8, <1>9

\* The steps of the manager keep the types.
LEMMA TypeAdjust ==
    ASSUME TypeInv, AdjustStep
    PROVE  TypeInv'
  <1> USE SizesAssumption DEF TypeInv, SignalsLeft, AdjustFrame, adderVars,
              queueVars, destroyVars, historyVars
  <1>1. CASE AdjustLoop
    BY <1>1 DEF AdjustStep, AdjustLoop, TypeOK, AdjustPlaces
  <1>2. CASE AdjustSample
    BY <1>2 DEF AdjustStep, AdjustSample, TypeOK, AdjustPlaces
  <1>3. CASE AdjustSampleBusy
    BY <1>3 DEF AdjustStep, AdjustSampleBusy, TypeOK, AdjustPlaces
  <1>4. CASE Grow
    <2>1. live_thr_num' \in Int
      BY <1>4, SlotsFinite DEF Grow, TypeOK
    <2>2. pc' \in [Slots -> WorkerPlaces]
      BY <1>4 DEF Grow, TypeOK, WorkerPlaces
    <2> QED
      BY <1>4, <2>1, <2>2 DEF AdjustStep, Grow, TypeOK, AdjustPlaces
  <1>5. CASE NoGrow
    BY <1>5 DEF AdjustStep, NoGrow, TypeOK, AdjustPlaces
  <1>6. CASE Shrink
    BY <1>6 DEF AdjustStep, Shrink, TypeOK, AdjustPlaces
  <1>7. CASE NoShrink
    BY <1>7 DEF AdjustStep, NoShrink, NothingSeen, TypeOK, AdjustPlaces
  <1>8. CASE SignalIdle
    <2>1. pc' \in [Slots -> WorkerPlaces]
      BY <1>8, SignalEffect DEF SignalIdle
    <2>2. sigLeft' \in 0..Vary /\ (mpc' = "signal" => sigLeft' > 0)
      BY <1>8 DEF SignalIdle, TypeOK
    <2>3. mpc' \in AdjustPlaces /\ seen' \in [queue : Nat, live : Int, busy : Int]
      BY <1>8 DEF SignalIdle, NothingSeen, TypeOK, AdjustPlaces
    <2> QED
      BY <1>8, <2>1, <2>2, <2>3 DEF AdjustStep, SignalIdle, TypeOK
  <1> QED
    BY <1>1, <1>2, <1>3, <1>4, <1>5, <1>6, <1>7, <1>8 DEF AdjustStep

\* The steps of threadpool_destroy keep the types.
LEMMA TypeDestroy ==
    ASSUME TypeInv, DestroyStep \/ CallDestroy
    PROVE  TypeInv'
  <1> USE DEF TypeInv, SignalsLeft, DestroyFrame, adderVars, adjustVars,
              queueVars, counterVars
  <1>1. CASE DestroyStep /\ JoinAdjust
    BY <1>1 DEF DestroyStep, JoinAdjust, TypeOK, DestroyPlaces
  <1>2. CASE DestroyStep /\ BroadcastTurn
    <2>1. pc' \in [Slots -> WorkerPlaces]
      BY <1>2 DEF DestroyStep, BroadcastTurn, BroadcastNotEmpty, TypeOK,
                  WorkerPlaces
    <2>2. dpc' \in DestroyPlaces /\ di' \in Nat
      BY <1>2 DEF DestroyStep, BroadcastTurn, TypeOK, DestroyPlaces
    <2> QED
      BY <1>2, <2>1, <2>2 DEF DestroyStep, BroadcastTurn, TypeOK
  <1>3. CASE DestroyStep /\ JoinTurn
    <2>1. dpc' \in DestroyPlaces /\ di' \in Nat
      BY <1>3 DEF DestroyStep, JoinTurn, TypeOK, DestroyPlaces
    <2>2. aborted' \in BOOLEAN
      BY <1>3 DEF DestroyStep, JoinTurn, TypeOK
    <2>3. UNCHANGED <<pc, shutdown>>
      BY <1>3 DEF JoinTurn
    <2> QED
      BY <1>3, <2>1, <2>2, <2>3 DEF DestroyStep, TypeOK
  <1>4. CASE DestroyStep /\ FreePool
    BY <1>4 DEF DestroyStep, FreePool, TypeOK, DestroyPlaces
  <1>5. CASE CallDestroy
    BY <1>5 DEF CallDestroy, DestroyBegin, TypeOK, DestroyPlaces
  <1> QED
    BY <1>1, <1>2, <1>3, <1>4, <1>5 DEF DestroyStep

\* Every step, whoever takes it, keeps the types.
LEMMA TypeStep == TypeInv /\ [Next]_vars => TypeInv'
  <1> SUFFICES ASSUME TypeInv, [Next]_vars PROVE TypeInv'
    OBVIOUS
  <1>1. CASE \E w \in Slots : WorkerStep(w)
    BY <1>1, TypeWorker DEF WorkerStep
  <1>2. CASE \E a \in Adders : AdderStep(a)
    BY <1>2, TypeAdder DEF AdderStep
  <1>3. CASE AdjustStep
    BY <1>3, TypeAdjust
  <1>4. CASE DestroyStep \/ CallDestroy
    BY <1>4, TypeDestroy
  <1>5. CASE Call
    BY <1>5, TypeAdder DEF Call
  <1>6. CASE SpuriousWakeup
    BY <1>6, TypeWorker, TypeAdder DEF SpuriousWakeup
  <1>7. CASE UNCHANGED vars
    BY <1>7 DEF vars, TypeInv, TypeOK, SignalsLeft, queueVars, counterVars,
                adderVars, adjustVars, destroyVars, historyVars
  <1> QED
    BY <1>1, <1>2, <1>3, <1>4, <1>5, <1>6, <1>7 DEF Next

\* Every variable keeps its type, in every use of the pool, correct or not.
THEOREM TypeCorrect == Spec => []TypeOK
  <1>1. TypeInv => TypeOK
    BY DEF TypeInv
  <1> QED
    BY <1>1, TypeInit, TypeStep, PTL DEF Spec
-----------------------------------------------------------------------------
(* The two bounds of the pool.                                             *)

BoundsInv == TypeInv /\ LiveWithinBounds

\* The only steps that change live_thr_num look at it under the lock before
\* they do: a worker that retires, and the manager when it starts threads.
LEMMA LiveChanges ==
    ASSUME TypeInv, [Next]_vars
    PROVE  \/ live_thr_num' = live_thr_num
           \/ live_thr_num > MinThr /\ live_thr_num' = live_thr_num - 1
           \/ live_thr_num <= live_thr_num' /\ live_thr_num' <= MaxThr
  <1>1. CASE \E w \in Slots : WorkerStep(w)
    <2> PICK w \in Slots : WorkerStep(w)
      BY <1>1
    <2>1. CASE ExitWorker(w)
      BY <2>1 DEF ExitWorker, MustExit, Enough, LeaveLive
    <2>2. CASE ~ExitWorker(w)
      BY <2>2 DEF WorkerStep, DecideToWait, StartWait, QuitWorker, TakeTask,
                  RunTask, FinishTask, EndThread, counterVars
    <2> QED
      BY <2>1, <2>2
  <1>2. CASE AdjustStep
    <2>1. CASE Grow
      BY <2>1, SlotsFinite DEF Grow, Chosen, TypeInv, TypeOK
    <2>2. CASE ~Grow
      BY <1>2, <2>2 DEF AdjustStep, AdjustLoop, AdjustSample, AdjustSampleBusy,
                        NoGrow, Shrink, NoShrink, SignalIdle
    <2> QED
      BY <2>1, <2>2
  <1>3. CASE \/ \E a \in Adders : AdderStep(a)
             \/ DestroyStep \/ Call \/ CallDestroy \/ SpuriousWakeup
             \/ UNCHANGED vars
    BY <1>3 DEF AdderStep, AdderFrame, DestroyStep, DestroyFrame, Call,
                CallDestroy, SpuriousWakeup, WorkerWakesSpuriously, vars,
                counterVars
  <1> QED
    BY <1>1, <1>2, <1>3 DEF Next

\* The pool keeps between min_thr_num and max_thr_num workers, in every use.
THEOREM BoundsKept == Spec => []LiveWithinBounds
  <1>1. Init => BoundsInv
    BY TypeInit, SizesAssumption DEF BoundsInv, LiveWithinBounds, Init
  <1>2. BoundsInv /\ [Next]_vars => BoundsInv'
    <2> SUFFICES ASSUME BoundsInv, [Next]_vars PROVE BoundsInv'
      OBVIOUS
    <2>1. TypeInv'
      BY TypeStep DEF BoundsInv
    <2>2. live_thr_num \in Int /\ live_thr_num' \in Int
      BY <2>1 DEF BoundsInv, TypeInv, TypeOK
    <2>3. LiveWithinBounds'
      BY <2>2, LiveChanges, SizesAssumption DEF BoundsInv, LiveWithinBounds
    <2> QED
      BY <2>1, <2>3 DEF BoundsInv
  <1>3. BoundsInv => LiveWithinBounds
    BY DEF BoundsInv
  <1> QED
    BY <1>1, <1>2, <1>3, PTL DEF Spec
-----------------------------------------------------------------------------
(* The counter of busy workers.                                            *)

\* Waking workers and starting threads starts and ends no callback.
LEMMA WakeKeepsBusy ==
    ASSUME TypeInv,
           \/ SignalNotEmpty
           \/ BroadcastNotEmpty
           \/ UNCHANGED pc
           \/ \E w \in Slots : WorkerWakesSpuriously(w)
           \/ Grow
    PROVE  BusySlots' = BusySlots
  <1>1. CASE SignalNotEmpty
    BY <1>1, SignalEffect DEF TypeInv, TypeOK, BusySlots, Idle
  <1>2. CASE BroadcastNotEmpty
    BY <1>2 DEF BroadcastNotEmpty, BusySlots
  <1>3. CASE UNCHANGED pc
    BY <1>3 DEF BusySlots
  <1>4. CASE \E w \in Slots : WorkerWakesSpuriously(w)
    BY <1>4 DEF WorkerWakesSpuriously, TypeInv, TypeOK, BusySlots
  <1>5. CASE Grow
    <2>1. PICK New \in SUBSET Slots :
             /\ Chosen(New)
             /\ \E S \in Started(New) :
                   pc' = [w \in Slots |-> IF w \in S THEN "top" ELSE pc[w]]
      BY <1>5 DEF Grow
    <2>2. PICK S \in Started(New) :
             pc' = [w \in Slots |-> IF w \in S THEN "top" ELSE pc[w]]
      BY <2>1
    <2>3. \A w \in S : w \in FreeSlots
      BY <2>1, <2>2 DEF Started, Chosen
    <2>4. \A w \in S : pc[w] # "running"
      BY <2>3 DEF FreeSlots, is_thread_alive
    <2> QED
      BY <2>2, <2>4 DEF BusySlots
  <1> QED
    BY <1>1, <1>2, <1>3, <1>4, <1>5

\* The counter moves with the set of workers that run a callback.
LEMMA BusyChanges ==
    ASSUME TypeInv, [Next]_vars
    PROVE  \/ busy_thr_num' = busy_thr_num /\ BusySlots' = BusySlots
           \/ \E w \in Slots \ BusySlots :
                 /\ busy_thr_num' = busy_thr_num + 1
                 /\ BusySlots' = BusySlots \union {w}
           \/ \E w \in BusySlots :
                 /\ busy_thr_num' = busy_thr_num - 1
                 /\ BusySlots' = BusySlots \ {w}
  <1>1. CASE \E w \in Slots : WorkerStep(w)
    <2> PICK w \in Slots : WorkerStep(w)
      BY <1>1
    <2>1. CASE RunTask(w)
      <3>1. BusySlots' = BusySlots \union {w} /\ w \notin BusySlots
        BY <2>1 DEF RunTask, BusySlots, TypeInv, TypeOK
      <3> QED
        BY <2>1, <3>1 DEF RunTask
    <2>2. CASE FinishTask(w)
      <3>1. BusySlots' = BusySlots \ {w} /\ w \in BusySlots
        BY <2>2 DEF FinishTask, BusySlots, TypeInv, TypeOK
      <3> QED
        BY <2>2, <3>1 DEF FinishTask, LeaveBusy
    <2>3. CASE \/ ExitWorker(w) \/ DecideToWait(w) \/ StartWait(w)
               \/ QuitWorker(w) \/ TakeTask(w) \/ EndThread(w)
      <3>1. /\ pc[w] # "running"
            /\ \E p \in WorkerPlaces : p # "running" /\ pc' = [pc EXCEPT ![w] = p]
        BY <2>3 DEF ExitWorker, DecideToWait, StartWait, QuitWorker, TakeTask,
                    EndThread, HasLock, WorkerPlaces
      <3>2. BusySlots' = BusySlots
        BY <3>1 DEF BusySlots, TypeInv, TypeOK
      <3> QED
        BY <2>3, <3>2 DEF ExitWorker, DecideToWait, StartWait, QuitWorker,
                          TakeTask, EndThread, counterVars
    <2> QED
      BY <2>1, <2>2, <2>3 DEF WorkerStep
  <1>2. CASE \E a \in Adders : AdderStep(a)
    <2> PICK a \in Adders : AdderStep(a)
      BY <1>2
    <2>1. UNCHANGED pc \/ SignalNotEmpty
      BY DEF AdderStep, AddBlock, AddTask, AddAborts, AddFallsThrough,
             AddUnlocked
    <2> QED
      BY <2>1, WakeKeepsBusy DEF AdderStep, AdderFrame, counterVars
  <1>3. CASE AdjustStep
    <2>1. UNCHANGED pc \/ SignalNotEmpty \/ Grow
      BY <1>3 DEF AdjustStep, AdjustLoop, AdjustSample, AdjustSampleBusy,
                  NoGrow, Shrink, NoShrink, SignalIdle
    <2> QED
      BY <1>3, <2>1, WakeKeepsBusy DEF AdjustStep, AdjustFrame
  <1>4. CASE DestroyStep \/ CallDestroy
    <2>1. UNCHANGED pc \/ BroadcastNotEmpty
      BY <1>4 DEF DestroyStep, CallDestroy, DestroyBegin, JoinAdjust,
                  BroadcastTurn, JoinTurn, FreePool
    <2> QED
      BY <1>4, <2>1, WakeKeepsBusy DEF DestroyStep, CallDestroy, DestroyFrame,
                                       counterVars
  <1>5. CASE Call \/ UNCHANGED vars
    BY <1>5, WakeKeepsBusy DEF Call, CallAdd, AdderFrame, counterVars, vars
  <1>6. CASE SpuriousWakeup
    <2>1. UNCHANGED pc \/ \E w \in Slots : WorkerWakesSpuriously(w)
      BY <1>6 DEF SpuriousWakeup, AdderWakesSpuriously
    <2> QED
      BY <1>6, <2>1, WakeKeepsBusy
      DEF SpuriousWakeup, WorkerWakesSpuriously, AdderFrame, counterVars
  <1> QED
    BY <1>1, <1>2, <1>3, <1>4, <1>5, <1>6 DEF Next

\* threadpool_busy_threadnum counts the callbacks under way, in every use.
THEOREM BusyCountCorrect == Spec => []BusyCountExact
  <1> DEFINE BusyInv == TypeInv /\ BusyCountExact
  <1>1. Init => BusyInv
    <2> SUFFICES ASSUME Init PROVE BusyInv
      OBVIOUS
    <2>1. BusySlots = {}
      BY DEF Init, BusySlots
    <2> QED
      BY <2>1, TypeInit, FS_EmptySet
      DEF Init, BusyCountExact, threadpool_busy_threadnum
  <1>2. BusyInv /\ [Next]_vars => BusyInv'
    <2> SUFFICES ASSUME BusyInv, [Next]_vars PROVE BusyInv'
      OBVIOUS
    <2>1. TypeInv'
      BY TypeStep
    <2>2. IsFiniteSet(BusySlots) /\ Cardinality(BusySlots) \in Nat
      BY SlotsFinite DEF BusySlots
    <2>3. \A w \in Slots \ BusySlots :
             Cardinality(BusySlots \union {w}) = Cardinality(BusySlots) + 1
      BY <2>2, FS_AddElement
    <2>4. \A w \in BusySlots :
             Cardinality(BusySlots \ {w}) = Cardinality(BusySlots) - 1
      BY <2>2, FS_RemoveElement
    <2>5. BusyCountExact'
      BY <2>2, <2>3, <2>4, BusyChanges
      DEF BusyCountExact, threadpool_busy_threadnum
    <2> QED
      BY <2>1, <2>5
  <1>3. BusyInv => BusyCountExact
    OBVIOUS
  <1> QED
    BY <1>1, <1>2, <1>3, PTL DEF Spec
-----------------------------------------------------------------------------
(* The counter of live workers.                                            *)

\* Until the shutdown no worker is on its way out for any other reason than
\* that it has retired, which live_thr_num knows of.
NobodyQuits ==
    ~shutdown => \A w \in Slots : pc[w] \notin {"quitting", "quit"}

LiveInv == TypeInv /\ NobodyQuits /\ LiveCountExact

\* A wake-up neither adds a live worker nor makes one quit.
LEMMA WakeKeepsLive ==
    ASSUME TypeInv,
           \/ SignalNotEmpty
           \/ BroadcastNotEmpty
           \/ UNCHANGED pc
           \/ \E w \in Slots : WorkerWakesSpuriously(w)
    PROVE  /\ LiveSlots' = LiveSlots
           /\ \A w \in Slots : pc'[w] \in {"quitting", "quit"} => pc'[w] = pc[w]
  <1>1. CASE SignalNotEmpty
    BY <1>1, SignalEffect DEF TypeInv, TypeOK, LiveSlots, Idle
  <1>2. CASE BroadcastNotEmpty
    BY <1>2 DEF BroadcastNotEmpty, LiveSlots
  <1>3. CASE UNCHANGED pc
    BY <1>3 DEF LiveSlots
  <1>4. CASE \E w \in Slots : WorkerWakesSpuriously(w)
    BY <1>4 DEF WorkerWakesSpuriously, TypeInv, TypeOK, LiveSlots
  <1> QED
    BY <1>1, <1>2, <1>3, <1>4

\* Before the shutdown the manager fills slots of workers that live_thr_num
\* does not count any more, and fills all those it counts anew.
LEMMA GrowEffect ==
    ASSUME CreateMayFail = FALSE, TypeInv, NobodyQuits, ~shutdown, Grow
    PROVE  /\ \A w \in Slots : pc'[w] \in {"quitting", "quit"} => pc'[w] = pc[w]
           /\ \E New \in SUBSET Slots :
                 /\ New \cap LiveSlots = {}
                 /\ LiveSlots' = LiveSlots \union New
                 /\ live_thr_num' = live_thr_num + Cardinality(New)
  <1>1. PICK New \in SUBSET Slots :
           /\ Chosen(New)
           /\ \E S \in Started(New) :
                 pc' = [w \in Slots |-> IF w \in S THEN "top" ELSE pc[w]]
           /\ live_thr_num' = live_thr_num + Cardinality(New)
    BY DEF Grow
  <1>2. pc' = [w \in Slots |-> IF w \in New THEN "top" ELSE pc[w]]
    BY <1>1 DEF Started
  <1>3. \A w \in New : pc[w] \in {"none", "exited"}
    BY <1>1 DEF Chosen, FreeSlots, is_thread_alive, NobodyQuits
  <1>4. New \cap LiveSlots = {} /\ LiveSlots' = LiveSlots \union New
    BY <1>2, <1>3 DEF LiveSlots
  <1> QED
    BY <1>1, <1>2, <1>4

\* The counter moves with the set of live workers.
LEMMA LiveMoves ==
    ASSUME CreateMayFail = FALSE, TypeInv, NobodyQuits, ~shutdown,
           [Next]_vars, ~shutdown'
    PROVE  /\ \A w \in Slots : pc'[w] \in {"quitting", "quit"} => pc'[w] = pc[w]
           /\ \/ LiveSlots' = LiveSlots /\ live_thr_num' = live_thr_num
              \/ \E w \in LiveSlots : /\ LiveSlots' = LiveSlots \ {w}
                                      /\ live_thr_num' = live_thr_num - 1
              \/ \E New \in SUBSET Slots :
                    /\ New \cap LiveSlots = {}
                    /\ LiveSlots' = LiveSlots \union New
                    /\ live_thr_num' = live_thr_num + Cardinality(New)
  <1>1. CASE \E w \in Slots : WorkerStep(w)
    <2> PICK w \in Slots : WorkerStep(w)
      BY <1>1
    <2>1. CASE ExitWorker(w)
      <3>1. pc' = [pc EXCEPT ![w] = "exiting"] /\ pc[w] \in {"top", "woken"}
        BY <2>1 DEF ExitWorker, HasLock
      <3>2. LiveSlots' = LiveSlots \ {w} /\ w \in LiveSlots
        BY <3>1 DEF LiveSlots, TypeInv, TypeOK
      <3>3. \A v \in Slots : pc'[v] \in {"quitting", "quit"} => pc'[v] = pc[v]
        BY <3>1 DEF TypeInv, TypeOK
      <3> QED
        BY <2>1, <3>2, <3>3 DEF ExitWorker, LeaveLive
    <2>2. CASE EndThread(w)
      <3>1. pc[w] = "exiting" /\ pc' = [pc EXCEPT ![w] = "exited"]
        BY <2>2 DEF EndThread, NobodyQuits
      <3>2. LiveSlots' = LiveSlots
        BY <3>1 DEF LiveSlots, TypeInv, TypeOK
      <3>3. \A v \in Slots : pc'[v] \in {"quitting", "quit"} => pc'[v] = pc[v]
        BY <3>1 DEF TypeInv, TypeOK
      <3> QED
        BY <2>2, <3>2, <3>3 DEF EndThread, counterVars
    <2>3. CASE \/ DecideToWait(w) \/ StartWait(w) \/ TakeTask(w)
               \/ RunTask(w) \/ FinishTask(w)
      <3>1. /\ pc[w] \in {"top", "woken", "wait", "taken", "running"}
            /\ \E p \in {"top", "wait", "waiting", "taken", "running"} :
                  pc' = [pc EXCEPT ![w] = p]
        BY <2>3 DEF DecideToWait, StartWait, TakeTask, RunTask, FinishTask,
                    HasLock
      <3>2. LiveSlots' = LiveSlots
        BY <3>1 DEF LiveSlots, TypeInv, TypeOK
      <3>3. \A v \in Slots : pc'[v] \in {"quitting", "quit"} => pc'[v] = pc[v]
        BY <3>1 DEF TypeInv, TypeOK
      <3> QED
        BY <2>3, <3>2, <3>3 DEF DecideToWait, StartWait, TakeTask, RunTask,
                                FinishTask, counterVars
    <2>4. ~QuitWorker(w)
      BY DEF QuitWorker
    <2> QED
      BY <2>1, <2>2, <2>3, <2>4 DEF WorkerStep
  <1>2. CASE \E a \in Adders : AdderStep(a)
    <2> PICK a \in Adders : AdderStep(a)
      BY <1>2
    <2>1. UNCHANGED pc \/ SignalNotEmpty
      BY DEF AdderStep, AddBlock, AddTask, AddAborts, AddFallsThrough,
             AddUnlocked
    <2> QED
      BY <2>1, WakeKeepsLive DEF AdderStep, AdderFrame, counterVars
  <1>3. CASE AdjustStep
    <2>1. CASE Grow
      BY <2>1, GrowEffect
    <2>2. CASE ~Grow
      <3>1. (UNCHANGED pc \/ SignalNotEmpty) /\ UNCHANGED live_thr_num
        BY <1>3, <2>2 DEF AdjustStep, AdjustLoop, AdjustSample,
                          AdjustSampleBusy, NoGrow, Shrink, NoShrink, SignalIdle
      <3> QED
        BY <3>1, WakeKeepsLive
    <2> QED
      BY <2>1, <2>2
  <1>4. CASE DestroyStep \/ CallDestroy
    <2>1. UNCHANGED pc \/ BroadcastNotEmpty
      BY <1>4 DEF DestroyStep, CallDestroy, DestroyBegin, JoinAdjust,
                  BroadcastTurn, JoinTurn, FreePool
    <2> QED
      BY <1>4, <2>1, WakeKeepsLive DEF DestroyStep, CallDestroy, DestroyFrame,
                                       counterVars
  <1>5. CASE Call \/ UNCHANGED vars
    BY <1>5, WakeKeepsLive DEF Call, CallAdd, AdderFrame, counterVars, vars
  <1>6. CASE SpuriousWakeup
    <2>1. UNCHANGED pc \/ \E w \in Slots : WorkerWakesSpuriously(w)
      BY <1>6 DEF SpuriousWakeup, AdderWakesSpuriously
    <2> QED
      BY <1>6, <2>1, WakeKeepsLive
      DEF SpuriousWakeup, WorkerWakesSpuriously, AdderFrame, counterVars
  <1> QED
    BY <1>1, <1>2, <1>3, <1>4, <1>5, <1>6 DEF Next

\* shutdown is never taken back.
LEMMA ShutdownStays == shutdown /\ TypeInv /\ [Next]_vars => shutdown'
  BY DEF Next, WorkerStep, WorkerFrame, AdderStep, AdderFrame, AdjustStep,
         AdjustFrame, DestroyStep, JoinAdjust, BroadcastTurn, JoinTurn,
         FreePool, Call, CallDestroy, DestroyBegin, SpuriousWakeup, vars

\* The first min_thr_num slots are those of the first workers.
LEMMA LiveInit ==
    ASSUME CreateMayFail = FALSE, Init
    PROVE  LiveInv
  <1>1. LiveSlots = 0..MinThr-1
    BY SizesAssumption DEF Init, Started, LiveSlots, Slots
  <1>2. Cardinality(0..MinThr-1) = MinThr
    BY FS_Interval, SizesAssumption
  <1>3. NobodyQuits
    BY DEF Init, NobodyQuits
  <1> QED
    BY <1>1, <1>2, <1>3, TypeInit
    DEF LiveInv, LiveCountExact, threadpool_all_threadnum, Init

\* The invariant of the counter is kept by every step.
LEMMA LiveStep ==
    ASSUME CreateMayFail = FALSE, LiveInv, [Next]_vars
    PROVE  LiveInv'
  <1>1. TypeInv'
    BY TypeStep DEF LiveInv
  <1>2. CASE shutdown'
    BY <1>1, <1>2 DEF LiveInv, NobodyQuits, LiveCountExact
  <1>3. CASE ~shutdown'
    <2>1. ~shutdown
      BY <1>3, ShutdownStays DEF LiveInv
    <2>2. NobodyQuits'
      BY <1>3, <2>1, LiveMoves DEF LiveInv, NobodyQuits
    <2>3. IsFiniteSet(LiveSlots) /\ Cardinality(LiveSlots) \in Nat
      BY SlotsFinite DEF LiveSlots
    <2>4. live_thr_num = Cardinality(LiveSlots)
      BY <2>1 DEF LiveInv, LiveCountExact, threadpool_all_threadnum
    <2>5. \A w \in LiveSlots :
             Cardinality(LiveSlots \ {w}) = Cardinality(LiveSlots) - 1
      BY <2>3, FS_RemoveElement
    <2>6. \A New \in SUBSET Slots : New \cap LiveSlots = {} =>
             Cardinality(LiveSlots \union New) =
                Cardinality(LiveSlots) + Cardinality(New)
      <3> SUFFICES ASSUME NEW New \in SUBSET Slots, New \cap LiveSlots = {}
                   PROVE  Cardinality(LiveSlots \union New) =
                             Cardinality(LiveSlots) + Cardinality(New)
        OBVIOUS
      <3>1. IsFiniteSet(New) /\ Cardinality(New) \in Nat
        BY SlotsFinite
      <3>2. Cardinality(LiveSlots \union New) = Cardinality(LiveSlots)
               + Cardinality(New) - Cardinality(LiveSlots \cap New)
        BY <2>3, <3>1, FS_Union
      <3>3. LiveSlots \cap New = {}
        OBVIOUS
      <3> QED
        BY <2>3, <3>1, <3>2, <3>3, FS_EmptySet
    <2>7. live_thr_num' = Cardinality(LiveSlots')
      BY <1>3, <2>1, <2>4, <2>5, <2>6, LiveMoves DEF LiveInv
    <2> QED
      BY <1>1, <2>2, <2>7 DEF LiveInv, LiveCountExact, threadpool_all_threadnum
  <1> QED
    BY <1>2, <1>3

\* When pthread_create does not fail, threadpool_all_threadnum is the number
\* of workers that have not retired, until the shutdown.
THEOREM LiveCountCorrect ==
    ASSUME CreateMayFail = FALSE
    PROVE  Spec => []LiveCountExact
  <1>1. Init => LiveInv
    BY LiveInit
  <1>2. LiveInv /\ [Next]_vars => LiveInv'
    BY LiveStep
  <1>3. LiveInv => LiveCountExact
    BY DEF LiveInv
  <1> QED
    BY <1>1, <1>2, <1>3, PTL DEF Spec

\* Where a dead thread is seen to be dead, a pool below max_thr_num can grow:
\* the slots it has are more than the workers it counts.
THEOREM RoomCorrect ==
    ASSUME CreateMayFail = FALSE, KillSeesExit = TRUE
    PROVE  Spec => []RoomToGrow
  <1>1. Init => LiveInv
    BY LiveInit
  <1>2. LiveInv /\ [Next]_vars => LiveInv'
    BY LiveStep
  <1>3. LiveInv => RoomToGrow
    <2> SUFFICES ASSUME LiveInv, ~shutdown, live_thr_num < MaxThr
                 PROVE  \/ FreeSlots # {}
                        \/ \E w \in Slots : pc[w] = "exiting"
      BY DEF RoomToGrow
    <2>1. Cardinality(LiveSlots) < MaxThr
      BY DEF LiveInv, LiveCountExact, threadpool_all_threadnum
    <2>2. Cardinality(Slots) = MaxThr
      BY FS_Interval, SizesAssumption DEF Slots
    <2>3. LiveSlots # Slots
      BY <2>1, <2>2, SizesAssumption
    <2>4. PICK w \in Slots : pc[w] \in {"none", "exiting", "exited"}
      BY <2>3 DEF LiveSlots
    <2> QED
      BY <2>4 DEF FreeSlots, is_thread_alive
  <1> QED
    BY <1>1, <1>2, <1>3, PTL DEF Spec
-----------------------------------------------------------------------------
(* The queue and its callers, when destroy does not overlap calls of add.  *)

\* Nobody adds once the pool is shut down, hence nobody adds without the lock.
ProperUse ==
    /\ \A a \in Adders : apc[a] # "unlocked"
    /\ shutdown => \A a \in Adders : apc[a] = "idle"
    /\ dpc # "idle" => shutdown

QueueInv ==
    /\ TypeInv
    /\ ProperUse
    /\ QueueWithinCapacity
    /\ BlockedOnlyWhenFull

\* What a step can do to the queue and to the callers: nothing; a caller comes
\* or wakes up, blocks, or adds its task; a worker takes a task and tells all
\* callers; destroy begins, or goes on.
QueueStill == UNCHANGED <<queue_size, apc, shutdown, dpc>>

CallerTries ==
    /\ UNCHANGED <<queue_size, shutdown, dpc>>
    /\ ~shutdown
    /\ \E a \in Adders : apc' = [apc EXCEPT ![a] = "lock"]

CallerBlocks ==
    /\ UNCHANGED <<queue_size, shutdown, dpc>>
    /\ ~shutdown
    /\ queue_size = QueueMax
    /\ \E a \in Adders : apc' = [apc EXCEPT ![a] = "waiting"]

CallerAdds ==
    /\ UNCHANGED <<shutdown, dpc>>
    /\ ~shutdown
    /\ queue_size # QueueMax
    /\ queue_size' = queue_size + 1
    /\ \E a \in Adders : apc' = [apc EXCEPT ![a] = "idle"]

WorkerTakes ==
    /\ UNCHANGED <<shutdown, dpc>>
    /\ ~shutdown
    /\ queue_size' = queue_size - 1
    /\ BroadcastNotFull

DestroyBegins ==
    /\ UNCHANGED <<queue_size, apc>>
    /\ \A a \in Adders : apc[a] = "idle"
    /\ shutdown'

DestroyGoesOn == UNCHANGED <<queue_size, apc, shutdown>> /\ dpc # "idle"

\* A step does one of these, when destroy does not overlap calls of add.
LEMMA QueueMoves ==
    ASSUME Overlap = FALSE, QueueInv, [Next]_vars
    PROVE  \/ QueueStill \/ CallerTries \/ CallerBlocks \/ CallerAdds
           \/ WorkerTakes \/ DestroyBegins \/ DestroyGoesOn
  <1> USE DEF QueueInv, ProperUse
  <1>1. CASE \E w \in Slots : WorkerStep(w)
    <2> PICK w \in Slots : WorkerStep(w)
      BY <1>1
    <2>1. CASE TakeTask(w)
      BY <2>1 DEF WorkerStep, TakeTask, WorkerFrame, destroyVars, WorkerTakes
    <2>2. CASE ~TakeTask(w)
      BY <2>2 DEF WorkerStep, WorkerFrame, destroyVars, ExitWorker,
                  DecideToWait, StartWait, QuitWorker, RunTask, FinishTask,
                  EndThread, queueVars, QueueStill
    <2> QED
      BY <2>1, <2>2
  <1>2. CASE \E a \in Adders : AdderStep(a)
    <2> PICK a \in Adders : AdderStep(a)
      BY <1>2
    <2>1. CASE AddBlock(a)
      BY <2>1 DEF AdderStep, AdderFrame, destroyVars, AddBlock, NotFull,
                  putVars, CallerBlocks
    <2>2. CASE AddTask(a)
      BY <2>2 DEF AdderStep, AdderFrame, destroyVars, AddTask, MayAdd, NotFull,
                  CallerAdds
    <2>3. CASE AddAborts(a)
      BY <2>3 DEF AdderStep, AdderFrame, destroyVars, AddAborts, adderVars,
                  putVars, QueueStill
    <2>4. ~AddFallsThrough(a) /\ ~AddUnlocked(a)
      BY DEF AddFallsThrough, AddUnlocked
    <2> QED
      BY <2>1, <2>2, <2>3, <2>4 DEF AdderStep
  <1>3. CASE AdjustStep
    BY <1>3 DEF AdjustStep, AdjustFrame, queueVars, adderVars, destroyVars,
                QueueStill
  <1>4. CASE DestroyStep
    BY <1>4 DEF DestroyStep, DestroyFrame, queueVars, adderVars, JoinAdjust,
                BroadcastTurn, JoinTurn, FreePool, DestroyGoesOn
  <1>5. CASE CallDestroy
    BY <1>5 DEF CallDestroy, DestroyBegin, DestroyFrame, queueVars, adderVars,
                DestroyBegins
  <1>6. CASE Call
    BY <1>6 DEF Call, CallAdd, AdderFrame, destroyVars, putVars, CallerTries
  <1>7. CASE SpuriousWakeup
    BY <1>7 DEF SpuriousWakeup, WorkerFrame, WorkerWakesSpuriously, AdderFrame,
                AdderWakesSpuriously, queueVars, putVars, destroyVars,
                QueueStill, CallerTries
  <1>8. CASE UNCHANGED vars
    BY <1>8 DEF vars, queueVars, adderVars, destroyVars, QueueStill
  <1> QED
    BY <1>1, <1>2, <1>3, <1>4, <1>5, <1>6, <1>7, <1>8 DEF Next

\* Callers that respect the shutdown keep the queue within its capacity, and
\* one that waits does so because the queue is full.
LEMMA QueueStep ==
    ASSUME Overlap = FALSE, QueueInv, [Next]_vars
    PROVE  QueueInv'
  <1>1. TypeInv'
    BY TypeStep DEF QueueInv
  <1>2. /\ apc \in [Adders -> AdderPlaces]
        /\ queue_size \in Nat /\ queue_size' \in Nat
        /\ QueueMax \in Nat
    BY <1>1, SizesAssumption DEF QueueInv, TypeInv, TypeOK
  <1> USE DEF QueueInv, ProperUse, QueueWithinCapacity, BlockedOnlyWhenFull
  <1>3. CASE QueueStill
    BY <1>1, <1>3 DEF QueueStill
  <1>4. CASE CallerTries
    BY <1>1, <1>2, <1>4 DEF CallerTries
  <1>5. CASE CallerBlocks
    BY <1>1, <1>2, <1>5 DEF CallerBlocks
  <1>6. CASE CallerAdds
    <2>1. \A a \in Adders : apc'[a] # "waiting" /\ apc'[a] # "unlocked"
      BY <1>2, <1>6 DEF CallerAdds
    <2>2. queue_size' <= QueueMax
      BY <1>2, <1>6 DEF CallerAdds
    <2> QED
      BY <1>1, <1>6, <2>1, <2>2 DEF CallerAdds
  <1>7. CASE WorkerTakes
    <2>1. \A a \in Adders : apc'[a] # "waiting" /\ apc'[a] # "unlocked"
      BY <1>2, <1>7 DEF WorkerTakes, BroadcastNotFull
    <2>2. queue_size' <= QueueMax
      BY <1>2, <1>7 DEF WorkerTakes
    <2> QED
      BY <1>1, <1>7, <2>1, <2>2 DEF WorkerTakes
  <1>8. CASE DestroyBegins
    BY <1>1, <1>8 DEF DestroyBegins
  <1>9. CASE DestroyGoesOn
    BY <1>1, <1>9 DEF DestroyGoesOn
  <1> QED
    BY <1>3, <1>4, <1>5, <1>6, <1>7, <1>8, <1>9, QueueMoves

\* The queue is empty and nobody calls.
LEMMA QueueInit == Init => QueueInv
  BY TypeInit, SizesAssumption
  DEF Init, QueueInv, ProperUse, QueueWithinCapacity, BlockedOnlyWhenFull

\* When destroy does not overlap calls of add, the queue never holds more than
\* queue_max_size tasks.
THEOREM CapacityKept ==
    ASSUME Overlap = FALSE
    PROVE  Spec => []QueueWithinCapacity
  <1>1. QueueInv /\ [Next]_vars => QueueInv'
    BY QueueStep
  <1>2. QueueInv => QueueWithinCapacity
    BY DEF QueueInv
  <1> QED
    BY <1>1, <1>2, QueueInit, PTL DEF Spec

\* When destroy does not overlap calls of add, no caller sleeps on
\* queue_not_full while there is room.
THEOREM BlockedCorrect ==
    ASSUME Overlap = FALSE
    PROVE  Spec => []BlockedOnlyWhenFull
  <1>1. QueueInv /\ [Next]_vars => QueueInv'
    BY QueueStep
  <1>2. QueueInv => BlockedOnlyWhenFull
    BY DEF QueueInv
  <1> QED
    BY <1>1, <1>2, QueueInit, PTL DEF Spec
-----------------------------------------------------------------------------
(***************************************************************************)
(* Pools of constant size.  Nobody retires and nobody is started, so that  *)
(* a woken worker takes a task when there is one, and the slots destroy    *)
(* joins are all there are.                                                *)
(***************************************************************************)

\* A worker that has decided to wait holds the lock, and the queue it saw
\* empty is empty still.
WaitHoldsLock ==
    /\ \A w \in Slots : pc[w] = "wait" => lock = w
    /\ lock # NoOwner => queue_size = 0

AwakeInv ==
    /\ QueueInv
    /\ LiveWithinBounds
    /\ WaitHoldsLock
    /\ NoStrandedTask

\* Sets of slots that lose or gain one member.
LEMMA AwakeCount ==
    /\ IsFiniteSet(Awake) /\ Cardinality(Awake) \in Nat
    /\ \A w \in Slots \ Awake :
          Cardinality(Awake \union {w}) = Cardinality(Awake) + 1
    /\ \A w \in Awake : Cardinality(Awake \ {w}) = Cardinality(Awake) - 1
  <1>1. IsFiniteSet(Awake) /\ Cardinality(Awake) \in Nat
    BY SlotsFinite DEF Awake
  <1> QED
    BY <1>1, FS_AddElement, FS_RemoveElement

\* A wake-up moves one worker from those that wait to those that are awake.
LEMMA WakeMoves ==
    ASSUME TypeInv, NEW w \in Slots, pc[w] = "waiting",
           pc' = [pc EXCEPT ![w] = "woken"]
    PROVE  /\ w \notin Awake
           /\ Awake' = Awake \union {w}
           /\ Idle' \subseteq Idle
           /\ \A v \in Slots : pc'[v] = "wait" => pc[v] = "wait"
  BY DEF TypeInv, TypeOK, Awake, Idle

\* A signal without a new task keeps enough workers awake.
LEMMA SignalKeepsAwake ==
    ASSUME TypeInv, NoStrandedTask, UNCHANGED <<queue_size, shutdown>>,
           \/ UNCHANGED pc
           \/ SignalNotEmpty
           \/ \E w \in Slots : WorkerWakesSpuriously(w)
    PROVE  /\ NoStrandedTask'
           /\ \A v \in Slots : pc'[v] = "wait" => pc[v] = "wait"
  <1>1. CASE UNCHANGED pc
    BY <1>1 DEF NoStrandedTask, Idle, Awake
  <1>2. CASE \E w \in Slots : /\ pc[w] = "waiting"
                              /\ pc' = [pc EXCEPT ![w] = "woken"]
    <2>1. PICK w \in Slots : /\ pc[w] = "waiting"
                             /\ pc' = [pc EXCEPT ![w] = "woken"]
      BY <1>2
    <2>2. /\ w \notin Awake /\ Awake' = Awake \union {w} /\ Idle' \subseteq Idle
          /\ \A v \in Slots : pc'[v] = "wait" => pc[v] = "wait"
      BY <2>1, WakeMoves
    <2>3. Cardinality(Awake') = Cardinality(Awake) + 1
      BY <2>2, AwakeCount
    <2>4. queue_size \in Nat /\ Cardinality(Awake) \in Nat
      BY AwakeCount DEF TypeInv, TypeOK
    <2> QED
      BY <2>2, <2>3, <2>4 DEF NoStrandedTask
  <1> QED
    BY <1>1, <1>2, SignalEffect DEF Idle, WorkerWakesSpuriously, TypeInv

\* The steps of a worker: it waits only for want of a task, and is one fewer
\* awake only when there is one task fewer.
LEMMA AwakeWorker ==
    ASSUME MinThr = MaxThr, AwakeInv, NEW w \in Slots, WorkerStep(w)
    PROVE  (WaitHoldsLock /\ NoStrandedTask)'
  <1> USE DEF AwakeInv, QueueInv
  <1>1. /\ pc \in [Slots -> WorkerPlaces] /\ queue_size \in Nat
        /\ lock \in Slots \union {NoOwner} /\ UNCHANGED shutdown
        /\ live_thr_num \in Int
    BY DEF TypeInv, TypeOK, WorkerStep, WorkerFrame
  <1>2. ~MustExit(w)
    BY <1>1, SizesAssumption DEF MustExit, Enough, LiveWithinBounds
  <1>3. CASE DecideToWait(w)
    <2>1. queue_size' = 0 /\ lock' = w /\ lock = NoOwner
      BY <1>3 DEF DecideToWait, queueVars, HasLock
    <2>2. \A v \in Slots : pc'[v] = "wait" => lock' = v
      BY <1>1, <1>3, <2>1, NoOwnerNotSlot DEF DecideToWait, WaitHoldsLock
    <2>3. Cardinality(Awake') \in Nat
      BY SlotsFinite DEF Awake
    <2> QED
      BY <2>1, <2>2, <2>3 DEF WaitHoldsLock, NoStrandedTask
  <1>4. CASE StartWait(w)
    <2>1. queue_size' = 0 /\ lock' = NoOwner
      BY <1>4, NoOwnerNotSlot DEF StartWait, queueVars, WaitHoldsLock
    <2>2. \A v \in Slots : pc'[v] # "wait"
      BY <1>1, <1>4 DEF StartWait, WaitHoldsLock
    <2>3. Cardinality(Awake') \in Nat
      BY SlotsFinite DEF Awake
    <2> QED
      BY <2>1, <2>2, <2>3 DEF WaitHoldsLock, NoStrandedTask
  <1>5. CASE QuitWorker(w)
    <2>1. shutdown' /\ UNCHANGED <<lock, queue_size>>
          /\ pc' = [pc EXCEPT ![w] = "quitting"]
      BY <1>1, <1>5 DEF QuitWorker, queueVars
    <2>2. \A v \in Slots : pc'[v] = "wait" => pc[v] = "wait"
      BY <1>1, <2>1
    <2> QED
      BY <2>1, <2>2 DEF WaitHoldsLock, NoStrandedTask
  <1>6. CASE TakeTask(w)
    <2>1. /\ lock = NoOwner /\ lock' = NoOwner
          /\ queue_size' = queue_size - 1 /\ queue_size # 0
          /\ pc' = [pc EXCEPT ![w] = "taken"] /\ w \in Awake
      BY <1>6 DEF TakeTask, HasLock, Awake
    <2>2. /\ Awake' = Awake \ {w} /\ Idle' = Idle
          /\ \A v \in Slots : pc'[v] = "wait" => pc[v] = "wait"
      BY <1>1, <2>1 DEF Awake, Idle
    <2>3. Cardinality(Awake') = Cardinality(Awake) - 1
      BY <2>1, <2>2, AwakeCount
    <2>4. WaitHoldsLock'
      BY <2>1, <2>2 DEF WaitHoldsLock
    <2> QED
      BY <1>1, <2>1, <2>2, <2>3, <2>4, AwakeCount DEF NoStrandedTask
  <1>7. CASE FinishTask(w)
    <2>1. /\ UNCHANGED <<lock, queue_size>>
          /\ pc[w] = "running" /\ pc' = [pc EXCEPT ![w] = "top"]
      BY <1>7 DEF FinishTask, queueVars
    <2>2. /\ Awake' = Awake \union {w} /\ Idle' = Idle /\ w \notin Awake
          /\ \A v \in Slots : pc'[v] = "wait" => pc[v] = "wait"
      BY <1>1, <2>1 DEF Awake, Idle
    <2>3. Cardinality(Awake') = Cardinality(Awake) + 1
      BY <2>2, AwakeCount
    <2>4. WaitHoldsLock'
      BY <2>1, <2>2 DEF WaitHoldsLock
    <2> QED
      BY <1>1, <2>1, <2>2, <2>3, <2>4, AwakeCount DEF NoStrandedTask
  <1>8. CASE RunTask(w) \/ EndThread(w)
    <2>1. /\ UNCHANGED <<lock, queue_size>>
          /\ pc[w] \in {"taken", "exiting", "quitting"}
          /\ \E p \in {"running", "exited", "quit"} : pc' = [pc EXCEPT ![w] = p]
      BY <1>8 DEF RunTask, EndThread, queueVars
    <2>2. /\ Awake' = Awake /\ Idle' = Idle
          /\ \A v \in Slots : pc'[v] = "wait" => pc[v] = "wait"
      BY <1>1, <2>1 DEF Awake, Idle
    <2> QED
      BY <1>1, <2>1, <2>2 DEF WaitHoldsLock, NoStrandedTask
  <1> QED
    BY <1>2, <1>3, <1>4, <1>5, <1>6, <1>7, <1>8 DEF WorkerStep, ExitWorker

\* A task comes with a signal, which reaches a worker if any waits.
LEMMA AwakeAdder ==
    ASSUME AwakeInv, NEW a \in Adders, AdderStep(a)
    PROVE  (WaitHoldsLock /\ NoStrandedTask)'
  <1> USE DEF AwakeInv, QueueInv
  <1>1. /\ pc \in [Slots -> WorkerPlaces] /\ queue_size \in Nat
        /\ UNCHANGED shutdown
    BY DEF TypeInv, TypeOK, AdderStep, AdderFrame
  <1>2. CASE AddTask(a)
    <2>1. /\ lock = NoOwner /\ lock' = NoOwner /\ SignalNotEmpty
          /\ queue_size' = queue_size + 1
      BY <1>2 DEF AddTask, MayAdd
    <2>2. CASE Idle = {} /\ pc' = pc
      BY <2>1, <2>2 DEF WaitHoldsLock, NoStrandedTask, Idle
    <2>3. CASE \E v \in Idle : pc' = [pc EXCEPT ![v] = "woken"]
      <3>1. PICK v \in Slots : /\ pc[v] = "waiting"
                               /\ pc' = [pc EXCEPT ![v] = "woken"]
        BY <2>3 DEF Idle
      <3>2. /\ v \notin Awake /\ Awake' = Awake \union {v}
            /\ Idle # {}
            /\ \A u \in Slots : pc'[u] = "wait" => pc[u] = "wait"
        BY <3>1, WakeMoves DEF Idle
      <3>3. Cardinality(Awake') = Cardinality(Awake) + 1
        BY <3>2, AwakeCount
      <3>4. WaitHoldsLock'
        BY <2>1, <3>2 DEF WaitHoldsLock
      <3> QED
        BY <1>1, <2>1, <3>2, <3>3, <3>4, AwakeCount DEF NoStrandedTask
    <2> QED
      BY <2>1, <2>2, <2>3, SignalEffect DEF TypeInv
  <1>3. CASE AddBlock(a) \/ AddAborts(a)
    <2>1. UNCHANGED <<lock, pc, queue_size>>
      BY <1>3 DEF AddBlock, AddAborts, putVars
    <2> QED
      BY <1>1, <2>1 DEF WaitHoldsLock, NoStrandedTask, Idle, Awake
  <1>4. ~AddUnlocked(a) /\ ~AddFallsThrough(a)
    BY DEF AddUnlocked, AddFallsThrough, ProperUse
  <1> QED
    BY <1>2, <1>3, <1>4 DEF AdderStep

\* A pool of constant size is given no worker: it has all it may have.
LEMMA NoGrowth ==
    ASSUME MinThr = MaxThr, TypeInv, LiveWithinBounds, Grow
    PROVE  UNCHANGED pc
  <1>1. PICK New \in SUBSET Slots :
           /\ Chosen(New)
           /\ \E S \in Started(New) :
                 pc' = [w \in Slots |-> IF w \in S THEN "top" ELSE pc[w]]
    BY DEF Grow
  <1>2. live_thr_num = MaxThr
    BY SizesAssumption DEF LiveWithinBounds, TypeInv, TypeOK
  <1>3. Cardinality(New) \in Nat /\ Cardinality(New) + MaxThr <= MaxThr
    BY <1>1, <1>2, SlotsFinite DEF Chosen
  <1>4. Cardinality(New) = 0
    BY <1>3, SizesAssumption
  <1>5. New = {}
    BY <1>4, SlotsFinite, FS_EmptySet
  <1>6. pc' = [w \in Slots |-> pc[w]]
    BY <1>1, <1>5 DEF Started
  <1> QED
    BY <1>6 DEF TypeInv, TypeOK

\* Every step keeps enough workers awake.
LEMMA AwakeStep ==
    ASSUME Overlap = FALSE, MinThr = MaxThr, AwakeInv, [Next]_vars
    PROVE  AwakeInv'
  <1>1. QueueInv'
    BY QueueStep DEF AwakeInv
  <1>2. LiveWithinBounds'
    <2>1. live_thr_num \in Int /\ live_thr_num' \in Int
      BY <1>1 DEF AwakeInv, QueueInv, TypeInv, TypeOK
    <2> QED
      BY <2>1, LiveChanges, SizesAssumption
      DEF AwakeInv, QueueInv, LiveWithinBounds
  <1> SUFFICES (WaitHoldsLock /\ NoStrandedTask)'
    BY <1>1, <1>2 DEF AwakeInv
  <1>3. CASE \E w \in Slots : WorkerStep(w)
    BY <1>3, AwakeWorker
  <1>4. CASE \E a \in Adders : AdderStep(a)
    BY <1>4, AwakeAdder
  <1>5. CASE AdjustStep
    <2>1. UNCHANGED <<lock, queue_size, shutdown>>
      BY <1>5 DEF AdjustStep, AdjustFrame, queueVars
    <2>2. UNCHANGED pc \/ SignalNotEmpty
      BY <1>5, NoGrowth
      DEF AdjustStep, AdjustLoop, AdjustSample, AdjustSampleBusy, NoGrow,
          Shrink, NoShrink, SignalIdle, AwakeInv, QueueInv
    <2> QED
      BY <2>1, <2>2, SignalKeepsAwake DEF AwakeInv, QueueInv, WaitHoldsLock
  <1>6. CASE DestroyStep \/ CallDestroy
    <2>1. UNCHANGED <<lock, queue_size>> /\ shutdown'
      BY <1>6 DEF DestroyStep, CallDestroy, DestroyFrame, queueVars,
                  DestroyBegin, JoinAdjust, BroadcastTurn, JoinTurn, FreePool,
                  AwakeInv, QueueInv, ProperUse
    <2>2. \A v \in Slots : pc'[v] = "wait" => pc[v] = "wait"
      BY <1>6 DEF DestroyStep, CallDestroy, DestroyBegin, JoinAdjust,
                  BroadcastTurn, BroadcastNotEmpty, JoinTurn, FreePool
    <2> QED
      BY <2>1, <2>2 DEF AwakeInv, WaitHoldsLock, NoStrandedTask
  <1>7. CASE Call \/ SpuriousWakeup \/ UNCHANGED vars
    <2>1. UNCHANGED <<lock, queue_size, shutdown>>
      BY <1>7 DEF Call, CallAdd, SpuriousWakeup, WorkerWakesSpuriously,
                  AdderWakesSpuriously, AdderFrame, WorkerFrame, putVars,
                  queueVars, vars
    <2>2. UNCHANGED pc \/ \E w \in Slots : WorkerWakesSpuriously(w)
      BY <1>7 DEF Call, CallAdd, SpuriousWakeup, AdderWakesSpuriously, vars
    <2> QED
      BY <2>1, <2>2, SignalKeepsAwake DEF AwakeInv, QueueInv, WaitHoldsLock
  <1> QED
    BY <1>3, <1>4, <1>5, <1>6, <1>7 DEF Next

\* In a pool of constant size, whatever wait_exit_thr_num held at first, no
\* task waits beside an idle worker.
THEOREM NoTaskStranded ==
    ASSUME Overlap = FALSE, MinThr = MaxThr
    PROVE  Spec => []NoStrandedTask
  <1>1. Init => AwakeInv
    <2> SUFFICES ASSUME Init PROVE AwakeInv
      OBVIOUS
    <2>1. LiveWithinBounds
      BY SizesAssumption DEF Init, LiveWithinBounds
    <2>2. WaitHoldsLock
      BY DEF Init, WaitHoldsLock
    <2>3. Idle = {}
      BY DEF Init, Idle
    <2> QED
      BY <2>1, <2>2, <2>3, QueueInit DEF AwakeInv, NoStrandedTask
  <1>2. AwakeInv /\ [Next]_vars => AwakeInv'
    BY AwakeStep
  <1>3. AwakeInv => NoStrandedTask
    BY DEF AwakeInv
  <1> QED
    BY <1>1, <1>2, <1>3, PTL DEF Spec
-----------------------------------------------------------------------------
(* Destroying a pool of constant size.                                     *)

Ended(w) == pc[w] \in {"exited", "quit"}

\* Once destroy has joined the manager nobody starts threads; the slots below
\* the loop counter have been joined, and all of them when the pool is freed.
JoinedSoFar ==
    /\ dpc \notin {"idle", "joinAdjust"} => mpc = "done"
    /\ dpc = "join" => \A w \in Slots : w < di => Ended(w)
    /\ PoolFreed => \A w \in Slots : Ended(w)

DestroyInv == QueueInv /\ LiveWithinBounds /\ JoinedSoFar

\* A thread that has ended stays so while the manager is gone.
LEMMA EndedStays ==
    ASSUME TypeInv, [Next]_vars, ~ (AdjustStep /\ Grow)
    PROVE  \A w \in Slots : Ended(w) => Ended(w)'
  <1> SUFFICES ASSUME NEW w \in Slots, Ended(w) PROVE pc'[w] = pc[w]
    BY DEF Ended
  <1>1. CASE \E v \in Slots : WorkerStep(v)
    <2> PICK v \in Slots : WorkerStep(v)
      BY <1>1
    <2>1. /\ pc[v] \notin {"exited", "quit"}
          /\ \E p \in WorkerPlaces : pc' = [pc EXCEPT ![v] = p]
      BY DEF WorkerStep, ExitWorker, DecideToWait, StartWait, QuitWorker,
             TakeTask, RunTask, FinishTask, EndThread, HasLock, WorkerPlaces
    <2> QED
      BY <2>1 DEF Ended, TypeInv, TypeOK
  <1>2. CASE SignalNotEmpty \/ BroadcastNotEmpty \/ UNCHANGED pc
    BY <1>2, SignalEffect DEF Ended, TypeInv, TypeOK, BroadcastNotEmpty, Idle
  <1>3. CASE \E v \in Slots : WorkerWakesSpuriously(v)
    BY <1>3 DEF WorkerWakesSpuriously, Ended, TypeInv, TypeOK
  <1>4. CASE \E a \in Adders : AdderStep(a)
    BY <1>2, <1>4 DEF AdderStep, AddBlock, AddTask, AddAborts, AddFallsThrough,
                      AddUnlocked
  <1>5. CASE AdjustStep
    BY <1>2, <1>5 DEF AdjustStep, AdjustLoop, AdjustSample, AdjustSampleBusy,
                      NoGrow, Shrink, NoShrink, SignalIdle
  <1>6. CASE DestroyStep \/ CallDestroy
    BY <1>2, <1>6 DEF DestroyStep, CallDestroy, DestroyBegin, JoinAdjust,
                      BroadcastTurn, JoinTurn, FreePool
  <1>7. CASE Call \/ SpuriousWakeup \/ UNCHANGED vars
    BY <1>2, <1>3, <1>7 DEF Call, CallAdd, SpuriousWakeup,
                            AdderWakesSpuriously, vars
  <1> QED
    BY <1>1, <1>4, <1>5, <1>6, <1>7 DEF Next

\* Every step of a pool of constant size keeps what destroy counts on.
LEMMA DestroyInvStep ==
    ASSUME Overlap = FALSE, MinThr = MaxThr, DestroyInv, [Next]_vars
    PROVE  DestroyInv'
  <1>1. QueueInv'
    BY QueueStep DEF DestroyInv
  <1>2. LiveWithinBounds'
    <2>1. live_thr_num \in Int /\ live_thr_num' \in Int
      BY <1>1 DEF DestroyInv, QueueInv, TypeInv, TypeOK
    <2> QED
      BY <2>1, LiveChanges, SizesAssumption
      DEF DestroyInv, QueueInv, LiveWithinBounds
  <1>3. live_thr_num = MaxThr
    BY SizesAssumption DEF DestroyInv, QueueInv, TypeInv, TypeOK,
                           LiveWithinBounds
  <1> SUFFICES JoinedSoFar'
    BY <1>1, <1>2 DEF DestroyInv
  <1>4. CASE AdjustStep
    <2>1. mpc # "done" /\ UNCHANGED <<dpc, di>>
      BY <1>4 DEF AdjustStep, AdjustFrame, destroyVars, AdjustLoop,
                  AdjustSample, AdjustSampleBusy, Grow, NoGrow, Shrink,
                  NoShrink, SignalIdle
    <2> QED
      BY <2>1 DEF DestroyInv, JoinedSoFar, PoolFreed
  <1>5. CASE ~AdjustStep /\ UNCHANGED <<mpc, dpc, di>>
    <2>1. \A w \in Slots : Ended(w) => Ended(w)'
      BY <1>5, EndedStays DEF DestroyInv, QueueInv
    <2> QED
      BY <1>5, <2>1 DEF DestroyInv, JoinedSoFar, PoolFreed
  <1>6. CASE CallDestroy \/ (DestroyStep /\ JoinAdjust)
    <2>1. dpc' \in {"joinAdjust", "broadcast"}
      BY <1>6 DEF CallDestroy, DestroyBegin, JoinAdjust
    <2>2. dpc' = "broadcast" => mpc' = "done"
      BY <1>6 DEF CallDestroy, DestroyBegin, DestroyStep, DestroyFrame,
                  JoinAdjust, adjustVars
    <2> QED
      BY <2>1, <2>2 DEF JoinedSoFar, PoolFreed
  <1>7. CASE DestroyStep /\ BroadcastTurn
    <2>1. /\ dpc = "broadcast" /\ mpc' = mpc
          /\ dpc' = "broadcast" \/ (dpc' = "join" /\ di' = 0)
      BY <1>7 DEF DestroyStep, DestroyFrame, BroadcastTurn, adjustVars
    <2>2. \A w \in Slots : ~ (w < 0)
      BY SizesAssumption DEF Slots
    <2> QED
      BY <2>1, <2>2 DEF DestroyInv, JoinedSoFar, PoolFreed
  <1>8. CASE DestroyStep /\ JoinTurn
    <2>1. dpc = "join" /\ mpc' = mpc /\ pc' = pc
      BY <1>8 DEF DestroyStep, DestroyFrame, JoinTurn, adjustVars
    <2>2. di \in Nat /\ \A w \in Slots : w \in Int /\ w < MaxThr
      BY SizesAssumption DEF Slots, DestroyInv, QueueInv, TypeInv, TypeOK
    <2>3. CASE MoreToJoin
      <3>1. /\ dpc' = "join"
            /\ di' = di \/ (di' = di + 1 /\ Ended(di))
        BY <1>8, <2>1, <2>3 DEF JoinTurn, Ended
      <3>2. \A w \in Slots : w < di => Ended(w)
        BY <2>1 DEF DestroyInv, JoinedSoFar
      <3>3. \A w \in Slots : w < di' => Ended(w)
        BY <2>2, <3>1, <3>2
      <3> QED
        BY <2>1, <3>1, <3>3 DEF DestroyInv, JoinedSoFar, PoolFreed, Ended
    <2>4. CASE ~MoreToJoin
      <3>1. dpc' = "freeing" /\ di >= MaxThr
        BY <1>3, <1>8, <2>2, <2>4, SizesAssumption DEF JoinTurn, MoreToJoin
      <3>2. \A w \in Slots : Ended(w)
        BY <2>1, <2>2, <3>1, SizesAssumption DEF DestroyInv, JoinedSoFar
      <3> QED
        BY <2>1, <3>1, <3>2 DEF DestroyInv, JoinedSoFar, PoolFreed, Ended
    <2> QED
      BY <2>3, <2>4
  <1>9. CASE DestroyStep /\ FreePool
    BY <1>9 DEF DestroyStep, DestroyFrame, FreePool, adjustVars, DestroyInv,
                JoinedSoFar, PoolFreed, Ended
  <1>10. \/ AdjustStep \/ CallDestroy \/ DestroyStep
         \/ ~AdjustStep /\ UNCHANGED <<mpc, dpc, di>>
    BY DEF Next, WorkerStep, WorkerFrame, AdderStep, AdderFrame, Call,
           SpuriousWakeup, adjustVars, destroyVars, vars
  <1> QED
    BY <1>4, <1>5, <1>6, <1>7, <1>8, <1>9, <1>10 DEF DestroyStep

\* When destroy frees a pool of constant size, and does not overlap calls of
\* add, every thread of the pool has ended.
THEOREM FreedWhenQuiet ==
    ASSUME Overlap = FALSE, MinThr = MaxThr
    PROVE  Spec => []NoUseAfterFree
  <1>1. Init => DestroyInv
    BY QueueInit, SizesAssumption
    DEF Init, DestroyInv, LiveWithinBounds, JoinedSoFar, PoolFreed
  <1>2. DestroyInv /\ [Next]_vars => DestroyInv'
    BY DestroyInvStep
  <1>3. DestroyInv => NoUseAfterFree
    BY DEF DestroyInv, JoinedSoFar, QueueInv, ProperUse, NoUseAfterFree,
           PoolFreed, Ended
  <1> QED
    BY <1>1, <1>2, <1>3, PTL DEF Spec
-----------------------------------------------------------------------------
(***************************************************************************)
(* The pool implements the queue of TaskPool.tla, when destroy does not    *)
(* overlap calls of add.  A task is in one place at a time: with the       *)
(* caller that adds it, once in the ring, with one worker, or done.        *)
(***************************************************************************)
\* The cell of the i-th task of the queue.
PlaceAt(i) == (queue_front + i - 1) % QueueMax

\* The calls of add under way.
Callers == {a \in Adders : apc[a] # "idle"}

Wanted == {want[a] : a \in Callers}
Queued == {Pending[i] : i \in 1..queue_size}
Running == {cur[w] : w \in HasTask}

RingClosed == queue_rear = (queue_front + queue_size) % QueueMax

OncePending == \A i, j \in 1..queue_size : Pending[i] = Pending[j] => i = j
OnceRunning == \A v, w \in HasTask : cur[v] = cur[w] => v = w
OnceWanted == \A a, b \in Callers : want[a] = want[b] => a = b

OnePlace ==
    /\ Wanted \union Queued \union Running \union done \subseteq submitted
    /\ Queued \cap (Wanted \union Running \union done) = {}
    /\ Running \cap (Wanted \union done) = {}
    /\ Wanted \cap done = {}

Flow == /\ RingClosed
        /\ OncePending
        /\ OnceRunning
        /\ OnceWanted
        /\ OnePlace
        /\ shutdown => dpc # "idle"

FlowInv == QueueInv /\ Flow

\* The ring index of what is less than two rounds away.
LEMMA Wrap ==
    \A x \in 0..2 * QueueMax - 1 :
        x % QueueMax = IF x < QueueMax THEN x ELSE x - QueueMax
  BY SizesAssumption

\* Where the tasks of the queue are: in different cells, none of them the one
\* that the next task is written to, and each a cell further than the one before.
LEMMA RingPlaces ==
    ASSUME TypeInv, QueueWithinCapacity, RingClosed
    PROVE  /\ \A i \in 1..queue_size : PlaceAt(i) \in Cells
           /\ queue_size < QueueMax =>
                 /\ \A i \in 1..queue_size : PlaceAt(i) # queue_rear
                 /\ PlaceAt(queue_size + 1) = queue_rear
           /\ queue_size > 0 => PlaceAt(1) = queue_front
           /\ \A i \in 1..queue_size - 1 :
                 (CellAfter(queue_front) + i - 1) % QueueMax = PlaceAt(i + 1)
           /\ queue_size < QueueMax =>
                 CellAfter(queue_rear) = (queue_front + (queue_size + 1)) % QueueMax
           /\ queue_size > 0 =>
                 queue_rear = (CellAfter(queue_front) + (queue_size - 1)) % QueueMax
  <1>1. /\ QueueMax \in Nat /\ QueueMax >= 1
        /\ queue_front \in 0..QueueMax-1 /\ queue_size \in 0..QueueMax
    BY SizesAssumption DEF TypeInv, TypeOK, Cells, QueueWithinCapacity
  <1> DEFINE wrap(x) == IF x < QueueMax THEN x ELSE x - QueueMax
  <1>2. \A x \in 0..2 * QueueMax - 1 : x % QueueMax = wrap(x)
    BY Wrap
  <1>3. queue_rear = wrap(queue_front + queue_size)
    BY <1>1, <1>2 DEF RingClosed
  <1>4. \A i \in 1..QueueMax : PlaceAt(i) = wrap(queue_front + i - 1)
    BY <1>1, <1>2 DEF PlaceAt
  <1>5. \A c \in 0..QueueMax-1 : CellAfter(c) = wrap(c + 1)
    BY <1>1, <1>2 DEF CellAfter
  <1>6. \A i \in 1..queue_size : PlaceAt(i) \in Cells
    BY <1>1, <1>4 DEF Cells
  <1>7. queue_size < QueueMax =>
           /\ \A i \in 1..queue_size : PlaceAt(i) # queue_rear
           /\ PlaceAt(queue_size + 1) = queue_rear
    BY <1>1, <1>3, <1>4
  <1>8. queue_size > 0 => PlaceAt(1) = queue_front
    BY <1>1, <1>4
  <1>9. CellAfter(queue_front) = wrap(queue_front + 1)
    BY <1>1, <1>5
  <1>10. \A i \in 1..queue_size - 1 :
            (CellAfter(queue_front) + i - 1) % QueueMax = PlaceAt(i + 1)
    <2> SUFFICES ASSUME NEW i \in 1..queue_size - 1
                 PROVE  (CellAfter(queue_front) + i - 1) % QueueMax = PlaceAt(i + 1)
      OBVIOUS
    <2>1. PlaceAt(i + 1) = wrap(queue_front + i)
      BY <1>1, <1>4
    <2>2. CellAfter(queue_front) + i - 1 \in 0..2 * QueueMax - 1
      BY <1>1, <1>9
    <2>3. (CellAfter(queue_front) + i - 1) % QueueMax
             = wrap(CellAfter(queue_front) + i - 1)
      BY <1>2, <2>2
    <2> QED
      BY <1>1, <1>9, <2>1, <2>3
  <1>11. queue_size < QueueMax =>
            CellAfter(queue_rear) = (queue_front + (queue_size + 1)) % QueueMax
    <2> SUFFICES ASSUME queue_size < QueueMax
                 PROVE  CellAfter(queue_rear) = (queue_front + (queue_size + 1)) % QueueMax
      OBVIOUS
    <2>1. (queue_front + (queue_size + 1)) % QueueMax
             = wrap(queue_front + (queue_size + 1))
      BY <1>1, <1>2
    <2>2. CellAfter(queue_rear) = wrap(queue_rear + 1)
      BY <1>1, <1>3, <1>5
    <2> QED
      BY <1>1, <1>3, <2>1, <2>2
  <1>12. queue_size > 0 =>
            queue_rear = (CellAfter(queue_front) + (queue_size - 1)) % QueueMax
    <2> SUFFICES ASSUME queue_size > 0
                 PROVE  queue_rear = (CellAfter(queue_front) + (queue_size - 1)) % QueueMax
      OBVIOUS
    <2>1. CellAfter(queue_front) + (queue_size - 1) \in 0..2 * QueueMax - 1
      BY <1>1, <1>9
    <2>2. (CellAfter(queue_front) + (queue_size - 1)) % QueueMax
             = wrap(CellAfter(queue_front) + (queue_size - 1))
      BY <1>2, <2>1
    <2> QED
      BY <1>1, <1>3, <1>9, <2>2
  <1> QED
    BY <1>6, <1>7, <1>8, <1>10, <1>11, <1>12

\* The queue as the ring shows it.
LEMMA PendingType ==
    ASSUME TypeInv, QueueWithinCapacity, RingClosed
    PROVE  /\ Pending \in Seq(Args)
           /\ Len(Pending) = queue_size
           /\ \A i \in 1..queue_size : Pending[i] = task_queue[PlaceAt(i)]
  <1>1. queue_size \in Nat /\ task_queue \in [Cells -> Args]
    BY DEF TypeInv, TypeOK
  <1>2. \A i \in 1..queue_size : PlaceAt(i) \in Cells
    BY RingPlaces
  <1>3. Pending = [i \in 1..queue_size |-> task_queue[PlaceAt(i)]]
    BY DEF Pending, PlaceAt
  <1> QED
    BY <1>1, <1>2, <1>3

\* Append and Tail, index by index.
LEMMA AppendTail ==
    ASSUME NEW S, NEW s \in Seq(S), NEW t \in S
    PROVE  /\ Append(s, t) =
                [i \in 1..Len(s) + 1 |-> IF i = Len(s) + 1 THEN t ELSE s[i]]
           /\ s # << >> => Tail(s) = [i \in 1..Len(s) - 1 |-> s[i + 1]]
  <1> DEFINE f == [i \in 1..Len(s) + 1 |-> IF i = Len(s) + 1 THEN t ELSE s[i]]
             g == [i \in 1..Len(s) - 1 |-> s[i + 1]]
  <1>1. Append(s, t) = f
    <2>1. f \in Seq(S) /\ Len(f) = Len(s) + 1
      OBVIOUS
    <2>2. \A i \in 1..Len(s) + 1 : Append(s, t)[i] = f[i]
      OBVIOUS
    <2>3. Append(s, t) \in Seq(S) /\ Len(Append(s, t)) = Len(s) + 1
      OBVIOUS
    <2> HIDE DEF f
    <2> QED
      BY <2>1, <2>2, <2>3
  <1>2. s # << >> => Tail(s) = g
    <2> SUFFICES ASSUME s # << >> PROVE Tail(s) = g
      OBVIOUS
    <2>0. Len(s) \in Nat /\ Len(s) >= 1
      OBVIOUS
    <2>1. g \in Seq(S) /\ Len(g) = Len(s) - 1
      BY <2>0
    <2>2. \A i \in 1..Len(s) - 1 : Tail(s)[i] = g[i]
      BY <2>0
    <2>3. Tail(s) \in Seq(S) /\ Len(Tail(s)) = Len(s) - 1
      BY <2>0
    <2> HIDE DEF g
    <2> QED
      BY <2>1, <2>2, <2>3
  <1> QED
    BY <1>1, <1>2

\* What adding a task does to the queue.
LEMMA RingGrows ==
    ASSUME TypeInv, QueueWithinCapacity, RingClosed, OncePending,
           queue_size < QueueMax,
           NEW t \in Tasks, t \notin Queued,
           task_queue' = [task_queue EXCEPT ![queue_rear] = t],
           queue_rear' = CellAfter(queue_rear),
           queue_size' = queue_size + 1,
           queue_front' = queue_front
    PROVE  /\ (RingClosed /\ OncePending)'
           /\ Pending' = Append(Pending, t)
           /\ Queued' = Queued \union {t}
  <1>1. /\ queue_size \in Nat /\ task_queue \in [Cells -> Args]
        /\ queue_rear \in Cells
    BY DEF TypeInv, TypeOK
  <1>2. RingClosed'
    BY RingPlaces DEF RingClosed
  <1>3. \A i \in 1..queue_size : PlaceAt(i) \in Cells /\ PlaceAt(i) # queue_rear
    BY RingPlaces
  <1>4. PlaceAt(queue_size + 1) = queue_rear
    BY RingPlaces
  <1>5. Pending' = [i \in 1..queue_size + 1 |-> task_queue'[PlaceAt(i)]]
    BY DEF Pending, PlaceAt
  <1>6. \A i \in 1..queue_size : Pending'[i] = Pending[i]
    BY <1>1, <1>3, <1>5, PendingType
  <1>7. Pending'[queue_size + 1] = t
    BY <1>1, <1>4, <1>5
  <1>8. Pending' = Append(Pending, t)
    <2>1. Append(Pending, t) = [i \in 1..queue_size + 1 |->
                                  IF i = queue_size + 1 THEN t ELSE Pending[i]]
      <3>1. t \in Args
        BY DEF Args
      <3> QED
        BY <3>1, PendingType, AppendTail
    <2>2. \A i \in 1..queue_size + 1 :
             Pending'[i] = IF i = queue_size + 1 THEN t ELSE Pending[i]
      BY <1>1, <1>6, <1>7
    <2> HIDE DEF Pending
    <2>3. \A i \in 1..queue_size + 1 : task_queue'[PlaceAt(i)] = Pending'[i]
      BY <1>5
    <2> QED
      BY <1>5, <2>1, <2>2, <2>3
  <1>9. \A i \in 1..queue_size : Pending[i] # t
    BY DEF Queued
  <1>10. 1..queue_size' = 1..queue_size \union {queue_size + 1}
    BY <1>1
  <1>11. OncePending'
    <2>1. \A i \in 1..queue_size' : i \in 1..queue_size \/ i = queue_size + 1
      BY <1>10
    <2> QED
      BY <1>6, <1>7, <1>9, <2>1 DEF OncePending
  <1>12. Queued' = Queued \union {t}
    BY <1>6, <1>7, <1>10 DEF Queued
  <1> QED
    BY <1>2, <1>8, <1>11, <1>12

\* What taking the oldest task does to it.
LEMMA RingShrinks ==
    ASSUME TypeInv, QueueWithinCapacity, RingClosed, OncePending,
           queue_size # 0,
           queue_front' = CellAfter(queue_front),
           queue_size' = queue_size - 1,
           UNCHANGED <<task_queue, queue_rear>>
    PROVE  /\ (RingClosed /\ OncePending)'
           /\ Pending # << >> /\ Head(Pending) = NextTask
           /\ Pending' = Tail(Pending)
           /\ NextTask \in Queued
           /\ Queued' = Queued \ {NextTask}
  <1>1. queue_size \in Nat /\ queue_size > 0 /\ queue_size' \in Nat
    BY DEF TypeInv, TypeOK
  <1>2. RingClosed'
    BY <1>1, RingPlaces DEF RingClosed
  <1>3. Pending[1] = NextTask /\ 1 \in 1..queue_size
    BY <1>1, RingPlaces, PendingType DEF NextTask
  <1>4. Pending' = [i \in 1..queue_size - 1 |->
                      task_queue[(CellAfter(queue_front) + i - 1) % QueueMax]]
    BY DEF Pending
  <1>5. \A i \in 1..queue_size' : i + 1 \in 1..queue_size /\ i + 1 # 1
    BY <1>1
  <1>6. \A i \in 1..queue_size' : Pending'[i] = Pending[i + 1]
    <2> SUFFICES ASSUME NEW i \in 1..queue_size - 1
                 PROVE  Pending'[i] = Pending[i + 1]
      OBVIOUS
    <2>1. Pending'[i] = task_queue[(CellAfter(queue_front) + i - 1) % QueueMax]
      BY <1>4
    <2>2. Pending[i + 1] = task_queue[PlaceAt(i + 1)]
      BY <1>5, PendingType
    <2> QED
      BY <2>1, <2>2, RingPlaces
  <1>7. Pending # << >> /\ Head(Pending) = NextTask
    BY <1>1, <1>3, PendingType
  <1>8. Pending' = Tail(Pending)
    <2>1. Tail(Pending) = [i \in 1..queue_size - 1 |-> Pending[i + 1]]
      <3>1. NoTask \in Args
        BY DEF Args
      <3> QED
        BY <1>7, <3>1, PendingType, AppendTail
    <2>2. Pending' = [i \in 1..queue_size - 1 |-> Pending'[i]]
      BY <1>4
    <2> QED
      BY <1>6, <2>1, <2>2
  <1>9. OncePending'
    <2> SUFFICES ASSUME NEW i \in 1..queue_size', NEW j \in 1..queue_size',
                        Pending'[i] = Pending'[j]
                 PROVE  i = j
      BY DEF OncePending
    <2>1. Pending[i + 1] = Pending[j + 1]
      BY <1>6
    <2>2. i + 1 = j + 1
      BY <1>5, <2>1 DEF OncePending
    <2> QED
      BY <1>1, <2>2
  <1>10. Queued' \subseteq Queued \ {NextTask}
    <2> SUFFICES ASSUME NEW i \in 1..queue_size'
                 PROVE  Pending'[i] \in Queued \ {NextTask}
      BY DEF Queued
    <2>1. Pending[i + 1] # Pending[1]
      BY <1>3, <1>5 DEF OncePending
    <2> QED
      BY <1>3, <1>5, <1>6, <2>1 DEF Queued
  <1>11. Queued \ {NextTask} \subseteq Queued'
    <2> SUFFICES ASSUME NEW i \in 1..queue_size, i # 1
                 PROVE  Pending[i] \in Queued'
      BY <1>3 DEF Queued
    <2>1. i - 1 \in 1..queue_size' /\ (i - 1) + 1 = i
      BY <1>1
    <2>2. Pending'[i - 1] = Pending[i]
      BY <1>6, <2>1
    <2> QED
      BY <2>1, <2>2 DEF Queued
  <1>12. NextTask \in Queued
    BY <1>3 DEF Queued
  <1> QED
    BY <1>2, <1>7, <1>8, <1>9, <1>10, <1>11, <1>12

\* What is left alone by all the steps but those of LEMMA FlowMoves.
FlowStill ==
    /\ UNCHANGED <<queueVars, cur, done, shutdown, want, submitted>>
    /\ HasTask' = HasTask
    /\ Callers' = Callers
    /\ dpc' = "idle" => dpc = "idle"

\* Waking a worker, or waking a caller, gives nobody a task and takes none.
LEMMA WakeKeepsFlow ==
    ASSUME TypeInv
    PROVE  /\ SignalNotEmpty => HasTask' = HasTask
           /\ BroadcastNotEmpty => HasTask' = HasTask
           /\ BroadcastNotFull => Callers' = Callers
           /\ \A w \in Slots, p, q \in WorkerPlaces :
                 /\ pc[w] = p /\ p \notin {"taken", "running"}
                 /\ pc' = [pc EXCEPT ![w] = q] /\ q \notin {"taken", "running"}
                 => HasTask' = HasTask
           /\ \A a \in Adders :
                 /\ apc[a] # "idle"
                 /\ \E p \in {"lock", "waiting"} : apc' = [apc EXCEPT ![a] = p]
                 => Callers' = Callers
  <1>1. pc \in [Slots -> WorkerPlaces] /\ apc \in [Adders -> AdderPlaces]
    BY DEF TypeInv, TypeOK
  <1>2. \A w \in Slots, p, q \in WorkerPlaces :
           /\ pc[w] = p /\ p \notin {"taken", "running"}
           /\ pc' = [pc EXCEPT ![w] = q] /\ q \notin {"taken", "running"}
           => HasTask' = HasTask
    BY <1>1 DEF HasTask
  <1>3. SignalNotEmpty => HasTask' = HasTask
    BY <1>1, SignalEffect DEF HasTask, Idle, TypeInv
  <1>4. BroadcastNotEmpty => HasTask' = HasTask
    BY <1>1 DEF BroadcastNotEmpty, HasTask
  <1>5. BroadcastNotFull => Callers' = Callers
    BY <1>1 DEF BroadcastNotFull, Callers
  <1>6. \A a \in Adders :
           /\ apc[a] # "idle"
           /\ \E p \in {"lock", "waiting"} : apc' = [apc EXCEPT ![a] = p]
           => Callers' = Callers
    BY <1>1 DEF Callers
  <1> QED
    BY <1>2, <1>3, <1>4, <1>5, <1>6

\* A thread that is started has no task, nor had the one in whose slot it runs.
LEMMA GrowKeepsFlow ==
    ASSUME TypeInv, Grow
    PROVE  HasTask' = HasTask
  <1>1. PICK New \in SUBSET Slots :
           /\ Chosen(New)
           /\ \E S \in Started(New) :
                 pc' = [w \in Slots |-> IF w \in S THEN "top" ELSE pc[w]]
    BY DEF Grow
  <1>2. PICK S \in Started(New) :
           pc' = [w \in Slots |-> IF w \in S THEN "top" ELSE pc[w]]
    BY <1>1
  <1>3. S \subseteq New
    BY <1>2 DEF Started
  <1>4. \A w \in S : pc[w] \notin {"taken", "running"}
    BY <1>1, <1>3 DEF Chosen, FreeSlots, is_thread_alive
  <1> QED
    BY <1>2, <1>4 DEF HasTask

\* The steps that hand a task on.
LEMMA FlowMoves ==
    ASSUME QueueInv, [Next]_vars
    PROVE  \/ FlowStill
           \/ \E a \in Adders : AddTask(a) /\ AdderFrame
           \/ \E w \in Slots : TakeTask(w) /\ WorkerFrame
           \/ \E w \in Slots : FinishTask(w) /\ WorkerFrame
           \/ CallDestroy
           \/ Call
  <1>0. TypeInv /\ \A a \in Adders : apc[a] # "unlocked"
    BY DEF QueueInv, ProperUse
  <1>1. CASE \E w \in Slots : WorkerStep(w)
    <2> PICK w \in Slots : WorkerStep(w)
      BY <1>1
    <2>1. CASE RunTask(w)
      <3>1. HasTask' = HasTask
        BY <1>0, <2>1 DEF RunTask, HasTask, TypeInv, TypeOK
      <3>2. UNCHANGED <<queueVars, cur, apc, done>>
        BY <2>1 DEF RunTask
      <3> QED
        BY <3>1, <3>2 DEF FlowStill, Callers, WorkerStep, WorkerFrame, destroyVars
    <2>2. CASE \/ ExitWorker(w) \/ DecideToWait(w) \/ StartWait(w)
               \/ QuitWorker(w) \/ EndThread(w)
      <3>1. HasTask' = HasTask
        <4>1. /\ pc[w] \in WorkerPlaces /\ pc[w] \notin {"taken", "running"}
              /\ \E q \in WorkerPlaces \ {"taken", "running"} :
                    pc' = [pc EXCEPT ![w] = q]
          BY <1>0, <2>2
          DEF ExitWorker, DecideToWait, StartWait, QuitWorker, EndThread,
              HasLock, WorkerPlaces, TypeInv, TypeOK
        <4> QED
          BY <1>0, <4>1, WakeKeepsFlow
      <3>2. UNCHANGED <<queueVars, cur, apc, done>>
        BY <2>2 DEF ExitWorker, DecideToWait, StartWait, QuitWorker, EndThread
      <3> QED
        BY <3>1, <3>2 DEF FlowStill, Callers, WorkerStep, WorkerFrame, destroyVars
    <2> QED
      BY <2>1, <2>2 DEF WorkerStep
  <1>2. CASE \E a \in Adders : AdderStep(a)
    <2> PICK a \in Adders : AdderStep(a)
      BY <1>2
    <2>1. ~AddFallsThrough(a) /\ ~AddUnlocked(a)
      BY DEF AddFallsThrough, AddUnlocked, QueueInv, ProperUse
    <2>2. CASE AddBlock(a)
      <3>1. Callers' = Callers
        BY <1>0, <2>2, WakeKeepsFlow DEF AddBlock
      <3> QED
        BY <2>2, <3>1 DEF AddBlock, AdderStep, AdderFrame, FlowStill, HasTask,
                          queueVars, putVars, destroyVars
    <2>3. CASE AddAborts(a)
      BY <2>3 DEF AddAborts, AdderStep, AdderFrame, FlowStill, HasTask, Callers,
                  queueVars, putVars, adderVars, destroyVars
    <2>4. CASE AddTask(a)
      BY <2>4 DEF AdderStep
    <2> QED
      BY <2>1, <2>2, <2>3, <2>4 DEF AdderStep
  <1>3. CASE AdjustStep
    <2>1. HasTask' = HasTask
      <3>1. CASE Grow
        BY <1>0, <3>1, GrowKeepsFlow
      <3>2. CASE SignalIdle
        BY <1>0, <3>2, WakeKeepsFlow DEF SignalIdle
      <3>3. CASE UNCHANGED pc
        BY <3>3 DEF HasTask
      <3> QED
        BY <1>3, <3>1, <3>2, <3>3
        DEF AdjustStep, AdjustLoop, AdjustSample, AdjustSampleBusy, NoGrow,
            Shrink, NoShrink
    <2> QED
      BY <1>3, <2>1 DEF AdjustStep, AdjustFrame, FlowStill, Callers, queueVars,
                        adderVars, destroyVars, historyVars
  <1>4. CASE DestroyStep
    <2>1. HasTask' = HasTask
      <3>1. BroadcastNotEmpty \/ UNCHANGED pc
        BY <1>4 DEF DestroyStep, JoinAdjust, BroadcastTurn, JoinTurn, FreePool
      <3>2. UNCHANGED pc => HasTask' = HasTask
        BY DEF HasTask
      <3> QED
        BY <1>0, <3>1, <3>2, WakeKeepsFlow
    <2>2. UNCHANGED shutdown /\ dpc # "idle"
      BY <1>4 DEF DestroyStep, JoinAdjust, BroadcastTurn, JoinTurn, FreePool
    <2>3. dpc' # "idle"
      BY <1>4, <2>2 DEF DestroyStep, JoinAdjust, BroadcastTurn, JoinTurn, FreePool
    <2> QED
      BY <1>4, <2>1, <2>2, <2>3 DEF DestroyStep, DestroyFrame, FlowStill, Callers,
                                    queueVars, adderVars
  <1>5. CASE SpuriousWakeup
    <2>1. CASE WorkerFrame /\ \E w \in Slots : WorkerWakesSpuriously(w)
      <3>1. HasTask' = HasTask
        BY <1>0, <2>1, WakeKeepsFlow DEF WorkerWakesSpuriously, WorkerPlaces
      <3> QED
        BY <2>1, <3>1 DEF WorkerWakesSpuriously, WorkerFrame, FlowStill, Callers,
                          destroyVars
    <2>2. CASE AdderFrame /\ \E a \in Adders : AdderWakesSpuriously(a)
      <3>1. Callers' = Callers
        BY <1>0, <2>2, WakeKeepsFlow DEF AdderWakesSpuriously
      <3> QED
        BY <2>2, <3>1 DEF AdderWakesSpuriously, AdderFrame, FlowStill, HasTask,
                          queueVars, putVars, destroyVars
    <2> QED
      BY <1>5, <2>1, <2>2 DEF SpuriousWakeup
  <1>6. CASE UNCHANGED vars
    BY <1>6 DEF vars, FlowStill, HasTask, Callers, adderVars, destroyVars,
                historyVars
  <1> QED
    BY <1>1, <1>2, <1>3, <1>4, <1>5, <1>6 DEF Next

\* A step that hands no task on is a stutter of the abstract queue.
LEMMA FlowFrame ==
    ASSUME Flow, FlowStill
    PROVE  Flow' /\ UNCHANGED Promise!vars
  <1>1. UNCHANGED <<task_queue, queue_front, queue_rear, queue_size, cur, done,
                    shutdown, want, submitted, HasTask, Callers>>
    BY DEF FlowStill, queueVars
  <1>2. Wanted' = Wanted /\ Running' = Running
    BY <1>1 DEF Wanted, Running
  <1>3. Pending' = Pending
    BY <1>1 DEF Pending
  <1>4. Queued' = Queued
    BY <1>1, <1>3 DEF Queued
  <1>5. (RingClosed /\ OncePending)'
    BY <1>1, <1>3 DEF Flow, RingClosed, OncePending
  <1>6. (OnceRunning /\ OnceWanted)'
    BY <1>1 DEF Flow, OnceRunning, OnceWanted
  <1>7. OnePlace'
    BY <1>1, <1>2, <1>4 DEF Flow, OnePlace
  <1>8. (shutdown => dpc # "idle")'
    BY <1>1 DEF Flow, FlowStill
  <1>9. UNCHANGED Promise!vars
    BY <1>1, <1>2, <1>3 DEF Promise!vars, Running
  <1> QED
    BY <1>5, <1>6, <1>7, <1>8, <1>9 DEF Flow

\* A task that is handed to add is with its caller alone.
LEMMA CallFlow ==
    ASSUME FlowInv, Call
    PROVE  Flow' /\ UNCHANGED Promise!vars
  <1>1. PICK a \in Adders, t \in Tasks : AdderFrame /\ CallAdd(a, t)
    BY DEF Call
  <1>2. /\ UNCHANGED <<task_queue, queue_front, queue_rear, queue_size, cur,
                       pc, done, shutdown, dpc>>
        /\ apc[a] = "idle" /\ t \notin submitted
        /\ apc' = [apc EXCEPT ![a] = "lock"]
        /\ want' = [want EXCEPT ![a] = t]
        /\ submitted' = submitted \union {t}
        /\ apc \in [Adders -> AdderPlaces]
        /\ want \in [Adders -> Tasks \union {NoTask}]
    BY <1>1 DEF CallAdd, AdderFrame, putVars, destroyVars, FlowInv, QueueInv,
                TypeInv, TypeOK
  <1>3. Callers' = Callers \union {a} /\ a \notin Callers
    BY <1>2 DEF Callers
  <1>4. want'[a] = t /\ \A b \in Callers : want'[b] = want[b]
    BY <1>2, <1>3 DEF Callers
  <1>5. Wanted' = Wanted \union {t}
    BY <1>3, <1>4 DEF Wanted
  <1>6. HasTask' = HasTask /\ Running' = Running /\ Pending' = Pending
    BY <1>2 DEF HasTask, Running, Pending
  <1>7. Queued' = Queued
    BY <1>2, <1>6 DEF Queued
  <1>8. OnePlace'
    BY <1>2, <1>5, <1>6, <1>7 DEF FlowInv, Flow, OnePlace
  <1>9. t \notin Wanted
    BY <1>2 DEF FlowInv, Flow, OnePlace
  <1>10. OnceWanted'
    BY <1>3, <1>4, <1>9 DEF FlowInv, Flow, OnceWanted, Wanted
  <1>11. (RingClosed /\ OncePending /\ OnceRunning)'
    BY <1>2, <1>6 DEF FlowInv, Flow, RingClosed, OncePending, OnceRunning
  <1>12. UNCHANGED Promise!vars
    BY <1>2, <1>6 DEF Promise!vars, Running
  <1>13. (shutdown => dpc # "idle")'
    BY <1>2 DEF FlowInv, Flow
  <1> QED
    BY <1>8, <1>10, <1>11, <1>12, <1>13 DEF Flow

\* The critical section of add hands the task of its caller to the queue.
LEMMA AddFlow ==
    ASSUME FlowInv, NEW a \in Adders, AddTask(a), AdderFrame
    PROVE  Flow' /\ \E t \in Tasks : Promise!Submit(t)
  <1> DEFINE t == want[a]
  <1>1. /\ UNCHANGED <<queue_front, cur, done, shutdown, dpc, submitted>>
        /\ apc[a] = "lock" /\ queue_size # QueueMax /\ ~shutdown
        /\ task_queue' = [task_queue EXCEPT ![queue_rear] = t]
        /\ queue_rear' = CellAfter(queue_rear)
        /\ queue_size' = queue_size + 1
        /\ apc' = [apc EXCEPT ![a] = "idle"]
        /\ want' = [want EXCEPT ![a] = NoTask]
        /\ SignalNotEmpty
    BY DEF AddTask, MayAdd, NotFull, AdderFrame, destroyVars
  <1>2. /\ TypeInv /\ QueueWithinCapacity /\ Flow
        /\ apc \in [Adders -> AdderPlaces]
        /\ want \in [Adders -> Tasks \union {NoTask}]
        /\ queue_size \in Nat /\ queue_size < QueueMax /\ submitted \subseteq Tasks
    BY <1>1, SizesAssumption DEF FlowInv, QueueInv, TypeInv, TypeOK,
                                 QueueWithinCapacity
  <1>3. a \in Callers /\ Callers' = Callers \ {a}
    BY <1>1, <1>2 DEF Callers
  <1>4. t \in Wanted
    BY <1>3 DEF Wanted
  <1>5. t \in Tasks /\ t \notin Queued \union Running \union done
    BY <1>2, <1>4 DEF Flow, OnePlace
  <1>6. \A b \in Callers' : want'[b] = want[b] /\ want[b] # t
    BY <1>1, <1>2, <1>3 DEF Callers, Flow, OnceWanted
  <1>7. Wanted' = Wanted \ {t}
    BY <1>3, <1>6 DEF Wanted
  <1>8. /\ (RingClosed /\ OncePending)'
        /\ Pending' = Append(Pending, t)
        /\ Queued' = Queued \union {t}
    BY <1>1, <1>2, <1>5, RingGrows DEF Flow
  <1>9. HasTask' = HasTask
    BY <1>1, <1>2, WakeKeepsFlow
  <1>10. Running' = Running
    BY <1>1, <1>9 DEF Running
  <1>11. OnceRunning'
    BY <1>1, <1>2, <1>9 DEF Flow, OnceRunning
  <1>12. OnceWanted'
    BY <1>2, <1>3, <1>6 DEF Flow, OnceWanted
  <1>13. OnePlace'
    BY <1>1, <1>2, <1>4, <1>5, <1>7, <1>8, <1>10 DEF Flow, OnePlace
  <1>14. Flow'
    BY <1>1, <1>8, <1>11, <1>12, <1>13 DEF Flow
  <1>15. Len(Pending) = queue_size
    BY <1>2, PendingType DEF Flow
  <1>16. Promise!InPending = Queued
    BY <1>15 DEF Promise!InPending, Queued
  <1>17. Promise!Submit(t)
    BY <1>1, <1>2, <1>5, <1>8, <1>10, <1>15, <1>16 DEF Promise!Submit, Running
  <1> QED
    BY <1>5, <1>14, <1>17

\* There is a worker free for the task that one takes.
LEMMA WorkerForTask ==
    ASSUME NEW w \in Slots, w \notin HasTask
    PROVE  Cardinality(Running) < MaxThr
  <1> DEFINE f == [t \in Running |-> CHOOSE v \in HasTask : cur[v] = t]
  <1>1. \A t \in Running : f[t] \in HasTask /\ cur[f[t]] = t
    BY DEF Running
  <1>2. f \in [Running -> Slots \ {w}]
    BY <1>1 DEF HasTask
  <1>3. f \in Injection(Running, Slots \ {w})
    BY <1>1, <1>2 DEF Injection, IsInjective
  <1>4. IsFiniteSet(Slots) /\ Cardinality(Slots) = MaxThr
    BY FS_Interval, SizesAssumption DEF Slots
  <1>5. /\ IsFiniteSet(Slots \ {w})
        /\ Cardinality(Slots \ {w}) = MaxThr - 1
    BY <1>4, FS_RemoveElement
  <1>6. IsFiniteSet(Running) /\ Cardinality(Running) <= Cardinality(Slots \ {w})
    BY <1>3, <1>5, FS_Injection
  <1>7. Cardinality(Running) \in Nat
    BY <1>6, FS_CardinalityType
  <1> QED
    BY <1>5, <1>6, <1>7, SizesAssumption

\* TaskPool counts as this module does.
LEMMA PromiseCardinality == \A S : Promise!Cardinality(S) = Cardinality(S)
  BY DEF Promise!Cardinality, Promise!IsFiniteSet, Cardinality, IsFiniteSet

\* A worker takes the task that has been in the queue for longest.
LEMMA TakeFlow ==
    ASSUME FlowInv, NEW w \in Slots, TakeTask(w), WorkerFrame
    PROVE  Flow' /\ Promise!Start
  <1> DEFINE t == NextTask
  <1>1. /\ UNCHANGED <<task_queue, queue_rear, done, shutdown, dpc, want,
                       submitted>>
        /\ pc[w] \in {"top", "woken"} /\ queue_size # 0 /\ ~shutdown
        /\ cur' = [cur EXCEPT ![w] = t]
        /\ queue_front' = CellAfter(queue_front)
        /\ queue_size' = queue_size - 1
        /\ pc' = [pc EXCEPT ![w] = "taken"]
        /\ BroadcastNotFull
    BY DEF TakeTask, HasLock, WorkerFrame, destroyVars
  <1>2. /\ TypeInv /\ QueueWithinCapacity /\ Flow
        /\ pc \in [Slots -> WorkerPlaces] /\ cur \in [Slots -> Args]
    BY DEF FlowInv, QueueInv, TypeInv, TypeOK
  <1>3. w \notin HasTask /\ HasTask' = HasTask \union {w}
    BY <1>1, <1>2 DEF HasTask
  <1>4. /\ (RingClosed /\ OncePending)'
        /\ Pending # << >> /\ Head(Pending) = t
        /\ Pending' = Tail(Pending)
        /\ t \in Queued
        /\ Queued' = Queued \ {t}
    BY <1>1, <1>2, RingShrinks DEF Flow
  <1> HIDE DEF t
  <1>5. cur'[w] = t /\ \A v \in HasTask : cur'[v] = cur[v]
    BY <1>1, <1>2, <1>3 DEF HasTask
  <1>6. Running' = Running \union {t}
    BY <1>3, <1>5 DEF Running
  <1>7. t \notin Running
    BY <1>2, <1>4 DEF Flow, OnePlace
  <1>8. OnceRunning'
    BY <1>2, <1>3, <1>5, <1>7 DEF Flow, OnceRunning, Running
  <1>9. Callers' = Callers
    BY <1>1, <1>2, WakeKeepsFlow
  <1>10. Wanted' = Wanted
    BY <1>1, <1>9 DEF Wanted
  <1>11. OnceWanted'
    BY <1>1, <1>2, <1>9 DEF Flow, OnceWanted
  <1>12. OnePlace'
    BY <1>1, <1>2, <1>4, <1>6, <1>7, <1>10 DEF Flow, OnePlace
  <1>13. Flow'
    BY <1>1, <1>4, <1>8, <1>11, <1>12 DEF Flow
  <1>14. Cardinality(Running) < MaxThr
    BY <1>3, WorkerForTask
  <1>15. Promise!Start
    BY <1>1, <1>4, <1>6, <1>14, PromiseCardinality DEF Promise!Start, Running
  <1> QED
    BY <1>13, <1>15

\* A callback that returns finishes its task.
LEMMA FinishFlow ==
    ASSUME FlowInv, NEW w \in Slots, FinishTask(w), WorkerFrame
    PROVE  Flow' /\ \E t \in Tasks : Promise!Finish(t)
  <1>1. PICK t \in Tasks : t = cur[w]
    <2>1. w \in HasTask
      BY DEF HasTask, FinishTask
    <2>2. cur[w] \in Running /\ submitted \subseteq Tasks
      BY <2>1 DEF Running, FlowInv, QueueInv, TypeInv, TypeOK
    <2> QED
      BY <2>2 DEF FlowInv, Flow, OnePlace
  <1>2. /\ UNCHANGED <<task_queue, queue_front, queue_rear, queue_size,
                       shutdown, dpc, apc, want, submitted>>
        /\ pc[w] = "running"
        /\ cur' = [cur EXCEPT ![w] = NoTask]
        /\ pc' = [pc EXCEPT ![w] = "top"]
        /\ done' = done \union {t}
    BY <1>1 DEF FinishTask, WorkerFrame, queueVars, destroyVars
  <1>3. /\ Flow /\ submitted \subseteq Tasks
        /\ pc \in [Slots -> WorkerPlaces] /\ cur \in [Slots -> Args]
    BY DEF FlowInv, QueueInv, TypeInv, TypeOK
  <1>4. w \in HasTask /\ HasTask' = HasTask \ {w}
    BY <1>2, <1>3 DEF HasTask
  <1>5. \A v \in HasTask' : cur'[v] = cur[v] /\ cur[v] # t
    BY <1>1, <1>2, <1>3, <1>4 DEF HasTask, Flow, OnceRunning
  <1>6. t \in Running
    BY <1>1, <1>4 DEF Running
  <1>7. Running' = Running \ {t}
    BY <1>1, <1>4, <1>5 DEF Running
  <1>8. OnceRunning'
    BY <1>3, <1>4, <1>5 DEF Flow, OnceRunning
  <1>9. Callers' = Callers /\ Wanted' = Wanted /\ Pending' = Pending
    BY <1>2 DEF Callers, Wanted, Pending
  <1>10. Queued' = Queued
    BY <1>2, <1>9 DEF Queued
  <1>11. (RingClosed /\ OncePending)'
    BY <1>2, <1>3, <1>9 DEF Flow, RingClosed, OncePending
  <1>12. OnceWanted'
    BY <1>2, <1>3, <1>9 DEF Flow, OnceWanted
  <1>13. OnePlace'
    BY <1>2, <1>3, <1>6, <1>7, <1>9, <1>10 DEF Flow, OnePlace
  <1>14. Flow'
    BY <1>2, <1>3, <1>8, <1>11, <1>12, <1>13 DEF Flow
  <1>15. Promise!Finish(t)
    BY <1>2, <1>6, <1>7, <1>9 DEF Promise!Finish, Running
  <1> QED
    BY <1>14, <1>15

\* The call of destroy closes the pool.
LEMMA DestroyFlow ==
    ASSUME FlowInv, CallDestroy
    PROVE  Flow' /\ Promise!Close
  <1>1. /\ UNCHANGED <<task_queue, queue_front, queue_rear, queue_size, cur, pc,
                       apc, want, done, submitted>>
        /\ dpc = "idle" /\ dpc' = "joinAdjust" /\ shutdown' = TRUE
    BY DEF CallDestroy, DestroyFrame, DestroyBegin, queueVars, adderVars
  <1>2. Flow /\ shutdown \in BOOLEAN
    BY DEF FlowInv, QueueInv, TypeInv, TypeOK
  <1>3. ~shutdown
    BY <1>1, <1>2 DEF Flow
  <1>4. /\ HasTask' = HasTask /\ Callers' = Callers /\ Wanted' = Wanted
        /\ Pending' = Pending
    BY <1>1 DEF HasTask, Callers, Wanted, Pending
  <1>5. Queued' = Queued /\ Running' = Running
    BY <1>1, <1>4 DEF Queued, Running
  <1>6. (RingClosed /\ OncePending /\ OnceRunning /\ OnceWanted)'
    BY <1>1, <1>2, <1>4 DEF Flow, RingClosed, OncePending, OnceRunning, OnceWanted
  <1>7. OnePlace'
    BY <1>1, <1>2, <1>4, <1>5 DEF Flow, OnePlace
  <1>8. Flow'
    BY <1>1, <1>6, <1>7 DEF Flow
  <1>9. Promise!Close
    BY <1>1, <1>3, <1>4, <1>5 DEF Promise!Close, Running
  <1> QED
    BY <1>8, <1>9

\* Every step of the pool is a step of the abstract queue or a stutter.
LEMMA FlowStep ==
    ASSUME Overlap = FALSE, FlowInv, [Next]_vars
    PROVE  FlowInv' /\ [Promise!Next]_(Promise!vars)
  <1>1. QueueInv'
    BY QueueStep DEF FlowInv
  <1> SUFFICES Flow' /\ [Promise!Next]_(Promise!vars)
    BY <1>1 DEF FlowInv
  <1>2. CASE FlowStill
    BY <1>2, FlowFrame DEF FlowInv
  <1>3. CASE \E a \in Adders : AddTask(a) /\ AdderFrame
    BY <1>3, AddFlow DEF Promise!Next
  <1>4. CASE \E w \in Slots : TakeTask(w) /\ WorkerFrame
    BY <1>4, TakeFlow DEF Promise!Next
  <1>5. CASE \E w \in Slots : FinishTask(w) /\ WorkerFrame
    BY <1>5, FinishFlow DEF Promise!Next
  <1>6. CASE CallDestroy
    BY <1>6, DestroyFlow DEF Promise!Next
  <1>7. CASE Call
    BY <1>7, CallFlow
  <1> QED
    BY <1>2, <1>3, <1>4, <1>5, <1>6, <1>7, FlowMoves DEF FlowInv

\* The elastic pool is a queue: however workers come and go, what add accepts
\* is started first in, first out, once, by at most max_thr_num workers, and no
\* task is lost while the pool is open.
THEOREM PromiseKept ==
    ASSUME Overlap = FALSE
    PROVE  Spec => KeepsPromise
  <1>1. Init => FlowInv /\ Promise!Init
    <2> SUFFICES ASSUME Init PROVE FlowInv /\ Promise!Init
      OBVIOUS
    <2>1. HasTask = {} /\ Callers = {} /\ queue_size = 0
      BY DEF Init, HasTask, Callers
    <2>2. Running = {} /\ Wanted = {} /\ Queued = {}
      BY <2>1 DEF Running, Wanted, Queued
    <2>3. OncePending /\ OnceRunning /\ OnceWanted
      BY <2>1 DEF OncePending, OnceRunning, OnceWanted
    <2>4. OnePlace
      BY <2>2 DEF Init, OnePlace
    <2>5. RingClosed
      BY Wrap, SizesAssumption DEF Init, RingClosed
    <2>6. Pending = << >>
      BY <2>1 DEF Pending
    <2>7. FlowInv
      BY <2>3, <2>4, <2>5, QueueInit DEF FlowInv, Flow, Init
    <2>8. Promise!Init
      BY <2>2, <2>6 DEF Init, Promise!Init, Running
    <2> QED
      BY <2>7, <2>8
  <1>2. FlowInv /\ [Next]_vars => FlowInv' /\ [Promise!Next]_(Promise!vars)
    BY FlowStep
  <1> QED
    BY <1>1, <1>2, PTL DEF Spec, KeepsPromise, Promise!Spec
=============================================================================
