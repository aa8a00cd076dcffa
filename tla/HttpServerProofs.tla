-------------------------- MODULE HttpServerProofs --------------------------
(***************************************************************************)
(* What HttpServer.tla guarantees for any number of threads, connections   *)
(* and descriptors: its type, that main pushes to a pool that exists,      *)
(* that descriptors are accounted for although their numbers are reused,   *)
(* and that from connect to close the server is the queue of TaskPool.tla. *)
(***************************************************************************)
EXTENDS HttpServer, FiniteSetTheorems, FunctionTheorems, SequenceTheorems,
        WellFoundedInduction, TLAPS

-----------------------------------------------------------------------------
(* Type correctness                                                        *)

\* A thread that runs has a connection.
Holds == \A w \in Threads : pc[w] = "running" => cur[w] \in Conns
\* main has a connection in its hands between accept and TP_PushTask.
MainHolds == (mpc = "push") <=> (cli_conn # NoConn)
\* _tp is set before the loop can be entered with a socket that listens.
PoolFirst == (listening => tp) /\ PushHasPool

TypeInv == TypeOK /\ Holds /\ MainHolds /\ PoolFirst /\ ~tp_quit

\* A wake-up neither starts nor ends a handler.
LEMMA WakeEffect ==
    ASSUME TypeOK, Pool!WakeUpOne
    PROVE  /\ pc' \in [Threads -> Pool!ThreadPlaces]
           /\ \A v \in Threads : pc'[v] = "running" <=> pc[v] = "running"
  <1>1. pc \in [Threads -> Pool!ThreadPlaces]
    BY DEF TypeOK, Pool!TypeOK
  <1>2. pc' = pc \/ \E w \in Pool!Idle : pc' = [pc EXCEPT ![w] = "lock"]
    BY DEF Pool!WakeUpOne
  <1> QED
    BY <1>1, <1>2 DEF Pool!Idle, Pool!ThreadPlaces

\* The lowest free descriptor is free.
LEMMA LowestIsFree ==
    ASSUME FreeFds # {}
    PROVE  LowestFree \in FreeFds
  <1>1. FreeFds \in SUBSET Nat
    BY MaxFdAssumption DEF FreeFds, Fds
  <1>2. \E f \in FreeFds : \A g \in FreeFds : f <= g
    <2>1. PICK f \in FreeFds : \A g \in FreeFds : ~(<<g, f>> \in OpToRel(<, Nat))
      BY <1>1, NatLessThanWellFounded, WFMin
    <2>2. \A g \in FreeFds : ~(g < f)
      BY <1>1, <2>1 DEF OpToRel
    <2> QED
      BY <1>1, <2>2
  <1> QED
    BY <1>2 DEF LowestFree

\* main starts with nothing.
LEMMA TypeInit == Init => TypeInv
  <1> SUFFICES ASSUME Init PROVE TypeInv
    OBVIOUS
  <1>1. << >> \in Seq(Conns)
    OBVIOUS
  <1>2. Pool!TypeOK
    <2>1. pc \in [Threads -> Pool!ThreadPlaces]
      BY DEF Init, Pool!Init, Pool!ThreadPlaces
    <2>2. cur \in [Threads -> Conns \union {NoConn}] /\ thread_cur \in Int
      BY DEF Init, Pool!Init
    <2> QED
      BY <1>1, <2>1, <2>2 DEF Init, Pool!Init, Pool!TypeOK
  <1>3. TypeOK
    BY <1>1, <1>2 DEF Init, TypeOK
  <1> QED
    BY <1>3 DEF Init, Pool!Init, TypeInv, Holds, MainHolds, PoolFirst, PushHasPool

\* The steps of the pool keep its types, and begin no handler without a connection.
LEMMA PoolTypes ==
    ASSUME TypeInv,
           \/ Pool!TP_PoolInit
           \/ mpc = "push" /\ Pool!TP_PushTask(cli_conn)
           \/ \E w \in Threads : \/ Pool!TP_PopTask(w) \/ Pool!TT_RunEnds(w)
                                 \/ Pool!ThreadWait(w) \/ Pool!WakesSpuriously(w)
    PROVE  Pool!TypeOK' /\ Holds' /\ ~tp_quit'
  <1>0. /\ Pool!TypeOK /\ Holds /\ ~tp_quit
        /\ pc \in [Threads -> Pool!ThreadPlaces]
        /\ cur \in [Threads -> Conns \union {NoConn}]
        /\ task_queue \in Seq(Conns)
    BY DEF TypeInv, TypeOK, Pool!TypeOK
  <1>1. CASE Pool!TP_PoolInit
    BY <1>0, <1>1 DEF Pool!TP_PoolInit, Pool!CreateThread, Pool!CreateFails,
       Pool!TypeOK, Pool!ThreadPlaces, Pool!threadVars, Pool!quitVars, Pool!pushVars,
       Holds
  <1>2. CASE mpc = "push" /\ Pool!TP_PushTask(cli_conn)
    <2>1. cli_conn \in Conns
      BY <1>2 DEF TypeInv, MainHolds, TypeOK
    <2>2. /\ task_queue' = Append(task_queue, cli_conn)
          /\ pushed' = pushed \union {cli_conn}
          /\ Pool!WakeUpOne
          /\ UNCHANGED <<refused, cur, thread_cur, done, ipc, tp_quit, qpc>>
      BY <1>0, <1>2 DEF Pool!TP_PushTask, Pool!Refuses, Pool!initVars, Pool!quitVars
    <2>3. Append(task_queue, cli_conn) \in Seq(Conns)
      BY <1>0, <2>1
    <2>4. /\ pc' \in [Threads -> Pool!ThreadPlaces]
          /\ \A v \in Threads : pc'[v] = "running" <=> pc[v] = "running"
      BY <2>2, WakeEffect DEF TypeInv
    <2> QED
      BY <1>0, <2>1, <2>2, <2>3, <2>4 DEF Pool!TypeOK, Holds
  <1>3. ASSUME NEW w \in Threads, Pool!TP_PopTask(w)
        PROVE  Pool!TypeOK' /\ Holds' /\ ~tp_quit'
    <2>1. /\ task_queue # << >>
          /\ cur' = [cur EXCEPT ![w] = Head(task_queue)]
          /\ task_queue' = Tail(task_queue)
          /\ pc' = [pc EXCEPT ![w] = "running"]
          /\ UNCHANGED <<thread_cur, done, ipc, tp_quit, qpc, pushed, refused>>
      BY <1>3 DEF Pool!TP_PopTask, Pool!IsEmpty, Pool!FirstTask, Pool!initVars,
                  Pool!quitVars, Pool!pushVars
    <2>2. Head(task_queue) \in Conns /\ Tail(task_queue) \in Seq(Conns)
      BY <1>0, <2>1
    <2>3. pc' \in [Threads -> Pool!ThreadPlaces]
      BY <1>0, <2>1 DEF Pool!ThreadPlaces
    <2> QED
      BY <1>0, <2>1, <2>2, <2>3 DEF Pool!TypeOK, Holds
  <1>4. ASSUME NEW w \in Threads, Pool!TT_RunEnds(w)
        PROVE  Pool!TypeOK' /\ Holds' /\ ~tp_quit'
    <2>1. cur[w] \in Conns
      BY <1>0, <1>4 DEF Pool!TT_RunEnds, Holds
    <2> QED
      BY <1>0, <1>4, <2>1 DEF Pool!TT_RunEnds, Pool!Ran, Pool!TypeOK, Pool!ThreadPlaces,
         Pool!initVars, Pool!quitVars, Pool!pushVars, Holds
  <1>5. ASSUME NEW w \in Threads, Pool!ThreadWait(w) \/ Pool!WakesSpuriously(w)
        PROVE  Pool!TypeOK' /\ Holds' /\ ~tp_quit'
    BY <1>0, <1>5 DEF Pool!ThreadWait, Pool!WakesSpuriously, Pool!TypeOK,
       Pool!ThreadPlaces, Pool!initVars, Pool!quitVars, Pool!pushVars, Holds
  <1> QED
    BY <1>1, <1>2, <1>3, <1>4, <1>5

\* Every step keeps the types.
LEMMA TypeStep == TypeInv /\ [Next]_vars => TypeInv'
  <1> SUFFICES ASSUME TypeInv, [Next]_vars PROVE TypeInv'
    OBVIOUS
  <1>0. TypeOK /\ Holds /\ MainHolds /\ PoolFirst /\ ~tp_quit
    BY DEF TypeInv
  <1> DEFINE PoolKept == Pool!TypeOK' /\ Holds' /\ ~tp_quit'
  <1>1. UNCHANGED poolVars => PoolKept
    BY <1>0 DEF poolVars, TypeOK, Pool!TypeOK, Holds
  <1> USE DEF TypeOK, MainHolds, PoolFirst, PushHasPool, kernelVars, mainVars
  <1>2. CASE InitCall
    BY <1>0, <1>1, <1>2 DEF InitCall, NextCall, TypeInv
  <1>3. CASE InitCallFails
    BY <1>0, <1>1, <1>3 DEF InitCallFails, NextCall, TypeInv
  <1>4. CASE InitPool
    BY <1>0, <1>4, PoolTypes DEF InitPool, TypeInv
  <1>5. CASE Accept
    <2>1. LowestFree \in Fds
      BY <1>5, LowestIsFree DEF Accept, FreeFds
    <2>2. Head(backlog) \in Conns /\ Tail(backlog) \in Seq(Conns)
      BY <1>0, <1>5 DEF Accept
    <2> QED
      BY <1>0, <1>1, <1>5, <2>1, <2>2, ConnsAssumption DEF Accept, TypeInv
  <1>6. CASE Push
    BY <1>0, <1>6, PoolTypes DEF Push, TypeInv
  <1>7. ASSUME NEW w \in Threads, ThreadStep(w)
        PROVE  TypeInv'
    <2>1. CASE StartHandler(w)
      BY <1>0, <2>1, PoolTypes DEF StartHandler, TypeInv
    <2>2. CASE CloseSock(w)
      <3>1. cur[w] \in Conns
        BY <1>0, <2>2 DEF CloseSock, Holds
      <3> QED
        BY <1>0, <1>1, <2>2, <3>1 DEF CloseSock, Closes, TypeInv
    <2>3. CASE EndHandler(w)
      BY <1>0, <2>3, PoolTypes DEF EndHandler, TypeInv
    <2>4. CASE WaitForTask(w)
      BY <1>0, <2>4, PoolTypes DEF WaitForTask, TypeInv
    <2> QED
      BY <1>7, <2>1, <2>2, <2>3, <2>4 DEF ThreadStep
  <1>8. CASE \E c \in Conns : Connect(c)
    <2>1. PICK c \in Conns : Connect(c)
      BY <1>8
    <2>2. backlog' \in Seq(Conns)
      BY <1>0, <2>1 DEF Connect
    <2> QED
      BY <1>0, <1>1, <2>1, <2>2 DEF Connect, TypeInv
  <1>9. CASE SpuriousWakeup
    BY <1>0, <1>9, PoolTypes DEF SpuriousWakeup, TypeInv
  <1>10. CASE UNCHANGED vars
    BY <1>0, <1>1, <1>10 DEF vars, TypeInv
  <1> QED
    BY <1>2, <1>3, <1>4, <1>5, <1>6, <1>7, <1>8, <1>9, <1>10 DEF Next, MainStep

\* Every variable keeps its type.
THEOREM TypeCorrect == Spec => []TypeOK
  <1>1. TypeInv => TypeOK
    BY DEF TypeInv
  <1> QED
    BY <1>1, TypeInit, TypeStep, PTL DEF Spec

\* main pushes only to a pool that exists: without one nothing listens, and no
\* accept succeeds.
THEOREM PushSafe == Spec => []PushHasPool
  <1>1. TypeInv => PushHasPool
    BY DEF TypeInv, PoolFirst
  <1> QED
    BY <1>1, TypeInit, TypeStep, PTL DEF Spec
-----------------------------------------------------------------------------
(* Descriptors.  A number is given out again as soon as it is free: what    *)
(* keeps it apart from its former owner is that a connection is in one     *)
(* pair of hands at a time, and closed only by the thread that serves it.  *)

Servers == {w \in Threads : pc[w] = "running" /\ hpc[w] = "serve"}
InHand == {cli_conn} \ {NoConn}

\* What is in a queue, and that it is there once.
In(q) == {q[i] : i \in 1..Len(q)}
Once(q) == \A i, j \in 1..Len(q) : q[i] = q[j] => i = j

\* A connection is in the queue once, served by one thread, or held by main.
OneHand ==
    /\ Once(task_queue)
    /\ \A v, w \in Servers : cur[v] = cur[w] => v = w
    /\ Queued \cap Serving = {}
    /\ cli_conn \notin Queued \union Serving

\* A descriptor that is open is the one its connection was given.
FdsMatch == \A f \in Fds : fdtab[f] # NoConn => sock[fdtab[f]] = f

\* Connections that wait to be accepted wait once and have no descriptor yet.
BacklogNew ==
    /\ Once(backlog)
    /\ \A c \in In(backlog) : sock[c] = NoFd

Hands == Queued \union Serving \union InHand
SockInv == TypeInv /\ OneHand /\ FdsMatch /\ BacklogNew /\ Open = Hands

\* A queue that gains something new at its end.
LEMMA SeqGrows ==
    ASSUME NEW S, NEW q \in Seq(S), NEW c \in S, Once(q), c \notin In(q),
           NEW r, r = Append(q, c)
    PROVE  Once(r) /\ In(r) = In(q) \union {c}
  <1> USE DEF Once, In
  <1>1. /\ Len(q) \in Nat /\ Len(r) = Len(q) + 1 /\ r[Len(q) + 1] = c
        /\ \A i \in 1..Len(q) : r[i] = q[i]
    OBVIOUS
  <1>2. 1..Len(r) = 1..Len(q) \union {Len(q) + 1}
    BY <1>1
  <1>3. \A i, j \in 1..Len(r) : r[i] = r[j] => i = j
    BY <1>1, <1>2
  <1>4. {r[i] : i \in 1..Len(r)} = {q[i] : i \in 1..Len(q)} \union {c}
    BY <1>1, <1>2
  <1> QED
    BY <1>3, <1>4

\* A queue that loses its head.
LEMMA SeqShrinks ==
    ASSUME NEW S, NEW q \in Seq(S), q # << >>, Once(q), NEW r, r = Tail(q)
    PROVE  Once(r) /\ Head(q) \in In(q) /\ In(r) = In(q) \ {Head(q)}
  <1> USE DEF Once, In
  <1>1. /\ Len(q) \in Nat /\ Len(q) >= 1 /\ Len(r) = Len(q) - 1 /\ Head(q) = q[1]
        /\ \A i \in 1..Len(r) : r[i] = q[i + 1]
    OBVIOUS
  <1>2. \A i \in 1..Len(r) : i + 1 \in 1..Len(q) /\ i + 1 # 1
    BY <1>1
  <1>3. \A i, j \in 1..Len(r) : r[i] = r[j] => i = j
    <2> SUFFICES ASSUME NEW i \in 1..Len(r), NEW j \in 1..Len(r), r[i] = r[j]
                 PROVE  i = j
      OBVIOUS
    <2>1. q[i + 1] = q[j + 1] /\ i + 1 \in 1..Len(q) /\ j + 1 \in 1..Len(q)
      BY <1>1, <1>2
    <2>2. i + 1 = j + 1
      BY <2>1
    <2> QED
      BY <2>2
  <1>4. 1 \in 1..Len(q)
    BY <1>1
  <1>5. {r[i] : i \in 1..Len(r)} \subseteq {q[i] : i \in 1..Len(q)} \ {Head(q)}
    BY <1>1, <1>2, <1>4
  <1>6. {q[i] : i \in 1..Len(q)} \ {Head(q)} \subseteq {r[i] : i \in 1..Len(r)}
    <2> SUFFICES ASSUME NEW i \in 1..Len(q), i # 1
                 PROVE  q[i] \in {r[k] : k \in 1..Len(r)}
      BY <1>1
    <2>1. i - 1 \in 1..Len(r) /\ r[i - 1] = q[i]
      BY <1>1
    <2> QED
      BY <2>1
  <1> QED
    BY <1>1, <1>3, <1>4, <1>5, <1>6

\* A step that leaves the hands and the descriptors as they are.
LEMMA HandsKept ==
    ASSUME SockInv,
           UNCHANGED <<task_queue, cli_conn, sock, fdtab, backlog>>,
           Servers' = Servers, \A v \in Servers : cur'[v] = cur[v]
    PROVE  (OneHand /\ FdsMatch /\ BacklogNew /\ Open = Hands)' /\ Serving' = Serving
  <1>1. Serving' = Serving
    BY DEF Serving, Servers
  <1>2. Queued' = Queued /\ InHand' = InHand /\ Open' = Open
    BY DEF Queued, InHand, Open
  <1> QED
    BY <1>1, <1>2 DEF SockInv, OneHand, FdsMatch, BacklogNew, Hands

\* Accepting hands a connection without a descriptor to main, with one.
LEMMA AcceptHands ==
    ASSUME SockInv, Accept
    PROVE  (OneHand /\ FdsMatch /\ BacklogNew /\ Open = Hands)' /\ Serving' = Serving
  <1> DEFINE c == Head(backlog)
             f == LowestFree
  <1>1. /\ backlog # << >> /\ backlog \in Seq(Conns) /\ c \in Conns /\ c # NoConn
        /\ f \in Fds /\ fdtab[f] = NoConn
        /\ sock \in [Conns -> Fds \union {NoFd}]
        /\ fdtab \in [Fds -> Conns \union {NoConn}]
        /\ cli_conn = NoConn /\ cli_conn' = c
        /\ sock' = [sock EXCEPT ![c] = f]
        /\ fdtab' = [fdtab EXCEPT ![f] = c]
        /\ backlog' = Tail(backlog)
        /\ UNCHANGED <<task_queue, pc, cur, hpc>>
    BY LowestIsFree, ConnsAssumption
    DEF SockInv, TypeInv, TypeOK, MainHolds, Accept, FreeFds, poolVars
  <1>2. c \in In(backlog) /\ Once(backlog') /\ In(backlog') = In(backlog) \ {c}
    BY <1>1, SeqShrinks DEF SockInv, BacklogNew
  <1>3. sock[c] = NoFd /\ NoFd \notin Fds
    BY <1>2, MaxFdAssumption DEF SockInv, BacklogNew, NoFd, Fds
  <1> HIDE DEF c, f
  <1>4. c \notin Open
    BY <1>1, <1>3 DEF SockInv, FdsMatch, Open
  <1>5. Queued' = Queued /\ Serving' = Serving /\ InHand' = {c} /\ InHand = {}
    BY <1>1 DEF Queued, Serving, InHand
  <1>6. Open' = Open \union {c}
    <2>1. fdtab'[f] = c /\ \A g \in Fds \ {f} : fdtab'[g] = fdtab[g]
      BY <1>1
    <2>2. \A d \in Conns : (\E g \in Fds : fdtab'[g] = d)
                           <=> (d = c \/ \E g \in Fds : fdtab[g] = d)
      BY <1>1, <2>1, ConnsAssumption
    <2> QED
      BY <1>1, <2>2 DEF Open
  <1>7. c \notin Queued \union Serving
    BY <1>4 DEF SockInv, Hands
  <1>8. OneHand'
    BY <1>1, <1>5, <1>7 DEF SockInv, OneHand, Servers
  <1>9. FdsMatch'
    BY <1>1, <1>4 DEF SockInv, FdsMatch, Open
  <1>10. BacklogNew'
    <2>1. In(backlog) \subseteq Conns
      BY <1>1 DEF In
    <2> QED
      BY <1>1, <1>2, <2>1 DEF SockInv, BacklogNew
  <1> QED
    BY <1>5, <1>6, <1>8, <1>9, <1>10 DEF SockInv, Hands

\* Pushing moves the connection from main to the queue.
LEMMA PushHands ==
    ASSUME SockInv, Push
    PROVE  (OneHand /\ FdsMatch /\ BacklogNew /\ Open = Hands)' /\ Serving' = Serving
  <1>1. /\ task_queue \in Seq(Conns) /\ cli_conn \in Conns /\ cli_conn # NoConn
        /\ cli_conn' = NoConn
        /\ task_queue' = Append(task_queue, cli_conn)
        /\ UNCHANGED <<cur, hpc, sock, fdtab, backlog>>
        /\ \A v \in Threads : pc'[v] = "running" <=> pc[v] = "running"
    BY WakeEffect, ConnsAssumption DEF SockInv, TypeInv, TypeOK, MainHolds, Push,
       Pool!TypeOK, Pool!TP_PushTask, Pool!Refuses, kernelVars
  <1>2. Once(task_queue') /\ Queued' = Queued \union {cli_conn}
    <2>1. Once(task_queue) /\ cli_conn \notin In(task_queue)
      BY DEF SockInv, OneHand, Queued, In
    <2>2. Once(task_queue') /\ In(task_queue') = In(task_queue) \union {cli_conn}
      BY <1>1, <2>1, SeqGrows
    <2> QED
      BY <2>2 DEF Queued, In
  <1>3. Servers' = Servers /\ Serving' = Serving
    BY <1>1 DEF Servers, Serving
  <1>4. InHand' = {} /\ InHand = {cli_conn} /\ Open' = Open
    BY <1>1 DEF InHand, Open
  <1>5. NoConn \notin Queued' \union Serving'
    <2>1. Queued' \union Serving' \subseteq Open
      BY <1>2, <1>3, <1>4 DEF SockInv, Hands
    <2> QED
      BY <2>1, ConnsAssumption DEF Open
  <1>6. OneHand'
    BY <1>1, <1>2, <1>3, <1>5 DEF SockInv, OneHand, Servers
  <1> QED
    BY <1>1, <1>2, <1>3, <1>4, <1>6 DEF SockInv, Hands, FdsMatch, BacklogNew
\* Taking a task moves the connection from the queue to a thread.
LEMMA StartHands ==
    ASSUME SockInv, NEW w \in Threads, StartHandler(w)
    PROVE  /\ (OneHand /\ FdsMatch /\ BacklogNew /\ Open = Hands)'
           /\ w \notin Servers /\ Serving' = Serving \union {Head(task_queue)}
  <1> DEFINE c == Head(task_queue)
  <1>1. /\ task_queue \in Seq(Conns) /\ task_queue # << >>
        /\ task_queue' = Tail(task_queue)
        /\ pc' = [pc EXCEPT ![w] = "running"] /\ hpc' = [hpc EXCEPT ![w] = "serve"]
        /\ cur' = [cur EXCEPT ![w] = c]
        /\ pc \in [Threads -> Pool!ThreadPlaces] /\ pc[w] = "lock"
        /\ hpc \in [Threads -> {"serve", "closed"}]
        /\ cur \in [Threads -> Conns \union {NoConn}]
        /\ UNCHANGED <<cli_conn, sock, fdtab, backlog>>
    BY DEF SockInv, TypeInv, TypeOK, Pool!TypeOK, StartHandler, Pool!TP_PopTask,
           Pool!IsEmpty, Pool!FirstTask, mainVars, kernelVars
  <1>2. Once(task_queue') /\ c \in Queued /\ Queued' = Queued \ {c}
    <2>1. /\ Once(task_queue') /\ c \in In(task_queue)
          /\ In(task_queue') = In(task_queue) \ {c}
      BY <1>1, SeqShrinks DEF SockInv, OneHand
    <2> QED
      BY <2>1 DEF Queued, In
  <1> HIDE DEF c
  <1>3. w \notin Servers /\ Servers' = Servers \union {w}
    BY <1>1 DEF Servers
  <1>4. cur'[w] = c /\ \A v \in Servers : cur'[v] = cur[v]
    BY <1>1, <1>3 DEF Servers
  <1>5. Serving' = Serving \union {c}
    <2>1. Serving = {cur[v] : v \in Servers} /\ Serving' = {cur'[v] : v \in Servers'}
      BY DEF Serving, Servers
    <2> QED
      BY <1>3, <1>4, <2>1
  <1>6. c \notin Serving /\ c # cli_conn
    BY <1>2 DEF SockInv, OneHand
  <1>7. \A v \in Servers : cur[v] # c
    BY <1>6 DEF Serving, Servers
  <1>8. OneHand'
    <2>1. \A u, v \in Servers' : cur'[u] = cur'[v] => u = v
      BY <1>3, <1>4, <1>7 DEF SockInv, OneHand
    <2> QED
      BY <1>1, <1>2, <1>5, <1>6, <2>1 DEF SockInv, OneHand
  <1>9. Open' = Open /\ InHand' = InHand
    BY <1>1 DEF Open, InHand
  <1>10. FdsMatch' /\ BacklogNew'
    BY <1>1 DEF SockInv, FdsMatch, BacklogNew
  <1>11. Hands' = Hands
    BY <1>2, <1>5, <1>9 DEF Hands
  <1> QED
    BY <1>3, <1>5, <1>8, <1>9, <1>10, <1>11 DEF SockInv, c

\* Closing ends the connection of the thread and frees no other's descriptor.
LEMMA CloseHands ==
    ASSUME SockInv, NEW w \in Threads, CloseSock(w)
    PROVE  /\ (OneHand /\ FdsMatch /\ BacklogNew /\ Open = Hands)'
           /\ cur[w] \in Serving /\ Serving' = Serving \ {cur[w]}
  <1> DEFINE c == cur[w]
             f == sock[c]
  <1>1. /\ w \in Servers /\ c \in Conns
        /\ hpc' = [hpc EXCEPT ![w] = "closed"]
        /\ hpc \in [Threads -> {"serve", "closed"}]
        /\ fdtab' = [fdtab EXCEPT ![f] = NoConn]
        /\ fdtab \in [Fds -> Conns \union {NoConn}]
        /\ UNCHANGED <<task_queue, pc, cur, cli_conn, sock, backlog>>
    BY DEF SockInv, TypeInv, TypeOK, Holds, CloseSock, Closes, Servers, poolVars,
           mainVars
  <1> HIDE DEF c, f
  <1>2. Servers' = Servers \ {w}
    BY <1>1 DEF Servers
  <1>3. \A v \in Servers \ {w} : cur[v] # c
    BY <1>1 DEF SockInv, OneHand, c
  <1>4. c \in Serving /\ Serving' = Serving \ {c}
    <2>1. Serving = {cur[v] : v \in Servers} /\ Serving' = {cur'[v] : v \in Servers'}
      BY DEF Serving, Servers
    <2>2. c = cur[w]
      BY DEF c
    <2> QED
      BY <1>1, <1>2, <1>3, <2>1, <2>2
  <1>5. c \in Open
    BY <1>4 DEF SockInv, Hands
  <1>6. /\ f \in Fds /\ fdtab[f] = c
        /\ \A g \in Fds : fdtab[g] = c => g = f
    BY <1>1, <1>5, ConnsAssumption DEF SockInv, FdsMatch, Open, f
  <1>7. Open' = Open \ {c}
    <2>1. fdtab'[f] = NoConn /\ \A g \in Fds \ {f} : fdtab'[g] = fdtab[g]
      BY <1>1, <1>6
    <2>2. \A d \in Conns : (\E g \in Fds : fdtab'[g] = d)
                           <=> (d # c /\ \E g \in Fds : fdtab[g] = d)
      BY <1>1, <1>6, <2>1, ConnsAssumption
    <2> QED
      BY <2>2 DEF Open
  <1>8. Queued' = Queued /\ InHand' = InHand /\ c \notin Queued /\ c \notin InHand
    BY <1>1, <1>4 DEF Queued, InHand, SockInv, OneHand
  <1>9. OneHand'
    BY <1>1, <1>2, <1>4, <1>8 DEF SockInv, OneHand
  <1>10. FdsMatch' /\ BacklogNew'
    BY <1>1, <1>6 DEF SockInv, FdsMatch, BacklogNew
  <1>11. Hands' = Hands \ {c}
    BY <1>4, <1>8 DEF Hands
  <1>12. Open' = Hands'
    BY <1>7, <1>11 DEF SockInv
  <1> QED
    BY <1>4, <1>9, <1>10, <1>12 DEF c

\* A connection that has arrived waits, and has no descriptor yet.
LEMMA ConnectHands ==
    ASSUME SockInv, NEW c \in Conns, Connect(c)
    PROVE  (OneHand /\ FdsMatch /\ BacklogNew /\ Open = Hands)' /\ Serving' = Serving
  <1>1. /\ backlog \in Seq(Conns) /\ backlog' = Append(backlog, c) /\ c \notin Arrived
        /\ UNCHANGED <<task_queue, pc, cur, cli_conn, sock, hpc, fdtab>>
    BY DEF SockInv, TypeInv, TypeOK, Connect, poolVars, mainVars
  <1>2. sock[c] = NoFd /\ c \notin In(backlog)
    BY <1>1 DEF Arrived, In
  <1>3. BacklogNew'
    <2>1. Once(backlog') /\ In(backlog') = In(backlog) \union {c}
      BY <1>1, <1>2, SeqGrows DEF SockInv, BacklogNew
    <2> QED
      BY <1>1, <1>2, <2>1 DEF SockInv, BacklogNew
  <1>4. Queued' = Queued /\ Serving' = Serving /\ InHand' = InHand /\ Open' = Open
    BY <1>1 DEF Queued, Serving, InHand, Open
  <1> QED
    BY <1>1, <1>3, <1>4 DEF SockInv, OneHand, Servers, FdsMatch, Hands

\* The other steps move no connection.
LEMMA IdleHands ==
    ASSUME SockInv,
           \/ InitCall \/ InitCallFails \/ InitPool \/ SpuriousWakeup
           \/ \E w \in Threads : EndHandler(w) \/ WaitForTask(w)
           \/ UNCHANGED vars
    PROVE  /\ (OneHand /\ FdsMatch /\ BacklogNew /\ Open = Hands)'
           /\ Serving' = Serving
           /\ UNCHANGED <<task_queue, cli_conn, backlog, closed>>
  <1>0. pc \in [Threads -> Pool!ThreadPlaces]
    BY DEF SockInv, TypeInv, TypeOK, Pool!TypeOK
  <1> DEFINE Rest == UNCHANGED <<task_queue, cli_conn, sock, fdtab, backlog, hpc, closed>>
  <1>1. Rest /\ Servers' = Servers /\ \A v \in Servers : cur'[v] = cur[v]
    <2>1. CASE InitCall \/ InitCallFails \/ UNCHANGED vars
      BY <2>1 DEF InitCall, InitCallFails, vars, poolVars, mainVars, kernelVars, Servers
    <2>2. CASE InitPool
      BY <1>0, <2>2 DEF InitPool, Pool!TP_PoolInit, Pool!CreateThread,
         Pool!CreateFails, Pool!threadVars, kernelVars, Servers
    <2>3. CASE SpuriousWakeup
      BY <1>0, <2>3 DEF SpuriousWakeup, Pool!WakesSpuriously, mainVars, kernelVars,
         Servers
    <2>4. ASSUME NEW w \in Threads, EndHandler(w) \/ WaitForTask(w)
          PROVE  Rest /\ Servers' = Servers /\ \A v \in Servers : cur'[v] = cur[v]
      <3>1. /\ w \notin Servers /\ Rest
            /\ \E p \in {"lock", "waiting"} : pc' = [pc EXCEPT ![w] = p]
            /\ cur' = cur \/ cur' = [cur EXCEPT ![w] = NoConn]
        BY <1>0, <2>4 DEF EndHandler, WaitForTask, Pool!TT_RunEnds, Pool!ThreadWait,
           mainVars, kernelVars, Servers
      <3>2. \A v \in Servers : v # w
        BY <3>1
      <3> QED
        BY <1>0, <3>1, <3>2 DEF Servers, SockInv, TypeInv, TypeOK, Pool!TypeOK
    <2> QED
      BY <2>1, <2>2, <2>3, <2>4
  <1> QED
    BY <1>1, HandsKept

\* Every step accounts for the descriptors.
LEMMA SockStep == SockInv /\ [Next]_vars => SockInv'
  <1> SUFFICES ASSUME SockInv, [Next]_vars
               PROVE  (OneHand /\ FdsMatch /\ BacklogNew /\ Open = Hands)'
    BY TypeStep DEF SockInv
  <1>1. CASE MainStep
    BY <1>1, IdleHands, AcceptHands, PushHands DEF MainStep
  <1>2. CASE \E w \in Threads : ThreadStep(w)
    BY <1>2, IdleHands, StartHands, CloseHands DEF ThreadStep
  <1>3. CASE \E c \in Conns : Connect(c)
    BY <1>3, ConnectHands
  <1>4. CASE SpuriousWakeup \/ UNCHANGED vars
    BY <1>4, IdleHands
  <1> QED
    BY <1>1, <1>2, <1>3, <1>4 DEF Next

LEMMA SockInit == Init => SockInv
  <1> SUFFICES ASSUME Init PROVE SockInv
    OBVIOUS
  <1>1. task_queue = << >> /\ backlog = << >> /\ Servers = {} /\ cli_conn = NoConn
        /\ \A f \in Fds : fdtab[f] = NoConn
    BY DEF Init, Pool!Init, Servers
  <1>2. Queued = {} /\ Serving = {} /\ InHand = {} /\ Open = {}
    BY <1>1, ConnsAssumption DEF Queued, Serving, Servers, InHand, Open
  <1> QED
    BY <1>1, <1>2, TypeInit DEF SockInv, OneHand, Once, In, FdsMatch, BacklogNew, Hands

\* A descriptor is open if and only if its connection is in one of the server's
\* hands, and it is the one the connection was given.
THEOREM SocketsSafe == Spec => []SocketsAccounted
  <1>1. SockInv => SocketsAccounted
    BY ConnsAssumption DEF SockInv, SocketsAccounted, Hands, InHand, FdsMatch, Open
  <1> QED
    BY <1>1, SockInit, SockStep, PTL DEF Spec
-----------------------------------------------------------------------------
(* The server implements the queue of TaskPool.tla, whose pending tasks    *)
(* lie in three places: the pool's queue, main's hand and the backlog.     *)

Held == IF mpc = "push" THEN <<cli_conn>> ELSE << >>
Line == task_queue \o Held \o backlog

\* The head of a concatenation, and the rest.
LEMMA ConcatHead ==
    ASSUME NEW S, NEW q \in Seq(S), NEW t \in Seq(S), q # << >>
    PROVE  q \o t # << >> /\ Head(q \o t) = Head(q) /\ Tail(q \o t) = Tail(q) \o t
  <1>1. /\ q \o t \in Seq(S) /\ Len(q \o t) = Len(q) + Len(t) /\ Len(q) >= 1
        /\ Len(q) \in Nat /\ Len(t) \in Nat
        /\ \A i \in 1..Len(q) + Len(t) :
              (q \o t)[i] = IF i <= Len(q) THEN q[i] ELSE t[i - Len(q)]
    BY ConcatProperties, LenProperties
  <1>2. q \o t # << >> /\ Head(q \o t) = Head(q)
    BY <1>1
  <1>3. /\ Tail(q) \in Seq(S) /\ Len(Tail(q)) = Len(q) - 1
        /\ \A i \in 1..Len(Tail(q)) : Tail(q)[i] = q[i + 1]
    BY HeadTailProperties
  <1>4. /\ Tail(q \o t) \in Seq(S) /\ Len(Tail(q \o t)) = Len(q) + Len(t) - 1
        /\ \A i \in 1..Len(q) + Len(t) - 1 : Tail(q \o t)[i] = (q \o t)[i + 1]
    BY <1>1, <1>2, HeadTailProperties
  <1>5. /\ Tail(q) \o t \in Seq(S) /\ Len(Tail(q) \o t) = Len(q) - 1 + Len(t)
        /\ \A i \in 1..Len(q) - 1 + Len(t) :
              (Tail(q) \o t)[i] = IF i <= Len(q) - 1 THEN Tail(q)[i]
                                                    ELSE t[i - (Len(q) - 1)]
    BY <1>3, ConcatProperties
  <1>6. ASSUME NEW i \in 1..Len(Tail(q \o t))
        PROVE  Tail(q \o t)[i] = (Tail(q) \o t)[i]
    <2>1. i \in 1..Len(q) + Len(t) - 1 /\ i + 1 \in 1..Len(q) + Len(t)
      BY <1>1, <1>4
    <2>2. i + 1 - Len(q) = i - (Len(q) - 1)
      BY <1>1, <2>1
    <2> QED
      BY <1>1, <1>3, <1>4, <1>5, <2>1, <2>2
  <1>7. Tail(q \o t) = Tail(q) \o t
    BY <1>1, <1>4, <1>5, <1>6, SeqEqual
  <1> QED
    BY <1>2, <1>7

\* What is in a concatenation, and when it is there once.
LEMMA ConcatOnce ==
    ASSUME NEW S, NEW q \in Seq(S), NEW t \in Seq(S), Once(q), Once(t),
           In(q) \cap In(t) = {}
    PROVE  Once(q \o t) /\ In(q \o t) = In(q) \union In(t)
  <1>1. /\ Len(q \o t) = Len(q) + Len(t) /\ Len(q) \in Nat /\ Len(t) \in Nat
        /\ \A i \in 1..Len(q) + Len(t) :
              (q \o t)[i] = IF i <= Len(q) THEN q[i] ELSE t[i - Len(q)]
    BY ConcatProperties, LenProperties
  <1>2. \A i \in 1..Len(q) : (q \o t)[i] = q[i] /\ i \in 1..Len(q \o t)
    BY <1>1
  <1>3. \A i \in 1..Len(t) : (q \o t)[i + Len(q)] = t[i] /\ i + Len(q) \in 1..Len(q \o t)
    BY <1>1
  <1>4. \A i \in 1..Len(q \o t) :
           \/ i \in 1..Len(q) /\ (q \o t)[i] = q[i]
           \/ i - Len(q) \in 1..Len(t) /\ (q \o t)[i] = t[i - Len(q)] /\ i > Len(q)
    BY <1>1
  <1>5. In(q \o t) = In(q) \union In(t)
    BY <1>2, <1>3, <1>4 DEF In
  <1>6. Once(q \o t)
    <2> SUFFICES ASSUME NEW i \in 1..Len(q \o t), NEW j \in 1..Len(q \o t),
                        (q \o t)[i] = (q \o t)[j]
                 PROVE  i = j
      BY DEF Once
    <2>1. CASE i \in 1..Len(q) /\ j \in 1..Len(q)
      BY <1>2, <2>1 DEF Once
    <2>2. CASE i > Len(q) /\ j > Len(q)
      <3>1. i - Len(q) = j - Len(q)
        BY <1>1, <1>4, <2>2 DEF Once
      <3> QED
        BY <1>1, <3>1
    <2>3. CASE i \in 1..Len(q) /\ j > Len(q)
      <3>1. i \in 1..Len(q) /\ (q \o t)[i] = q[i]
        BY <1>2, <2>3
      <3>2. j - Len(q) \in 1..Len(t) /\ (q \o t)[j] = t[j - Len(q)]
        BY <1>1, <1>4, <2>3
      <3>3. q[i] \in In(q) /\ t[j - Len(q)] \in In(t)
        BY <3>1, <3>2 DEF In
      <3> QED
        BY <3>1, <3>2, <3>3
    <2>4. CASE i > Len(q) /\ j \in 1..Len(q)
      <3>1. j \in 1..Len(q) /\ (q \o t)[j] = q[j]
        BY <1>2, <2>4
      <3>2. i - Len(q) \in 1..Len(t) /\ (q \o t)[i] = t[i - Len(q)]
        BY <1>1, <1>4, <2>4
      <3>3. q[j] \in In(q) /\ t[i - Len(q)] \in In(t)
        BY <3>1, <3>2 DEF In
      <3> QED
        BY <3>1, <3>2, <3>3
    <2> QED
      BY <1>1, <1>4, <2>1, <2>2, <2>3, <2>4
  <1> QED
    BY <1>5, <1>6

\* The line is a queue of connections, each there once.
LEMMA LineOnce ==
    ASSUME SockInv
    PROVE  /\ task_queue \in Seq(Conns) /\ Held \in Seq(Conns) /\ backlog \in Seq(Conns)
           /\ Line \in Seq(Conns)
           /\ Once(Line)
           /\ In(Line) = Queued \union InHand \union In(backlog)
  <1>1. /\ task_queue \in Seq(Conns) /\ Held \in Seq(Conns) /\ backlog \in Seq(Conns)
        /\ Once(task_queue) /\ Once(backlog)
    BY DEF SockInv, TypeInv, TypeOK, MainHolds, Pool!TypeOK, Held, OneHand, BacklogNew
  <1>2. Once(Held) /\ In(Held) = InHand
    <2>1. CASE mpc = "push"
      <3>1. Held = <<cli_conn>> /\ Len(Held) = 1 /\ InHand = {cli_conn}
        BY <2>1 DEF Held, InHand, SockInv, TypeInv, MainHolds
      <3>2. 1..1 = {1}
        OBVIOUS
      <3> QED
        BY <3>1, <3>2 DEF Once, In
    <2>2. CASE mpc # "push"
      <3>1. Held = << >> /\ InHand = {}
        BY <2>2 DEF Held, InHand, SockInv, TypeInv, MainHolds
      <3> QED
        BY <3>1 DEF Once, In
    <2> QED
      BY <2>1, <2>2
  <1>3. In(task_queue) = Queued
    BY DEF In, Queued
  <1>4. In(task_queue) \cap In(Held) = {}
    BY <1>2, <1>3 DEF SockInv, OneHand, InHand
  <1>5. /\ task_queue \o Held \in Seq(Conns) /\ Once(task_queue \o Held)
        /\ In(task_queue \o Held) = Queued \union InHand
    BY <1>1, <1>2, <1>3, <1>4, ConcatOnce, ConcatProperties
  <1>6. (Queued \union InHand) \cap In(backlog) = {}
    <2>1. \A c \in Open : sock[c] \in Fds
      BY ConnsAssumption DEF SockInv, FdsMatch, Open
    <2>2. NoFd \notin Fds
      BY MaxFdAssumption DEF NoFd, Fds
    <2>3. Queued \union InHand \subseteq Open
      BY DEF SockInv, Hands
    <2> QED
      BY <2>1, <2>2, <2>3 DEF SockInv, BacklogNew
  <1>7. /\ Once(Line) /\ In(Line) = Queued \union InHand \union In(backlog)
        /\ Line \in Seq(Conns)
    <2> DEFINE front == task_queue \o Held
    <2>1. Line = front \o backlog
      BY DEF Line
    <2>2. /\ front \in Seq(Conns) /\ Once(front) /\ In(front) = Queued \union InHand
          /\ backlog \in Seq(Conns) /\ Once(backlog)
      BY <1>1, <1>5
    <2> HIDE DEF front
    <2>3. /\ Once(front \o backlog) /\ In(front \o backlog) = In(front) \union In(backlog)
          /\ front \o backlog \in Seq(Conns)
      BY <1>6, <2>2, ConcatOnce, ConcatProperties
    <2> QED
      BY <2>1, <2>2, <2>3
  <1> QED
    BY <1>1, <1>7

\* There is room in the line for a connection that is not in it.
LEMMA RoomInLine ==
    ASSUME NEW q \in Seq(Conns), Once(q), NEW c \in Conns, c \notin In(q)
    PROVE  Len(q) < Cardinality(Conns)
  <1> DEFINE n == Len(q)
             f == [i \in 1..n |-> q[i]]
  <1>1. n \in Nat /\ \A i \in 1..n : q[i] \in Conns \ {c}
    BY DEF In
  <1>2. f \in Injection(1..n, Conns \ {c})
    BY <1>1 DEF Once, Injection, IsInjective
  <1>3. /\ IsFiniteSet(Conns \ {c})
        /\ Cardinality(Conns \ {c}) = Cardinality(Conns) - 1
    BY ConnsAssumption, FS_RemoveElement
  <1>4. Cardinality(1..n) <= Cardinality(Conns \ {c})
    BY <1>2, <1>3, FS_Injection
  <1>5. Cardinality(1..n) = n
    BY <1>1, FS_Interval
  <1>6. Cardinality(Conns) \in Nat
    BY ConnsAssumption, FS_CardinalityType
  <1> HIDE DEF n
  <1>7. n < Cardinality(Conns)
    BY <1>1, <1>3, <1>4, <1>5, <1>6
  <1> QED
    BY <1>7 DEF n

\* A thread that serves nobody leaves room for one more connection.
LEMMA RoomToServe ==
    ASSUME NEW w \in Threads, w \notin Servers
    PROVE  Cardinality(Serving) < Cardinality(Threads)
  <1> DEFINE f == [c \in Serving |-> CHOOSE v \in Servers : cur[v] = c]
  <1>1. \A c \in Serving : f[c] \in Servers /\ cur[f[c]] = c
    BY DEF Serving, Servers
  <1>2. f \in [Serving -> Threads \ {w}]
    BY <1>1 DEF Servers
  <1>3. f \in Injection(Serving, Threads \ {w})
    BY <1>1, <1>2 DEF Injection, IsInjective
  <1>4. /\ IsFiniteSet(Threads \ {w})
        /\ Cardinality(Threads \ {w}) = Cardinality(Threads) - 1
    BY ThreadsAssumption, FS_RemoveElement
  <1>5. IsFiniteSet(Serving) /\ Cardinality(Serving) <= Cardinality(Threads \ {w})
    BY <1>3, <1>4, FS_Injection
  <1>6. Cardinality(Threads) \in Nat /\ Cardinality(Serving) \in Nat
    BY <1>5, ThreadsAssumption, FS_CardinalityType
  <1> QED
    BY <1>4, <1>5, <1>6

\* TaskPool counts as this module does.
LEMMA ServiceCardinality == \A S : Service!Cardinality(S) = Cardinality(S)
  BY DEF Service!Cardinality, Service!IsFiniteSet, Cardinality, IsFiniteSet

\* A step that leaves line, service and history alone is a stutter.
LEMMA LineKept ==
    ASSUME Line' = Line, Serving' = Serving, closed' = closed
    PROVE  UNCHANGED Service!vars
  BY DEF Service!vars, Line, Held

\* Every step is a step of the abstract queue or a stutter.
LEMMA LineStep ==
    ASSUME SockInv, [Next]_vars
    PROVE  [Service!Next]_(Service!vars)
  <1> DEFINE Step == [Service!Next]_(Service!vars)
  <1>0. /\ task_queue \in Seq(Conns) /\ Held \in Seq(Conns) /\ backlog \in Seq(Conns)
        /\ Line \in Seq(Conns) /\ Once(Line) /\ MainHolds
        /\ In(Line) = Queued \union InHand \union In(backlog)
    BY LineOnce DEF SockInv, TypeInv
  <1>1. CASE InitCall \/ InitCallFails \/ InitPool
    <2>1. mpc # "push" /\ mpc' # "push"
      BY <1>1 DEF InitCall, InitCallFails, InitPool, NextCall
    <2>2. UNCHANGED <<task_queue, cli_conn, backlog, closed>> /\ Serving' = Serving
      BY <1>1, IdleHands
    <2> QED
      BY <2>1, <2>2, LineKept DEF Line, Held
  <1>2. CASE Accept
    <2>1. /\ mpc # "push" /\ mpc' = "push" /\ cli_conn' = Head(backlog)
          /\ backlog' = Tail(backlog) /\ backlog # << >>
          /\ UNCHANGED <<task_queue, closed>> /\ Serving' = Serving
      BY <1>2, AcceptHands DEF Accept, poolVars
    <2>2. Head(backlog) \in Conns /\ Tail(backlog) \in Seq(Conns)
      BY <1>0, <2>1
    <2>3. backlog = <<Head(backlog)>> \o Tail(backlog)
      BY <1>0, <2>1
    <2>4. /\ Line = task_queue \o backlog
          /\ Line' = (task_queue \o <<Head(backlog)>>) \o Tail(backlog)
      BY <1>0, <2>1, ConcatEmptySeq DEF Line, Held
    <2>5. /\ <<Head(backlog)>> \in Seq(Conns)
          /\ (task_queue \o <<Head(backlog)>>) \o Tail(backlog)
              = task_queue \o (<<Head(backlog)>> \o Tail(backlog))
      BY <1>0, <2>2, ConcatAssociative
    <2> QED
      BY <2>1, <2>3, <2>4, <2>5, LineKept
  <1>3. CASE Push
    <2>1. /\ mpc = "push" /\ mpc' # "push" /\ cli_conn \in Conns
          /\ task_queue' = Append(task_queue, cli_conn)
          /\ UNCHANGED <<backlog, closed>> /\ Serving' = Serving
      BY <1>0, <1>3, PushHands, ConnsAssumption
      DEF Push, Pool!TP_PushTask, Pool!Refuses, kernelVars, SockInv, TypeInv, TypeOK,
          MainHolds
    <2>2. /\ task_queue' = task_queue \o <<cli_conn>>
          /\ task_queue' \in Seq(Conns)
      BY <1>0, <2>1, AppendIsConcat
    <2>3. Line = (task_queue \o <<cli_conn>>) \o backlog /\ Line' = task_queue' \o backlog
      BY <2>1, <2>2, ConcatEmptySeq DEF Line, Held
    <2> QED
      BY <2>1, <2>2, <2>3, LineKept
  <1>4. ASSUME NEW w \in Threads, StartHandler(w)
        PROVE  Step
    <2>1. /\ task_queue # << >> /\ task_queue' = Tail(task_queue)
          /\ UNCHANGED <<mpc, cli_conn, backlog, closed>>
          /\ w \notin Servers /\ Serving' = Serving \union {Head(task_queue)}
      BY <1>4, StartHands DEF StartHandler, Pool!TP_PopTask, Pool!IsEmpty, mainVars,
         kernelVars
    <2>2. /\ task_queue \o Held # << >> /\ task_queue \o Held \in Seq(Conns)
          /\ Head(task_queue \o Held) = Head(task_queue)
          /\ Tail(task_queue \o Held) = Tail(task_queue) \o Held
      BY <1>0, <2>1, ConcatHead, ConcatProperties
    <2>3. /\ Line # << >> /\ Head(Line) = Head(task_queue)
          /\ Tail(Line) = (Tail(task_queue) \o Held) \o backlog
      <3> DEFINE front == task_queue \o Held
      <3>1. Line = front \o backlog
        BY DEF Line
      <3>2. /\ front # << >> /\ front \in Seq(Conns) /\ backlog \in Seq(Conns)
            /\ Head(front) = Head(task_queue) /\ Tail(front) = Tail(task_queue) \o Held
        BY <1>0, <2>2
      <3> HIDE DEF front
      <3>3. /\ front \o backlog # << >> /\ Head(front \o backlog) = Head(front)
            /\ Tail(front \o backlog) = Tail(front) \o backlog
        BY <3>2, ConcatHead
      <3> QED
        BY <3>1, <3>2, <3>3
    <2>4. Line' = Tail(Line)
      BY <2>1, <2>3 DEF Line, Held
    <2>5. Cardinality(Serving) < Cardinality(Threads)
      BY <2>1, RoomToServe
    <2>6. Service!Start
      BY <2>1, <2>3, <2>4, <2>5, ServiceCardinality DEF Service!Start, Line, Held
    <2> QED
      BY <2>6 DEF Service!Next
  <1>5. ASSUME NEW w \in Threads, CloseSock(w)
        PROVE  Step
    <2>1. /\ UNCHANGED <<mpc, task_queue, cli_conn, backlog>>
          /\ closed' = closed \union {cur[w]}
          /\ cur[w] \in Serving /\ Serving' = Serving \ {cur[w]}
          /\ cur[w] \in Conns
      BY <1>5, CloseHands DEF CloseSock, mainVars, poolVars, SockInv, TypeInv, Holds
    <2>2. Line' = Line
      BY <2>1 DEF Line, Held
    <2>3. Service!Finish(cur[w])
      BY <2>1, <2>2 DEF Service!Finish, Line, Held
    <2> QED
      BY <2>1, <2>3 DEF Service!Next
  <1>6. CASE (\E w \in Threads : EndHandler(w) \/ WaitForTask(w)) \/ SpuriousWakeup
             \/ UNCHANGED vars
    <2>1. mpc' = mpc
      BY <1>6 DEF EndHandler, WaitForTask, SpuriousWakeup, vars, mainVars
    <2>2. UNCHANGED <<task_queue, cli_conn, backlog, closed>> /\ Serving' = Serving
      BY <1>6, IdleHands
    <2> QED
      BY <2>1, <2>2, LineKept DEF Line, Held
  <1>7. ASSUME NEW c \in Conns, Connect(c)
        PROVE  Step
    <2>1. /\ UNCHANGED <<mpc, task_queue, cli_conn, closed>> /\ Serving' = Serving
          /\ backlog' = Append(backlog, c) /\ c \notin Arrived
      BY <1>7, ConnectHands DEF Connect, poolVars, mainVars
    <2>2. c \notin In(backlog) /\ c \notin closed /\ sock[c] = NoFd
      BY <2>1 DEF Arrived, In
    <2>3. c \notin Queued \union InHand \union Serving
      <3>1. c \notin Open
        BY <2>2, ConnsAssumption, MaxFdAssumption DEF SockInv, FdsMatch, Open, NoFd, Fds
      <3> QED
        BY <3>1 DEF SockInv, Hands
    <2>4. c \notin In(Line)
      BY <1>0, <2>2, <2>3
    <2>5. Len(Line) < Cardinality(Conns)
      BY <1>0, <2>4, RoomInLine
    <2>6. Line' = Append(Line, c)
      <3>1. task_queue \o Held \in Seq(Conns) /\ <<c>> \in Seq(Conns)
        BY <1>0, ConcatProperties
      <3>2. /\ backlog' = backlog \o <<c>> /\ Append(Line, c) = Line \o <<c>>
        BY <1>0, <2>1, AppendIsConcat
      <3>3. Line' = (task_queue \o Held) \o backlog'
        BY <2>1 DEF Line, Held
      <3>4. (task_queue \o Held) \o (backlog \o <<c>>)
              = ((task_queue \o Held) \o backlog) \o <<c>>
        BY <1>0, <3>1, ConcatAssociative
      <3> QED
        BY <3>2, <3>3, <3>4 DEF Line
    <2>7. c \notin Service!InPending
      BY <2>4 DEF Service!InPending, In, Line, Held
    <2>8. Service!Submit(c)
      BY <2>1, <2>2, <2>3, <2>5, <2>6, <2>7 DEF Service!Submit, Line, Held
    <2> QED
      BY <2>8 DEF Service!Next
  <1> QED
    BY <1>1, <1>2, <1>3, <1>4, <1>5, <1>6, <1>7 DEF Next, MainStep, ThreadStep

\* From connect to close the server is one queue: connections are served in the
\* order in which they arrive, each once, at most one per thread.
THEOREM ServiceKept == Spec => ServesInOrder
  <1>1. Init => Service!Init
    <2> SUFFICES ASSUME Init PROVE Service!Init
      OBVIOUS
    <2>1. task_queue = << >> /\ backlog = << >> /\ mpc = "socket" /\ closed = {}
          /\ Servers = {}
      BY DEF Init, Pool!Init, Servers
    <2>2. Serving = {}
      BY <2>1 DEF Serving, Servers
    <2> QED
      BY <2>1, <2>2 DEF Service!Init
  <1>2. SockInv /\ [Next]_vars => [Service!Next]_(Service!vars)
    BY LineStep
  <1> QED
    BY <1>1, <1>2, SockInit, SockStep, PTL DEF Spec, ServesInOrder, Service!Spec
=============================================================================
