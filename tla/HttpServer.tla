----------------------------- MODULE HttpServer -----------------------------
(***************************************************************************)
(* code/httpserver.hpp and code/main.cpp: one thread sets the server up,   *)
(* accepts connections and pushes them to the pool of HttpPool.tla, whose  *)
(* threads handle and close them.  main looks at no result, so that the    *)
(* accept loop runs whatever became of ServerInit.                         *)
(*                                                                         *)
(* A ThreadTask is named by the connection it was made for; its _sock is a *)
(* descriptor, and the kernel gives the lowest free descriptor to the next *)
(* connection.  TP_Quit is after a loop that does not end (l.94-104) and   *)
(* is never called.                                                        *)
(***************************************************************************)
EXTENDS Integers, Sequences, FiniteSets

CONSTANTS
    Threads,        \* the threads of the pool
    Conns,          \* the connections clients open
    NoConn,         \* none
    MaxFd,          \* descriptors 0..MaxFd are left for connections
    InitMayFail,    \* socket, bind or listen may fail
    CreateMayFail   \* pthread_create may fail

Fds == 0..MaxFd
NoFd == -1

ASSUME ThreadsAssumption == IsFiniteSet(Threads)
ASSUME ConnsAssumption == IsFiniteSet(Conns) /\ NoConn \notin Conns
ASSUME MaxFdAssumption == MaxFd \in Nat

VARIABLES
    task_queue, tp_quit, thread_cur, pc, cur, ipc, qpc, pushed, refused, done,
    mpc,            \* main's place: in ServerInit, then in ServerStart
    listening,      \* _serv_sock is bound and listens
    tp,             \* _tp is not NULL
    cli_conn,       \* the connection behind cli_sock
    sock,           \* the descriptor each connection was given (_sock)
    hpc,            \* each thread's place in HttpHandler
    backlog,        \* kernel: connections not yet accepted
    fdtab,          \* kernel: what each descriptor stands for
    closed          \* history: connections the server has closed

Pool == INSTANCE HttpPool WITH Tasks <- Conns, NoTask <- NoConn

poolVars == <<task_queue, tp_quit, thread_cur, pc, cur, ipc, qpc, pushed,
              refused, done>>
mainVars == <<mpc, listening, tp, cli_conn>>
kernelVars == <<backlog, fdtab>>
vars == <<poolVars, mainVars, sock, hpc, kernelVars, closed>>

TypeOK ==
    /\ Pool!TypeOK
    /\ mpc \in {"socket", "bind", "listen", "pool", "accept", "push"}
    /\ listening \in BOOLEAN
    /\ tp \in BOOLEAN
    /\ cli_conn \in Conns \union {NoConn}
    /\ sock \in [Conns -> Fds \union {NoFd}]
    /\ hpc \in [Threads -> {"serve", "closed"}]
    /\ backlog \in Seq(Conns)
    /\ fdtab \in [Fds -> Conns \union {NoConn}]
    /\ closed \subseteq Conns

Init ==
    /\ Pool!Init
    /\ mpc = "socket"
    /\ listening = FALSE
    /\ tp = FALSE
    /\ cli_conn = NoConn
    /\ sock = [c \in Conns |-> NoFd]
    /\ hpc = [w \in Threads |-> "closed"]
    /\ backlog = << >>
    /\ fdtab = [f \in Fds |-> NoConn]
    /\ closed = {}

-----------------------------------------------------------------------------
(* ServerInit.  The first call that fails ends it, and ServerStart follows *)
(* all the same.                                                           *)

NextCall == [socket |-> "bind", bind |-> "listen", listen |-> "pool"]

InitCall ==
    /\ mpc \in DOMAIN NextCall
    /\ mpc' = NextCall[mpc]
    /\ listening' = (mpc = "listen")
    /\ tp' = (mpc = "listen")       \* new ThreadPool()
    /\ UNCHANGED <<poolVars, cli_conn, sock, hpc, kernelVars, closed>>

InitCallFails ==
    /\ InitMayFail
    /\ mpc \in DOMAIN NextCall
    /\ mpc' = "accept"
    /\ listening' = FALSE
    /\ UNCHANGED <<poolVars, tp, cli_conn, sock, hpc, kernelVars, closed>>

InitPool ==
    /\ mpc = "pool"
    /\ Pool!TP_PoolInit
    /\ mpc' = IF ipc' = "creating" THEN "pool" ELSE "accept"
    /\ UNCHANGED <<listening, tp, cli_conn, sock, hpc, kernelVars, closed>>

-----------------------------------------------------------------------------
(* ServerStart.  An accept that fails, for want of a listening socket or   *)
(* of a descriptor, changes nothing and is tried again.                    *)

FreeFds == {f \in Fds : fdtab[f] = NoConn}
LowestFree == CHOOSE f \in FreeFds : \A g \in FreeFds : f <= g

Accept ==
    /\ mpc = "accept"
    /\ listening
    /\ backlog # << >>
    /\ FreeFds # {}
    /\ cli_conn' = Head(backlog)
    /\ backlog' = Tail(backlog)
    /\ sock' = [sock EXCEPT ![Head(backlog)] = LowestFree]
    /\ fdtab' = [fdtab EXCEPT ![LowestFree] = Head(backlog)]
    /\ mpc' = "push"
    /\ UNCHANGED <<poolVars, listening, tp, hpc, closed>>

Push ==
    /\ mpc = "push"
    /\ Pool!TP_PushTask(cli_conn)
    /\ cli_conn' = NoConn
    /\ mpc' = "accept"
    /\ UNCHANGED <<listening, tp, sock, hpc, kernelVars, closed>>

MainStep ==
    \/ InitCall
    \/ InitCallFails
    \/ InitPool
    \/ Accept
    \/ Push

-----------------------------------------------------------------------------
(* The threads of the pool and HttpHandler                                 *)

StartHandler(w) ==
    /\ Pool!TP_PopTask(w)
    /\ hpc' = [hpc EXCEPT ![w] = "serve"]
    /\ UNCHANGED <<mainVars, sock, kernelVars, closed>>

Leaves(f) == fdtab      \* variant: the descriptor is not closed
Closes(f) == [fdtab EXCEPT ![f] = NoConn]

\* The request has been answered, or refused by ErrHandler (clients do not
\* keep a thread for ever): both ways end in shutdown and close.
CloseSock(w) ==
    /\ pc[w] = "running"
    /\ hpc[w] = "serve"
    /\ fdtab' = Closes(sock[cur[w]])
    /\ closed' = closed \union {cur[w]}
    /\ hpc' = [hpc EXCEPT ![w] = "closed"]
    /\ UNCHANGED <<poolVars, mainVars, sock, backlog>>

EndHandler(w) ==
    /\ hpc[w] = "closed"
    /\ Pool!TT_RunEnds(w)
    /\ UNCHANGED <<mainVars, sock, hpc, kernelVars, closed>>

WaitForTask(w) ==
    /\ Pool!ThreadWait(w)
    /\ UNCHANGED <<mainVars, sock, hpc, kernelVars, closed>>

ThreadStep(w) ==
    \/ StartHandler(w)
    \/ CloseSock(w)
    \/ EndHandler(w)
    \/ WaitForTask(w)

SpuriousWakeup ==
    /\ \E w \in Threads : Pool!WakesSpuriously(w)
    /\ UNCHANGED <<mainVars, sock, hpc, kernelVars, closed>>

-----------------------------------------------------------------------------
(* The clients                                                             *)

Arrived == {c \in Conns : \/ c \in closed
                          \/ \E i \in 1..Len(backlog) : backlog[i] = c
                          \/ sock[c] # NoFd}

Connect(c) ==
    /\ listening
    /\ c \notin Arrived
    /\ backlog' = Append(backlog, c)
    /\ UNCHANGED <<poolVars, mainVars, sock, hpc, fdtab, closed>>

Next ==
    \/ MainStep
    \/ \E w \in Threads : ThreadStep(w)
    \/ \E c \in Conns : Connect(c)
    \/ SpuriousWakeup

Spec == Init /\ [][Next]_vars

(***************************************************************************)
(* Threads are scheduled and get the pool's lock when they want it, a      *)
(* handler comes to an end, and accept returns a connection that waits     *)
(* when there is a descriptor for it.                                      *)
(***************************************************************************)
FairSpec ==
    /\ Spec
    /\ WF_vars(MainStep)
    /\ \A w \in Threads : WF_vars(ThreadStep(w))

-----------------------------------------------------------------------------
(* Properties *)

Queued == {task_queue[i] : i \in 1..Len(task_queue)}
Serving == {cur[w] : w \in {v \in Threads : pc[v] = "running" /\ hpc[v] = "serve"}}
Open == {c \in Conns : \E f \in Fds : fdtab[f] = c}

\* A descriptor is open if and only if its connection is in the hands of main,
\* in the queue, or served by a thread: none leaks, and none is closed under
\* the thread that serves it, although closed ones are given out again.
SocketsAccounted ==
    /\ Open = Queued \union Serving \union ({cli_conn} \ {NoConn})
    /\ \A c \in Open : fdtab[sock[c]] = c

\* main pushes only to a pool that exists, although it does not know whether
\* ServerInit got as far as to make one (_tp, httpserver.hpp l.102).
PushHasPool == mpc = "push" => tp

Service == INSTANCE TaskPool WITH
    Tasks <- Conns,
    Capacity <- Cardinality(Conns),
    MaxRunning <- Cardinality(Threads),
    pending <- task_queue \o (IF mpc = "push" THEN <<cli_conn>> ELSE << >>)
                          \o backlog,
    running <- Serving,
    finished <- closed,
    open <- TRUE

\* From connect to close the server is one queue: connections are served in
\* the order in which they arrive, each once, at most one per thread.
ServesInOrder == Service!Spec

\* Every connection is served and closed in the end, also when descriptors run
\* out meanwhile, if ServerInit got as far as to start one thread.
EveryConnectionServed ==
    \A c \in Conns : (c \in Arrived) ~> (c \in closed \/ Pool!NotStarted = Threads)
=============================================================================
