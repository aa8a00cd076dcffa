---------------------------- MODULE EchoServers ----------------------------
(***************************************************************************)
(* The five echo servers of the repository behind one listening socket     *)
(* each, before the same clients: what they promise is stated once and     *)
(* asked of each of them.  kind says which of them runs.                   *)
(***************************************************************************)
EXTENDS EchoNet

CONSTANTS
    Kinds,          \* a subset of the five
    Room,           \* connections select and poll have a slot for
    DirtyStack,     \* see PollServer
    MessageBytes,   \* see EpollServer
    TsSize          \* see ThreadServer

ASSUME ServersAssumption ==
    /\ Kinds \subseteq {"select", "poll", "epoll", "process", "thread"}
    /\ Room \in Nat \ {0}
    /\ DirtyStack \subseteq 1..Room
    /\ MessageBytes \subseteq Nat \ {0} /\ MessageBytes # {}
    /\ TsSize \in Nat \ {0}

VARIABLES
    kind,
    pc,
    client, maxi, nready, i,                            \* select, poll
    maxfd, allset, rset,                                \* select
    revents,                                            \* poll
    efd, ep, handled,                                   \* epoll
    version, connfd, child, holds, handler, signalled,  \* process
    ts, serves                                          \* thread

tableVars == <<client, maxi, nready>>
selectVars == <<maxfd, allset, rset>>
pollVars == <<revents>>
epollVars == <<efd, ep, handled>>
processVars == <<version, connfd, child, holds, handler, signalled>>
threadVars == <<ts, serves>>
serverVars == <<kind, pc, i, tableVars, selectVars, pollVars, epollVars,
                processVars, threadVars>>
vars == <<netVars, serverVars>>

Select == INSTANCE SelectServer WITH Slots <- Room
Poll == INSTANCE PollServer WITH Slots <- Room + 1
Epoll == INSTANCE EpollServer
Process == INSTANCE ProcessServer
Thread == INSTANCE ThreadServer

NoTable == client = << >> /\ maxi = 0 /\ nready = 0
NoSelect == maxfd = 0 /\ allset = {} /\ rset = {}
NoPoll == revents = {}
NoEpoll == efd = {} /\ ep = << >> /\ handled = {}
NoProcess ==
    /\ version = "none" /\ connfd = NoFd /\ handler = FALSE /\ signalled = FALSE
    /\ child = [c \in Conns |-> "none"] /\ holds = [c \in Conns |-> {}]
NoThread == ts = << >> /\ serves = {}

Init ==
    /\ kind \in Kinds
    /\ \/ /\ kind = "select" /\ Select!Init
          /\ NoPoll /\ NoEpoll /\ NoProcess /\ NoThread
       \/ /\ kind = "poll" /\ Poll!Init
          /\ NoSelect /\ NoEpoll /\ NoProcess /\ NoThread
       \/ /\ kind = "epoll" /\ Epoll!Init
          /\ NoTable /\ NoSelect /\ NoPoll /\ NoProcess /\ NoThread
       \/ /\ kind = "process" /\ Process!Init
          /\ NoTable /\ NoSelect /\ NoPoll /\ NoEpoll /\ NoThread /\ i = 0
       \/ /\ kind = "thread" /\ Thread!Init
          /\ NoTable /\ NoSelect /\ NoPoll /\ NoEpoll /\ NoProcess

-----------------------------------------------------------------------------
(* Each server is a process, or several, of its own. *)

RestOfSelect == UNCHANGED <<kind, pollVars, epollVars, processVars, threadVars>>
RestOfPoll == UNCHANGED <<kind, selectVars, epollVars, processVars, threadVars>>
RestOfEpoll == UNCHANGED <<kind, tableVars, selectVars, pollVars, processVars, threadVars>>
RestOfProcess == UNCHANGED <<kind, i, tableVars, selectVars, pollVars, epollVars, threadVars>>
RestOfThread == UNCHANGED <<kind, tableVars, selectVars, pollVars, epollVars, processVars>>

SelectStep == kind = "select" /\ Select!Server /\ RestOfSelect
PollStep == kind = "poll" /\ Poll!Server /\ RestOfPoll
EpollStep == kind = "epoll" /\ Epoll!Server /\ RestOfEpoll
ParentStep == kind = "process" /\ Process!Parent /\ RestOfProcess
ChildStep(c) == kind = "process" /\ Process!Child(c) /\ RestOfProcess
MainStep == kind = "thread" /\ Thread!Main /\ RestOfThread
ThreadStep(k) == kind = "thread" /\ Thread!Serve(k) /\ RestOfThread
ClientStep == Client /\ UNCHANGED serverVars

Next ==
    \/ ClientStep
    \/ SelectStep \/ PollStep \/ EpollStep
    \/ ParentStep \/ MainStep
    \/ \E c \in Conns : ChildStep(c)
    \/ \E k \in 0..TsSize-1 : ThreadStep(k)

Spec == Init /\ [][Next]_vars

\* The kernel runs every process and every thread of them; a client does what
\* it likes.
Fairness ==
    /\ WF_vars(SelectStep) /\ WF_vars(PollStep) /\ WF_vars(EpollStep)
    /\ WF_vars(ParentStep) /\ \A c \in Conns : WF_vars(ChildStep(c))
    /\ WF_vars(MainStep) /\ \A k \in 0..TsSize-1 : WF_vars(ThreadStep(k))
FairSpec == Spec /\ Fairness

-----------------------------------------------------------------------------
TypeOK ==
    /\ NetTypeOK
    /\ kind \in Kinds

\* A server that waits for all its clients at once calls Accept and Read only for
\* a descriptor that has something: otherwise one silent client makes it deaf to
\* all the others.  The descriptor comes from a table that connections have come
\* to and gone from since the call that said it is ready.  poll's table also has
\* slots that poll knows nothing of, whose revents is garbage; the epoll server
\* knows nothing of an event that its counter has brought it back to.
ReadsReady ==
    /\ kind = "select" => Select!ReadsReady
    /\ kind = "poll" => Poll!ReadsReady
    /\ kind = "epoll" => Epoll!ReadsReady

\* Each connection that is open is served by exactly one slot, event or thread,
\* and nothing else is: select's set and its table, the table of poll, the set
\* of epoll and the elements that the threads were given agree with what the
\* kernel has open.
Tables ==
    /\ kind = "select" => Select!Tables
    /\ kind = "poll" => Poll!Tables
    /\ kind = "epoll" => Epoll!Tables
    /\ kind = "thread" => Thread!Tables

\* Each of the servers keeps the promise of EchoService.
Service ==
    INSTANCE EchoService WITH
        shared <- (kind # "process"),
        room <- IF kind \in {"select", "poll"} /\ Room < Cardinality(Fds)
                  THEN Room ELSE Cardinality(Fds),
        astray <- (kind = "epoll" /\ Epoll!Astray)
KeepsService == Service!Spec

\* The epoll server may wait in Read for a client whose event it handles again:
\* for as long as that client says nothing.
Deaf == kind = "epoll" /\ Epoll!Deaf

\* Some client other than c says something.
AnotherSays(c) == \E d \in Conns \ {c} : d \notin unread /\ d \in unread'

\* What a client says comes back to it, and the client that has left is closed,
\* unless the server has broken down, or waits for ever for another client.  The
\* epoll server leaves out as many events as a message has bytes: there, a client
\* is served for certain only once the others have stopped talking.
EveryClientServed ==
    []<>~Deaf =>
       \A c \in Conns :
          (kind = "epoll" => <>[][~AnotherSays(c)]_vars) =>
             /\ c \in unread ~> (c \notin unread \/ phase[c] = "broken")
             /\ left[c] # "no" ~> phase[c] \in {"closed", "broken"}

\* No child stays a zombie, though SIGCHLD is not queued and one signal may
\* stand for many children.  The test program has no handler before its first
\* child runs: of a child that ends that early only the next signal tells.
ChildrenReaped ==
    \A c \in Conns :
       (child[c] = "zombie" /\ (version = "server" \/ signalled))
          ~> child[c] = "reaped"
=============================================================================
