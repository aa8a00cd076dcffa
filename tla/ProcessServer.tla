--------------------------- MODULE ProcessServer ---------------------------
(***************************************************************************)
(* mult_process_concurrent/server.c and its test/server.c: the parent      *)
(* accepts and forks, a child serves one connection and ends.  A child is  *)
(* named by its connection.  sock is the parent's descriptor table; a      *)
(* connection is closed for the client when no process holds it any more.  *)
(* fork does not fail here.                                                *)
(***************************************************************************)
EXTENDS EchoNet

VARIABLES
    version,        \* "server" or "test": which of the two programs it is
    pc,             \* the parent: "accept", "fork" or "parent"
    connfd,         \* what Accept returned
    child,          \* "none", "runs", "zombie" or "reaped"
    holds,          \* the connections each child has descriptors for
    handler,        \* the parent has its handler for SIGCHLD
    signalled       \* SIGCHLD is pending

serverVars == <<version, pc, connfd, child, holds, handler, signalled>>
vars == <<netVars, serverVars>>

Init ==
    /\ NetInit
    /\ version \in {"server", "test"}
    /\ pc = "accept"
    /\ connfd = NoFd
    /\ child = [c \in Conns |-> "none"]
    /\ holds = [c \in Conns |-> {}]
    /\ handler = (version = "server")
    /\ signalled = FALSE

AcceptClient ==
    /\ pc = "accept"
    /\ \E f \in Fds : Accept(f) /\ connfd' = f
    /\ pc' = "fork"
    /\ UNCHANGED <<version, child, holds, handler, signalled>>

\* The child gets every descriptor of the parent, and closes listenfd.
InParent == {sock[f] : f \in Fds} \ {NoConn}

Fork ==
    /\ pc = "fork"
    /\ child' = [child EXCEPT ![sock[connfd]] = "runs"]
    /\ holds' = [holds EXCEPT ![sock[connfd]] = InParent]
    /\ pc' = "parent"
    /\ UNCHANGED <<netVars, version, connfd, handler, signalled>>

\* The connections that nobody holds once the parent's are P, the children's H.
Closed(P, H) ==
    phase' = [c \in Conns |->
                IF phase[c] = "open" /\ c \notin P \union UNION {H[d] : d \in Conns}
                  THEN "closed" ELSE phase[c]]

ParentCloses ==
    /\ sock' = [sock EXCEPT ![connfd] = NoConn]
    /\ Closed(InParent \ {sock[connfd]}, holds)

ParentGoesOn ==
    /\ pc = "parent"
    /\ ParentCloses
    /\ handler' = TRUE
    /\ pc' = "accept"
    /\ UNCHANGED <<backlog, unread, left, reported>>
    /\ UNCHANGED <<version, connfd, child, holds, signalled>>

\* do_sigchild, wait_child: in the middle of whatever the parent does.
ReapOne ==                          \* variant: if instead of while
    \E c \in Conns :
       child[c] = "zombie" /\ child' = [child EXCEPT ![c] = "reaped"]
ReapAll ==
    child' = [c \in Conns |-> IF child[c] = "zombie" THEN "reaped" ELSE child[c]]

Sigchld ==
    /\ signalled
    /\ signalled' = FALSE
    /\ ReapAll
    /\ UNCHANGED <<netVars, version, pc, connfd, holds, handler>>

-----------------------------------------------------------------------------
(* A child *)

\* Its descriptors go with it, and its parent is told.
Ends(c) ==
    /\ child' = [child EXCEPT ![c] = "zombie"]
    /\ holds' = [holds EXCEPT ![c] = {}]
    /\ signalled' = (signalled \/ handler)
    /\ UNCHANGED <<version, pc, connfd, handler>>

Stays == UNCHANGED serverVars

\* A Read that fails is looked at in the test program only; the other one goes
\* on, writes -1 bytes, which fails, and reads again.
ReadFails(c) ==
    /\ ReadError(c)
    /\ version = "server" /\ ReportError(c) /\ Stays

ChildEchoes(c) ==
    /\ child[c] = "runs"
    /\ \/ (ReadAndWrite(c) \/ WriteFails(c)) /\ Stays
       \/ ReadFails(c)

ChildReturns(c) ==
    /\ child[c] = "runs"
    /\ ReadEnd(c) \/ (version = "test" /\ ReadError(c))
    /\ Closed(InParent, [holds EXCEPT ![c] = {}])
    /\ UNCHANGED <<backlog, sock, unread, left, reported>>
    /\ Ends(c)

\* Its connection is lost, with what was not sent yet.
ChildKilled(c) ==
    /\ child[c] = "runs"
    /\ Sigpipe(c)
    /\ phase' = [phase EXCEPT ![c] = "broken"]
    /\ UNCHANGED <<backlog, sock, unread, left, reported>>
    /\ Ends(c)

Parent == AcceptClient \/ Fork \/ ParentGoesOn \/ Sigchld
Child(c) == ChildEchoes(c) \/ ChildReturns(c) \/ ChildKilled(c)

Next ==
    \/ Parent
    \/ \E c \in Conns : Child(c)
    \/ Client /\ UNCHANGED serverVars

Spec == Init /\ [][Next]_vars /\ WF_vars(Parent) /\ \A c \in Conns : WF_vars(Child(c))
=============================================================================
