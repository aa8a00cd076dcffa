---------------------------- MODULE EpollServer ----------------------------
(***************************************************************************)
(* moreIO_concurrent/epoll_concurrent/server.c: one process that waits     *)
(* with epoll_wait, level triggered.  The loop over the n bytes of a       *)
(* message has the same counter as the loop over the events (l.56, l.91),  *)
(* so that the latter goes on with event n + 1: events are left out or     *)
(* handled again, and a read for an event that was handled blocks the      *)
(* server until there is something to read: no action is enabled then.     *)
(***************************************************************************)
EXTENDS EchoNet

CONSTANTS MessageBytes  \* the numbers of bytes that a Read may return

VARIABLES
    pc,             \* "wait", "events" or "dead"
    efd,            \* the descriptors that are watched
    ep,             \* the events of the last wait, as descriptors
    i,
    handled         \* history: the events of ep that have been handled

serverVars == <<pc, efd, ep, i, handled>>
vars == <<netVars, serverVars>>

Init ==
    /\ NetInit
    /\ pc = "wait"
    /\ efd = {Listenfd}
    /\ ep = << >>
    /\ i = 0
    /\ handled = {}

Exit == Die /\ pc' = "dead" /\ UNCHANGED <<efd, ep, i, handled>>

Orders(S) == {s \in [1..Cardinality(S) -> S] : \A k, l \in DOMAIN s : k # l => s[k] # s[l]}

Wait ==
    /\ pc = "wait"
    /\ \E f \in efd : Readable(f)
    /\ ep' \in Orders({f \in efd : Readable(f)})
    /\ i' = 0
    /\ handled' = {}
    /\ pc' = "events"
    /\ UNCHANGED <<netVars, efd>>

\* The loop goes on with event k, counted from 0, if there is one.
GoOn(k) ==
    /\ i' = k
    /\ handled' = handled \union {i + 1}
    /\ pc' = IF k < Len(ep) THEN "events" ELSE "wait"
    /\ UNCHANGED ep

Event == ep[i + 1]

AcceptClient ==
    /\ pc = "events"
    /\ Event = Listenfd
    /\ FreeFds # {}
    /\ \E f \in Fds : Accept(f) /\ efd' = efd \union {f}
    /\ GoOn(i + 1)

AcceptFails ==
    /\ pc = "events"
    /\ Event = Listenfd
    /\ FreeFds = {}
    /\ Exit

Open(f) == sock[f] # NoConn

\* Read returned 0 or -1; epoll_ctl takes the descriptor out before Close.
CloseClient(f) ==
    /\ Open(f)
    /\ ReadEnd(sock[f]) \/ ReadError(sock[f])
    /\ Close(f)
    /\ efd' = efd \ {f}
    /\ GoOn(i + 1)

\* The inner loop leaves n in the counter, and the outer one adds 1 to it.
EchoClient(f) ==
    /\ Open(f)
    /\ ReadAndWrite(sock[f]) \/ WriteFails(sock[f])
    /\ \E n \in MessageBytes : GoOn(n + 1)
    /\ UNCHANGED efd

\* Also when the event was handled before, and its descriptor closed: read
\* fails then, and so does Close (l.88).
KilledBy(f) ==
    /\ ~Open(f) \/ Sigpipe(sock[f])
    /\ Exit

HandleClient ==
    /\ pc = "events"
    /\ Event \in Fds
    /\ CloseClient(Event) \/ EchoClient(Event) \/ KilledBy(Event)

Server == Wait \/ AcceptClient \/ AcceptFails \/ HandleClient
Next == Server \/ (Client /\ UNCHANGED serverVars)

Spec == Init /\ [][Next]_vars /\ WF_vars(Server)

-----------------------------------------------------------------------------
ReadsReady == pc = "events" /\ i + 1 \notin handled => Readable(Event)

\* The counter has come back to an event whose descriptor was closed.
Astray == pc = "events" /\ Event \in Fds /\ ~Open(Event)

\* The server waits in a call, and for one client only.
Deaf == pc = "events" /\ ~Astray /\ ~Readable(Event)

Tables == pc # "dead" => efd = {Listenfd} \union {f \in Fds : sock[f] # NoConn}
=============================================================================
