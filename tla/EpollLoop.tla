----------------------------- MODULE EpollLoop -----------------------------
(***************************************************************************)
(* moreIO_concurrent/epoll_ET_LT/epoll_loop.c: one thread that echoes what *)
(* clients send.  A turn of its loop closes connections that have been     *)
(* silent, waits for events, and calls one call-back per event.  What it   *)
(* knows of a connection is in a slot of g_events; what it waits for is in *)
(* the kernel's epoll set, whose entries point back to slots.              *)
(*                                                                         *)
(* A step is one turn of the timeout scan, one return of epoll_wait or one *)
(* call-back; clients and the kernel act between any two of them.  Time    *)
(* passes while the loop waits, in units of which Timeout make the 60 s.   *)
(***************************************************************************)
EXTENDS Integers, Sequences, FiniteSets

CONSTANTS
    MaxEvents,      \* MAX_EVENTS, the slots for clients
    ScanLen,        \* how many slots a turn tests for a timeout (100)
    Timeout,        \* how long a client may be silent
    BufLen,         \* BUFLEN, the most one recv returns
    MaxFd,          \* descriptors 1..MaxFd are left for connections
    FcntlFails,     \* connections on whose descriptor fcntl may fail
    MaxConns,       \* bound: how many connections clients open
    MaxSend         \* bound: what the clients send altogether

Slots == 0..MaxEvents-1
Fds == 1..MaxFd
NoFd == 0           \* a slot never used: g_events is static
Conns == 1..MaxConns        \* connections, in the order of connect
NoConn == 0

ASSUME SizesAssumption ==
    /\ MaxEvents \in Nat \ {0}
    /\ ScanLen \in Nat \ {0}
    /\ Timeout \in Nat \ {0}
    /\ BufLen \in Nat \ {0}
    /\ MaxFd \in Nat
    /\ FcntlFails \subseteq Conns
    /\ MaxConns \in Nat
    /\ MaxSend \in Nat

VARIABLES
    g_events,       \* the slots; age is now - last_active, owner whose data is
                    \* in buf
    checkpos,       \* where the scan goes on
    pc,             \* main: "scan", "wait", "dispatch", or killed by SIGPIPE
    scanned,        \* turns of the scan done
    ready,          \* events epoll_wait returned and not yet handled
    accepting,      \* among them is one for the listening socket
    epoll,          \* kernel: the epoll set
    fdtab,          \* kernel: what each descriptor stands for
    backlog,        \* kernel: connections not yet accepted
    rx, fin, rst,   \* kernel: per connection what can be read, whether the
                    \* client has closed or reset it
    writable,       \* kernel: there is room to send
    sent, echoed,   \* history: what the client sent, what it was sent back,
                    \* both 0 again when the connection is closed
    said,           \* history: what all clients sent
    closed,         \* history: connections the server has closed
    dropped         \* history: connections accepted into no slot

scanVars == <<checkpos, scanned>>
loopVars == <<scanVars, pc, ready, accepting>>
connVars == <<rx, fin, rst, writable, sent, echoed>>
vars == <<g_events, loopVars, epoll, fdtab, backlog, connVars, said, closed,
          dropped>>

Interest == {"none", "in", "out"}
Slot == [fd : Fds \union {NoFd}, status : {0, 1}, events : Interest,
         call_back : {"none", "recvdata", "senddata"}, len : 0..BufLen,
         owner : Conns \union {NoConn}, age : 0..Timeout]
Entry == [fd : Fds, ptr : Slots, events : Interest]

Unused == [fd |-> NoFd, status |-> 0, events |-> "none", call_back |-> "none",
           len |-> 0, owner |-> NoConn, age |-> 0]

TypeOK ==
    /\ g_events \in [Slots -> Slot]
    /\ checkpos \in 0..MaxEvents
    /\ pc \in {"scan", "wait", "dispatch", "killed"}
    /\ scanned \in 0..ScanLen-1
    /\ ready \subseteq Entry
    /\ accepting \in BOOLEAN
    /\ epoll \subseteq Entry
    /\ fdtab \in [Fds -> Conns \union {NoConn}]
    /\ backlog \in Seq(Conns)
    /\ rx \in [Conns -> 0..MaxSend]
    /\ fin \in [Conns -> BOOLEAN]
    /\ rst \in [Conns -> BOOLEAN]
    /\ writable \in [Conns -> BOOLEAN]
    /\ sent \in [Conns -> 0..MaxSend]
    /\ echoed \in [Conns -> 0..MaxSend]
    /\ said \in 0..MaxSend
    /\ closed \subseteq Conns
    /\ dropped \subseteq Conns

Init ==
    /\ g_events = [i \in Slots |-> Unused]
    /\ checkpos = 0
    /\ pc = "scan"
    /\ scanned = 0
    /\ ready = {}
    /\ accepting = FALSE
    /\ epoll = {}
    /\ fdtab = [f \in Fds |-> NoConn]
    /\ backlog = << >>
    /\ rx = [c \in Conns |-> 0]
    /\ fin = [c \in Conns |-> FALSE]
    /\ rst = [c \in Conns |-> FALSE]
    /\ writable = [c \in Conns |-> TRUE]
    /\ sent = [c \in Conns |-> 0]
    /\ echoed = [c \in Conns |-> 0]
    /\ said = 0
    /\ closed = {}
    /\ dropped = {}

-----------------------------------------------------------------------------
(* epoll_ctl and close.  A descriptor that is closed leaves the epoll set. *)

CtlAdd(set, f, i, e) ==
    IF \E x \in set : x.fd = f
      THEN set
      ELSE set \union {[fd |-> f, ptr |-> i, events |-> e]}

CtlDel(set, f) == {x \in set : x.fd # f}

\* The socket goes, and with it all the kernel knows of its connection.
Closes(f, c) ==
    /\ fdtab' = [fdtab EXCEPT ![f] = NoConn]
    /\ closed' = closed \union {c}
    /\ rx' = [rx EXCEPT ![c] = 0]
    /\ fin' = [fin EXCEPT ![c] = FALSE]
    /\ rst' = [rst EXCEPT ![c] = FALSE]
    /\ writable' = [writable EXCEPT ![c] = TRUE]
    /\ sent' = [sent EXCEPT ![c] = 0]
    /\ echoed' = [echoed EXCEPT ![c] = 0]

\* The connection a slot's descriptor stands for now.
ConnOf(i) == IF g_events[i].fd = NoFd THEN NoConn ELSE fdtab[g_events[i].fd]

-----------------------------------------------------------------------------
(* eventset, eventadd, eventdel                                            *)

eventset(ev, f, cb) ==
    [ev EXCEPT !.fd = f, !.call_back = cb, !.events = "none", !.status = 0,
               !.age = 0]

\* eventset has just cleared status: the operation is always an ADD.
eventadd(ev, e) == [ev EXCEPT !.events = e, !.status = 1]

StatusKept(ev) == ev     \* variant: the slot still says that it is watched
eventdel(ev) == [ev EXCEPT !.status = 0]

\* The epoll set after eventdel.
Removed(ev) == IF ev.status = 1 THEN CtlDel(epoll, ev.fd) ELSE epoll

\* eventdel, eventset and eventadd in turn: slot i goes from one call-back to
\* the other.
Turns(i, ev, cb, e) ==
    /\ g_events' = [g_events EXCEPT
                      ![i] = eventadd(eventset(ev, ev.fd, cb), e)]
    /\ epoll' = CtlAdd(Removed(g_events[i]), ev.fd, i, e)

\* close and eventdel, in either order.
Ends(i) ==
    LET ev == g_events[i] IN
    /\ g_events' = [g_events EXCEPT ![i] = eventdel(ev)]
    /\ epoll' = CtlDel(epoll, ev.fd)
    /\ IF ConnOf(i) = NoConn THEN UNCHANGED <<fdtab, closed, connVars>>
                             ELSE Closes(ev.fd, ConnOf(i))

-----------------------------------------------------------------------------
(* The timeout scan                                                        *)

PosStuck == IF checkpos = MaxEvents THEN MaxEvents - 1 ELSE checkpos \* variant
Pos == IF checkpos = MaxEvents THEN 0 ELSE checkpos

ExpiredEarly(ev) == ev.status = 1 /\ ev.age >= Timeout - 1     \* variant
Expired(ev) == ev.status = 1 /\ ev.age >= Timeout

ScanTurn ==
    /\ pc = "scan"
    /\ IF Expired(g_events[Pos])
         THEN Ends(Pos)
         ELSE UNCHANGED <<g_events, epoll, fdtab, closed, connVars>>
    /\ checkpos' = Pos + 1
    /\ scanned' = (scanned + 1) % ScanLen
    /\ pc' = IF scanned' = 0 THEN "wait" ELSE "scan"
    /\ UNCHANGED <<ready, accepting, backlog, dropped>>

-----------------------------------------------------------------------------
(* epoll_wait, level triggered                                             *)

IsReady(x) ==
    LET c == fdtab[x.fd] IN
    CASE x.events = "in"  -> rx[c] > 0 \/ fin[c] \/ rst[c]
      [] x.events = "out" -> writable[c] \/ rst[c]

ReadySet == {x \in epoll : IsReady(x)}
NothingReady == ReadySet = {} /\ backlog = << >>

Older == [i \in Slots |-> IF /\ g_events[i].status = 1
                              /\ g_events[i].age < Timeout
                            THEN [g_events[i] EXCEPT !.age = @ + 1]
                            ELSE g_events[i]]

WaitReturns ==
    /\ pc = "wait"
    /\ ~NothingReady
    /\ ready' = ReadySet
    /\ accepting' = (backlog # << >>)
    /\ pc' = "dispatch"
    /\ UNCHANGED <<g_events, scanVars, epoll, fdtab, backlog, connVars, closed,
                   dropped>>

WaitTimesOut ==
    /\ pc = "wait"
    /\ NothingReady
    /\ pc' = "scan"
    /\ UNCHANGED <<g_events, scanVars, ready, accepting, epoll, fdtab, backlog,
                   connVars, closed, dropped>>

TimePasses ==
    /\ pc = "wait"
    /\ g_events' = Older
    /\ UNCHANGED <<loopVars, epoll, fdtab, backlog, connVars, said, closed,
                   dropped>>

-----------------------------------------------------------------------------
(* The call-backs                                                          *)

\* The slot still waits for this kind of event.
Wanted(x) == x.events = g_events[x.ptr].events

Least(m, n) == IF m < n THEN m ELSE n

BufferKept(ev, c, n) == [ev EXCEPT !.len = n]     \* variant: the old data
Fill(ev, c, n) == [ev EXCEPT !.len = n, !.owner = c]

recvdata(i) ==
    LET c == ConnOf(i)
        n == Least(rx[c], BufLen)
    IN
    /\ g_events[i].call_back = "recvdata"
    /\ IF c # NoConn /\ rx[c] > 0
         THEN /\ rx' = [rx EXCEPT ![c] = @ - n]
              /\ Turns(i, Fill(g_events[i], c, n), "senddata", "out")
              /\ UNCHANGED <<fdtab, fin, rst, writable, sent, echoed, closed>>
         ELSE Ends(i)
    /\ UNCHANGED pc

\* send takes part of the buffer or all of it, and what is left is forgotten.
\* On a connection that the client has closed and then reset it is SIGPIPE.
senddata(i) ==
    LET c == ConnOf(i) IN
    /\ g_events[i].call_back = "senddata"
    /\ \/ /\ c # NoConn /\ writable[c] /\ ~rst[c]
          /\ \E n \in 1..g_events[i].len : echoed' = [echoed EXCEPT ![c] = @ + n]
          /\ \E room \in BOOLEAN : writable' = [writable EXCEPT ![c] = room]
          /\ Turns(i, g_events[i], "recvdata", "in")
          /\ UNCHANGED <<pc, fdtab, rx, fin, rst, sent, closed>>
       \/ /\ c # NoConn /\ fin[c] /\ rst[c]
          /\ pc' = "killed"
          /\ UNCHANGED <<g_events, epoll, fdtab, connVars, closed>>
       \/ /\ c = NoConn \/ (~writable[c] /\ ~rst[c]) \/ (rst[c] /\ ~fin[c])
          /\ Ends(i)
          /\ UNCHANGED pc

Dispatch(x) ==
    /\ pc = "dispatch"
    /\ x \in ready
    /\ ready' = ready \ {x}
    /\ IF Wanted(x)
         THEN recvdata(x.ptr) \/ senddata(x.ptr)
         ELSE UNCHANGED <<g_events, pc, epoll, fdtab, connVars, closed>>
    /\ UNCHANGED <<scanVars, accepting, backlog, dropped>>

-----------------------------------------------------------------------------
(* acceptconn                                                              *)

FreeFds == {f \in Fds : fdtab[f] = NoConn}
LowestFd == CHOOSE f \in FreeFds : \A g \in FreeFds : f <= g

AnySlot == Slots    \* variant: status is not looked at
FreeSlots == {i \in Slots : g_events[i].status = 0}
FirstFree == CHOOSE i \in FreeSlots : \A j \in FreeSlots : i <= j

Accepts ==
    /\ pc = "dispatch"
    /\ accepting
    /\ accepting' = FALSE
    /\ UNCHANGED <<scanVars, pc, ready, connVars>>

\* For want of a descriptor or of memory: the connection stays where it is.
AcceptFails ==
    /\ Accepts
    /\ UNCHANGED <<g_events, epoll, fdtab, backlog, closed, dropped>>

\* "max connect limit", or fcntl failed: the descriptor stays open, in no slot.
DropsConn ==
    /\ FreeSlots = {} \/ Head(backlog) \in FcntlFails
    /\ dropped' = dropped \union {Head(backlog)}
    /\ UNCHANGED <<g_events, epoll>>

TakesSlot ==
    /\ FreeSlots # {}
    /\ g_events' = [g_events EXCEPT ![FirstFree] =
                      eventadd(eventset(@, LowestFd, "recvdata"), "in")]
    /\ epoll' = CtlAdd(epoll, LowestFd, FirstFree, "in")
    /\ UNCHANGED dropped

acceptconn ==
    /\ Accepts
    /\ FreeFds # {}
    /\ fdtab' = [fdtab EXCEPT ![LowestFd] = Head(backlog)]
    /\ backlog' = Tail(backlog)
    /\ TakesSlot \/ DropsConn
    /\ UNCHANGED closed

DispatchEnds ==
    /\ pc = "dispatch"
    /\ ready = {}
    /\ ~accepting
    /\ pc' = "scan"
    /\ UNCHANGED <<g_events, scanVars, ready, accepting, epoll, fdtab, backlog,
                   connVars, closed, dropped>>

LoopStep ==
    /\ UNCHANGED said
    /\ \/ ScanTurn
       \/ WaitReturns
       \/ WaitTimesOut
       \/ \E x \in ready : Dispatch(x)
       \/ AcceptFails
       \/ acceptconn
       \/ DispatchEnds

-----------------------------------------------------------------------------
(* The clients, as long as the server has not closed their connection.     *)
(* What one does before accept nobody can tell from what it does just      *)
(* after: only connections that have been accepted move.                   *)

Accepted == {fdtab[f] : f \in Fds} \ {NoConn}
Waiting == {backlog[i] : i \in 1..Len(backlog)}

ClientFrame ==
    UNCHANGED <<g_events, loopVars, epoll, fdtab, closed, dropped>>

Connect(c) ==
    /\ ClientFrame
    /\ Accepted \union Waiting \union closed = 1..c-1
    /\ backlog' = Append(backlog, c)
    /\ UNCHANGED <<connVars, said>>

ClientSends(c) ==
    /\ ClientFrame
    /\ c \in Accepted
    /\ ~fin[c] /\ ~rst[c]
    /\ said < MaxSend
    /\ said' = said + 1
    /\ rx' = [rx EXCEPT ![c] = @ + 1]
    /\ sent' = [sent EXCEPT ![c] = @ + 1]
    /\ UNCHANGED <<backlog, fin, rst, writable, echoed>>

ClientCloses(c) ==
    /\ ClientFrame
    /\ c \in Accepted
    /\ ~fin[c] /\ ~rst[c]
    /\ fin' = [fin EXCEPT ![c] = TRUE]
    /\ UNCHANGED <<backlog, rx, rst, sent, writable, echoed, said>>

\* The client, or its kernel when data comes after the close, resets.
ClientResets(c) ==
    /\ ClientFrame
    /\ c \in Accepted
    /\ ~rst[c]
    /\ rst' = [rst EXCEPT ![c] = TRUE]
    /\ UNCHANGED <<backlog, rx, fin, sent, writable, echoed, said>>

ClientReads(c) ==
    /\ ClientFrame
    /\ c \in Accepted
    /\ ~writable[c]
    /\ writable' = [writable EXCEPT ![c] = TRUE]
    /\ UNCHANGED <<backlog, rx, fin, rst, sent, echoed, said>>

Client ==
    \E c \in Conns : \/ Connect(c)
                     \/ ClientSends(c)
                     \/ ClientCloses(c)
                     \/ ClientResets(c)
                     \/ ClientReads(c)

Next == LoopStep \/ TimePasses \/ Client

Spec == Init /\ [][Next]_vars

(***************************************************************************)
(* The server runs, and time passes also when events keep epoll_wait from  *)
(* waiting (SF: the loop comes back to it only now and then).  Clients     *)
(* need not do anything.                                                   *)
(***************************************************************************)
FairSpec ==
    /\ Spec
    /\ WF_vars(LoopStep)
    /\ SF_vars(TimePasses)

-----------------------------------------------------------------------------
(* Properties *)

Watched == {i \in Slots : g_events[i].status = 1}

\* status says what is in the epoll set (l.29): each watched slot has the one
\* entry of its descriptor there, for the events it waits for, and no entry
\* points anywhere else, whatever was closed, timed out or reused meanwhile.
StatusIsEpoll ==
    epoll = {[fd |-> g_events[i].fd, ptr |-> i, events |-> g_events[i].events] :
                i \in Watched}

\* Each open connection is in exactly one watched slot, or was dropped because
\* the table was full or fcntl failed; no descriptor is lost and none is shared.
ConnsInSlots ==
    /\ Accepted = {ConnOf(i) : i \in Watched} \union (dropped \ closed)
    /\ \A i, j \in Watched : ConnOf(i) = ConnOf(j) => i = j

\* No event is stale when its turn comes, although the call-backs before it
\* have closed, accepted and filled slots: the slot is still that of the
\* descriptor, still waits for the event, and the event still holds.
NoStaleEvent ==
    \A x \in ready : /\ x \in ReadySet
                     /\ g_events[x.ptr].fd = x.fd
                     /\ Wanted(x)

\* A client gets its own data back, although slots keep the buffers of their
\* former users: what a slot is about to send came from its connection.
OwnData ==
    \A i \in Watched : g_events[i].call_back = "senddata" =>
                          g_events[i].owner = ConnOf(i)

\* Nothing is echoed twice: what has been sent back, is in the buffer or is
\* still to be read does not exceed what the client sent.
EchoedOnce ==
    \A i \in Watched :
        LET ev == g_events[i]
            c == ConnOf(i)
        IN echoed[c] + rx[c] + (IF ev.call_back = "senddata" THEN ev.len ELSE 0)
              <= sent[c]

\* Both together: what comes back to a client is what it sent, and once.
EchoedAsSent == OwnData /\ EchoedOnce

\* A connection is closed only because its client ended it or has been silent
\* for the whole timeout: no event meant for another is applied to it.
ClosedForCause ==
    [][\A c \in closed' \ closed :
          \/ fin[c] \/ rst[c]
          \/ \E i \in Watched : ConnOf(i) = c /\ g_events[i].age = Timeout]_vars

\* A connection that is in a slot is closed in the end: clients say only so
\* much (MaxSend), and then the scan finds every one of them.
SilentIsClosed ==
    \A c \in Conns :
        (\E i \in Watched : ConnOf(i) = c) ~> (c \in closed \/ pc = "killed")
=============================================================================
