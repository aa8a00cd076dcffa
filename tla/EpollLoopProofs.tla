-------------------------- MODULE EpollLoopProofs --------------------------
(***************************************************************************)
(* What EpollLoop.tla guarantees for any number of slots, descriptors,     *)
(* connections and bytes: its type, that slots, descriptors and the epoll  *)
(* set stay in step, that no event is stale when its turn comes, that what *)
(* a client gets back is what it sent, and that a connection is closed for *)
(* a cause only.                                                           *)
(***************************************************************************)
EXTENDS EpollLoop, FiniteSetTheorems, SequenceTheorems, WellFoundedInduction, TLAPS

\* The call-back of a slot is the one for the events it waits for.
Fits(ev) == \/ ev.events = "in" /\ ev.call_back = "recvdata"
            \/ ev.events = "out" /\ ev.call_back = "senddata"

\* A watched slot has an open descriptor, and no other slot has it.
SlotsOpen ==
    /\ \A i \in Watched : /\ g_events[i].fd \in Fds
                          /\ fdtab[g_events[i].fd] # NoConn
                          /\ Fits(g_events[i])
    /\ \A i, j \in Watched : g_events[i].fd = g_events[j].fd => i = j

\* A connection is in one place: it waits to be accepted, or has one
\* descriptor, or is closed.
ConnsApart ==
    /\ \A f, g \in Fds : fdtab[f] = fdtab[g] /\ fdtab[f] # NoConn => f = g
    /\ \A p, q \in 1..Len(backlog) : backlog[p] = backlog[q] => p = q
    /\ Accepted \cap Waiting = {}
    /\ Accepted \cap closed = {}
    /\ Waiting \cap closed = {}

\* An open connection is in a watched slot or was dropped.
AllHeld == Accepted = {ConnOf(i) : i \in Watched} \union (dropped \ closed)

\* Events and the accept are worked off before the loop goes on.
EventsOfTurn ==
    /\ pc \in {"scan", "wait"} => ready = {} /\ ~accepting
    /\ accepting => backlog # << >>

\* Bytes: nothing is read or sent that was not sent before.
BytesKept ==
    /\ \A c \in Conns : /\ echoed[c] + rx[c] <= sent[c]
                        /\ sent[c] <= said
                        /\ c \notin Accepted => sent[c] = 0

TableInv == SlotsOpen /\ ConnsApart /\ AllHeld /\ StatusIsEpoll
DataInv == BytesKept /\ OwnData /\ EchoedOnce
Inv == TypeOK /\ TableInv /\ EventsOfTurn /\ NoStaleEvent /\ DataInv

-----------------------------------------------------------------------------
(* Operators                                                               *)

\* A set of numbers that is not empty has a least element.
LEMMA LeastExists ==
    ASSUME NEW S \in SUBSET Nat, S # {}
    PROVE  \E f \in S : \A g \in S : f <= g
  <1>1. PICK f \in S : \A g \in S : ~(<<g, f>> \in OpToRel(<, Nat))
    BY NatLessThanWellFounded, WFMin
  <1>2. \A g \in S : ~(g < f)
    BY <1>1 DEF OpToRel
  <1> QED
    BY <1>2

\* The lowest free descriptor is free, and so is the first free slot.
LEMMA LowestIsFree == FreeFds # {} => LowestFd \in FreeFds
  <1>1. FreeFds \in SUBSET Nat
    BY SizesAssumption DEF FreeFds, Fds
  <1> QED
    BY <1>1, LeastExists DEF LowestFd

LEMMA FirstIsFree == FreeSlots # {} => FirstFree \in FreeSlots
  <1>1. FreeSlots \in SUBSET Nat
    BY SizesAssumption DEF FreeSlots, Slots
  <1> QED
    BY <1>1, LeastExists DEF FirstFree

\* The scan counter comes round.
LEMMA ScanBound ==
    ASSUME NEW k \in 0..ScanLen-1
    PROVE  (k + 1) % ScanLen \in 0..ScanLen-1
  <1>1. ScanLen \in Nat /\ ScanLen > 0
    BY SizesAssumption
  <1> QED
    BY <1>1

\* What the table says of a watched slot.
LEMMA WatchedSlot ==
    ASSUME TypeOK, TableInv, NEW i \in Watched
    PROVE  /\ i \in Slots /\ g_events[i].fd \in Fds /\ g_events[i].status = 1
           /\ ConnOf(i) = fdtab[g_events[i].fd]
           /\ ConnOf(i) \in Conns /\ ConnOf(i) # NoConn
           /\ ConnOf(i) \in Accepted
           /\ Fits(g_events[i])
           /\ \A j \in Watched : ConnOf(i) = ConnOf(j) => i = j
  <1>1. /\ i \in Slots /\ g_events[i].status = 1 /\ g_events[i].fd \in Fds
        /\ Fits(g_events[i])
    BY DEF TableInv, SlotsOpen, Watched
  <1>2. \A j \in Watched : /\ g_events[j].fd \in Fds
                           /\ ConnOf(j) = fdtab[g_events[j].fd]
                           /\ ConnOf(j) \in Conns /\ ConnOf(j) # NoConn
    BY DEF TableInv, SlotsOpen, Watched, ConnOf, NoFd, Fds, TypeOK
  <1> QED
    BY <1>1, <1>2 DEF TableInv, SlotsOpen, ConnsApart, Accepted

-----------------------------------------------------------------------------
(* What the steps do to the table                                          *)

\* close and eventdel of a watched slot.
LEMMA EndsEffect ==
    ASSUME TypeOK, TableInv, NEW i \in Watched, Ends(i)
    PROVE  /\ Closes(g_events[i].fd, ConnOf(i))
           /\ g_events' = [g_events EXCEPT ![i].status = 0]
           /\ Watched' = Watched \ {i}
           /\ epoll' = {x \in epoll : x.fd # g_events[i].fd}
           /\ \A j \in Watched \ {i} : /\ g_events'[j] = g_events[j]
                                       /\ ConnOf(j)' = ConnOf(j)
  <1>1. ConnOf(i) # NoConn /\ i \in Slots /\ g_events[i].fd \in Fds
    BY WatchedSlot
  <1>2. /\ Closes(g_events[i].fd, ConnOf(i))
        /\ g_events' = [g_events EXCEPT ![i].status = 0]
        /\ epoll' = {x \in epoll : x.fd # g_events[i].fd}
    BY <1>1 DEF Ends, eventdel, CtlDel
  <1>3. /\ g_events'[i].status = 0
        /\ \A j \in Slots \ {i} : g_events'[j] = g_events[j]
    BY <1>1, <1>2 DEF TypeOK, Slot
  <1>4. Watched' = Watched \ {i}
    BY <1>1, <1>3 DEF Watched
  <1>5. ASSUME NEW j \in Watched \ {i}
        PROVE  ConnOf(j)' = ConnOf(j)
    <2>1. j \in Slots /\ g_events[j].fd \in Fds /\ g_events[j].fd # g_events[i].fd
      BY DEF TableInv, SlotsOpen, Watched
    <2>2. g_events'[j].fd = g_events[j].fd
      BY <1>3, <2>1
    <2>3. fdtab'[g_events[j].fd] = fdtab[g_events[j].fd]
      BY <1>2, <2>1 DEF Closes, TypeOK
    <2> QED
      BY <2>1, <2>2, <2>3 DEF ConnOf
  <1> QED
    BY <1>2, <1>3, <1>4, <1>5 DEF Watched

LEMMA EndsTable ==
    ASSUME TypeOK, TableInv, NEW i \in Watched, Ends(i), UNCHANGED <<backlog, dropped>>
    PROVE  TableInv'
  <1> DEFINE f == g_events[i].fd
             c == ConnOf(i)
  <1>1. /\ i \in Slots /\ f \in Fds /\ c = fdtab[f] /\ c \in Conns /\ c # NoConn
        /\ \A j \in Watched : c = ConnOf(j) => i = j
    BY WatchedSlot
  <1>2. /\ fdtab' = [fdtab EXCEPT ![f] = NoConn] /\ closed' = closed \union {c}
        /\ Watched' = Watched \ {i}
        /\ epoll' = {x \in epoll : x.fd # f}
        /\ \A j \in Watched \ {i} : /\ g_events'[j] = g_events[j]
                                    /\ ConnOf(j)' = ConnOf(j)
    BY EndsEffect DEF Closes
  <1>3. /\ fdtab'[f] = NoConn /\ \A g \in Fds \ {f} : fdtab'[g] = fdtab[g]
    BY <1>1, <1>2 DEF TypeOK
  <1>4. \A j \in Watched \ {i} : g_events[j].fd \in Fds \ {f}
    BY <1>1 DEF TableInv, SlotsOpen
  <1>5. SlotsOpen'
    BY <1>2, <1>3, <1>4 DEF TableInv, SlotsOpen, Fits
  <1>6. Accepted' = Accepted \ {c}
    <2>1. \A g \in Fds : fdtab[g] = c => g = f
      BY <1>1 DEF TableInv, ConnsApart
    <2> QED
      BY <1>1, <1>3, <2>1 DEF Accepted
  <1>7. ConnsApart'
    <2>1. Waiting' = Waiting /\ c \in Accepted
      BY <1>1 DEF Waiting, Accepted
    <2>2. \A g, h \in Fds : fdtab'[g] = fdtab'[h] /\ fdtab'[g] # NoConn => g = h
      BY <1>3 DEF TableInv, ConnsApart
    <2> QED
      BY <1>2, <1>6, <2>1, <2>2 DEF TableInv, ConnsApart
  <1>8. AllHeld'
    <2>1. {ConnOf(j) : j \in Watched}' = {ConnOf(j) : j \in Watched} \ {c}
      BY <1>1, <1>2
    <2> QED
      BY <1>2, <1>6, <2>1 DEF TableInv, AllHeld
  <1>9. StatusIsEpoll'
    BY <1>2, <1>4 DEF TableInv, StatusIsEpoll
  <1> QED
    BY <1>5, <1>7, <1>8, <1>9 DEF TableInv

\* eventdel, eventset and eventadd of a watched slot: it keeps its descriptor.
LEMMA TurnsEffect ==
    ASSUME TypeOK, TableInv, NEW i \in Watched, NEW ev \in Slot, NEW cb, NEW e,
           ev.fd = g_events[i].fd, Turns(i, ev, cb, e)
    PROVE  /\ g_events' = [g_events EXCEPT ![i] =
                [ev EXCEPT !.call_back = cb, !.events = e, !.status = 1, !.age = 0]]
           /\ epoll' = {x \in epoll : x.fd # ev.fd}
                         \union {[fd |-> ev.fd, ptr |-> i, events |-> e]}
           /\ Watched' = Watched
  <1>1. i \in Slots /\ g_events[i].status = 1
    BY DEF Watched
  <1>2. eventadd(eventset(ev, ev.fd, cb), e)
          = [ev EXCEPT !.call_back = cb, !.events = e, !.status = 1, !.age = 0]
    BY DEF eventadd, eventset, Slot
  <1>3. g_events' = [g_events EXCEPT ![i] =
                [ev EXCEPT !.call_back = cb, !.events = e, !.status = 1, !.age = 0]]
    BY <1>2 DEF Turns
  <1>4. epoll' = {x \in epoll : x.fd # ev.fd}
                         \union {[fd |-> ev.fd, ptr |-> i, events |-> e]}
    BY <1>1 DEF Turns, Removed, CtlAdd, CtlDel
  <1>5. g_events'[i].status = 1 /\ \A j \in Slots \ {i} : g_events'[j] = g_events[j]
    BY <1>1, <1>3 DEF TypeOK, Slot
  <1>6. Watched' = Watched
    BY <1>1, <1>5 DEF Watched
  <1> QED
    BY <1>3, <1>4, <1>6

LEMMA TurnsTable ==
    ASSUME TypeOK, TableInv, NEW i \in Watched, NEW ev \in Slot,
           NEW cb \in {"recvdata", "senddata"}, NEW e \in Interest,
           (e = "in" /\ cb = "recvdata") \/ (e = "out" /\ cb = "senddata"),
           ev.fd = g_events[i].fd, Turns(i, ev, cb, e),
           UNCHANGED <<fdtab, backlog, closed, dropped>>
    PROVE  TableInv' /\ \A j \in Watched : ConnOf(j)' = ConnOf(j)
  <1> DEFINE f == ev.fd
             ev2 == [ev EXCEPT !.call_back = cb, !.events = e, !.status = 1, !.age = 0]
  <1>1. /\ i \in Slots /\ f \in Fds /\ fdtab[f] # NoConn
        /\ \A j \in Watched \ {i} : g_events[j].fd # f
    BY WatchedSlot DEF TableInv, SlotsOpen
  <1>2. /\ g_events' = [g_events EXCEPT ![i] = ev2]
        /\ epoll' = {x \in epoll : x.fd # f} \union {[fd |-> f, ptr |-> i, events |-> e]}
        /\ Watched' = Watched
    BY TurnsEffect
  <1>3. ev2.fd = f /\ ev2.events = e /\ ev2.call_back = cb
    BY DEF Slot
  <1> HIDE DEF ev2, f
  <1>4. g_events'[i] = ev2 /\ \A j \in Watched \ {i} : g_events'[j] = g_events[j]
    BY <1>1, <1>2 DEF TypeOK, Watched
  <1>5. \A j \in Watched : g_events'[j].fd = g_events[j].fd
    BY <1>3, <1>4 DEF f
  <1>6. \A j \in Watched : ConnOf(j)' = ConnOf(j)
    BY <1>5 DEF ConnOf
  <1>7. SlotsOpen'
    <2>1. Fits(ev2)
      BY <1>3 DEF Fits
    <2>2. \A j \in Watched : Fits(g_events'[j])
      BY <1>4, <2>1 DEF TableInv, SlotsOpen
    <2> QED
      BY <1>2, <1>5, <2>2 DEF TableInv, SlotsOpen, Fits
  <1>8. ConnsApart'
    BY DEF TableInv, ConnsApart, Accepted, Waiting
  <1>9. AllHeld'
    BY <1>2, <1>6 DEF TableInv, AllHeld, Accepted
  <1>10. StatusIsEpoll'
    <2>1. epoll' = {[fd |-> g_events[j].fd, ptr |-> j, events |-> g_events[j].events] :
                        j \in Watched \ {i}} \union {[fd |-> f, ptr |-> i, events |-> e]}
      BY <1>1, <1>2 DEF TableInv, StatusIsEpoll, f
    <2> QED
      BY <1>2, <1>3, <1>4, <2>1 DEF StatusIsEpoll
  <1> QED
    BY <1>6, <1>7, <1>8, <1>9, <1>10 DEF TableInv

\* A queue of connections that loses its head.
LEMMA TailOfQueue ==
    ASSUME backlog \in Seq(Conns), backlog # << >>, backlog' = Tail(backlog),
           \A p, q \in 1..Len(backlog) : backlog[p] = backlog[q] => p = q
    PROVE  /\ Head(backlog) \in Waiting
           /\ Waiting' = Waiting \ {Head(backlog)}
           /\ \A p, q \in 1..Len(backlog') : backlog'[p] = backlog'[q] => p = q
           /\ backlog' \in Seq(Conns)
  <1>1. /\ Len(backlog) \in Nat /\ Len(backlog) >= 1 /\ Len(backlog') = Len(backlog) - 1
        /\ Head(backlog) = backlog[1] /\ backlog' \in Seq(Conns)
        /\ \A p \in 1..Len(backlog') : backlog'[p] = backlog[p + 1]
    OBVIOUS
  <1>2. \A p \in 1..Len(backlog') : p + 1 \in 1..Len(backlog) /\ p + 1 # 1
    BY <1>1
  <1>3. \A p, q \in 1..Len(backlog') : backlog'[p] = backlog'[q] => p = q
    <2> SUFFICES ASSUME NEW p \in 1..Len(backlog'), NEW q \in 1..Len(backlog'),
                        backlog'[p] = backlog'[q]
                 PROVE  p = q
      OBVIOUS
    <2>1. backlog[p + 1] = backlog[q + 1]
      BY <1>1
    <2>2. p + 1 = q + 1
      BY <1>2, <2>1
    <2> QED
      BY <2>2
  <1>4. 1 \in 1..Len(backlog)
    BY <1>1
  <1>5. Waiting' \subseteq Waiting \ {Head(backlog)}
    BY <1>1, <1>2, <1>4 DEF Waiting
  <1>6. \A p \in 1..Len(backlog) : p # 1 => backlog[p] \in Waiting'
    <2> SUFFICES ASSUME NEW p \in 1..Len(backlog), p # 1
                 PROVE  backlog[p] \in Waiting'
      OBVIOUS
    <2>1. p - 1 \in 1..Len(backlog') /\ backlog'[p - 1] = backlog[p]
      BY <1>1
    <2> QED
      BY <2>1 DEF Waiting
  <1> QED
    BY <1>1, <1>3, <1>4, <1>5, <1>6 DEF Waiting

\* What accepting does: the head of the queue gets the lowest descriptor.
LEMMA AcceptEffect ==
    ASSUME TypeOK, TableInv, EventsOfTurn, acceptconn
    PROVE  /\ Head(backlog) \in Waiting /\ Head(backlog) \in Conns
           /\ LowestFd \in Fds /\ fdtab[LowestFd] = NoConn
           /\ fdtab' = [fdtab EXCEPT ![LowestFd] = Head(backlog)]
           /\ Accepted' = Accepted \union {Head(backlog)}
           /\ ConnsApart'
           /\ backlog' \in Seq(Conns)
  <1> DEFINE f == LowestFd
             c == Head(backlog)
  <1>1. /\ backlog # << >> /\ backlog \in Seq(Conns) /\ c \in Conns
        /\ f \in Fds /\ fdtab[f] = NoConn
        /\ fdtab' = [fdtab EXCEPT ![f] = c] /\ backlog' = Tail(backlog)
        /\ closed' = closed
    BY LowestIsFree DEF acceptconn, Accepts, EventsOfTurn, TypeOK, FreeFds
  <1>2. /\ c \in Waiting /\ Waiting' = Waiting \ {c} /\ backlog' \in Seq(Conns)
        /\ \A p, q \in 1..Len(backlog') : backlog'[p] = backlog'[q] => p = q
    BY <1>1, TailOfQueue DEF TableInv, ConnsApart
  <1>3. c # NoConn /\ fdtab'[f] = c /\ \A g \in Fds \ {f} : fdtab'[g] = fdtab[g]
    BY <1>1 DEF TypeOK, Conns, NoConn
  <1> HIDE DEF c, f
  <1>4. Accepted' = Accepted \union {c}
    BY <1>1, <1>3 DEF Accepted
  <1>5. \A g, h \in Fds : fdtab'[g] = fdtab'[h] /\ fdtab'[g] # NoConn => g = h
    <2>1. \A g \in Fds : fdtab[g] # c
      BY <1>2, <1>3 DEF TableInv, ConnsApart, Accepted
    <2> QED
      BY <1>3, <2>1 DEF TableInv, ConnsApart
  <1>6. ConnsApart'
    BY <1>1, <1>2, <1>4, <1>5 DEF TableInv, ConnsApart
  <1> QED
    BY <1>1, <1>2, <1>4, <1>6 DEF c, f

LEMMA AcceptTable ==
    ASSUME TypeOK, TableInv, EventsOfTurn, acceptconn
    PROVE  /\ TableInv'
           /\ Watched \subseteq Watched'
           /\ \A j \in Watched : g_events'[j] = g_events[j] /\ ConnOf(j)' = ConnOf(j)
           /\ \A j \in Watched' \ Watched : /\ g_events'[j].call_back = "recvdata"
                                            /\ ConnOf(j)' = Head(backlog)
  <1> DEFINE f == LowestFd
             c == Head(backlog)
  <1>1. /\ c \in Waiting /\ c \in Conns /\ f \in Fds /\ fdtab[f] = NoConn
        /\ fdtab' = [fdtab EXCEPT ![f] = c] /\ Accepted' = Accepted \union {c}
        /\ ConnsApart'
    BY AcceptEffect
  <1>2. closed' = closed /\ c \notin closed /\ c # NoConn
    BY <1>1 DEF acceptconn, TableInv, ConnsApart, Conns, NoConn
  <1>3. fdtab'[f] = c /\ \A g \in Fds \ {f} : fdtab'[g] = fdtab[g]
    BY <1>1 DEF TypeOK
  <1>4. \A j \in Watched : g_events[j].fd \in Fds \ {f}
    BY <1>1 DEF TableInv, SlotsOpen
  <1>5. \A x \in epoll : x.fd # f
    BY <1>4 DEF TableInv, StatusIsEpoll
  <1>6. CASE DropsConn
    <2>1. /\ dropped' = dropped \union {c} /\ UNCHANGED <<g_events, epoll>>
      BY <1>6 DEF DropsConn
    <2> HIDE DEF c, f
    <2>2. Watched' = Watched
      BY <2>1 DEF Watched
    <2>3. \A j \in Watched : ConnOf(j)' = ConnOf(j)
      BY <1>3, <1>4, <2>1 DEF ConnOf
    <2>4. SlotsOpen'
      BY <1>3, <1>4, <2>1, <2>2 DEF TableInv, SlotsOpen, Fits
    <2>5. AllHeld'
      BY <1>1, <1>2, <2>1, <2>2, <2>3 DEF TableInv, AllHeld
    <2>6. StatusIsEpoll'
      BY <2>1, <2>2 DEF TableInv, StatusIsEpoll
    <2> QED
      BY <1>1, <2>1, <2>2, <2>3, <2>4, <2>5, <2>6 DEF TableInv
  <1>7. CASE TakesSlot
    <2>1. PICK i \in Slots : i = FirstFree /\ g_events[i].status = 0
      BY <1>7, FirstIsFree DEF TakesSlot, FreeSlots
    <2> DEFINE ev == eventadd(eventset(g_events[i], f, "recvdata"), "in")
    <2>2. /\ g_events' = [g_events EXCEPT ![i] = ev]
          /\ epoll' = epoll \union {[fd |-> f, ptr |-> i, events |-> "in"]}
          /\ dropped' = dropped
      BY <1>5, <1>7, <2>1 DEF TakesSlot, CtlAdd
    <2>3. ev.fd = f /\ ev.status = 1 /\ ev.events = "in" /\ ev.call_back = "recvdata"
      BY <2>1 DEF eventadd, eventset, TypeOK, Slot
    <2> HIDE DEF ev, c, f
    <2>4. g_events'[i] = ev /\ \A j \in Slots \ {i} : g_events'[j] = g_events[j]
      BY <2>1, <2>2 DEF TypeOK
    <2>5. Watched' = Watched \union {i} /\ i \notin Watched
      BY <2>1, <2>3, <2>4 DEF Watched
    <2>6. \A j \in Watched : g_events'[j] = g_events[j] /\ ConnOf(j)' = ConnOf(j)
      BY <1>3, <1>4, <2>4, <2>5 DEF ConnOf, Watched
    <2>7. ConnOf(i)' = c
      BY <1>1, <1>3, <2>3, <2>4 DEF ConnOf, NoFd, Fds
    <2>8. SlotsOpen'
      BY <1>1, <1>2, <1>3, <1>4, <2>3, <2>4, <2>5, <2>6 DEF TableInv, SlotsOpen, Fits
    <2>9. AllHeld'
      BY <1>1, <1>2, <2>2, <2>5, <2>6, <2>7 DEF TableInv, AllHeld
    <2>10. StatusIsEpoll'
      BY <2>2, <2>3, <2>4, <2>5, <2>6 DEF TableInv, StatusIsEpoll
    <2> QED
      BY <1>1, <2>3, <2>4, <2>5, <2>6, <2>7, <2>8, <2>9, <2>10 DEF TableInv, c
  <1> QED
    BY <1>6, <1>7 DEF acceptconn

-----------------------------------------------------------------------------
(* Events.  Each belongs to a watched slot, and no two to the same.        *)

LEMMA EventSlot ==
    ASSUME TypeOK, TableInv, NoStaleEvent, NEW x \in ready
    PROVE  /\ x.ptr \in Watched
           /\ x = [fd |-> g_events[x.ptr].fd, ptr |-> x.ptr,
                   events |-> g_events[x.ptr].events]
           /\ fdtab[x.fd] = ConnOf(x.ptr)
           /\ IsReady(x) /\ Wanted(x)
           /\ \A y \in ready : y.ptr = x.ptr => y = x
  <1>1. \A y \in ready : \E j \in Watched :
            y = [fd |-> g_events[j].fd, ptr |-> j, events |-> g_events[j].events]
    BY DEF NoStaleEvent, ReadySet, TableInv, StatusIsEpoll
  <1>2. \A y \in ready : /\ y.ptr \in Watched
                         /\ y = [fd |-> g_events[y.ptr].fd, ptr |-> y.ptr,
                                 events |-> g_events[y.ptr].events]
    BY <1>1
  <1>3. IsReady(x) /\ Wanted(x)
    BY DEF NoStaleEvent, ReadySet
  <1>4. x.fd = g_events[x.ptr].fd
    BY DEF NoStaleEvent
  <1>5. fdtab[x.fd] = ConnOf(x.ptr)
    BY <1>2, <1>4, WatchedSlot
  <1> QED
    BY <1>2, <1>3, <1>5

\* Events stay fresh if their slots keep what they wait for and nothing is
\* taken from their connections.
LEMMA EventsStay ==
    ASSUME TypeOK, TableInv, TypeOK', TableInv', NoStaleEvent, ready' \subseteq ready,
           \A y \in ready' :
              /\ y.ptr \in Watched'
              /\ g_events'[y.ptr].fd = g_events[y.ptr].fd
              /\ g_events'[y.ptr].events = g_events[y.ptr].events
              /\ ConnOf(y.ptr)' = ConnOf(y.ptr)
              /\ rx[ConnOf(y.ptr)] > 0 => rx'[ConnOf(y.ptr)] > 0
              /\ fin[ConnOf(y.ptr)] => fin'[ConnOf(y.ptr)]
              /\ rst[ConnOf(y.ptr)] => rst'[ConnOf(y.ptr)]
              /\ writable[ConnOf(y.ptr)] => writable'[ConnOf(y.ptr)]
    PROVE  NoStaleEvent'
  <1> SUFFICES ASSUME NEW y \in ready'
               PROVE  /\ y \in ReadySet'
                      /\ g_events'[y.ptr].fd = y.fd
                      /\ Wanted(y)'
    BY DEF NoStaleEvent
  <1> DEFINE j == y.ptr
             d == ConnOf(j)
  <1>1. /\ j \in Watched
        /\ y = [fd |-> g_events[j].fd, ptr |-> j, events |-> g_events[j].events]
        /\ fdtab[y.fd] = d /\ IsReady(y)
    BY EventSlot
  <1>2. Fits(g_events[j])
    BY <1>1, WatchedSlot
  <1>3. /\ j \in Watched' /\ g_events'[j].fd = y.fd /\ g_events'[j].events = y.events
    BY <1>1
  <1>4. y \in epoll'
    BY <1>1, <1>3 DEF TableInv, StatusIsEpoll
  <1>5. fdtab'[y.fd] = d
    <2>1. y.fd \in Fds
      BY <1>1, WatchedSlot
    <2>2. ConnOf(j)' = fdtab'[y.fd]
      BY <1>3, <2>1 DEF ConnOf, NoFd, Fds
    <2> QED
      BY <2>2
  <1> HIDE DEF d
  <1>6. IsReady(y)'
    <2>1. CASE y.events = "in"
      <3>1. rx[d] > 0 \/ fin[d] \/ rst[d]
        BY <1>1, <2>1 DEF IsReady
      <3>2. rx'[d] > 0 \/ fin'[d] \/ rst'[d]
        BY <3>1 DEF d
      <3> QED
        BY <1>5, <2>1, <3>2 DEF IsReady
    <2>2. CASE y.events = "out"
      <3>1. writable[d] \/ rst[d]
        BY <1>1, <2>2 DEF IsReady
      <3>2. writable'[d] \/ rst'[d]
        BY <3>1 DEF d
      <3> QED
        BY <1>5, <2>2, <3>2 DEF IsReady
    <2>3. y.events \in {"in", "out"}
      BY <1>1, <1>2 DEF Fits
    <2> QED
      BY <2>1, <2>2, <2>3
  <1> QED
    BY <1>3, <1>4, <1>6 DEF ReadySet, Wanted

-----------------------------------------------------------------------------
(* Closing a watched slot, in the scan or in a call-back                    *)

LEMMA EndsStep ==
    ASSUME Inv, NEW i \in Watched, Ends(i), ready' \subseteq ready,
           \A y \in ready' : y.ptr # i,
           UNCHANGED <<backlog, dropped, said>>
    PROVE  /\ g_events' \in [Slots -> Slot] /\ epoll' \subseteq Entry
           /\ fdtab' \in [Fds -> Conns \union {NoConn}] /\ closed' \subseteq Conns
           /\ rx' \in [Conns -> 0..MaxSend] /\ fin' \in [Conns -> BOOLEAN]
           /\ rst' \in [Conns -> BOOLEAN] /\ writable' \in [Conns -> BOOLEAN]
           /\ sent' \in [Conns -> 0..MaxSend] /\ echoed' \in [Conns -> 0..MaxSend]
           /\ TableInv' /\ DataInv'
           /\ TypeOK' => NoStaleEvent'
  <1> DEFINE f == g_events[i].fd
             c == ConnOf(i)
  <1>0. TypeOK /\ TableInv /\ NoStaleEvent /\ DataInv
    BY DEF Inv
  <1>1. /\ i \in Slots /\ f \in Fds /\ c \in Conns /\ c # NoConn /\ c = fdtab[f]
        /\ \A j \in Watched : c = ConnOf(j) => i = j
    BY <1>0, WatchedSlot
  <1>2. /\ Closes(f, c)
        /\ g_events' = [g_events EXCEPT ![i].status = 0]
        /\ Watched' = Watched \ {i}
        /\ epoll' = {x \in epoll : x.fd # f}
        /\ \A j \in Watched \ {i} : /\ g_events'[j] = g_events[j]
                                    /\ ConnOf(j)' = ConnOf(j)
    BY <1>0, EndsEffect
  <1>3. TableInv'
    BY <1>0, EndsTable
  <1> HIDE DEF f, c
  <1>4. g_events' \in [Slots -> Slot] /\ epoll' \subseteq Entry
    <2>1. [g_events[i] EXCEPT !.status = 0] \in Slot
      BY <1>0, <1>1 DEF TypeOK, Slot
    <2>2. g_events' = [g_events EXCEPT ![i] = [g_events[i] EXCEPT !.status = 0]]
      BY <1>2
    <2> QED
      BY <1>0, <1>2, <2>1, <2>2 DEF TypeOK
  <1>5. /\ fdtab' \in [Fds -> Conns \union {NoConn}] /\ closed' \subseteq Conns
        /\ rx' \in [Conns -> 0..MaxSend]
        /\ sent' \in [Conns -> 0..MaxSend] /\ echoed' \in [Conns -> 0..MaxSend]
    BY <1>0, <1>1, <1>2, SizesAssumption DEF TypeOK, Closes
  <1>6. /\ fin' \in [Conns -> BOOLEAN]
        /\ rst' \in [Conns -> BOOLEAN] /\ writable' \in [Conns -> BOOLEAN]
    BY <1>0, <1>1, <1>2 DEF TypeOK, Closes
  <1>7. /\ rx'[c] = 0 /\ sent'[c] = 0 /\ echoed'[c] = 0
        /\ \A d \in Conns \ {c} : /\ rx'[d] = rx[d] /\ sent'[d] = sent[d]
                                  /\ echoed'[d] = echoed[d]
        /\ \A d \in Conns \ {c} : /\ fin'[d] = fin[d] /\ rst'[d] = rst[d]
                                  /\ writable'[d] = writable[d]
    BY <1>0, <1>1, <1>2 DEF TypeOK, Closes
  <1>8. \A j \in Watched \ {i} : ConnOf(j) \in Conns \ {c}
    BY <1>0, <1>1, WatchedSlot DEF c
  <1>9. BytesKept'
    <2>1. \A d \in Conns \ {c} : d \in Accepted => d \in Accepted'
      BY <1>0, <1>1, <1>2 DEF Accepted, Closes, TypeOK
    <2>2. /\ said' = said /\ said \in Nat /\ c \in Conns
          /\ \A d \in Conns : rx[d] \in Nat /\ sent[d] \in Nat /\ echoed[d] \in Nat
      BY <1>0, <1>1, SizesAssumption DEF TypeOK
    <2>3. /\ rx'[c] = 0 /\ sent'[c] = 0 /\ echoed'[c] = 0
          /\ \A d \in Conns \ {c} : /\ rx'[d] = rx[d] /\ sent'[d] = sent[d]
                                    /\ echoed'[d] = echoed[d]
      BY <1>7
    <2> QED
      BY <1>0, <2>1, <2>2, <2>3 DEF DataInv, BytesKept
  <1>10. OwnData' /\ EchoedOnce'
    <2>1. OwnData'
      BY <1>0, <1>2 DEF DataInv, OwnData
    <2>2. EchoedOnce'
      BY <1>0, <1>2, <1>7, <1>8 DEF DataInv, EchoedOnce
    <2> QED
      BY <2>1, <2>2
  <1>11. TypeOK' => NoStaleEvent'
    <2>1. \A y \in ready' : y.ptr \in Watched \ {i}
      BY <1>0, EventSlot
    <2> QED
      BY <1>0, <1>2, <1>3, <1>7, <1>8, <2>1, EventsStay
  <1> QED
    BY <1>3, <1>4, <1>5, <1>6, <1>9, <1>10, <1>11 DEF DataInv

\* A turn of the timeout scan.
LEMMA ScanStep == Inv /\ ScanTurn /\ UNCHANGED said => Inv'
  <1> SUFFICES ASSUME Inv, ScanTurn, UNCHANGED said PROVE Inv'
    OBVIOUS
  <1>0. TypeOK /\ TableInv /\ EventsOfTurn /\ NoStaleEvent /\ DataInv
    BY DEF Inv
  <1>1. Pos \in Slots /\ checkpos' \in 0..MaxEvents
    BY <1>0, SizesAssumption DEF TypeOK, Pos, Slots, ScanTurn
  <1>2. scanned' \in 0..ScanLen-1
    BY <1>0, ScanBound DEF TypeOK, ScanTurn
  <1>3. pc' \in {"scan", "wait"} /\ ready = {} /\ ~accepting
    BY <1>0 DEF ScanTurn, EventsOfTurn
  <1>4. EventsOfTurn'
    BY <1>3 DEF ScanTurn, EventsOfTurn
  <1>5. CASE Expired(g_events[Pos])
    <2>1. PICK i \in Watched : Ends(i)
      BY <1>1, <1>5 DEF ScanTurn, Expired, Watched
    <2>2. UNCHANGED <<backlog, dropped, ready, accepting>> /\ ready' = {}
      BY <1>3 DEF ScanTurn
    <2>3. TypeOK'
      BY <1>0, <1>1, <1>2, <1>3, <2>1, <2>2, EndsStep DEF TypeOK
    <2> QED
      BY <1>4, <2>1, <2>2, <2>3, EndsStep DEF Inv
  <1>6. CASE ~Expired(g_events[Pos])
    <2>1. UNCHANGED <<g_events, epoll, fdtab, closed, rx, fin, rst, writable, sent,
                      echoed, ready, accepting, backlog, dropped, said>>
      BY <1>6 DEF ScanTurn, connVars
    <2>2. TypeOK'
      BY <1>0, <1>1, <1>2, <1>3, <2>1 DEF TypeOK
    <2>3. TableInv'
      BY <1>0, <2>1 DEF TableInv, SlotsOpen, ConnsApart, AllHeld, StatusIsEpoll,
                        Watched, ConnOf, Accepted, Waiting, Fits
    <2>4. DataInv'
      BY <1>0, <2>1 DEF DataInv, BytesKept, OwnData, EchoedOnce, Watched, ConnOf,
                        Accepted
    <2>5. NoStaleEvent'
      BY <1>3, <2>1 DEF NoStaleEvent
    <2> QED
      BY <1>4, <2>2, <2>3, <2>4, <2>5 DEF Inv
  <1> QED
    BY <1>5, <1>6

\* A slot that is set and added anew is a slot.
LEMMA EventTypes ==
    ASSUME NEW ev \in Slot, NEW f \in Fds, NEW cb \in {"recvdata", "senddata"},
           NEW e \in {"in", "out"}
    PROVE  eventadd(eventset(ev, f, cb), e) \in Slot
  <1>1. 0 \in 0..Timeout
    BY SizesAssumption
  <1>2. eventset(ev, f, cb) \in Slot
    BY <1>1 DEF eventset, Slot, Interest
  <1> QED
    BY <1>2 DEF eventadd, Slot, Interest

\* Steps that leave slots, descriptors and bytes alone.
LEMMA QuietStep ==
    ASSUME Inv,
           WaitReturns \/ WaitTimesOut \/ AcceptFails \/ DispatchEnds,
           UNCHANGED said
    PROVE  Inv'
  <1>0. TypeOK /\ TableInv /\ EventsOfTurn /\ NoStaleEvent /\ DataInv
    BY DEF Inv
  <1>1. UNCHANGED <<g_events, checkpos, scanned, epoll, fdtab, backlog, rx, fin, rst,
                    writable, sent, echoed, said, closed, dropped>>
    <2>1. CASE WaitReturns
      BY <2>1 DEF WaitReturns, scanVars, connVars
    <2>2. CASE WaitTimesOut
      BY <2>2 DEF WaitTimesOut, scanVars, connVars
    <2>3. CASE AcceptFails
      BY <2>3 DEF AcceptFails, Accepts, scanVars, connVars
    <2>4. CASE DispatchEnds
      BY <2>4 DEF DispatchEnds, scanVars, connVars
    <2> QED
      BY <2>1, <2>2, <2>3, <2>4
  <1>2. TableInv'
    <2>1. Watched' = Watched /\ \A i \in Watched : ConnOf(i)' = ConnOf(i)
      BY <1>1 DEF Watched, ConnOf
    <2>2. SlotsOpen'
      BY <1>0, <1>1, <2>1 DEF TableInv, SlotsOpen, Fits
    <2>3. ConnsApart' /\ AllHeld' /\ StatusIsEpoll'
      BY <1>0, <1>1, <2>1 DEF TableInv, ConnsApart, AllHeld, StatusIsEpoll, Accepted,
                              Waiting
    <2> QED
      BY <2>2, <2>3 DEF TableInv
  <1>3. DataInv'
    BY <1>0, <1>1 DEF DataInv, BytesKept, OwnData, EchoedOnce, Watched, ConnOf, Accepted
  <1>4. ReadySet' = ReadySet /\ ReadySet \subseteq Entry
    BY <1>0, <1>1 DEF ReadySet, IsReady, TypeOK
  <1>5. /\ pc' \in {"scan", "wait", "dispatch", "killed"} /\ ready' \subseteq Entry
        /\ accepting' \in BOOLEAN
    <2>1. CASE WaitReturns
      BY <1>4, <2>1 DEF WaitReturns
    <2>2. CASE WaitTimesOut \/ AcceptFails \/ DispatchEnds
      BY <1>0, <2>2 DEF WaitTimesOut, AcceptFails, Accepts, DispatchEnds, TypeOK
    <2> QED
      BY <2>1, <2>2
  <1>6. TypeOK'
    <2>1. fin' \in [Conns -> BOOLEAN] /\ rst' \in [Conns -> BOOLEAN]
          /\ writable' \in [Conns -> BOOLEAN]
      BY <1>0, <1>1 DEF TypeOK
    <2> QED
      BY <1>0, <1>1, <1>5, <2>1 DEF TypeOK
  <1>7. EventsOfTurn'
    <2>1. CASE WaitReturns
      BY <2>1 DEF WaitReturns, EventsOfTurn
    <2>2. CASE WaitTimesOut \/ DispatchEnds
      BY <1>0, <2>2 DEF WaitTimesOut, DispatchEnds, EventsOfTurn
    <2>3. CASE AcceptFails
      BY <2>3 DEF AcceptFails, Accepts, EventsOfTurn
    <2> QED
      BY <2>1, <2>2, <2>3
  <1>8. NoStaleEvent'
    <2>1. CASE WaitReturns
      <3>1. ready' = ReadySet
        BY <2>1 DEF WaitReturns
      <3>2. \A x \in ReadySet : g_events[x.ptr].fd = x.fd /\ Wanted(x)
        BY <1>0 DEF TableInv, StatusIsEpoll, ReadySet, Wanted
      <3> QED
        BY <1>1, <1>4, <3>1, <3>2 DEF NoStaleEvent, Wanted
    <2>2. CASE WaitTimesOut \/ AcceptFails \/ DispatchEnds
      <3>1. ready' = ready
        BY <2>2 DEF WaitTimesOut, AcceptFails, Accepts, DispatchEnds
      <3> QED
        BY <1>0, <1>1, <1>4, <3>1 DEF NoStaleEvent, Wanted
    <2> QED
      BY <2>1, <2>2
  <1> QED
    BY <1>2, <1>3, <1>6, <1>7, <1>8 DEF Inv

\* Time makes the watched slots older and nothing else.
LEMMA TimeStep == Inv /\ TimePasses => Inv'
  <1> SUFFICES ASSUME Inv, TimePasses PROVE Inv'
    OBVIOUS
  <1>0. TypeOK /\ TableInv /\ EventsOfTurn /\ NoStaleEvent /\ DataInv
    BY DEF Inv
  <1>1. /\ pc = "wait" /\ g_events' = Older
        /\ UNCHANGED <<checkpos, scanned, pc, ready, accepting, epoll, fdtab, backlog, rx,
                       fin, rst, writable, sent, echoed, said, closed, dropped>>
    BY DEF TimePasses, loopVars, scanVars, connVars
  <1>2. \A i \in Slots : /\ g_events'[i] \in Slot
                         /\ g_events'[i].fd = g_events[i].fd
                         /\ g_events'[i].status = g_events[i].status
                         /\ g_events'[i].events = g_events[i].events
                         /\ g_events'[i].call_back = g_events[i].call_back
                         /\ g_events'[i].len = g_events[i].len
                         /\ g_events'[i].owner = g_events[i].owner
    <2> TAKE i \in Slots
    <2>1. g_events[i] \in Slot /\ g_events'[i] = Older[i]
      BY <1>0, <1>1 DEF TypeOK, Older
    <2>2. CASE g_events[i].status = 1 /\ g_events[i].age < Timeout
      <3>1. g_events'[i] = [g_events[i] EXCEPT !.age = g_events[i].age + 1]
        BY <2>1, <2>2 DEF Older
      <3>2. g_events[i].age + 1 \in 0..Timeout
        BY <2>1, <2>2, SizesAssumption DEF Slot
      <3> QED
        BY <2>1, <3>1, <3>2 DEF Slot
    <2>3. CASE ~(g_events[i].status = 1 /\ g_events[i].age < Timeout)
      BY <2>1, <2>3 DEF Older
    <2> QED
      BY <2>2, <2>3
  <1>3. TypeOK'
    <2>1. g_events' \in [Slots -> Slot]
      BY <1>1, <1>2 DEF Older
    <2> QED
      BY <1>0, <1>1, <2>1 DEF TypeOK
  <1>4. Watched' = Watched /\ \A i \in Watched : ConnOf(i)' = ConnOf(i)
    BY <1>1, <1>2 DEF Watched, ConnOf
  <1>5. TableInv'
    <2>1. SlotsOpen'
      BY <1>0, <1>1, <1>2, <1>4 DEF TableInv, SlotsOpen, Fits, Watched
    <2>2. ConnsApart' /\ AllHeld'
      BY <1>0, <1>1, <1>4 DEF TableInv, ConnsApart, AllHeld, Accepted, Waiting
    <2>3. StatusIsEpoll'
      BY <1>0, <1>1, <1>2, <1>4 DEF TableInv, StatusIsEpoll, Watched
    <2> QED
      BY <2>1, <2>2, <2>3 DEF TableInv
  <1>6. DataInv'
    <2>1. BytesKept' /\ OwnData'
      BY <1>0, <1>1, <1>2, <1>4 DEF DataInv, BytesKept, OwnData, Watched, Accepted
    <2>2. EchoedOnce'
      BY <1>0, <1>1, <1>2, <1>4 DEF DataInv, EchoedOnce, Watched
    <2> QED
      BY <2>1, <2>2 DEF DataInv
  <1>7. EventsOfTurn'
    BY <1>0, <1>1 DEF EventsOfTurn
  <1>8. NoStaleEvent'
    BY <1>0, <1>1 DEF NoStaleEvent, EventsOfTurn
  <1> QED
    BY <1>3, <1>5, <1>6, <1>7, <1>8 DEF Inv

\* Accepting: the new slot has no data yet, and its connection none either.
LEMMA AcceptStep == Inv /\ acceptconn /\ UNCHANGED said => Inv'
  <1> SUFFICES ASSUME Inv, acceptconn, UNCHANGED said PROVE Inv'
    OBVIOUS
  <1> DEFINE c == Head(backlog)
  <1>0. TypeOK /\ TableInv /\ EventsOfTurn /\ NoStaleEvent /\ DataInv
    BY DEF Inv
  <1>1. /\ TableInv' /\ Watched \subseteq Watched'
        /\ \A j \in Watched : g_events'[j] = g_events[j] /\ ConnOf(j)' = ConnOf(j)
        /\ \A j \in Watched' \ Watched : /\ g_events'[j].call_back = "recvdata"
                                         /\ ConnOf(j)' = c
    BY <1>0, AcceptTable
  <1>2. /\ c \in Waiting /\ c \in Conns /\ LowestFd \in Fds
        /\ fdtab' = [fdtab EXCEPT ![LowestFd] = c]
        /\ Accepted' = Accepted \union {c} /\ backlog' \in Seq(Conns)
    BY <1>0, AcceptEffect
  <1> HIDE DEF c
  <1>3. UNCHANGED <<checkpos, scanned, pc, ready, rx, fin, rst, writable, sent, echoed,
                    said, closed>> /\ accepting' = FALSE
    BY DEF acceptconn, Accepts, scanVars, connVars
  <1>4. g_events' \in [Slots -> Slot] /\ epoll' \subseteq Entry /\ dropped' \subseteq Conns
    <2>1. CASE DropsConn
      BY <1>0, <1>2, <2>1 DEF DropsConn, TypeOK, c
    <2>2. CASE TakesSlot
      <3>1. PICK i \in Slots : i = FirstFree
        BY <2>2, FirstIsFree DEF TakesSlot, FreeSlots
      <3>2. eventadd(eventset(g_events[i], LowestFd, "recvdata"), "in") \in Slot
        BY <1>0, <1>2, EventTypes DEF TypeOK
      <3>3. [fd |-> LowestFd, ptr |-> i, events |-> "in"] \in Entry
        BY <1>2 DEF Entry, Interest
      <3>4. /\ g_events' = [g_events EXCEPT ![i] =
                              eventadd(eventset(g_events[i], LowestFd, "recvdata"), "in")]
            /\ epoll' = CtlAdd(epoll, LowestFd, i, "in") /\ dropped' = dropped
        BY <2>2, <3>1 DEF TakesSlot
      <3> QED
        BY <1>0, <3>1, <3>2, <3>3, <3>4 DEF TypeOK, CtlAdd
    <2> QED
      BY <2>1, <2>2 DEF acceptconn
  <1>5. TypeOK'
    BY <1>0, <1>2, <1>3, <1>4 DEF TypeOK
  <1>6. DataInv'
    <2>1. BytesKept' /\ OwnData'
      BY <1>0, <1>1, <1>2, <1>3 DEF DataInv, BytesKept, OwnData
    <2>2. \A j \in Watched' \ Watched : echoed[c] + rx[c] <= sent[c]
      BY <1>0, <1>2 DEF DataInv, BytesKept
    <2>3. EchoedOnce'
      <3> SUFFICES ASSUME NEW j \in Watched'
                   PROVE  (LET ev == g_events[j]
                               d == ConnOf(j)
                           IN echoed[d] + rx[d]
                                + (IF ev.call_back = "senddata" THEN ev.len ELSE 0)
                                <= sent[d])'
        BY DEF EchoedOnce
      <3>1. CASE j \in Watched
        BY <1>0, <1>1, <1>3, <3>1 DEF DataInv, EchoedOnce
      <3>2. CASE j \notin Watched
        <4>1. /\ g_events'[j].call_back # "senddata" /\ ConnOf(j)' = c
              /\ echoed'[c] + rx'[c] <= sent'[c]
              /\ echoed'[c] + rx'[c] \in Nat
          BY <1>0, <1>1, <1>2, <1>3, <2>2, <3>2, SizesAssumption DEF TypeOK
        <4> QED
          BY <4>1
      <3> QED
        BY <3>1, <3>2
    <2> QED
      BY <2>1, <2>3 DEF DataInv
  <1>7. EventsOfTurn'
    BY <1>3 DEF EventsOfTurn, acceptconn, Accepts
  <1>8. NoStaleEvent'
    <2>1. \A y \in ready : y.ptr \in Watched
      BY <1>0, EventSlot
    <2> QED
      BY <1>0, <1>1, <1>3, <1>5, <2>1, EventsStay
  <1> QED
    BY <1>1, <1>5, <1>6, <1>7, <1>8 DEF Inv

-----------------------------------------------------------------------------
(* The call-backs                                                          *)

\* A call-back that lets its slot go on waiting, now for the other kind of
\* event, keeps the types and the table; what it does to bytes is x's own affair.
LEMMA TurnsStep ==
    ASSUME Inv, NEW x \in ready, NEW ev \in Slot,
           NEW cb \in {"recvdata", "senddata"}, NEW e \in {"in", "out"},
           (e = "in" /\ cb = "recvdata") \/ (e = "out" /\ cb = "senddata"),
           ev.fd = g_events[x.ptr].fd, Turns(x.ptr, ev, cb, e),
           ready' = ready \ {x},
           UNCHANGED <<fdtab, backlog, closed, dropped>>,
           \A d \in Conns \ {ConnOf(x.ptr)} :
              rx'[d] = rx[d] /\ writable'[d] = writable[d],
           fin' = fin, rst' = rst
    PROVE  /\ g_events' \in [Slots -> Slot] /\ epoll' \subseteq Entry
           /\ TableInv' /\ Watched' = Watched
           /\ \A j \in Watched : ConnOf(j)' = ConnOf(j)
           /\ \A j \in Watched \ {x.ptr} : g_events'[j] = g_events[j]
           /\ /\ g_events'[x.ptr].call_back = cb /\ g_events'[x.ptr].len = ev.len
              /\ g_events'[x.ptr].owner = ev.owner
           /\ TypeOK' => NoStaleEvent'
  <1>0. TypeOK /\ TableInv /\ EventsOfTurn /\ NoStaleEvent /\ DataInv
    BY DEF Inv
  <1>1. PICK i \in Watched : i = x.ptr
    BY <1>0, EventSlot
  <1>2. e \in Interest
    BY DEF Interest
  <1>3. /\ TableInv' /\ \A j \in Watched : ConnOf(j)' = ConnOf(j)
    BY <1>0, <1>1, <1>2, TurnsTable
  <1> DEFINE new == [ev EXCEPT !.call_back = cb, !.events = e, !.status = 1, !.age = 0]
  <1>4. /\ g_events' = [g_events EXCEPT ![i] = new]
        /\ epoll' = {y \in epoll : y.fd # ev.fd}
                      \union {[fd |-> ev.fd, ptr |-> i, events |-> e]}
        /\ Watched' = Watched
    BY <1>0, <1>1, TurnsEffect
  <1>5. new \in Slot
    <2>1. 0 \in 0..Timeout
      BY SizesAssumption
    <2> QED
      BY <1>2, <2>1 DEF Slot
  <1>6. new.call_back = cb /\ new.len = ev.len /\ new.owner = ev.owner
    BY DEF Slot
  <1> HIDE DEF new
  <1>7. i \in Slots /\ ev.fd \in Fds
    BY <1>0, <1>1, WatchedSlot
  <1>8. g_events' \in [Slots -> Slot] /\ epoll' \subseteq Entry
    BY <1>0, <1>2, <1>4, <1>5, <1>7 DEF TypeOK, Entry
  <1>9. g_events'[i] = new /\ \A j \in Watched \ {i} : g_events'[j] = g_events[j]
    BY <1>0, <1>4, <1>7 DEF TypeOK, Watched
  <1>10. TypeOK' => NoStaleEvent'
    <2>1. \A y \in ready' : y.ptr \in Watched \ {i}
      BY <1>0, <1>1, EventSlot
    <2>2. \A j \in Watched \ {i} : ConnOf(j) \in Conns \ {ConnOf(x.ptr)}
      BY <1>0, <1>1, WatchedSlot
    <2> QED
      BY <1>0, <1>3, <1>4, <1>9, <2>1, <2>2, EventsStay
  <1> QED
    BY <1>1, <1>3, <1>4, <1>6, <1>8, <1>9, <1>10

\* recvdata moves bytes from the connection to the buffer of its slot.
LEMMA RecvStep ==
    ASSUME Inv, NEW x \in ready, Dispatch(x), recvdata(x.ptr), UNCHANGED said
    PROVE  Inv'
  <1>0. TypeOK /\ TableInv /\ EventsOfTurn /\ NoStaleEvent /\ DataInv
    BY DEF Inv
  <1>1. PICK i \in Watched : i = x.ptr
    BY <1>0, EventSlot
  <1>2. /\ i \in Slots /\ ConnOf(i) \in Conns /\ ConnOf(i) # NoConn
        /\ \A j \in Watched : ConnOf(i) = ConnOf(j) => i = j
    BY <1>0, WatchedSlot
  <1>3. /\ pc = "dispatch" /\ pc' = pc /\ ready' = ready \ {x}
        /\ UNCHANGED <<checkpos, scanned, accepting, backlog, dropped, said>>
    BY DEF Dispatch, recvdata, scanVars
  <1>4. EventsOfTurn'
    BY <1>0, <1>3 DEF EventsOfTurn
  <1> DEFINE c == ConnOf(i)
             n == Least(rx[c], BufLen)
  <1>5. CASE rx[c] > 0
    <2>1. /\ rx' = [rx EXCEPT ![c] = @ - n]
          /\ Turns(i, Fill(g_events[i], c, n), "senddata", "out")
          /\ UNCHANGED <<fdtab, fin, rst, writable, sent, echoed, closed>>
      BY <1>1, <1>2, <1>5 DEF recvdata
    <2>2. /\ n \in 0..BufLen /\ n <= rx[c] /\ rx[c] \in 0..MaxSend /\ n \in Nat
      BY <1>0, <1>2, SizesAssumption DEF TypeOK, Least
    <2> HIDE DEF c, n
    <2>3. PICK ev \in Slot : /\ ev = Fill(g_events[i], c, n) /\ ev.fd = g_events[i].fd
                             /\ ev.len = n /\ ev.owner = c
      <3>1. c \in Conns /\ g_events[i] \in Slot
        BY <1>0, <1>2 DEF TypeOK, c
      <3>2. /\ Fill(g_events[i], c, n) \in Slot
            /\ Fill(g_events[i], c, n).fd = g_events[i].fd
            /\ Fill(g_events[i], c, n).len = n /\ Fill(g_events[i], c, n).owner = c
        BY <2>2, <3>1 DEF Slot, Fill
      <3> QED
        BY <3>2
    <2>4. /\ rx'[c] = rx[c] - n /\ \A d \in Conns \ {c} : rx'[d] = rx[d]
          /\ rx' \in [Conns -> 0..MaxSend]
      BY <1>0, <1>2, <2>1, <2>2, SizesAssumption DEF TypeOK, c
    <2>5. /\ g_events' \in [Slots -> Slot] /\ epoll' \subseteq Entry
          /\ TableInv' /\ Watched' = Watched
          /\ \A j \in Watched : ConnOf(j)' = ConnOf(j)
          /\ \A j \in Watched \ {i} : g_events'[j] = g_events[j]
          /\ /\ g_events'[i].call_back = "senddata" /\ g_events'[i].len = n
             /\ g_events'[i].owner = c
          /\ TypeOK' => NoStaleEvent'
      BY <1>1, <1>3, <2>1, <2>3, <2>4, TurnsStep DEF c
    <2>6. TypeOK'
      <3>1. fin' \in [Conns -> BOOLEAN] /\ rst' \in [Conns -> BOOLEAN]
            /\ writable' \in [Conns -> BOOLEAN]
        BY <1>0, <2>1 DEF TypeOK
      <3> QED
        BY <1>0, <1>3, <2>1, <2>4, <2>5, <3>1 DEF TypeOK
    <2>7. BytesKept' /\ OwnData'
      <3>1. BytesKept'
        <4>1. \A d \in Conns : rx'[d] \in Nat /\ rx[d] \in Nat /\ sent[d] \in Nat
                               /\ echoed[d] \in Nat
          BY <1>0, <2>4, SizesAssumption DEF TypeOK
        <4>2. \A d \in Conns : rx'[d] <= rx[d]
          BY <2>2, <2>4, <4>1
        <4>3. Accepted' = Accepted /\ sent' = sent /\ echoed' = echoed
          BY <2>1 DEF Accepted
        <4> QED
          BY <1>0, <1>3, <4>1, <4>2, <4>3 DEF DataInv, BytesKept
      <3>2. OwnData'
        BY <1>0, <2>5 DEF DataInv, OwnData, c
      <3> QED
        BY <3>1, <3>2
    <2>8. EchoedOnce'
      <3> SUFFICES ASSUME NEW j \in Watched
                   PROVE  echoed'[ConnOf(j)] + rx'[ConnOf(j)]
                            + (IF g_events'[j].call_back = "senddata"
                                 THEN g_events'[j].len ELSE 0)
                            <= sent'[ConnOf(j)]
        BY <2>5 DEF EchoedOnce
      <3>1. CASE j = i
        <4>1. echoed[c] + rx[c] <= sent[c]
          BY <1>0, <1>2 DEF DataInv, BytesKept, c
        <4>2. echoed[c] \in Nat /\ rx[c] \in Nat /\ sent[c] \in Nat
          BY <1>0, <1>2, SizesAssumption DEF TypeOK, c
        <4> QED
          BY <2>1, <2>2, <2>4, <2>5, <3>1, <4>1, <4>2 DEF c
      <3>2. CASE j # i
        <4>1. ConnOf(j) \in Conns \ {c}
          BY <1>0, <1>2, <3>2, WatchedSlot DEF c
        <4> QED
          BY <1>0, <2>1, <2>4, <2>5, <3>2, <4>1 DEF DataInv, EchoedOnce
      <3> QED
        BY <3>1, <3>2
    <2> QED
      BY <1>4, <2>5, <2>6, <2>7, <2>8 DEF Inv, DataInv
  <1>6. CASE ~(rx[c] > 0)
    <2>1. Ends(i)
      BY <1>1, <1>6 DEF recvdata
    <2>2. \A y \in ready' : y.ptr # i
      BY <1>0, <1>1, <1>3, EventSlot
    <2>3. TypeOK'
      BY <1>0, <1>3, <2>1, <2>2, EndsStep DEF TypeOK
    <2> QED
      BY <1>3, <1>4, <2>1, <2>2, <2>3, EndsStep DEF Inv
  <1> QED
    BY <1>5, <1>6

\* senddata sends part of the buffer, closes, or kills the process.
LEMMA SendStep ==
    ASSUME Inv, NEW x \in ready, Dispatch(x), senddata(x.ptr), UNCHANGED said
    PROVE  Inv'
  <1>0. TypeOK /\ TableInv /\ EventsOfTurn /\ NoStaleEvent /\ DataInv
    BY DEF Inv
  <1>1. PICK i \in Watched : i = x.ptr
    BY <1>0, EventSlot
  <1>2. /\ i \in Slots /\ ConnOf(i) \in Conns /\ ConnOf(i) # NoConn
        /\ g_events[i] \in Slot /\ g_events[i].call_back = "senddata"
        /\ \A j \in Watched : ConnOf(i) = ConnOf(j) => i = j
    BY <1>0, <1>1, WatchedSlot DEF senddata, TypeOK
  <1>3. /\ pc = "dispatch" /\ pc' \in {"dispatch", "killed"} /\ ready' = ready \ {x}
        /\ UNCHANGED <<checkpos, scanned, accepting, backlog, dropped, said>>
    BY DEF Dispatch, senddata, scanVars
  <1>4. EventsOfTurn'
    BY <1>0, <1>3 DEF EventsOfTurn
  <1> DEFINE c == ConnOf(i)
  <1>5. ASSUME NEW n \in 1..g_events[i].len, echoed' = [echoed EXCEPT ![c] = @ + n],
               NEW room \in BOOLEAN, writable' = [writable EXCEPT ![c] = room],
               Turns(i, g_events[i], "recvdata", "in"),
               UNCHANGED <<fdtab, rx, fin, rst, sent, closed>>
        PROVE  Inv'
    <2>1. /\ echoed[c] + rx[c] + g_events[i].len <= sent[c] /\ sent[c] <= MaxSend
          /\ echoed[c] \in Nat /\ rx[c] \in Nat /\ sent[c] \in Nat
          /\ g_events[i].len \in Nat /\ n \in Nat /\ n <= g_events[i].len
      BY <1>0, <1>2, SizesAssumption DEF DataInv, EchoedOnce, TypeOK, Slot
    <2> HIDE DEF c
    <2>2. \A d \in Conns \ {c} : writable'[d] = writable[d]
      BY <1>0, <1>5 DEF TypeOK
    <2>3. writable' \in [Conns -> BOOLEAN]
      BY <1>0, <1>5 DEF TypeOK
    <2>4. /\ echoed'[c] = echoed[c] + n /\ \A d \in Conns \ {c} : echoed'[d] = echoed[d]
          /\ echoed' \in [Conns -> 0..MaxSend]
      BY <1>0, <1>2, <1>5, <2>1, SizesAssumption DEF TypeOK, c
    <2>5. /\ g_events' \in [Slots -> Slot] /\ epoll' \subseteq Entry
          /\ TableInv' /\ Watched' = Watched
          /\ \A j \in Watched : ConnOf(j)' = ConnOf(j)
          /\ \A j \in Watched \ {i} : g_events'[j] = g_events[j]
          /\ g_events'[i].call_back = "recvdata"
          /\ TypeOK' => NoStaleEvent'
      BY <1>1, <1>2, <1>3, <1>5, <2>2, TurnsStep DEF c
    <2>6. TypeOK'
      <3>1. fin' \in [Conns -> BOOLEAN] /\ rst' \in [Conns -> BOOLEAN]
        BY <1>0, <1>5 DEF TypeOK
      <3> QED
        BY <1>0, <1>3, <1>5, <2>3, <2>4, <2>5, <3>1 DEF TypeOK
    <2>7. BytesKept'
      <3>1. Accepted' = Accepted
        BY <1>5 DEF Accepted
      <3> QED
        BY <1>0, <1>2, <1>3, <1>5, <2>1, <2>4, <3>1 DEF DataInv, BytesKept, c
    <2>8. OwnData'
      BY <1>0, <2>5 DEF DataInv, OwnData
    <2>9. EchoedOnce'
      <3> SUFFICES ASSUME NEW j \in Watched
                   PROVE  echoed'[ConnOf(j)] + rx'[ConnOf(j)]
                            + (IF g_events'[j].call_back = "senddata"
                                 THEN g_events'[j].len ELSE 0)
                            <= sent'[ConnOf(j)]
        BY <2>5 DEF EchoedOnce
      <3>1. CASE j = i
        BY <1>5, <2>1, <2>4, <2>5, <3>1 DEF c
      <3>2. CASE j # i
        <4>1. ConnOf(j) \in Conns \ {c}
          BY <1>0, <1>2, <3>2, WatchedSlot DEF c
        <4> QED
          BY <1>0, <1>5, <2>4, <2>5, <3>2, <4>1 DEF DataInv, EchoedOnce
      <3> QED
        BY <3>1, <3>2
    <2> QED
      BY <1>4, <2>5, <2>6, <2>7, <2>8, <2>9 DEF Inv, DataInv
  <1>6. CASE UNCHANGED <<g_events, epoll, fdtab, connVars, closed>>
    <2>1. UNCHANGED <<g_events, epoll, fdtab, backlog, rx, fin, rst, writable, sent,
                      echoed, said, closed, dropped, checkpos, scanned, accepting>>
      BY <1>3, <1>6 DEF connVars
    <2>2. Watched' = Watched /\ \A j \in Watched : ConnOf(j)' = ConnOf(j)
      BY <2>1 DEF Watched, ConnOf
    <2>3. TypeOK'
      BY <1>0, <1>3, <2>1 DEF TypeOK
    <2>4. SlotsOpen'
      BY <1>0, <2>1, <2>2 DEF TableInv, SlotsOpen, Fits
    <2>5. ConnsApart' /\ AllHeld' /\ StatusIsEpoll'
      <3>1. Accepted' = Accepted /\ Waiting' = Waiting
        BY <2>1 DEF Accepted, Waiting
      <3>2. ConnsApart' /\ AllHeld'
        BY <1>0, <2>1, <2>2, <3>1 DEF TableInv, ConnsApart, AllHeld
      <3>3. StatusIsEpoll'
        BY <1>0, <2>1, <2>2 DEF TableInv, StatusIsEpoll
      <3> QED
        BY <3>2, <3>3
    <2>6. DataInv'
      BY <1>0, <2>1, <2>2 DEF DataInv, BytesKept, OwnData, EchoedOnce, Accepted
    <2>7. NoStaleEvent'
      BY <1>0, <1>3, <2>1 DEF NoStaleEvent, ReadySet, IsReady, Wanted
    <2> QED
      BY <1>4, <2>3, <2>4, <2>5, <2>6, <2>7 DEF Inv, TableInv
  <1>7. CASE Ends(i)
    <2>1. \A y \in ready' : y.ptr # i
      BY <1>0, <1>1, <1>3, EventSlot
    <2>2. TypeOK'
      BY <1>0, <1>3, <1>7, <2>1, EndsStep DEF TypeOK
    <2> QED
      BY <1>3, <1>4, <1>7, <2>1, <2>2, EndsStep DEF Inv
  <1> QED
    BY <1>1, <1>5, <1>6, <1>7 DEF senddata

-----------------------------------------------------------------------------
(* The clients                                                             *)

\* What a client does leaves the table alone, and no event goes away.
LEMMA FrameStep ==
    ASSUME Inv, ClientFrame, TypeOK', ConnsApart',
           \A d \in Conns : /\ rx[d] > 0 => rx'[d] > 0
                            /\ fin[d] => fin'[d]
                            /\ rst[d] => rst'[d]
                            /\ writable[d] => writable'[d],
           backlog # << >> => backlog' # << >>
    PROVE  TableInv' /\ EventsOfTurn' /\ NoStaleEvent' /\ OwnData'
  <1>0. TypeOK /\ TableInv /\ EventsOfTurn /\ NoStaleEvent /\ DataInv
    BY DEF Inv
  <1>1. UNCHANGED <<g_events, pc, ready, accepting, epoll, fdtab, closed, dropped>>
    BY DEF ClientFrame, loopVars
  <1>2. Watched' = Watched /\ \A j \in Watched : ConnOf(j)' = ConnOf(j)
    BY <1>1 DEF Watched, ConnOf
  <1>3. SlotsOpen'
    BY <1>0, <1>1, <1>2 DEF TableInv, SlotsOpen, Fits
  <1>4. AllHeld'
    BY <1>0, <1>1, <1>2 DEF TableInv, AllHeld, Accepted
  <1>5. StatusIsEpoll'
    BY <1>0, <1>1, <1>2 DEF TableInv, StatusIsEpoll
  <1>6. TableInv'
    BY <1>3, <1>4, <1>5 DEF TableInv
  <1>7. NoStaleEvent'
    <2>1. \A y \in ready : y.ptr \in Watched /\ ConnOf(y.ptr) \in Conns
      BY <1>0, EventSlot, WatchedSlot
    <2> QED
      BY <1>0, <1>1, <1>2, <1>6, <2>1, EventsStay
  <1>8. EventsOfTurn'
    BY <1>0, <1>1 DEF EventsOfTurn
  <1>9. OwnData'
    BY <1>0, <1>1, <1>2 DEF DataInv, OwnData
  <1> QED
    BY <1>6, <1>7, <1>8, <1>9

\* A connection that nobody has seen is put at the end of the queue.
LEMMA ConnectStep == \A c \in Conns : Inv /\ Connect(c) => Inv'
  <1> SUFFICES ASSUME NEW c \in Conns, Inv, Connect(c) PROVE Inv'
    OBVIOUS
  <1>0. TypeOK /\ TableInv /\ EventsOfTurn /\ NoStaleEvent /\ DataInv
    BY DEF Inv
  <1>1. /\ backlog' = Append(backlog, c) /\ backlog \in Seq(Conns)
        /\ UNCHANGED <<g_events, checkpos, scanned, pc, ready, accepting, epoll, fdtab,
                       closed, dropped, rx, fin, rst, writable, sent, echoed, said>>
    BY <1>0 DEF Connect, ClientFrame, loopVars, scanVars, connVars, TypeOK
  <1>2. c \notin Accepted /\ c \notin Waiting /\ c \notin closed
    BY DEF Connect, Conns
  <1>3. /\ backlog' \in Seq(Conns) /\ backlog' # << >>
        /\ Len(backlog') = Len(backlog) + 1 /\ Len(backlog) \in Nat
        /\ backlog'[Len(backlog) + 1] = c
        /\ \A p \in 1..Len(backlog) : backlog'[p] = backlog[p]
    BY <1>1
  <1>4. 1..Len(backlog') = 1..Len(backlog) \union {Len(backlog) + 1}
    BY <1>3
  <1>5. Waiting' = Waiting \union {c}
    BY <1>3, <1>4 DEF Waiting
  <1>6. Accepted' = Accepted
    BY <1>1 DEF Accepted
  <1>7. ConnsApart'
    <2>1. \A p, q \in 1..Len(backlog') : backlog'[p] = backlog'[q] => p = q
      BY <1>0, <1>2, <1>3, <1>4 DEF Waiting, TableInv, ConnsApart
    <2> QED
      BY <1>0, <1>1, <1>2, <1>5, <1>6, <2>1 DEF TableInv, ConnsApart
  <1>8. TypeOK'
    BY <1>0, <1>1, <1>3 DEF TypeOK
  <1>9. TableInv' /\ EventsOfTurn' /\ NoStaleEvent' /\ OwnData'
    BY <1>1, <1>3, <1>7, <1>8, FrameStep DEF Connect
  <1>10. BytesKept' /\ EchoedOnce'
    BY <1>0, <1>1, <1>6 DEF DataInv, BytesKept, EchoedOnce, Watched, ConnOf
  <1> QED
    BY <1>8, <1>9, <1>10 DEF Inv, DataInv

\* Sending adds a byte to what is to be read and to what was sent.
LEMMA SendsStep == \A c \in Conns : Inv /\ ClientSends(c) => Inv'
  <1> SUFFICES ASSUME NEW c \in Conns, Inv, ClientSends(c) PROVE Inv'
    OBVIOUS
  <1>0. TypeOK /\ TableInv /\ EventsOfTurn /\ NoStaleEvent /\ DataInv
    BY DEF Inv
  <1>1. /\ rx' = [rx EXCEPT ![c] = @ + 1] /\ sent' = [sent EXCEPT ![c] = @ + 1]
        /\ said' = said + 1 /\ said < MaxSend /\ c \in Accepted
        /\ UNCHANGED <<g_events, checkpos, scanned, pc, ready, accepting, epoll, fdtab,
                       backlog, closed, dropped, fin, rst, writable, echoed>>
    BY DEF ClientSends, ClientFrame, loopVars, scanVars
  <1>2. /\ \A d \in Conns : rx[d] \in Nat /\ sent[d] \in Nat /\ echoed[d] \in Nat
        /\ said \in Nat /\ MaxSend \in Nat
        /\ \A d \in Conns : /\ echoed[d] + rx[d] <= sent[d] /\ sent[d] <= said
                            /\ d \notin Accepted => sent[d] = 0
    BY <1>0, SizesAssumption DEF TypeOK, DataInv, BytesKept
  <1>3. /\ rx'[c] = rx[c] + 1 /\ sent'[c] = sent[c] + 1
        /\ \A d \in Conns \ {c} : rx'[d] = rx[d] /\ sent'[d] = sent[d]
    BY <1>0, <1>1 DEF TypeOK
  <1>4. rx[c] + 1 \in 0..MaxSend /\ sent[c] + 1 \in 0..MaxSend /\ said + 1 \in 0..MaxSend
    BY <1>1, <1>2
  <1>5. TypeOK'
    <2>1. rx' \in [Conns -> 0..MaxSend] /\ sent' \in [Conns -> 0..MaxSend]
      BY <1>0, <1>1, <1>4 DEF TypeOK
    <2>2. fin' \in [Conns -> BOOLEAN] /\ rst' \in [Conns -> BOOLEAN]
          /\ writable' \in [Conns -> BOOLEAN]
      BY <1>0, <1>1 DEF TypeOK
    <2> QED
      BY <1>0, <1>1, <1>4, <2>1, <2>2 DEF TypeOK
  <1>6. ConnsApart'
    <2>1. Accepted' = Accepted /\ Waiting' = Waiting
      BY <1>1 DEF Accepted, Waiting
    <2> QED
      BY <1>0, <1>1, <2>1 DEF TableInv, ConnsApart
  <1>7. \A d \in Conns : rx[d] > 0 => rx'[d] > 0
    BY <1>2, <1>3
  <1>8. TableInv' /\ EventsOfTurn' /\ NoStaleEvent' /\ OwnData'
    BY <1>1, <1>5, <1>6, <1>7, FrameStep DEF ClientSends
  <1>9. Accepted' = Accepted /\ Watched' = Watched
        /\ \A j \in Watched : ConnOf(j)' = ConnOf(j) /\ ConnOf(j) \in Conns
    BY <1>0, <1>1, WatchedSlot DEF Accepted, Watched, ConnOf
  <1>10. BytesKept'
    BY <1>1, <1>2, <1>3, <1>9 DEF BytesKept
  <1>11. EchoedOnce'
    <2> SUFFICES ASSUME NEW j \in Watched
                 PROVE  echoed'[ConnOf(j)] + rx'[ConnOf(j)]
                          + (IF g_events'[j].call_back = "senddata"
                               THEN g_events'[j].len ELSE 0)
                          <= sent'[ConnOf(j)]
      BY <1>9 DEF EchoedOnce
    <2>1. PICK d \in Conns : d = ConnOf(j)
      BY <1>9
    <2>2. PICK l \in Nat : l = IF g_events[j].call_back = "senddata"
                                 THEN g_events[j].len ELSE 0
      BY <1>0, SizesAssumption DEF TypeOK, Slot, Watched
    <2>3. echoed[d] + rx[d] + l <= sent[d]
      BY <1>0, <2>1, <2>2 DEF DataInv, EchoedOnce
    <2>4. echoed[d] + rx'[d] + l <= sent'[d]
      BY <1>2, <1>3, <2>3
    <2> QED
      BY <1>1, <2>1, <2>2, <2>4
  <1> QED
    BY <1>5, <1>8, <1>10, <1>11 DEF Inv, DataInv

\* Closing, resetting and making room only add to what there is to notice.
LEMMA SignalStep ==
    \A c \in Conns : Inv /\ (ClientCloses(c) \/ ClientResets(c) \/ ClientReads(c)) => Inv'
  <1> SUFFICES ASSUME NEW c \in Conns, Inv,
                      ClientCloses(c) \/ ClientResets(c) \/ ClientReads(c)
               PROVE  Inv'
    OBVIOUS
  <1>0. TypeOK /\ TableInv /\ EventsOfTurn /\ NoStaleEvent /\ DataInv
    BY DEF Inv
  <1>1. /\ ClientFrame
        /\ UNCHANGED <<g_events, checkpos, scanned, pc, ready, accepting, epoll, fdtab,
                       backlog, closed, dropped, rx, sent, echoed, said>>
    BY DEF ClientCloses, ClientResets, ClientReads, ClientFrame, loopVars, scanVars
  <1>2. /\ fin' \in [Conns -> BOOLEAN] /\ rst' \in [Conns -> BOOLEAN]
        /\ writable' \in [Conns -> BOOLEAN]
        /\ \A d \in Conns : /\ fin[d] => fin'[d]
                            /\ rst[d] => rst'[d]
                            /\ writable[d] => writable'[d]
    <2>1. CASE ClientCloses(c)
      BY <1>0, <2>1 DEF ClientCloses, TypeOK
    <2>2. CASE ClientResets(c)
      BY <1>0, <2>2 DEF ClientResets, TypeOK
    <2>3. CASE ClientReads(c)
      BY <1>0, <2>3 DEF ClientReads, TypeOK
    <2> QED
      BY <2>1, <2>2, <2>3
  <1>3. TypeOK'
    BY <1>0, <1>1, <1>2 DEF TypeOK
  <1>4. ConnsApart'
    <2>1. Accepted' = Accepted /\ Waiting' = Waiting
      BY <1>1 DEF Accepted, Waiting
    <2> QED
      BY <1>0, <1>1, <2>1 DEF TableInv, ConnsApart
  <1>5. TableInv' /\ EventsOfTurn' /\ NoStaleEvent' /\ OwnData'
    BY <1>1, <1>2, <1>3, <1>4, FrameStep
  <1>6. BytesKept' /\ EchoedOnce'
    BY <1>0, <1>1 DEF DataInv, BytesKept, EchoedOnce, Watched, ConnOf, Accepted
  <1> QED
    BY <1>3, <1>5, <1>6 DEF Inv, DataInv

-----------------------------------------------------------------------------
(* The invariant and what follows from it                                  *)

LEMMA InvInit == Init => Inv
  <1> SUFFICES ASSUME Init PROVE Inv
    OBVIOUS
  <1>1. Unused \in Slot
    BY SizesAssumption DEF Unused, Slot, Interest
  <1>2. << >> \in Seq(Conns)
    OBVIOUS
  <1>3. TypeOK
    <2>1. /\ g_events \in [Slots -> Slot] /\ fdtab \in [Fds -> Conns \union {NoConn}]
          /\ checkpos \in 0..MaxEvents /\ scanned \in 0..ScanLen-1
      BY <1>1, SizesAssumption DEF Init
    <2>2. /\ rx \in [Conns -> 0..MaxSend] /\ sent \in [Conns -> 0..MaxSend]
          /\ echoed \in [Conns -> 0..MaxSend] /\ said \in 0..MaxSend
      BY SizesAssumption DEF Init
    <2>3. /\ fin \in [Conns -> BOOLEAN] /\ rst \in [Conns -> BOOLEAN]
          /\ writable \in [Conns -> BOOLEAN]
      BY DEF Init
    <2> QED
      BY <1>2, <2>1, <2>2, <2>3 DEF Init, TypeOK
  <1>4. Watched = {} /\ Accepted = {} /\ Waiting = {}
    BY DEF Init, Watched, Unused, Accepted, Waiting
  <1>5. TableInv
    BY <1>4 DEF Init, TableInv, SlotsOpen, ConnsApart, AllHeld, StatusIsEpoll
  <1>6. DataInv
    BY <1>4, SizesAssumption DEF Init, DataInv, BytesKept, OwnData, EchoedOnce
  <1>7. EventsOfTurn /\ NoStaleEvent
    BY DEF Init, EventsOfTurn, NoStaleEvent
  <1> QED
    BY <1>3, <1>5, <1>6, <1>7 DEF Inv

LEMMA InvStep == Inv /\ [Next]_vars => Inv'
  <1> SUFFICES ASSUME Inv, [Next]_vars PROVE Inv'
    OBVIOUS
  <1>1. CASE LoopStep
    <2>1. ASSUME NEW x \in ready, Dispatch(x)
          PROVE  Inv'
      <3>1. Wanted(x)
        BY EventSlot DEF Inv
      <3>2. recvdata(x.ptr) \/ senddata(x.ptr)
        BY <2>1, <3>1 DEF Dispatch
      <3> QED
        BY <1>1, <2>1, <3>2, RecvStep, SendStep DEF LoopStep
    <2> QED
      BY <1>1, <2>1, ScanStep, QuietStep, AcceptStep DEF LoopStep
  <1>2. CASE TimePasses
    BY <1>2, TimeStep
  <1>3. CASE Client
    BY <1>3, ConnectStep, SendsStep, SignalStep DEF Client
  <1>4. CASE UNCHANGED vars
    <2>1. UNCHANGED <<g_events, checkpos, scanned, pc, ready, accepting, epoll, fdtab,
                      backlog, rx, fin, rst, writable, sent, echoed, said, closed,
                      dropped>>
      BY <1>4 DEF vars, loopVars, scanVars, connVars
    <2>2. TypeOK'
      BY <2>1 DEF Inv, TypeOK
    <2>3. ConnsApart'
      BY <2>1 DEF Inv, TableInv, ConnsApart, Accepted, Waiting
    <2>4. ClientFrame
      BY <2>1 DEF ClientFrame, loopVars, scanVars
    <2>5. TableInv' /\ EventsOfTurn' /\ NoStaleEvent' /\ OwnData'
      BY <2>1, <2>2, <2>3, <2>4, FrameStep
    <2>6. BytesKept' /\ EchoedOnce'
      BY <2>1 DEF Inv, DataInv, BytesKept, EchoedOnce, Watched, ConnOf, Accepted
    <2> QED
      BY <2>2, <2>5, <2>6 DEF Inv, DataInv
  <1> QED
    BY <1>1, <1>2, <1>3, <1>4 DEF Next

\* Every variable keeps its type: ages, buffers and counters stay in bounds.
THEOREM TypeCorrect == Spec => []TypeOK
  <1>1. Inv => TypeOK
    BY DEF Inv
  <1> QED
    BY <1>1, InvInit, InvStep, PTL DEF Spec

\* status is what is in the epoll set (epoll_loop.c l.29), whatever is closed,
\* timed out or reused.
THEOREM StatusSafe == Spec => []StatusIsEpoll
  <1>1. Inv => StatusIsEpoll
    BY DEF Inv, TableInv
  <1> QED
    BY <1>1, InvInit, InvStep, PTL DEF Spec

\* No descriptor is lost and none is shared between slots.
THEOREM SlotsSafe == Spec => []ConnsInSlots
  <1>1. Inv => ConnsInSlots
    BY WatchedSlot DEF Inv, TableInv, AllHeld, ConnsInSlots
  <1> QED
    BY <1>1, InvInit, InvStep, PTL DEF Spec

\* No event is stale when its call-back runs, whatever ran before it.
THEOREM EventsSafe == Spec => []NoStaleEvent
  <1>1. Inv => NoStaleEvent
    BY DEF Inv
  <1> QED
    BY <1>1, InvInit, InvStep, PTL DEF Spec

\* What comes back to a client is what it sent, and once.
THEOREM EchoSafe == Spec => []EchoedAsSent
  <1>1. Inv => EchoedAsSent
    BY DEF Inv, DataInv, EchoedAsSent
  <1> QED
    BY <1>1, InvInit, InvStep, PTL DEF Spec

\* A step closes the connection of a slot only if the slot is too old, or if an
\* event said that its client has ended it.
LEMMA CauseStep ==
    ASSUME Inv, [Next]_vars, NEW c \in closed', c \notin closed
    PROVE  \/ fin[c] \/ rst[c]
           \/ \E i \in Watched : ConnOf(i) = c /\ g_events[i].age = Timeout
  <1>0. TypeOK /\ TableInv /\ NoStaleEvent
    BY DEF Inv
  <1>1. ASSUME NEW i \in Watched, Ends(i)
        PROVE  c = ConnOf(i)
    BY <1>0, <1>1, EndsEffect DEF Closes
  <1>2. CASE ScanTurn
    <2>1. Pos \in Slots
      BY <1>0, SizesAssumption DEF TypeOK, Pos, Slots
    <2>2. Expired(g_events[Pos]) /\ Ends(Pos)
      BY <1>2 DEF ScanTurn
    <2>3. Pos \in Watched /\ g_events[Pos].age >= Timeout
      BY <2>1, <2>2 DEF Expired, Watched
    <2>4. g_events[Pos].age = Timeout
      BY <1>0, <2>1, <2>3, SizesAssumption DEF TypeOK, Slot
    <2> QED
      BY <1>1, <2>2, <2>3, <2>4
  <1>3. ASSUME NEW x \in ready, Dispatch(x)
        PROVE  fin[c] \/ rst[c]
    <2>1. PICK i \in Watched : i = x.ptr
      BY <1>0, EventSlot
    <2>2. /\ Wanted(x) /\ IsReady(x) /\ fdtab[x.fd] = ConnOf(i)
          /\ x.events = g_events[i].events
      BY <1>0, <2>1, EventSlot DEF Wanted
    <2>3. ConnOf(i) \in Conns /\ ConnOf(i) # NoConn /\ Fits(g_events[i])
      BY <1>0, WatchedSlot
    <2>4. CASE recvdata(i)
      <3>1. Ends(i) /\ ~(rx[ConnOf(i)] > 0)
        BY <2>3, <2>4 DEF recvdata
      <3>2. x.events = "in"
        BY <2>2, <2>3, <2>4 DEF Fits, recvdata
      <3> QED
        BY <1>1, <2>2, <3>1, <3>2 DEF IsReady
    <2>5. CASE senddata(i)
      <3>1. /\ Ends(i)
            /\ (~writable[ConnOf(i)] /\ ~rst[ConnOf(i)]) \/ rst[ConnOf(i)]
        BY <2>3, <2>5 DEF senddata
      <3>2. x.events = "out"
        BY <2>2, <2>3, <2>5 DEF Fits, senddata
      <3> QED
        BY <1>1, <2>2, <3>1, <3>2 DEF IsReady
    <2> QED
      BY <1>3, <2>1, <2>2, <2>4, <2>5 DEF Dispatch
  <1>4. CASE \/ WaitReturns \/ WaitTimesOut \/ AcceptFails \/ acceptconn \/ DispatchEnds
             \/ TimePasses \/ Client \/ UNCHANGED vars
    BY <1>4 DEF WaitReturns, WaitTimesOut, AcceptFails, acceptconn, DispatchEnds,
                TimePasses, Client, Connect, ClientSends, ClientCloses, ClientResets,
                ClientReads, ClientFrame, vars
  <1> QED
    BY <1>2, <1>3, <1>4 DEF Next, LoopStep

\* The server closes a connection for a cause only.
THEOREM CauseSafe == Spec => ClosedForCause
  <1>1. Inv /\ [Next]_vars =>
            [\A c \in closed' \ closed :
                \/ fin[c] \/ rst[c]
                \/ \E i \in Watched : ConnOf(i) = c /\ g_events[i].age = Timeout]_vars
    BY CauseStep
  <1> QED
    BY <1>1, InvInit, InvStep, PTL DEF Spec, ClosedForCause
=============================================================================
