---------------------------- MODULE EchoService ----------------------------
(***************************************************************************)
(* What an echo server promises to its clients, whatever it is built on:   *)
(* what a connection says comes back to it, a connection is closed when    *)
(* its client has left and not before, and nothing is left unanswered      *)
(* then.  A server may break down, and with it the connections it serves,  *)
(* but only for a cause: a client that has reset its connection, or more   *)
(* clients than it has room for.  A server that gives each client a        *)
(* process of its own loses the one connection only.  One that loses its   *)
(* place among what it has to do, and reads from what it has closed, is    *)
(* astray, which is a third cause: only the epoll server ever is.          *)
(***************************************************************************)
EXTENDS Naturals, FiniteSets

CONSTANTS Conns

VARIABLES phase,    \* of each connection
          unread,   \* connections with something that has not come back
          left,     \* how its client has left
          shared,   \* one process serves all connections
          room,     \* how many of them it has room for
          astray    \* an input: the server reads from what it has closed

vars == <<phase, unread, left, shared, room>>

Phases == {"new", "queued", "open", "closed", "broken"}

Init ==
    /\ phase = [c \in Conns |-> "new"]
    /\ unread = {}
    /\ left = [c \in Conns |-> "no"]
    /\ shared \in BOOLEAN
    /\ room \in Nat

Connect(c) ==
    /\ phase[c] = "new"
    /\ phase' = [phase EXCEPT ![c] = "queued"]
    /\ UNCHANGED <<unread, left, shared, room>>

Say(c) ==
    /\ phase[c] \in {"queued", "open"}
    /\ left[c] = "no"
    /\ unread' = unread \union {c}
    /\ UNCHANGED <<phase, left, shared, room>>

Leave(c) ==
    /\ phase[c] \in {"queued", "open"}
    /\ left[c] = "no"
    /\ \E how \in {"fin", "rst"} : left' = [left EXCEPT ![c] = how]
    /\ UNCHANGED <<phase, unread, shared, room>>

Accept(c) ==
    /\ phase[c] = "queued"
    /\ phase' = [phase EXCEPT ![c] = "open"]
    /\ UNCHANGED <<unread, left, shared, room>>

\* What is sent to a client that has closed makes it reset the connection.
Echo(c) ==
    /\ phase[c] = "open"
    /\ c \in unread
    /\ unread' = unread \ {c}
    /\ left' = [left EXCEPT ![c] = IF @ = "fin" THEN "rst" ELSE @]
    /\ UNCHANGED <<phase, shared, room>>

Close(c) ==
    /\ phase[c] = "open"
    /\ left[c] # "no"
    /\ c \notin unread
    /\ phase' = [phase EXCEPT ![c] = "closed"]
    /\ UNCHANGED <<unread, left, shared, room>>

Opened == {c \in Conns : phase[c] = "open"}

BreakOne(c) ==
    /\ ~shared
    /\ phase[c] = "open"
    /\ left[c] = "rst"
    /\ phase' = [phase EXCEPT ![c] = "broken"]
    /\ UNCHANGED <<unread, left, shared, room>>

BreakAll ==
    /\ shared
    /\ \/ \E c \in Opened : left[c] = "rst"
       \/ Cardinality(Opened) >= room
       \/ astray
    /\ phase' = [c \in Conns |-> IF phase[c] = "closed" THEN "closed" ELSE "broken"]
    /\ UNCHANGED <<unread, left, shared, room>>

Next ==
    \/ BreakAll
    \/ \E c \in Conns :
          Connect(c) \/ Say(c) \/ Leave(c) \/ Accept(c) \/ Echo(c) \/ Close(c)
          \/ BreakOne(c)

Spec == Init /\ [][Next]_vars
=============================================================================
