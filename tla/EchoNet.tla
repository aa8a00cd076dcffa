------------------------------ MODULE EchoNet ------------------------------
(***************************************************************************)
(* What the echo servers of the repository share: the kernel's table of    *)
(* descriptors, the queue of the listening socket, the state of each       *)
(* connection, and clients that connect, talk and leave.  The calls of     *)
(* wrap.c are here as the outcomes they can have.                          *)
(*                                                                         *)
(* A client may talk for ever.  The servers read what is there (MAXLINE is *)
(* 80 and more) and write it back before they look at anything else: one   *)
(* step.  What a read leaves is said again.                                *)
(***************************************************************************)
EXTENDS Integers, Sequences, FiniteSets

CONSTANTS
    Conns,          \* connections, numbered as they are made
    Fds,            \* descriptors the server can still open: numbers
    NoConn,
    MayReset        \* clients may reset their connection, not just close it

Listenfd == 0
NoFd == -1

ASSUME NetAssumption ==
    /\ Fds \subseteq Nat \ {Listenfd}
    /\ IsFiniteSet(Fds)
    /\ Conns \subseteq Nat /\ NoConn \notin Conns
    /\ MayReset \in BOOLEAN

VARIABLES
    phase,          \* of each connection, as in EchoService
    backlog,        \* connections nobody has accepted yet
    sock,           \* the descriptor table of the server
    unread,         \* connections with something the server has not read
    left,           \* whether and how a client has left
    reported        \* resets that a Read has returned as an error already

netVars == <<phase, backlog, sock, unread, left, reported>>

NetInit ==
    /\ phase = [c \in Conns |-> "new"]
    /\ backlog = << >>
    /\ sock = [f \in Fds |-> NoConn]
    /\ unread = {}
    /\ left = [c \in Conns |-> "no"]
    /\ reported = {}

NetTypeOK ==
    /\ phase \in [Conns -> {"new", "queued", "open", "closed", "broken"}]
    /\ backlog \in Seq(Conns)
    /\ sock \in [Fds -> Conns \union {NoConn}]
    /\ unread \subseteq Conns
    /\ left \in [Conns -> {"no", "fin", "rst"}]
    /\ reported \subseteq Conns

-----------------------------------------------------------------------------
(* Clients *)

Connect(c) ==
    /\ phase[c] = "new"
    /\ \A d \in Conns : d < c => phase[d] # "new"
    /\ phase' = [phase EXCEPT ![c] = "queued"]
    /\ backlog' = Append(backlog, c)
    /\ UNCHANGED <<sock, unread, left, reported>>

Say(c) ==
    /\ phase[c] \in {"queued", "open"}
    /\ left[c] = "no"
    /\ c \notin unread
    /\ unread' = unread \union {c}
    /\ UNCHANGED <<phase, backlog, sock, left, reported>>

Leave(c) ==
    /\ phase[c] \in {"queued", "open"}
    /\ left[c] = "no"
    /\ \E how \in {"fin"} \union (IF MayReset THEN {"rst"} ELSE {}) :
          left' = [left EXCEPT ![c] = how]
    /\ UNCHANGED <<phase, backlog, sock, unread, reported>>

Client == \E c \in Conns : Connect(c) \/ Say(c) \/ Leave(c)

-----------------------------------------------------------------------------
(* Calls.  A descriptor can be read without blocking when something is     *)
(* there, the client has left, or for the listening socket when a          *)
(* connection waits.                                                       *)

Readable(f) ==
    IF f = Listenfd
      THEN backlog # << >>
      ELSE sock[f] # NoConn /\ (sock[f] \in unread \/ left[sock[f]] # "no")

FreeFds == {f \in Fds : sock[f] = NoConn}

\* Accept: the connection that has waited longest gets f, the lowest
\* descriptor that is free.
Accept(f) ==
    /\ backlog # << >>
    /\ f \in FreeFds
    /\ \A g \in FreeFds : f <= g
    /\ sock' = [sock EXCEPT ![f] = Head(backlog)]
    /\ phase' = [phase EXCEPT ![Head(backlog)] = "open"]
    /\ backlog' = Tail(backlog)
    /\ UNCHANGED <<unread, left, reported>>

\* Read returns n > 0, and Write or Writen sends it back.
ReadAndWrite(c) ==
    /\ c \in unread
    /\ left[c] # "rst"
    /\ unread' = unread \ {c}
    /\ left' = [left EXCEPT ![c] = IF @ = "fin" THEN "rst" ELSE @]
    /\ UNCHANGED <<phase, backlog, sock, reported>>

\* Read returns n > 0 from a connection that has been reset: the write fails
\* (and the program does not look), or it is SIGPIPE.
WriteFails(c) ==
    /\ c \in unread
    /\ left[c] = "rst"
    /\ unread' = unread \ {c}
    /\ reported' = reported \union {c}
    /\ UNCHANGED <<phase, backlog, sock, left>>
Sigpipe(c) ==
    /\ c \in unread
    /\ left[c] = "rst"

\* Read returns 0.
ReadEnd(c) ==
    /\ c \notin unread
    /\ left[c] # "no"

\* Read returns -1: a reset is an error once, then an end.
ReadError(c) ==
    /\ c \notin unread
    /\ left[c] = "rst"
    /\ c \notin reported
ReportError(c) ==
    /\ reported' = reported \union {c}
    /\ UNCHANGED <<phase, backlog, sock, unread, left>>

Close(f) ==
    /\ sock' = [sock EXCEPT ![f] = NoConn]
    /\ phase' = [phase EXCEPT ![sock[f]] = "closed"]
    /\ UNCHANGED <<backlog, unread, left, reported>>

\* The process ends: perr_exit, exit or SIGPIPE.
Die ==
    /\ phase' = [c \in Conns |-> IF phase[c] = "closed" THEN "closed" ELSE "broken"]
    /\ sock' = [f \in Fds |-> NoConn]
    /\ backlog' = << >>
    /\ UNCHANGED <<unread, left, reported>>
=============================================================================
