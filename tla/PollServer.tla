----------------------------- MODULE PollServer -----------------------------
(***************************************************************************)
(* moreIO_concurrent/poll_conncurrent/server.c: one process that waits     *)
(* with poll.  client[0] is the listening socket.  client[] lies on the    *)
(* stack and only fd is set at first (l.43): the revents of a slot poll    *)
(* has not been given yet holds garbage, and a read for it would block     *)
(* until there is something to read.                                       *)
(***************************************************************************)
EXTENDS EchoNet

CONSTANTS
    Slots,          \* OPEN_MAX
    DirtyStack      \* slots of client[] whose revents may begin with POLLIN

VARIABLES
    pc,             \* "poll", "accept", "scan" or "dead"
    client,         \* client[].fd
    revents,        \* the slots with POLLIN in revents
    maxi, nready, i

serverVars == <<pc, client, revents, maxi, nready, i>>
vars == <<netVars, serverVars>>

Init ==
    /\ NetInit
    /\ pc = "poll"
    /\ client = [k \in 0..Slots-1 |-> IF k = 0 THEN Listenfd ELSE NoFd]
    /\ revents \in SUBSET DirtyStack
    /\ maxi = 0
    /\ nready = 0
    /\ i = 1

NextTurn(n) == IF n <= 0 THEN "poll" ELSE "scan"

Exit == Die /\ pc' = "dead" /\ UNCHANGED <<client, revents, maxi, nready, i>>

\* poll writes revents of all the slots it is given, 0 where fd is negative.
Polled == {k \in 0..maxi : client[k] >= 0 /\ Readable(client[k])}

Poll ==
    /\ pc = "poll"
    /\ Polled # {}
    /\ revents' = Polled \union {k \in revents : k > maxi}
    /\ nready' = Cardinality(Polled)
    /\ i' = 1
    /\ pc' = IF 0 \in Polled THEN "accept" ELSE "scan"
    /\ UNCHANGED <<netVars, client, maxi>>

FreeSlots == {k \in 1..Slots-1 : client[k] < 0}
FirstFree == CHOOSE k \in FreeSlots : \A l \in FreeSlots : k <= l

AcceptClient ==
    /\ pc = "accept"
    /\ FreeSlots # {} /\ FreeFds # {}
    /\ \E f \in Fds : Accept(f) /\ client' = [client EXCEPT ![FirstFree] = f]
    /\ maxi' = IF FirstFree > maxi THEN FirstFree ELSE maxi
    /\ nready' = nready - 1
    /\ pc' = NextTurn(nready - 1)
    /\ UNCHANGED <<revents, i>>

AcceptFails ==
    /\ pc = "accept"
    /\ FreeSlots = {} \/ FreeFds = {}
    /\ Exit

Flagged == {k \in i..maxi : client[k] >= 0 /\ k \in revents}
IsNext(k) == k \in Flagged /\ \A l \in Flagged : k <= l

Handled(k) ==
    /\ i' = k + 1
    /\ nready' = nready - 1
    /\ pc' = NextTurn(nready - 1)
    /\ UNCHANGED <<revents, maxi>>

\* Read returned 0, or -1 with ECONNRESET; -1 with anything else ends the server.
CloseClient(k) ==
    /\ ReadEnd(sock[client[k]]) \/ ReadError(sock[client[k]])
    /\ Close(client[k])
    /\ client' = [client EXCEPT ![k] = NoFd]
    /\ Handled(k)

EchoClient(k) ==
    /\ ReadAndWrite(sock[client[k]]) \/ WriteFails(sock[client[k]])
    /\ Handled(k)
    /\ UNCHANGED client

KilledBy(k) == (Sigpipe(sock[client[k]]) \/ ReadError(sock[client[k]])) /\ Exit

Scan ==
    /\ pc = "scan"
    /\ \E k \in Flagged :
          IsNext(k) /\ sock[client[k]] # NoConn
          /\ (CloseClient(k) \/ EchoClient(k) \/ KilledBy(k))

ScanEnds ==
    /\ pc = "scan"
    /\ Flagged = {}
    /\ pc' = "poll"
    /\ UNCHANGED <<netVars, client, revents, maxi, nready, i>>

Server == Poll \/ AcceptClient \/ AcceptFails \/ Scan \/ ScanEnds
Next == Server \/ (Client /\ UNCHANGED serverVars)

Spec == Init /\ [][Next]_vars /\ WF_vars(Server)

-----------------------------------------------------------------------------
ReadsReady ==
    /\ pc = "accept" => Readable(Listenfd)
    /\ pc = "scan" => \A k \in Flagged : IsNext(k) => Readable(client[k])

Tables ==
    /\ \A k, l \in 0..Slots-1 : k # l /\ client[k] >= 0 => client[k] # client[l]
    /\ pc # "dead" =>
          {client[k] : k \in {l \in 1..Slots-1 : client[l] >= 0}}
              = {f \in Fds : sock[f] # NoConn}
=============================================================================
