---------------------------- MODULE SelectServer ----------------------------
(***************************************************************************)
(* moreIO_concurrent/select_concurrent/server.c: one process that waits    *)
(* with select for all its connections.                                    *)
(***************************************************************************)
EXTENDS EchoNet

CONSTANTS Slots     \* FD_SETSIZE

VARIABLES
    pc,             \* "select", "accept", "scan" or "dead"
    client,         \* client[]: a descriptor or -1
    maxi, maxfd,
    allset, rset,
    nready, i

serverVars == <<pc, client, maxi, maxfd, allset, rset, nready, i>>
vars == <<netVars, serverVars>>

Init ==
    /\ NetInit
    /\ pc = "select"
    /\ client = [k \in 0..Slots-1 |-> NoFd]
    /\ maxi = -1
    /\ maxfd = Listenfd
    /\ allset = {Listenfd}
    /\ rset = {}
    /\ nready = 0
    /\ i = 0

\* --nready == 0: the rest of the table need not be looked at.
NextTurn(n) == IF n = 0 THEN "select" ELSE "scan"

Exit == Die /\ pc' = "dead" /\ UNCHANGED <<client, maxi, maxfd, allset, rset, nready, i>>

Select ==
    /\ pc = "select"
    /\ rset' = {f \in allset : f <= maxfd /\ Readable(f)}
    /\ rset' # {}
    /\ nready' = Cardinality(rset')
    /\ i' = 0
    /\ pc' = IF Listenfd \in rset' THEN "accept" ELSE "scan"
    /\ UNCHANGED <<netVars, client, maxi, maxfd, allset>>

FreeSlots == {k \in 0..Slots-1 : client[k] < 0}
FirstFree == CHOOSE k \in FreeSlots : \A l \in FreeSlots : k <= l

MaxfdKept(f) == maxfd               \* variant: maxfd is not raised
RaisedTo(f) == IF f > maxfd THEN f ELSE maxfd

AcceptClient ==
    /\ pc = "accept"
    /\ FreeSlots # {} /\ FreeFds # {}
    /\ \E f \in Fds :
          /\ Accept(f)
          /\ client' = [client EXCEPT ![FirstFree] = f]
          /\ allset' = allset \union {f}
          /\ maxfd' = RaisedTo(f)
    /\ maxi' = IF FirstFree > maxi THEN FirstFree ELSE maxi
    /\ nready' = nready - 1
    /\ pc' = NextTurn(nready - 1)
    /\ UNCHANGED <<rset, i>>

\* "too many clients", or accept fails.
AcceptFails ==
    /\ pc = "accept"
    /\ FreeSlots = {} \/ FreeFds = {}
    /\ Exit

\* The next connection of the table that select has named.
FlaggedInAllset ==                  \* variant: the set that select was not given
    {k \in i..maxi : client[k] >= 0 /\ client[k] \in allset}
Flagged == {k \in i..maxi : client[k] >= 0 /\ client[k] \in rset}
IsNext(k) == k \in Flagged /\ \A l \in Flagged : k <= l

Handled(k) ==
    /\ i' = k + 1
    /\ nready' = nready - 1
    /\ pc' = NextTurn(nready - 1)
    /\ UNCHANGED <<maxi, maxfd, rset>>

\* Read returned 0 ...
SlotKept(k) == UNCHANGED client     \* variant: the slot still names it
SlotCleared(k) == client' = [client EXCEPT ![k] = NoFd]

CloseClient(k) ==
    /\ ReadEnd(sock[client[k]])
    /\ Close(client[k])
    /\ allset' = allset \ {client[k]}
    /\ SlotCleared(k)
    /\ Handled(k)

\* ... or something, or -1, at which nothing is done.
EchoClient(k) ==
    /\ \/ ReadAndWrite(sock[client[k]])
       \/ WriteFails(sock[client[k]])
       \/ ReadError(sock[client[k]]) /\ ReportError(sock[client[k]])
    /\ Handled(k)
    /\ UNCHANGED <<client, allset>>

KilledBy(k) == Sigpipe(sock[client[k]]) /\ Exit

Scan ==
    /\ pc = "scan"
    /\ \E k \in Flagged :
          IsNext(k) /\ sock[client[k]] # NoConn
          /\ (CloseClient(k) \/ EchoClient(k) \/ KilledBy(k))

ScanEnds ==
    /\ pc = "scan"
    /\ Flagged = {}
    /\ pc' = "select"
    /\ UNCHANGED <<netVars, client, maxi, maxfd, allset, rset, nready, i>>

Server == Select \/ AcceptClient \/ AcceptFails \/ Scan \/ ScanEnds
Next == Server \/ (Client /\ UNCHANGED serverVars)

Spec == Init /\ [][Next]_vars /\ WF_vars(Server)

-----------------------------------------------------------------------------
\* What it is about to read is readable: Read does not block the others.
ReadsReady ==
    /\ pc = "accept" => Readable(Listenfd)
    /\ pc = "scan" => \A k \in Flagged : IsNext(k) => Readable(client[k])

\* The table, the set and the kernel agree on what is open.
Tables ==
    /\ allset = {Listenfd} \union {client[k] : k \in {l \in 0..Slots-1 : client[l] >= 0}}
    /\ \A k, l \in 0..Slots-1 : k # l /\ client[k] >= 0 => client[k] # client[l]
    /\ pc # "dead" => \A f \in Fds : (f \in allset) <=> (sock[f] # NoConn)
=============================================================================
