-------------------------- MODULE EchoServersProofs --------------------------
(***************************************************************************)
(* Each of the five echo servers keeps the promise of EchoService, for any *)
(* number of connections, descriptors, slots and elements of ts.  The      *)
(* proof goes call by call: what a call of wrap.c does to the descriptor   *)
(* table and the connections is shown once, and for each server that its   *)
(* own table always names a connection for which the call is in order.     *)
(***************************************************************************)
EXTENDS EchoServers, FiniteSetTheorems, FunctionTheorems, SequenceTheorems,
        NaturalsInduction, WellFoundedInduction, TLAPS

\* A connection is in one place: at most once in the queue, or with at most
\* one descriptor.
NetInv ==
    /\ NetTypeOK
    /\ \A f, g \in Fds : sock[f] = sock[g] /\ sock[f] # NoConn => f = g
    /\ \A f \in Fds : sock[f] # NoConn => phase[sock[f]] \in {"open", "broken"}
    /\ \A j \in 1..Len(backlog) : phase[backlog[j]] = "queued"
    /\ \A j, k \in 1..Len(backlog) : backlog[j] = backlog[k] => j = k

\* The servers that are one process hold what is open, and nothing else.
Served == \A f \in Fds : sock[f] # NoConn => phase[sock[f]] = "open"

Promised == [Service!Next]_(Service!vars)

-----------------------------------------------------------------------------
(* Clients and calls                                                       *)

\* What a client does is what EchoService lets it do.
LEMMA ClientCall ==
    ASSUME NetInv, Client, kind' = kind
    PROVE  /\ NetInv' /\ Promised
           /\ sock' = sock
           /\ \A c \in Conns : /\ phase[c] = "open" <=> phase'[c] = "open"
                               /\ left[c] # "no" =>
                                     left'[c] = left[c] /\ (c \in unread' <=> c \in unread)
                               /\ c \in unread => c \in unread'
                               /\ phase'[c] \in {"new", "queued"} <=> phase[c] \in {"new", "queued"}
           /\ Len(backlog) <= Len(backlog')
  <1>0. NetTypeOK
    BY DEF NetInv
  <1>1. ASSUME NEW c \in Conns, Connect(c)
        PROVE  /\ NetInv' /\ Service!Connect(c)
               /\ phase'[c] = "queued" /\ phase[c] = "new"
               /\ \A d \in Conns \ {c} : phase'[d] = phase[d]
               /\ Len(backlog) <= Len(backlog')
    <2>1. Service!Connect(c)
      BY <1>1 DEF Connect, Service!Connect
    <2>2. /\ backlog' \in Seq(Conns) /\ Len(backlog') = Len(backlog) + 1
          /\ \A j \in 1..Len(backlog) : backlog'[j] = backlog[j]
          /\ backlog'[Len(backlog) + 1] = c /\ Len(backlog) \in Nat
      BY <1>0, <1>1, AppendProperties DEF Connect, NetTypeOK
    <2>3. /\ phase'[c] = "queued" /\ phase[c] = "new"
          /\ \A d \in Conns \ {c} : phase'[d] = phase[d]
          /\ phase' \in [Conns -> {"new", "queued", "open", "closed", "broken"}]
      BY <1>0, <1>1 DEF Connect, NetTypeOK
    <2>4. NetTypeOK'
      BY <1>0, <1>1, <2>2, <2>3 DEF Connect, NetTypeOK
    <2>5. \A j \in 1..Len(backlog') : j \in 1..Len(backlog) \/ (j = Len(backlog) + 1 /\ backlog'[j] = c)
      BY <2>2
    <2>6. \A j \in 1..Len(backlog) : backlog[j] \in Conns /\ backlog[j] # c
      BY <1>0, <2>3 DEF NetInv, NetTypeOK
    <2>7. \A j \in 1..Len(backlog') : phase'[backlog'[j]] = "queued"
      BY <2>2, <2>3, <2>5, <2>6 DEF NetInv
    <2>8. \A j, k \in 1..Len(backlog') : backlog'[j] = backlog'[k] => j = k
      BY <2>2, <2>5, <2>6 DEF NetInv
    <2>9. \A f \in Fds : sock'[f] # NoConn => phase'[sock'[f]] \in {"open", "broken"}
      <3> SUFFICES ASSUME NEW f \in Fds, sock[f] # NoConn
                   PROVE  phase'[sock[f]] \in {"open", "broken"}
        BY <1>1 DEF Connect
      <3>1. sock[f] \in Conns /\ phase[sock[f]] \in {"open", "broken"}
        BY <1>0 DEF NetInv, NetTypeOK
      <3> QED
        BY <2>3, <3>1
    <2> QED
      BY <1>1, <2>1, <2>2, <2>3, <2>4, <2>7, <2>8, <2>9 DEF NetInv, Connect
  <1>2. ASSUME NEW c \in Conns, Say(c)
        PROVE  /\ NetInv' /\ Service!Say(c)
               /\ left[c] = "no" /\ unread' = unread \union {c}
    <2>1. Service!Say(c)
      BY <1>2 DEF Say, Service!Say
    <2>2. NetTypeOK'
      BY <1>0, <1>2 DEF Say, NetTypeOK
    <2> QED
      BY <1>2, <2>1, <2>2 DEF NetInv, Say
  <1>3. ASSUME NEW c \in Conns, Leave(c)
        PROVE  /\ NetInv' /\ Service!Leave(c) /\ left[c] = "no"
               /\ \A d \in Conns \ {c} : left'[d] = left[d]
    <2>1. PICK how \in {"fin", "rst"} : left' = [left EXCEPT ![c] = how]
      BY <1>3 DEF Leave
    <2>2. Service!Leave(c)
      BY <1>3, <2>1 DEF Leave, Service!Leave
    <2>3. /\ left' \in [Conns -> {"no", "fin", "rst"}]
          /\ \A d \in Conns \ {c} : left'[d] = left[d]
      BY <1>0, <2>1 DEF NetTypeOK
    <2>4. NetTypeOK'
      BY <1>0, <1>3, <2>3 DEF Leave, NetTypeOK
    <2> QED
      BY <1>3, <2>2, <2>3, <2>4 DEF NetInv, Leave
  <1>4. Len(backlog) \in Nat
    BY <1>0 DEF NetTypeOK
  <1>5. PICK c \in Conns : Connect(c) \/ Say(c) \/ Leave(c)
    BY DEF Client
  <1>6. CASE Connect(c)
    <2>1. Promised
      BY <1>1, <1>6 DEF Promised, Service!Next
    <2>2. sock' = sock /\ unread' = unread /\ left' = left
      BY <1>6 DEF Connect
    <2>3. NetInv' /\ Len(backlog) <= Len(backlog')
      BY <1>1, <1>6
    <2>4. \A d \in Conns : /\ phase[d] = "open" <=> phase'[d] = "open"
                           /\ phase'[d] \in {"new", "queued"} <=> phase[d] \in {"new", "queued"}
      BY <1>1, <1>6
    <2> QED
      BY <2>1, <2>2, <2>3, <2>4
  <1>7. CASE Say(c)
    <2>1. Promised
      BY <1>2, <1>7 DEF Promised, Service!Next
    <2>2. sock' = sock /\ phase' = phase /\ left' = left /\ backlog' = backlog
      BY <1>7 DEF Say
    <2>3. NetInv' /\ Len(backlog) <= Len(backlog')
      BY <1>2, <1>4, <1>7, <2>2
    <2> QED
      BY <1>2, <1>7, <2>1, <2>2, <2>3
  <1>8. CASE Leave(c)
    <2>1. Promised
      BY <1>3, <1>8 DEF Promised, Service!Next
    <2>2. sock' = sock /\ phase' = phase /\ unread' = unread /\ backlog' = backlog
      BY <1>8 DEF Leave
    <2>3. NetInv' /\ Len(backlog) <= Len(backlog')
      BY <1>3, <1>4, <1>8, <2>2
    <2>4. \A d \in Conns : left[d] # "no" => left'[d] = left[d]
      BY <1>3, <1>8
    <2> QED
      BY <2>1, <2>2, <2>3, <2>4
  <1> QED
    BY <1>5, <1>6, <1>7, <1>8

\* Accept takes the first connection of the queue to a free descriptor.
LEMMA AcceptCall ==
    ASSUME NetInv, NEW f \in Fds, Accept(f), kind' = kind
    PROVE  /\ NetInv' /\ Promised
           /\ sock[f] = NoConn /\ sock'[f] \in Conns
           /\ \A g \in Fds \ {f} : sock'[g] = sock[g]
           /\ phase[sock'[f]] = "queued" /\ phase'[sock'[f]] = "open"
           /\ \A c \in Conns : c # sock'[f] => phase'[c] = phase[c]
           /\ UNCHANGED <<unread, left, reported>>
  <1>0. NetTypeOK
    BY DEF NetInv
  <1>1. /\ Len(backlog) \in Nat /\ Len(backlog) > 0 /\ Head(backlog) = backlog[1]
        /\ Tail(backlog) \in Seq(Conns) /\ Len(Tail(backlog)) = Len(backlog) - 1
        /\ \A j \in 1..Len(Tail(backlog)) : Tail(backlog)[j] = backlog[j + 1]
        /\ \A j \in 1..Len(backlog) : backlog[j] \in Conns
    BY <1>0, HeadTailProperties, EmptySeq DEF Accept, NetTypeOK
  <1>2. PICK c \in Conns : c = Head(backlog)
    BY <1>1
  <1>3. phase[c] = "queued" /\ sock[f] = NoConn
    BY <1>1, <1>2 DEF NetInv, Accept, FreeFds
  <1>4. /\ sock'[f] = c /\ \A g \in Fds \ {f} : sock'[g] = sock[g]
        /\ sock' \in [Fds -> Conns \union {NoConn}]
        /\ phase'[c] = "open" /\ \A d \in Conns \ {c} : phase'[d] = phase[d]
        /\ phase' \in [Conns -> {"new", "queued", "open", "closed", "broken"}]
    BY <1>0, <1>2 DEF Accept, NetTypeOK
  <1>5. \A g \in Fds : sock[g] # NoConn => sock[g] \in Conns /\ sock[g] # c
    BY <1>0, <1>3 DEF NetInv, NetTypeOK
  <1>6. NetTypeOK'
    BY <1>0, <1>1, <1>4 DEF Accept, NetTypeOK
  <1>7. \A g, h \in Fds : sock'[g] = sock'[h] /\ sock'[g] # NoConn => g = h
    BY <1>4, <1>5 DEF NetInv
  <1>8. \A g \in Fds : sock'[g] # NoConn => phase'[sock'[g]] \in {"open", "broken"}
    BY <1>4, <1>5 DEF NetInv
  <1>9. backlog' = Tail(backlog)
    BY DEF Accept
  <1>10. \A j \in 1..Len(backlog') : /\ j + 1 \in 1..Len(backlog)
                                     /\ backlog'[j] = backlog[j + 1]
                                     /\ backlog[j + 1] \in Conns /\ backlog[j + 1] # c
    <2> TAKE j \in 1..Len(backlog')
    <2>1. j + 1 \in 1..Len(backlog) /\ 1 \in 1..Len(backlog) /\ j + 1 # 1
      BY <1>1, <1>9
    <2>2. backlog[j + 1] # backlog[1]
      BY <2>1 DEF NetInv
    <2> QED
      BY <1>1, <1>2, <1>9, <2>1, <2>2
  <1>11. \A j \in 1..Len(backlog') : phase'[backlog'[j]] = "queued"
    BY <1>4, <1>10 DEF NetInv
  <1>12. \A j, k \in 1..Len(backlog') : backlog'[j] = backlog'[k] => j = k
    <2> TAKE j, k \in 1..Len(backlog')
    <2>1. backlog'[j] = backlog'[k] => j + 1 = k + 1
      BY <1>10 DEF NetInv
    <2> QED
      BY <1>1, <1>9, <2>1
  <1>13. NetInv'
    BY <1>6, <1>7, <1>8, <1>11, <1>12 DEF NetInv, Accept
  <1>14. Service!Accept(c)
    BY <1>2, <1>3 DEF Accept, Service!Accept
  <1> QED
    BY <1>3, <1>4, <1>13, <1>14 DEF Accept, Promised, Service!Next

\* What a connection has said is sent back.
LEMMA EchoCall ==
    ASSUME NetInv, NEW c \in Conns, phase[c] = "open", ReadAndWrite(c) \/ WriteFails(c),
           kind' = kind
    PROVE  /\ NetInv' /\ Promised /\ sock' = sock /\ phase' = phase
           /\ unread' = unread \ {c}
           /\ \A d \in Conns \ {c} : left'[d] = left[d]
           /\ backlog' = backlog
           /\ \A d \in Conns : left[d] # "no" => left'[d] # "no"
  <1>0. NetTypeOK
    BY DEF NetInv
  <1>1. /\ c \in unread /\ unread' = unread \ {c}
        /\ left' = [left EXCEPT ![c] = IF @ = "fin" THEN "rst" ELSE @]
        /\ UNCHANGED <<phase, backlog, sock>>
    <2>1. CASE ReadAndWrite(c)
      BY <2>1 DEF ReadAndWrite
    <2>2. CASE WriteFails(c)
      BY <1>0, <2>2 DEF WriteFails, NetTypeOK
    <2> QED
      BY <2>1, <2>2
  <1>2. Service!Echo(c)
    BY <1>1 DEF Service!Echo
  <1>3. /\ unread' \subseteq Conns /\ left' \in [Conns -> {"no", "fin", "rst"}]
        /\ \A d \in Conns \ {c} : left'[d] = left[d]
        /\ \A d \in Conns : left[d] # "no" => left'[d] # "no"
    BY <1>0, <1>1 DEF NetTypeOK
  <1>4. reported' \subseteq Conns
    BY <1>0 DEF ReadAndWrite, WriteFails, NetTypeOK
  <1>5. NetTypeOK'
    BY <1>0, <1>1, <1>3, <1>4 DEF NetTypeOK
  <1>6. NetInv'
    BY <1>1, <1>5 DEF NetInv
  <1> QED
    BY <1>1, <1>2, <1>3, <1>6 DEF Promised, Service!Next

\* An error that is reported changes nothing a client could notice.
LEMMA ReportCall ==
    ASSUME NetInv, NEW c \in Conns, ReportError(c), kind' = kind
    PROVE  /\ NetInv' /\ Promised
           /\ UNCHANGED <<sock, phase, unread, left, backlog>>
  <1>1. UNCHANGED <<sock, phase, unread, left, backlog>>
    BY DEF ReportError
  <1>2. reported' \subseteq Conns
    BY DEF ReportError, NetInv, NetTypeOK
  <1>3. NetInv'
    BY <1>1, <1>2 DEF NetInv, NetTypeOK
  <1> QED
    BY <1>1, <1>3 DEF Promised, Service!vars

\* Only a connection whose client has left, and to which nothing is owed, is
\* closed.
LEMMA CloseCall ==
    ASSUME NetInv, NEW f \in Fds, sock[f] # NoConn, phase[sock[f]] = "open",
           ReadEnd(sock[f]) \/ ReadError(sock[f]), Close(f), kind' = kind
    PROVE  /\ NetInv' /\ Promised /\ sock'[f] = NoConn
           /\ \A g \in Fds \ {f} : sock'[g] = sock[g]
           /\ \A c \in Conns \ {sock[f]} : phase'[c] = phase[c]
           /\ phase'[sock[f]] = "closed"
           /\ UNCHANGED <<unread, left, backlog>>
  <1>0. NetTypeOK
    BY DEF NetInv
  <1>1. PICK c \in Conns : c = sock[f]
    BY <1>0 DEF NetTypeOK
  <1>2. c \notin unread /\ left[c] # "no"
    BY <1>1 DEF ReadEnd, ReadError
  <1>3. Service!Close(c)
    BY <1>1, <1>2 DEF Close, Service!Close
  <1>4. /\ sock' \in [Fds -> Conns \union {NoConn}] /\ sock'[f] = NoConn
        /\ \A g \in Fds \ {f} : sock'[g] = sock[g]
        /\ phase' \in [Conns -> {"new", "queued", "open", "closed", "broken"}]
        /\ phase'[c] = "closed" /\ \A d \in Conns \ {c} : phase'[d] = phase[d]
    BY <1>0, <1>1 DEF Close, NetTypeOK
  <1>5. NetTypeOK'
    BY <1>0, <1>4 DEF Close, NetTypeOK
  <1>6. \A g \in Fds : sock'[g] # NoConn =>
            /\ sock'[g] = sock[g] /\ sock[g] # c /\ sock[g] \in Conns
            /\ phase'[sock[g]] = phase[sock[g]]
    BY <1>0, <1>1, <1>4 DEF NetInv, NetTypeOK
  <1>7. \A j \in 1..Len(backlog) : backlog[j] # c /\ backlog[j] \in Conns
    BY <1>0, <1>1 DEF NetInv, NetTypeOK
  <1>8. UNCHANGED <<unread, left, backlog>>
    BY DEF Close
  <1>9. \A j \in 1..Len(backlog') : phase'[backlog'[j]] = "queued"
    BY <1>4, <1>7, <1>8 DEF NetInv
  <1>10. NetInv'
    BY <1>5, <1>6, <1>8, <1>9 DEF NetInv
  <1> QED
    BY <1>1, <1>3, <1>4, <1>8, <1>10 DEF Promised, Service!Next

\* EchoService counts as everybody does.
LEMMA SameCardinality ==
    ASSUME NEW S
    PROVE  Service!Cardinality(S) = Cardinality(S)
  BY DEF Service!Cardinality, Cardinality
LEMMA PollCardinality ==
    ASSUME NEW S
    PROVE  Poll!Cardinality(S) = Cardinality(S)
  BY DEF Poll!Cardinality, Cardinality

\* A server that is one process takes all its connections with it, and it has
\* a cause for that.
LEMMA DieCall ==
    ASSUME NetInv, Die, kind' = kind, kind # "process",
           \/ \E c \in Conns : phase[c] = "open" /\ left[c] = "rst"
           \/ Cardinality(Service!Opened) >=
                 (IF kind \in {"select", "poll"} /\ Room < Cardinality(Fds)
                    THEN Room ELSE Cardinality(Fds))
           \/ kind = "epoll" /\ Epoll!Astray
    PROVE  /\ NetInv' /\ Promised /\ \A f \in Fds : sock'[f] = NoConn
           /\ \A c \in Conns : phase'[c] \in {"closed", "broken"}
  <1>0. NetTypeOK
    BY DEF NetInv
  <1>1. /\ phase' = [c \in Conns |-> IF phase[c] = "closed" THEN "closed" ELSE "broken"]
        /\ \A f \in Fds : sock'[f] = NoConn
        /\ sock' \in [Fds -> Conns \union {NoConn}]
        /\ UNCHANGED <<unread, left, reported>>
    BY DEF Die
  <1>2. backlog' = << >> /\ << >> \in Seq(Conns) /\ Len(<< >>) = 0
    BY DEF Die
  <1>3. Service!BreakAll
    <2>1. CASE \E c \in Conns : phase[c] = "open" /\ left[c] = "rst"
      <3>1. \E c \in Service!Opened : left[c] = "rst"
        BY <2>1 DEF Service!Opened
      <3> QED
        BY <1>1, <3>1 DEF Service!BreakAll
    <2>2. CASE Cardinality(Service!Opened) >=
                  (IF kind \in {"select", "poll"} /\ Room < Cardinality(Fds)
                     THEN Room ELSE Cardinality(Fds))
      BY <1>1, <2>2, SameCardinality DEF Service!BreakAll
    <2>3. CASE kind = "epoll" /\ Epoll!Astray
      BY <1>1, <2>3 DEF Service!BreakAll
    <2> QED
      BY <2>1, <2>2, <2>3
  <1>4. NetTypeOK'
    <2>1. backlog' \in Seq(Conns)
      BY <1>2
    <2> QED
      BY <1>0, <1>1, <2>1 DEF NetTypeOK
  <1>5. 1..Len(backlog') = {}
    BY <1>2
  <1>6. NetInv'
    BY <1>1, <1>4, <1>5 DEF NetInv
  <1> QED
    BY <1>1, <1>3, <1>6 DEF Promised, Service!Next

-----------------------------------------------------------------------------
(* Servers that are one process                                            *)

\* What is open has a descriptor.
Held == \A c \in Conns : phase[c] = "open" => \E f \in Fds : sock[f] = c
OneProcess == NetInv /\ Served /\ Held

LEMMA OpenedFinite ==
    ASSUME OneProcess
    PROVE  IsFiniteSet(Service!Opened)
  <1> DEFINE Used == {f \in Fds : sock[f] # NoConn}
             s == [f \in Used |-> sock[f]]
  <1>1. IsFiniteSet(Used)
    BY NetAssumption, FS_Subset
  <1>2. s \in [Used -> Service!Opened]
    <2>1. \A f \in Used : sock[f] \in Service!Opened
      BY DEF OneProcess, Served, NetInv, NetTypeOK, Service!Opened
    <2> QED
      BY <2>1
  <1>3. \A c \in Service!Opened : \E f \in Used : s[f] = c
    BY NetAssumption DEF OneProcess, Held, Service!Opened
  <1>4. s \in Surjection(Used, Service!Opened)
    BY <1>2, <1>3, Fun_IsSurj
  <1> QED
    BY <1>1, <1>4, FS_Surjection

\* Without a free descriptor there are as many connections as descriptors.
LEMMA NoFdCause ==
    ASSUME OneProcess, FreeFds = {}
    PROVE  /\ Cardinality(Fds) <= Cardinality(Service!Opened)
           /\ Cardinality(Fds) \in Nat /\ Cardinality(Service!Opened) \in Nat
  <1>1. sock \in [Fds -> Service!Opened]
    <2>1. \A f \in Fds : sock[f] \in Service!Opened
      BY DEF OneProcess, Served, NetInv, NetTypeOK, Service!Opened, FreeFds
    <2> QED
      BY <2>1 DEF OneProcess, NetInv, NetTypeOK
  <1>2. \A f, g \in Fds : sock[f] = sock[g] => f = g
    BY DEF OneProcess, NetInv, FreeFds
  <1>3. sock \in Injection(Fds, Service!Opened)
    BY <1>1, <1>2, Fun_IsInj
  <1> QED
    BY <1>3, NetAssumption, OpenedFinite, FS_Injection, FS_CardinalityType

\* Without a free slot there are as many connections as slots.
LEMMA NoSlotCause ==
    ASSUME OneProcess, NEW n \in Int, NEW m \in Nat,
           \A k \in n+1..n+m : client[k] \in Fds /\ sock[client[k]] # NoConn,
           \A k, l \in n+1..n+m : client[k] = client[l] => k = l
    PROVE  m <= Cardinality(Service!Opened) /\ Cardinality(Service!Opened) \in Nat
  <1> DEFINE s == [k \in n+1..n+m |-> sock[client[k]]]
  <1>1. s \in [n+1..n+m -> Service!Opened]
    <2>1. \A k \in n+1..n+m : sock[client[k]] \in Service!Opened
      BY DEF OneProcess, Served, NetInv, NetTypeOK, Service!Opened
    <2> QED
      BY <2>1
  <1>2. \A k, l \in n+1..n+m : s[k] = s[l] => k = l
    BY DEF OneProcess, NetInv
  <1>3. s \in Injection(n+1..n+m, Service!Opened)
    BY <1>1, <1>2, Fun_IsInj
  <1>4. Cardinality(n+1..n+m) <= Cardinality(Service!Opened)
    BY <1>3, OpenedFinite, FS_Injection
  <1>5. Cardinality(n+1..n+m) = m
    BY FS_Interval
  <1> QED
    BY <1>4, <1>5, OpenedFinite, FS_CardinalityType

LEMMA ClientOne ==
    ASSUME OneProcess, Client, kind' = kind
    PROVE  OneProcess' /\ Promised
  BY ClientCall DEF OneProcess, Served, Held, NetInv, NetTypeOK

LEMMA AcceptOne ==
    ASSUME OneProcess, NEW f \in Fds, Accept(f), kind' = kind
    PROVE  OneProcess' /\ Promised /\ sock[f] = NoConn /\ sock'[f] # NoConn
           /\ (\A g \in Fds \ {f} : sock'[g] = sock[g])
  <1>0. NetInv
    BY DEF OneProcess
  <1>1. /\ NetInv' /\ Promised
        /\ sock[f] = NoConn /\ sock'[f] \in Conns
        /\ \A g \in Fds \ {f} : sock'[g] = sock[g]
        /\ phase[sock'[f]] = "queued" /\ phase'[sock'[f]] = "open"
        /\ \A c \in Conns : c # sock'[f] => phase'[c] = phase[c]
    BY <1>0, AcceptCall
  <1>2. Served'
    <2> SUFFICES ASSUME NEW g \in Fds, sock'[g] # NoConn
                 PROVE  phase'[sock'[g]] = "open"
      BY DEF Served
    <2>1. CASE g = f
      BY <1>1, <2>1
    <2>2. CASE g # f
      <3>1. sock'[g] = sock[g] /\ sock[g] \in Conns /\ phase[sock[g]] = "open"
        BY <1>1, <2>2 DEF OneProcess, Served, NetInv, NetTypeOK
      <3> QED
        BY <1>1, <3>1
    <2> QED
      BY <2>1, <2>2
  <1>3. Held'
    BY <1>1, NetAssumption DEF OneProcess, Held
  <1> QED
    BY <1>1, <1>2, <1>3, NetAssumption DEF OneProcess

LEMMA CloseOne ==
    ASSUME OneProcess, NEW f \in Fds, sock[f] # NoConn,
           ReadEnd(sock[f]) \/ ReadError(sock[f]), Close(f), kind' = kind
    PROVE  OneProcess' /\ Promised /\ sock'[f] = NoConn
           /\ (\A g \in Fds \ {f} : sock'[g] = sock[g])
           /\ UNCHANGED <<unread, left, backlog>>
  <1>0. NetInv /\ phase[sock[f]] = "open" /\ sock[f] \in Conns
    BY DEF OneProcess, Served, NetInv, NetTypeOK
  <1>1. /\ NetInv' /\ Promised /\ sock'[f] = NoConn
        /\ \A g \in Fds \ {f} : sock'[g] = sock[g]
        /\ \A c \in Conns \ {sock[f]} : phase'[c] = phase[c]
        /\ phase'[sock[f]] = "closed"
        /\ UNCHANGED <<unread, left, backlog>>
    BY <1>0, CloseCall
  <1>2. Served'
    <2> SUFFICES ASSUME NEW g \in Fds, sock'[g] # NoConn
                 PROVE  phase'[sock'[g]] = "open"
      BY DEF Served
    <2>1. /\ sock'[g] = sock[g] /\ sock[g] \in Conns /\ phase[sock[g]] = "open"
          /\ sock[g] # sock[f]
      BY <1>1 DEF OneProcess, Served, NetInv, NetTypeOK
    <2> QED
      BY <1>1, <2>1
  <1>3. Held'
    <2> SUFFICES ASSUME NEW c \in Conns, phase'[c] = "open"
                 PROVE  \E g \in Fds : sock'[g] = c
      BY DEF Held
    <2>1. c # sock[f] /\ phase[c] = "open"
      BY <1>0, <1>1
    <2>2. PICK g \in Fds : sock[g] = c
      BY <2>1 DEF OneProcess, Held
    <2> QED
      BY <1>1, <2>1, <2>2
  <1> QED
    BY <1>1, <1>2, <1>3 DEF OneProcess

LEMMA EchoOne ==
    ASSUME OneProcess, NEW f \in Fds, sock[f] # NoConn, kind' = kind,
           \/ ReadAndWrite(sock[f])
           \/ WriteFails(sock[f])
           \/ ReportError(sock[f])
    PROVE  OneProcess' /\ Promised /\ sock' = sock /\ backlog' = backlog
           /\ (\A d \in Conns \ {sock[f]} : (d \in unread <=> d \in unread') /\ left'[d] = left[d])
  <1>0. NetInv /\ phase[sock[f]] = "open" /\ sock[f] \in Conns
    BY DEF OneProcess, Served, NetInv, NetTypeOK
  <1>1. /\ NetInv' /\ Promised /\ sock' = sock /\ phase' = phase
        /\ \A d \in Conns \ {sock[f]} : (d \in unread <=> d \in unread') /\ left'[d] = left[d]
        /\ backlog' = backlog
    <2>1. CASE ReadAndWrite(sock[f]) \/ WriteFails(sock[f])
      BY <1>0, <2>1, EchoCall
    <2>2. CASE ReportError(sock[f])
      BY <1>0, <2>2, ReportCall
    <2> QED
      BY <2>1, <2>2
  <1> QED
    BY <1>1 DEF OneProcess, Served, Held

LEMMA DieOne ==
    ASSUME OneProcess, Die, kind' = kind, kind # "process",
           \/ \E f \in Fds : sock[f] # NoConn /\ left[sock[f]] = "rst"
           \/ FreeFds = {}
           \/ /\ kind \in {"select", "poll"}
              /\ Room <= Cardinality(Service!Opened)
              /\ Cardinality(Service!Opened) \in Nat
           \/ kind = "epoll" /\ Epoll!Astray
    PROVE  OneProcess' /\ Promised /\ \A f \in Fds : sock'[f] = NoConn
  <1>0. NetInv /\ Room \in Nat /\ Cardinality(Fds) \in Nat
    BY ServersAssumption, NetAssumption, FS_CardinalityType DEF OneProcess
  <1>1. \/ \E c \in Conns : phase[c] = "open" /\ left[c] = "rst"
        \/ Cardinality(Service!Opened) >=
              (IF kind \in {"select", "poll"} /\ Room < Cardinality(Fds)
                 THEN Room ELSE Cardinality(Fds))
        \/ kind = "epoll" /\ Epoll!Astray
    <2>1. CASE \E f \in Fds : sock[f] # NoConn /\ left[sock[f]] = "rst"
      BY <2>1 DEF OneProcess, Served, NetInv, NetTypeOK
    <2>2. CASE FreeFds = {}
      BY <1>0, <2>2, NoFdCause
    <2>3. CASE /\ kind \in {"select", "poll"}
               /\ Room <= Cardinality(Service!Opened)
               /\ Cardinality(Service!Opened) \in Nat
      BY <1>0, <2>3
    <2>4. CASE kind = "epoll" /\ Epoll!Astray
      BY <2>4
    <2> QED
      BY <2>1, <2>2, <2>3, <2>4
  <1>2. /\ NetInv' /\ Promised /\ \A f \in Fds : sock'[f] = NoConn
        /\ \A c \in Conns : phase'[c] \in {"closed", "broken"}
    BY <1>0, <1>1, DieCall
  <1> QED
    BY <1>2 DEF OneProcess, Served, Held

\* The server's calls are those of EchoNet.
LEMMA SelectCalls ==
    ASSUME NEW f
    PROVE  /\ Select!Accept(f) <=> Accept(f)
           /\ Select!ReadAndWrite(f) <=> ReadAndWrite(f)
           /\ Select!WriteFails(f) <=> WriteFails(f)
           /\ Select!Sigpipe(f) <=> Sigpipe(f)
           /\ Select!ReadEnd(f) <=> ReadEnd(f)
           /\ Select!ReadError(f) <=> ReadError(f)
           /\ Select!ReportError(f) <=> ReportError(f)
           /\ Select!Close(f) <=> Close(f)
           /\ Select!Readable(f) <=> Readable(f)
           /\ (Select!Die <=> Die) /\ Select!FreeFds = FreeFds
  BY DEF Select!Accept, Select!ReadAndWrite, Select!WriteFails, Select!Sigpipe, Select!ReadEnd,
         Select!ReadError, Select!ReportError, Select!Close, Select!Readable, Select!Die,
         Select!FreeFds, Select!Listenfd,
         Accept, ReadAndWrite, WriteFails, Sigpipe, ReadEnd, ReadError, ReportError, Close, Readable, Die, FreeFds, Listenfd

-----------------------------------------------------------------------------
(* select *)

\* A set of numbers that is not empty has a least one.
LEMMA LeastNumber ==
    ASSUME NEW S \in SUBSET Nat, S # {}
    PROVE  (CHOOSE x \in S : \A y \in S : x <= y) \in S
  <1>1. PICK x \in S : \A y \in S : ~(<<y, x>> \in OpToRel(<, Nat))
    BY NatLessThanWellFounded, WFMin
  <1>2. \A y \in S : ~(y < x)
    BY <1>1 DEF OpToRel
  <1>3. \A y \in S : x <= y
    BY <1>2
  <1> QED
    BY <1>3

\* No client can make a descriptor silent again.
LEMMA StaysReadable ==
    ASSUME NetInv, Client, kind' = kind, NEW f \in Fds, Readable(f)
    PROVE  Readable(f)'
  <1>1. f # Listenfd
    BY NetAssumption
  <1>2. PICK c \in Conns : c = sock[f] /\ c # NoConn
    BY <1>1, NetAssumption DEF Readable, NetInv, NetTypeOK
  <1>3. /\ sock' = sock /\ (c \in unread => c \in unread')
        /\ left[c] # "no" => left'[c] = left[c]
    BY ClientCall
  <1>4. c \in unread \/ left[c] # "no"
    BY <1>1, <1>2 DEF Readable
  <1> QED
    BY <1>1, <1>2, <1>3, <1>4 DEF Readable

LEMMA ListenStaysReadable ==
    ASSUME NetInv, Client, kind' = kind, Readable(Listenfd)
    PROVE  Readable(Listenfd)'
  <1>1. backlog \in Seq(Conns) /\ backlog' \in Seq(Conns) /\ Len(backlog) <= Len(backlog')
    BY ClientCall DEF NetInv, NetTypeOK
  <1>2. backlog # << >>
    BY DEF Readable
  <1>3. backlog' # << >>
    BY <1>1, <1>2, EmptySeq
  <1> QED
    BY <1>3 DEF Readable

SelectSlots == 0..Room-1
SelectTable ==
    /\ client \in [SelectSlots -> Fds \union {NoFd}]
    /\ \A k, l \in SelectSlots : k # l /\ client[k] >= 0 => client[k] # client[l]
    /\ maxi \in -1..Room-1 /\ i \in 0..Room
    /\ allset \subseteq {Listenfd} \union Fds /\ Listenfd \in allset
    /\ \A f \in Fds : f \in allset <=> \E k \in SelectSlots : client[k] = f
    /\ pc # "dead" => \A f \in Fds : (f \in allset) <=> (sock[f] # NoConn)

\* What select has named has something to read until it is read.
SelectReady ==
    /\ pc = "accept" => rset \subseteq allset /\ Readable(Listenfd)
    /\ pc \in {"accept", "scan"} =>
          \A k \in SelectSlots, f \in Fds :
             k >= i /\ client[k] = f /\ f \in rset => Readable(f)

SelectInv == OneProcess /\ SelectTable /\ SelectReady

\* A slot that is taken names a connection.
LEMMA SelectSlot ==
    ASSUME SelectInv, pc # "dead", NEW k \in SelectSlots, client[k] >= 0
    PROVE  client[k] \in Fds /\ sock[client[k]] # NoConn
  <1>1. client[k] \in Fds
    BY NetAssumption DEF SelectInv, SelectTable, NoFd
  <1>2. client[k] \in allset
    BY <1>1 DEF SelectInv, SelectTable
  <1> QED
    BY <1>1, <1>2 DEF SelectInv, SelectTable

LEMMA SelectDies ==
    ASSUME SelectInv, kind = "select", kind' = kind, Select!Exit,
           \/ \E f \in Fds : sock[f] # NoConn /\ left[sock[f]] = "rst"
           \/ FreeFds = {}
           \/ /\ kind \in {"select", "poll"}
              /\ Room <= Cardinality(Service!Opened)
              /\ Cardinality(Service!Opened) \in Nat
    PROVE  SelectInv' /\ Promised
  <1>1. OneProcess /\ Die
    BY SelectCalls DEF SelectInv, Select!Exit
  <1>2. OneProcess' /\ Promised
    BY <1>1, DieOne
  <1>3. SelectTable' /\ SelectReady'
    BY DEF SelectInv, SelectTable, SelectReady, Select!Exit
  <1> QED
    BY <1>2, <1>3 DEF SelectInv

LEMMA SelectStepInv ==
    ASSUME SelectInv, SelectStep
    PROVE  SelectInv' /\ Promised
  <1>0. /\ OneProcess /\ SelectTable /\ SelectReady /\ NetInv /\ NetTypeOK
        /\ kind = "select" /\ kind' = kind
    BY DEF SelectInv, OneProcess, NetInv, SelectStep, RestOfSelect
  <1>1. CASE Select!Select
    <2>1. UNCHANGED <<phase, backlog, sock, unread, left, reported, client, maxi, allset>>
      BY <1>1 DEF Select!Select, Select!netVars
    <2>2. OneProcess' /\ Promised
      BY <1>0, <2>1 DEF OneProcess, NetInv, NetTypeOK, Served, Held, Promised, Service!vars
    <2>3. /\ rset' = {f \in allset : f <= maxfd /\ Readable(f)}
          /\ i' = 0 /\ pc' \in {"accept", "scan"}
          /\ pc' = "accept" => Readable(Listenfd)
      BY <1>1, SelectCalls DEF Select!Select, Select!Listenfd, Listenfd
    <2>4. SelectTable'
      BY <1>0, <1>1, <2>1, <2>3, ServersAssumption DEF SelectTable, Select!Select
    <2>5. SelectReady'
      BY <2>1, <2>3 DEF SelectReady, Readable
    <2> QED
      BY <2>2, <2>4, <2>5 DEF SelectInv
  <1>2. CASE Select!AcceptClient
    <2>1. PICK f \in Fds : /\ Accept(f)
                           /\ client' = [client EXCEPT ![Select!FirstFree] = f]
                           /\ allset' = allset \union {f}
      BY <1>2, SelectCalls DEF Select!AcceptClient
    <2>2. PICK k \in SelectSlots : k = Select!FirstFree /\ client[k] < 0
      <3>1. Select!FreeSlots \in SUBSET Nat /\ Select!FreeSlots # {}
        BY <1>2, ServersAssumption DEF Select!AcceptClient, Select!FreeSlots
      <3> QED
        BY <3>1, LeastNumber DEF Select!FirstFree, Select!FreeSlots, SelectSlots
    <2>3. /\ OneProcess' /\ Promised /\ sock[f] = NoConn /\ sock'[f] # NoConn
          /\ \A g \in Fds \ {f} : sock'[g] = sock[g]
          /\ UNCHANGED <<unread, left>>
      BY <1>0, <2>1, AcceptOne DEF Accept
    <2>4. /\ pc = "accept" /\ pc' \in {"select", "scan"} /\ rset' = rset /\ i' = i
          /\ maxi' \in {k, maxi} /\ f \notin allset /\ f >= 0
      <3>1. /\ pc = "accept" /\ pc' \in {"select", "scan"} /\ rset' = rset /\ i' = i
            /\ maxi' \in {k, maxi}
        BY <1>2, <2>2 DEF Select!AcceptClient, Select!NextTurn
      <3> QED
        BY <1>0, <2>3, <3>1, NetAssumption DEF SelectTable
    <2>5. /\ client' \in [SelectSlots -> Fds \union {NoFd}] /\ client'[k] = f
          /\ \A l \in SelectSlots \ {k} : client'[l] = client[l]
      BY <1>0, <2>1, <2>2 DEF SelectTable
    <2>6. \A l \in SelectSlots : client[l] >= 0 => client[l] \in allset /\ client[l] # f
      <3> SUFFICES ASSUME NEW l \in SelectSlots, client[l] >= 0
                   PROVE  client[l] \in allset
        BY <2>4
      <3>1. client[l] \in Fds
        BY <1>0, NetAssumption DEF SelectTable, NoFd
      <3> QED
        BY <1>0, <3>1 DEF SelectTable
    <2>7. SelectTable'
      <3>1. \A l, m \in SelectSlots : l # m /\ client'[l] >= 0 => client'[l] # client'[m]
        BY <1>0, <2>4, <2>5, <2>6 DEF SelectTable
      <3>2. maxi' \in -1..Room-1 /\ i' \in 0..Room
        BY <1>0, <2>2, <2>4, ServersAssumption DEF SelectTable, SelectSlots
      <3>3. \A g \in Fds : g \in allset' <=> \E l \in SelectSlots : client'[l] = g
        <4> TAKE g \in Fds
        <4>1. CASE g = f
          BY <2>1, <2>5, <4>1
        <4>2. CASE g # f
          <5>1. \A l \in SelectSlots : client'[l] = g <=> client[l] = g
            BY <2>2, <2>5, <4>2, NetAssumption
          <5> QED
            BY <1>0, <2>1, <4>2, <5>1 DEF SelectTable
        <4> QED
          BY <4>1, <4>2
      <3>4. allset' \subseteq {Listenfd} \union Fds /\ Listenfd \in allset'
        BY <1>0, <2>1 DEF SelectTable
      <3>5. \A g \in Fds : (g \in allset') <=> (sock'[g] # NoConn)
        BY <1>0, <2>1, <2>3, <2>4 DEF SelectTable
      <3> QED
        BY <2>5, <3>1, <3>2, <3>3, <3>4, <3>5 DEF SelectTable
    <2>8. SelectReady'
      <3> SUFFICES ASSUME NEW l \in SelectSlots, NEW g \in Fds,
                          l >= i, client'[l] = g, g \in rset
                   PROVE  Readable(g)'
        BY <2>4 DEF SelectReady
      <3>1. g \in allset /\ g # f
        BY <1>0, <2>4 DEF SelectReady
      <3>2. client[l] = g
        BY <2>5, <3>1
      <3>3. Readable(g)
        BY <1>0, <2>4, <3>2 DEF SelectReady
      <3>4. sock'[g] = sock[g] /\ g # Listenfd
        BY <2>3, <3>1, NetAssumption
      <3> QED
        BY <2>3, <3>3, <3>4 DEF Readable
    <2> QED
      BY <2>3, <2>7, <2>8 DEF SelectInv
  <1>3. CASE Select!AcceptFails
    <2>1. pc = "accept" /\ Select!Exit /\ (Select!FreeSlots = {} \/ FreeFds = {})
      BY <1>3, SelectCalls DEF Select!AcceptFails
    <2>2. CASE Select!FreeSlots = {}
      <3>1. \A k \in SelectSlots : client[k] >= 0
        <4> SUFFICES ASSUME NEW k \in SelectSlots, ~(client[k] >= 0)
                     PROVE  FALSE
          OBVIOUS
        <4>1. client[k] \in Nat \/ client[k] = -1
          BY <1>0, NetAssumption DEF SelectTable, NoFd
        <4>2. client[k] < 0
          BY <4>1
        <4> QED
          BY <2>2, <4>2 DEF Select!FreeSlots, SelectSlots
      <3>2. \A k \in SelectSlots : client[k] \in Fds /\ sock[client[k]] # NoConn
        BY <2>1, <3>1, SelectSlot
      <3>3. \A k, l \in SelectSlots : client[k] = client[l] => k = l
        BY <1>0, <3>1 DEF SelectTable
      <3>4. -1 + 1..-1 + Room = SelectSlots
        BY ServersAssumption DEF SelectSlots
      <3>5. \A k \in -1 + 1..-1 + Room : client[k] \in Fds /\ sock[client[k]] # NoConn
        BY <3>2, <3>4
      <3>6. \A k, l \in -1 + 1..-1 + Room : client[k] = client[l] => k = l
        BY <3>3, <3>4
      <3>7. -1 \in Int /\ Room \in Nat
        BY ServersAssumption
      <3>8. Room <= Cardinality(Service!Opened) /\ Cardinality(Service!Opened) \in Nat
        BY <1>0, <3>5, <3>6, <3>7, NoSlotCause
      <3> QED
        BY <1>0, <2>1, <3>8, SelectDies
    <2>3. CASE FreeFds = {}
      BY <1>0, <2>1, <2>3, SelectDies
    <2> QED
      BY <2>1, <2>2, <2>3
  <1>4. CASE Select!Scan
    <2>1. PICK k \in SelectSlots :
            /\ k >= i /\ client[k] >= 0 /\ client[k] \in rset /\ k <= maxi
            /\ Select!CloseClient(k) \/ Select!EchoClient(k) \/ Select!KilledBy(k)
      <3>1. PICK k \in Select!Flagged :
               Select!CloseClient(k) \/ Select!EchoClient(k) \/ Select!KilledBy(k)
        BY <1>4 DEF Select!Scan
      <3>2. k \in i..maxi /\ client[k] >= 0 /\ client[k] \in rset
        BY DEF Select!Flagged
      <3>3. k \in SelectSlots /\ k >= i /\ k <= maxi
        BY <1>0, <3>2, ServersAssumption DEF SelectTable, SelectSlots
      <3> QED
        BY <3>1, <3>2, <3>3
    <2>2. pc = "scan"
      BY <1>4 DEF Select!Scan
    <2>3. PICK f \in Fds : f = client[k] /\ sock[f] # NoConn
      BY <2>1, <2>2, SelectSlot
    <2>4. \A l \in SelectSlots \ {k} : client[l] >= 0 => client[l] \in Fds \ {f}
      BY <1>0, <2>1, <2>3 DEF SelectTable, NoFd
    <2>5. CASE Select!CloseClient(k)
      <3>1. /\ ReadEnd(sock[f]) /\ Close(f) /\ allset' = allset \ {f}
            /\ client' = [client EXCEPT ![k] = NoFd]
        BY <2>3, <2>5, SelectCalls DEF Select!CloseClient, Select!SlotCleared, NoFd, Select!NoFd
      <3>2. /\ i' = k + 1 /\ pc' \in {"select", "scan"} /\ maxi' = maxi /\ rset' = rset
        BY <2>5 DEF Select!CloseClient, Select!Handled, Select!NextTurn
      <3>3. /\ OneProcess' /\ Promised /\ sock'[f] = NoConn
            /\ \A g \in Fds \ {f} : sock'[g] = sock[g]
            /\ UNCHANGED <<unread, left, backlog>>
        BY <1>0, <2>3, <3>1, CloseOne
      <3>4. /\ client' \in [SelectSlots -> Fds \union {NoFd}] /\ client'[k] = NoFd
            /\ \A l \in SelectSlots \ {k} : client'[l] = client[l]
            /\ ~(NoFd >= 0)
        BY <1>0, <3>1 DEF SelectTable, NoFd
      <3>5. SelectTable'
        <4>1. \A l, m \in SelectSlots : l # m /\ client'[l] >= 0 => client'[l] # client'[m]
          BY <1>0, <3>4 DEF SelectTable
        <4>2. maxi' \in -1..Room-1 /\ i' \in 0..Room
          BY <1>0, <3>2, ServersAssumption DEF SelectTable, SelectSlots
        <4>3. \A g \in Fds : g \in allset' <=> \E l \in SelectSlots : client'[l] = g
          <5> TAKE g \in Fds
          <5>1. \A l \in SelectSlots : client'[l] = g <=> client[l] = g /\ g # f
            BY <2>1, <2>3, <2>4, <3>4, NetAssumption DEF NoFd
          <5> QED
            BY <1>0, <3>1, <5>1 DEF SelectTable
        <4>4. f # Listenfd
          BY NetAssumption
        <4>5. allset' \subseteq {Listenfd} \union Fds /\ Listenfd \in allset'
          BY <1>0, <3>1, <4>4 DEF SelectTable
        <4>6. \A g \in Fds : (g \in allset') <=> (sock'[g] # NoConn)
          BY <1>0, <2>2, <3>1, <3>3 DEF SelectTable
        <4> QED
          BY <3>4, <4>1, <4>2, <4>3, <4>5, <4>6 DEF SelectTable
      <3>6. SelectReady'
        <4> SUFFICES ASSUME NEW l \in SelectSlots, NEW g \in Fds,
                            l >= k + 1, client'[l] = g, g \in rset
                     PROVE  Readable(g)'
          BY <3>2 DEF SelectReady
        <4>1. l # k /\ l >= i
          BY <1>0, <2>1 DEF SelectTable, SelectSlots
        <4>2. client[l] = g /\ g # f
          BY <2>1, <2>3, <2>4, <3>4, <4>1, NetAssumption
        <4>3. Readable(g)
          BY <1>0, <2>2, <4>1, <4>2 DEF SelectReady
        <4>4. sock'[g] = sock[g] /\ g # Listenfd
          BY <3>3, <4>2, NetAssumption
        <4> QED
          BY <3>3, <4>3, <4>4 DEF Readable
      <3> QED
        BY <3>3, <3>5, <3>6 DEF SelectInv
    <2>6. CASE Select!EchoClient(k)
      <3>1. ReadAndWrite(sock[f]) \/ WriteFails(sock[f]) \/ ReportError(sock[f])
        BY <2>3, <2>6, SelectCalls DEF Select!EchoClient
      <3>2. /\ i' = k + 1 /\ pc' \in {"select", "scan"} /\ maxi' = maxi /\ rset' = rset
            /\ client' = client /\ allset' = allset
        BY <2>6 DEF Select!EchoClient, Select!Handled, Select!NextTurn
      <3>3. /\ OneProcess' /\ Promised /\ sock' = sock
            /\ \A d \in Conns \ {sock[f]} : (d \in unread <=> d \in unread') /\ left'[d] = left[d]
        BY <1>0, <2>3, <3>1, EchoOne
      <3>4. SelectTable'
        <4>1. i' \in 0..Room
          BY <1>0, <3>2, ServersAssumption DEF SelectTable, SelectSlots
        <4> QED
          BY <1>0, <2>2, <3>2, <3>3, <4>1 DEF SelectTable
      <3>5. SelectReady'
        <4> SUFFICES ASSUME NEW l \in SelectSlots, NEW g \in Fds,
                            l >= k + 1, client[l] = g, g \in rset
                     PROVE  Readable(g)'
          BY <3>2 DEF SelectReady
        <4>1. l # k /\ l >= i
          BY <1>0, <2>1 DEF SelectTable, SelectSlots
        <4>2. Readable(g) /\ g # f /\ g # Listenfd
          BY <1>0, <2>1, <2>2, <2>3, <4>1, NetAssumption DEF SelectReady, SelectTable
        <4>3. PICK d \in Conns : d = sock[g] /\ d # sock[f] /\ d # NoConn
          BY <1>0, <2>3, <4>2, NetAssumption DEF Readable, NetInv, NetTypeOK
        <4> QED
          BY <3>2, <3>3, <4>2, <4>3 DEF Readable
      <3> QED
        BY <3>3, <3>4, <3>5 DEF SelectInv
    <2>7. CASE Select!KilledBy(k)
      <3>1. left[sock[f]] = "rst" /\ Select!Exit
        BY <2>3, <2>7, SelectCalls DEF Select!KilledBy, Sigpipe
      <3> QED
        BY <1>0, <2>3, <3>1, SelectDies
    <2> QED
      BY <2>1, <2>5, <2>6, <2>7
  <1>5. CASE Select!ScanEnds
    <2>1. UNCHANGED <<phase, backlog, sock, unread, left, reported, client, maxi, allset, i>>
          /\ pc' = "select" /\ pc = "scan"
      BY <1>5 DEF Select!ScanEnds, Select!netVars
    <2>2. OneProcess' /\ Promised
      BY <1>0, <2>1 DEF OneProcess, NetInv, NetTypeOK, Served, Held, Promised, Service!vars
    <2>3. SelectTable' /\ SelectReady'
      BY <1>0, <2>1 DEF SelectTable, SelectReady
    <2> QED
      BY <2>2, <2>3 DEF SelectInv
  <1> QED
    BY <1>1, <1>2, <1>3, <1>4, <1>5 DEF SelectStep, Select!Server

LEMMA SelectClientInv ==
    ASSUME SelectInv, ClientStep
    PROVE  SelectInv' /\ Promised
  <1>0. Client /\ kind' = kind /\ UNCHANGED <<client, maxi, i, allset, rset, pc>>
    BY DEF ClientStep, serverVars, tableVars, selectVars
  <1>1. OneProcess' /\ Promised /\ sock' = sock
    BY <1>0, ClientOne, ClientCall DEF SelectInv, OneProcess
  <1>2. SelectTable'
    BY <1>0, <1>1 DEF SelectInv, SelectTable
  <1>4. Readable(Listenfd) => Readable(Listenfd)'
    BY <1>0, ListenStaysReadable DEF SelectInv, OneProcess
  <1>3. SelectReady'
    <2> SUFFICES ASSUME pc \in {"accept", "scan"}, NEW k \in SelectSlots, NEW f \in Fds,
                        k >= i, client[k] = f, f \in rset
                 PROVE  Readable(f)'
      BY <1>0, <1>4 DEF SelectInv, SelectReady
    <2>1. Readable(f)
      BY DEF SelectInv, SelectReady
    <2> QED
      BY <1>0, <2>1, StaysReadable DEF SelectInv, OneProcess
  <1> QED
    BY <1>1, <1>2, <1>3 DEF SelectInv

-----------------------------------------------------------------------------
(* poll *)

LEMMA PollCalls ==
    ASSUME NEW f
    PROVE  /\ Poll!Accept(f) <=> Accept(f)
           /\ Poll!ReadAndWrite(f) <=> ReadAndWrite(f)
           /\ Poll!WriteFails(f) <=> WriteFails(f)
           /\ Poll!Sigpipe(f) <=> Sigpipe(f)
           /\ Poll!ReadEnd(f) <=> ReadEnd(f)
           /\ Poll!ReadError(f) <=> ReadError(f)
           /\ Poll!ReportError(f) <=> ReportError(f)
           /\ Poll!Close(f) <=> Close(f)
           /\ Poll!Readable(f) <=> Readable(f)
           /\ (Poll!Die <=> Die) /\ Poll!FreeFds = FreeFds
  BY DEF Poll!Accept, Poll!ReadAndWrite, Poll!WriteFails, Poll!Sigpipe, Poll!ReadEnd,
         Poll!ReadError, Poll!ReportError, Poll!Close, Poll!Readable, Poll!Die,
         Poll!FreeFds, Poll!Listenfd,
         Accept, ReadAndWrite, WriteFails, Sigpipe, ReadEnd, ReadError, ReportError, Close, Readable, Die, FreeFds, Listenfd

PollSlots == 1..Room
PollTable ==
    /\ client \in [0..Room -> Int] /\ client[0] = Listenfd
    /\ \A k \in PollSlots : client[k] \in Fds \union {NoFd}
    /\ \A k, l \in PollSlots : k # l /\ client[k] >= 0 => client[k] # client[l]
    /\ maxi \in 0..Room /\ i \in 1..Room+1
    /\ pc # "dead" => \A f \in Fds : sock[f] # NoConn <=> \E k \in PollSlots : client[k] = f

\* What poll has named has something to read until it is read: the slots up to g
\* that it has been given.  nready counts them, and so the scan ends with the last
\* of them, before it comes to a slot above whose revents is garbage.
PollNamed(g) == {k \in PollSlots : k >= i /\ k <= g /\ client[k] >= 0 /\ k \in revents}
PollCount(g) ==
    /\ g <= maxi
    /\ \A k \in PollNamed(g) : Readable(client[k])
    /\ pc = "scan" => nready = Cardinality(PollNamed(g)) /\ nready > 0
    /\ pc = "accept" => /\ nready = Cardinality(PollNamed(g)) + 1
                        /\ \A k \in PollSlots : k <= g /\ k \in revents => client[k] >= 0
PollReady ==
    /\ pc = "accept" => Readable(Listenfd)
    /\ pc \in {"accept", "scan"} => \E g \in 0..Room : PollCount(g)

PollInv == OneProcess /\ PollTable /\ PollReady

\* A slot that is taken names a connection.
LEMMA PollSlot ==
    ASSUME PollInv, pc # "dead", NEW k \in PollSlots, client[k] >= 0
    PROVE  client[k] \in Fds /\ sock[client[k]] # NoConn
  <1>1. client[k] \in Fds
    BY NetAssumption DEF PollInv, PollTable, NoFd
  <1> QED
    BY <1>1 DEF PollInv, PollTable

LEMMA PollNamedFinite ==
    ASSUME PollTable, NEW g \in 0..Room
    PROVE  IsFiniteSet(PollNamed(g)) /\ Cardinality(PollNamed(g)) \in Nat
  <1>1. IsFiniteSet(PollSlots)
    BY ServersAssumption, FS_Interval DEF PollSlots
  <1>2. PollNamed(g) \subseteq PollSlots
    BY DEF PollNamed
  <1> QED
    BY <1>1, <1>2, FS_Subset, FS_CardinalityType

\* The slot that is next is one that poll has named.
LEMMA PollNext ==
    ASSUME PollInv, pc = "scan", NEW g \in 0..Room, PollCount(g),
           NEW k, Poll!IsNext(k)
    PROVE  /\ k \in PollNamed(g)
           /\ Cardinality(PollNamed(g) \ {k}) = nready - 1
           /\ \A l \in PollNamed(g) : l = k \/ l >= k + 1
           /\ nready \in Int
  <1>1. PollTable /\ Room \in Nat /\ g \in Int /\ maxi \in Int /\ i \in Int /\ i >= 1 /\ maxi <= Room
    BY ServersAssumption DEF PollInv, PollTable
  <1>2. /\ k \in i..maxi /\ client[k] >= 0 /\ k \in revents
        /\ \A l \in i..maxi : client[l] >= 0 /\ l \in revents => k <= l
    BY DEF Poll!IsNext, Poll!Flagged
  <1>3. \A l \in PollNamed(g) : l \in i..maxi /\ client[l] >= 0 /\ l \in revents /\ l <= g
    BY <1>1 DEF PollNamed, PollSlots, PollCount
  <1>4. \A l \in PollNamed(g) : k <= l /\ l <= g /\ l \in Int
    BY <1>2, <1>3
  <1>5. IsFiniteSet(PollNamed(g)) /\ Cardinality(PollNamed(g)) \in Nat
    BY <1>1, PollNamedFinite
  <1>6. nready = Cardinality(PollNamed(g)) /\ nready > 0
    BY DEF PollCount
  <1>7. PollNamed(g) # {}
    BY <1>5, <1>6, FS_EmptySet
  <1>8. k \in Int /\ k <= g /\ k \in PollSlots
    <2>1. PICK l \in PollNamed(g) : TRUE
      BY <1>7
    <2>2. k <= l /\ l <= g /\ l \in Int
      BY <1>4, <2>1
    <2> QED
      BY <1>1, <1>2, <2>2 DEF PollSlots
  <1>9. k \in PollNamed(g)
    BY <1>1, <1>2, <1>8 DEF PollNamed
  <1>10. Cardinality(PollNamed(g) \ {k}) = Cardinality(PollNamed(g)) - 1
    BY <1>5, <1>9, FS_RemoveElement
  <1>11. \A l \in PollNamed(g) : l = k \/ l >= k + 1
    BY <1>4, <1>8
  <1> QED
    BY <1>5, <1>6, <1>9, <1>10, <1>11

\* A slot is handled: one less that poll has named.
LEMMA PollOneLess ==
    ASSUME PollInv, pc = "scan", NEW g \in 0..Room, PollCount(g),
           NEW k \in PollSlots, Poll!IsNext(k), Poll!Handled(k),
           \A l \in PollSlots : l # k => client'[l] = client[l],
           \A l \in PollNamed(g) : l # k => Readable(client[l])'
    PROVE  PollReady'
  <1>1. /\ k \in PollNamed(g) /\ nready \in Int
        /\ Cardinality(PollNamed(g) \ {k}) = nready - 1
        /\ \A l \in PollNamed(g) : l = k \/ l >= k + 1
    BY PollNext
  <1>2. /\ i' = k + 1 /\ nready' = nready - 1 /\ revents' = revents /\ maxi' = maxi
        /\ pc' = IF nready - 1 <= 0 THEN "poll" ELSE "scan"
    BY DEF Poll!Handled, Poll!NextTurn
  <1>3. /\ k \in Int /\ i \in Int /\ i <= k
        /\ \A l \in PollSlots : l \in Int
    BY <1>1, ServersAssumption DEF PollInv, PollTable, PollNamed, PollSlots
  <1>4. \A l \in PollNamed(g)' : l \in PollNamed(g) \ {k}
    BY <1>2, <1>3 DEF PollNamed
  <1>5. \A l \in PollNamed(g) \ {k} : l \in PollNamed(g)'
    BY <1>1, <1>2, <1>3 DEF PollNamed
  <1>6. PollNamed(g)' = PollNamed(g) \ {k}
    BY <1>4, <1>5
  <1>7. \A l \in PollNamed(g)' : Readable(client[l])'
    BY <1>4
  <1>8. pc' = "scan" => PollCount(g)'
    BY <1>1, <1>2, <1>6, <1>7 DEF PollCount
  <1> QED
    BY <1>2, <1>8 DEF PollReady

LEMMA PollDies ==
    ASSUME PollInv, kind = "poll", kind' = kind, Poll!Exit,
           \/ \E f \in Fds : sock[f] # NoConn /\ left[sock[f]] = "rst"
           \/ FreeFds = {}
           \/ /\ kind \in {"select", "poll"}
              /\ Room <= Cardinality(Service!Opened)
              /\ Cardinality(Service!Opened) \in Nat
    PROVE  PollInv' /\ Promised
  <1>1. OneProcess /\ Die
    BY PollCalls DEF PollInv, Poll!Exit
  <1>2. OneProcess' /\ Promised
    BY <1>1, DieOne
  <1>3. PollTable' /\ PollReady'
    BY DEF PollInv, PollTable, PollReady, Poll!Exit
  <1> QED
    BY <1>2, <1>3 DEF PollInv

LEMMA PollStepInv ==
    ASSUME PollInv, PollStep
    PROVE  PollInv' /\ Promised
  <1>0. /\ OneProcess /\ PollTable /\ PollReady /\ NetInv /\ NetTypeOK
        /\ kind = "poll" /\ kind' = kind /\ Room \in Nat \ {0}
    BY ServersAssumption DEF PollInv, OneProcess, NetInv, PollStep, RestOfPoll
  <1>1. CASE Poll!Poll
    <2>1. UNCHANGED <<phase, backlog, sock, unread, left, reported, client, maxi>>
      BY <1>1 DEF Poll!Poll, Poll!netVars
    <2>2. OneProcess' /\ Promised
      BY <1>0, <2>1 DEF OneProcess, NetInv, NetTypeOK, Served, Held, Promised, Service!vars
    <2>3. /\ revents' = {k \in 0..maxi : client[k] >= 0 /\ Readable(client[k])}
                           \union {k \in revents : k > maxi}
          /\ i' = 1 /\ pc' \in {"accept", "scan"} /\ pc = "poll"
      BY <1>1, PollCalls DEF Poll!Poll, Poll!Polled
    <2>4. PollTable'
      BY <1>0, <2>1, <2>3 DEF PollTable
    <2>5. PollReady'
      <3> DEFINE P == {k \in 0..maxi : client[k] >= 0 /\ Readable(client[k])}
      <3>1. /\ P # {} /\ nready' = Cardinality(P)
            /\ pc' = IF 0 \in P THEN "accept" ELSE "scan"
        <4>1. Poll!Polled = P
          BY PollCalls DEF Poll!Polled
        <4> HIDE DEF P
        <4> QED
          BY <1>1, <4>1, PollCardinality DEF Poll!Poll
      <3>2. maxi \in 0..Room /\ maxi \in Int
        BY <1>0 DEF PollTable
      <3>3. IsFiniteSet(P)
        <4>1. IsFiniteSet(0..maxi)
          BY <3>2, FS_Interval
        <4>2. P \subseteq 0..maxi
          OBVIOUS
        <4> HIDE DEF P
        <4> QED
          BY <4>1, <4>2, FS_Subset
      <3>4. PollNamed(maxi)' = P \ {0}
        <4>1. \A k \in PollSlots : k \in 0..Room /\ k # 0 /\ k >= 1
          BY <1>0 DEF PollSlots
        <4>2. \A k \in 0..maxi : k # 0 => k \in PollSlots /\ k <= maxi /\ ~(k > maxi)
          BY <1>0, <3>2 DEF PollSlots
        <4>3. \A k \in PollSlots : k <= maxi => k \in 0..maxi /\ ~(k > maxi)
          BY <1>0, <3>2 DEF PollSlots
        <4>4. \A k \in PollNamed(maxi)' : k \in P \ {0}
          BY <2>1, <2>3, <4>1, <4>3 DEF PollNamed
        <4>5. \A k \in P \ {0} : k \in PollNamed(maxi)'
          BY <2>1, <2>3, <4>1, <4>2 DEF PollNamed
        <4> HIDE DEF P
        <4> QED
          BY <4>4, <4>5
      <3>5. \A k \in P : Readable(client[k])'
        BY <2>1 DEF Readable
      <3>6. Cardinality(P \ {0}) \in Nat /\ Cardinality(P) \in Nat
        BY <3>3, FS_Subset, FS_CardinalityType
      <3>7. 0 \in P => Cardinality(P) = Cardinality(P \ {0}) + 1
        BY <3>3, <3>6, FS_RemoveElement
      <3>8. 0 \notin P => P \ {0} = P
        OBVIOUS
      <3>9. Cardinality(P) > 0
        BY <3>1, <3>3, <3>6, FS_EmptySet
      <3>10. 0 \in P => Readable(Listenfd)'
        <4>1. 0 \in P => Readable(client[0])'
          BY <3>5
        <4>2. client[0] = Listenfd /\ client' = client
          BY <1>0, <2>1 DEF PollTable
        <4> QED
          BY <2>1, <4>1, <4>2 DEF Readable
      <3>11. \A k \in PollSlots : k <= maxi /\ k \in revents' => client[k] >= 0
        <4>1. \A k \in PollSlots : k <= maxi => ~(k > maxi)
          BY <1>0, <3>2 DEF PollSlots
        <4> QED
          BY <2>3, <4>1
      <3>12. PollCount(maxi)'
        <4> HIDE DEF P
        <4>1. (maxi <= maxi)'
          BY <2>1, <3>2
        <4>2. \A k \in PollNamed(maxi)' : Readable(client[k])'
          BY <3>4, <3>5
        <4> QED
          BY <2>1, <3>1, <3>4, <3>6, <3>7, <3>8, <3>9, <3>11, <4>1, <4>2 DEF PollCount
      <3> QED
        BY <2>1, <3>1, <3>2, <3>10, <3>12 DEF PollReady
    <2> QED
      BY <2>2, <2>4, <2>5 DEF PollInv
  <1>2. CASE Poll!AcceptClient
    <2>1. PICK f \in Fds : /\ Accept(f)
                           /\ client' = [client EXCEPT ![Poll!FirstFree] = f]
      BY <1>2, PollCalls DEF Poll!AcceptClient
    <2>2. PICK k \in PollSlots : k = Poll!FirstFree /\ client[k] < 0
      <3>1. Poll!FreeSlots = {l \in PollSlots : client[l] < 0}
        BY <1>0 DEF Poll!FreeSlots, PollSlots
      <3>2. Poll!FreeSlots \in SUBSET Nat /\ Poll!FreeSlots # {}
        BY <1>2, <3>1 DEF Poll!AcceptClient, PollSlots
      <3> QED
        BY <3>1, <3>2, LeastNumber DEF Poll!FirstFree
    <2>3. /\ OneProcess' /\ Promised /\ sock[f] = NoConn /\ sock'[f] # NoConn
          /\ \A g \in Fds \ {f} : sock'[g] = sock[g]
          /\ UNCHANGED <<unread, left>>
      BY <1>0, <2>1, AcceptOne DEF Accept
    <2>4. /\ pc = "accept" /\ pc' \in {"poll", "scan"} /\ revents' = revents /\ i' = i
          /\ maxi' = IF k > maxi THEN k ELSE maxi
      BY <1>2, <2>2 DEF Poll!AcceptClient, Poll!NextTurn
    <2>5. /\ client' \in [0..Room -> Int] /\ client'[k] = f
          /\ \A l \in 0..Room : l # k => client'[l] = client[l]
      BY <1>0, <2>1, <2>2, NetAssumption DEF PollTable, PollSlots
    <2>6. \A l \in PollSlots : client[l] # f
      BY <1>0, <2>3, <2>4 DEF PollTable
    <2>7. /\ k # 0 /\ 0 \in 0..Room /\ k \in 0..Room
          /\ \A l \in PollSlots : l \in 0..Room /\ (l # k => client'[l] = client[l])
      BY <1>0, <2>2, <2>5 DEF PollSlots
    <2>8. PollTable'
      <3>1. client'[0] = Listenfd /\ \A l \in PollSlots : client'[l] \in Fds \union {NoFd}
        BY <1>0, <2>5, <2>7 DEF PollTable
      <3>2. \A l, m \in PollSlots : l # m /\ client'[l] >= 0 => client'[l] # client'[m]
        BY <1>0, <2>5, <2>6, <2>7 DEF PollTable
      <3>3. maxi' \in 0..Room /\ i' \in 1..Room+1
        BY <1>0, <2>4, <2>7 DEF PollTable
      <3>4. \A g \in Fds : sock'[g] # NoConn <=> \E l \in PollSlots : client'[l] = g
        <4> TAKE g \in Fds
        <4>1. CASE g = f
          BY <2>2, <2>3, <2>5, <4>1
        <4>2. CASE g # f
          <5>1. \A l \in PollSlots : client'[l] = g <=> client[l] = g
            BY <2>2, <2>5, <2>7, <4>2, NetAssumption
          <5> QED
            BY <1>0, <2>3, <2>4, <4>2, <5>1 DEF PollTable
        <4> QED
          BY <4>1, <4>2
      <3> QED
        BY <2>5, <3>1, <3>2, <3>3, <3>4 DEF PollTable
    <2>9. PollReady'
      <3>1. PICK g \in 0..Room : PollCount(g)
        BY <1>0, <2>4 DEF PollReady
      <3>2. /\ nready' = nready - 1
            /\ pc' = IF nready - 1 <= 0 THEN "poll" ELSE "scan"
        BY <1>2 DEF Poll!AcceptClient, Poll!NextTurn
      <3>3. /\ maxi \in Int /\ k \in Int /\ g \in Int /\ maxi' \in Int
            /\ g <= maxi /\ nready = Cardinality(PollNamed(g)) + 1
            /\ Cardinality(PollNamed(g)) \in Nat
            /\ g <= maxi'
        BY <1>0, <2>2, <2>4, <3>1, PollNamedFinite DEF PollCount, PollTable, PollSlots
      <3>4. k <= g => k \notin revents
        BY <2>2, <2>4, <3>1, <1>0, <2>7 DEF PollCount, PollTable
      <3>5. PollNamed(g)' = PollNamed(g)
        <4>1. \A l \in PollSlots : l \in PollNamed(g)' <=> l \in PollNamed(g)
          <5> TAKE l \in PollSlots
          <5>1. CASE l = k
            BY <2>2, <2>4, <3>4, <5>1 DEF PollNamed
          <5>2. CASE l # k
            BY <2>4, <2>7, <5>2 DEF PollNamed
          <5> QED
            BY <5>1, <5>2
        <4>2. \A l \in PollNamed(g) : l \in PollSlots
          BY DEF PollNamed
        <4>3. \A l \in PollNamed(g)' : l \in PollSlots
          BY DEF PollNamed
        <4> QED
          BY <4>1, <4>2, <4>3
      <3>6. \A l \in PollNamed(g) : Readable(client[l])'
        <4> TAKE l \in PollNamed(g)
        <4>1. l # k /\ l \in PollSlots /\ client[l] >= 0
          BY <2>2, <2>4, <3>4 DEF PollNamed
        <4>2. PICK h \in Fds : h = client[l]
          BY <1>0, <4>1 DEF PollTable, NoFd
        <4>3. Readable(h) /\ h # f /\ client'[l] = h
          BY <2>6, <2>7, <3>1, <4>1, <4>2 DEF PollCount
        <4>4. sock'[h] = sock[h] /\ h # Listenfd
          BY <2>3, <4>3, NetAssumption
        <4> QED
          BY <2>3, <4>3, <4>4 DEF Readable
      <3>7. pc' = "scan" => PollCount(g)'
        BY <3>2, <3>3, <3>5, <3>6 DEF PollCount
      <3> QED
        BY <3>2, <3>7 DEF PollReady
    <2> QED
      BY <2>3, <2>8, <2>9 DEF PollInv
  <1>3. CASE Poll!AcceptFails
    <2>1. pc = "accept" /\ Poll!Exit /\ (Poll!FreeSlots = {} \/ FreeFds = {})
      BY <1>3, PollCalls DEF Poll!AcceptFails
    <2>2. CASE Poll!FreeSlots = {}
      <3>1. \A k \in PollSlots : client[k] >= 0
        <4> SUFFICES ASSUME NEW k \in PollSlots, ~(client[k] >= 0)
                     PROVE  FALSE
          OBVIOUS
        <4>1. client[k] \in Nat \/ client[k] = -1
          BY <1>0, NetAssumption DEF PollTable, NoFd
        <4>2. client[k] < 0
          BY <4>1
        <4> QED
          BY <1>0, <2>2, <4>2 DEF Poll!FreeSlots, PollSlots
      <3>2. \A k \in PollSlots : client[k] \in Fds /\ sock[client[k]] # NoConn
        BY <2>1, <3>1, PollSlot
      <3>3. \A k, l \in PollSlots : client[k] = client[l] => k = l
        BY <1>0, <3>1 DEF PollTable
      <3>4. 0 + 1..0 + Room = PollSlots
        BY <1>0 DEF PollSlots
      <3>5. \A k \in 0 + 1..0 + Room : client[k] \in Fds /\ sock[client[k]] # NoConn
        BY <3>2, <3>4
      <3>6. \A k, l \in 0 + 1..0 + Room : client[k] = client[l] => k = l
        BY <3>3, <3>4
      <3>7. 0 \in Int /\ Room \in Nat
        BY <1>0
      <3>8. Room <= Cardinality(Service!Opened) /\ Cardinality(Service!Opened) \in Nat
        BY <1>0, <3>5, <3>6, <3>7, NoSlotCause
      <3> QED
        BY <1>0, <2>1, <3>8, PollDies
    <2>3. CASE FreeFds = {}
      BY <1>0, <2>1, <2>3, PollDies
    <2> QED
      BY <2>1, <2>2, <2>3
  <1>4. CASE Poll!Scan
    <2>1. PICK k \in PollSlots :
            /\ k >= i /\ client[k] >= 0 /\ k \in revents /\ k <= maxi
            /\ Poll!IsNext(k)
            /\ Poll!CloseClient(k) \/ Poll!EchoClient(k) \/ Poll!KilledBy(k)
      <3>1. PICK k \in Poll!Flagged :
               /\ Poll!IsNext(k)
               /\ Poll!CloseClient(k) \/ Poll!EchoClient(k) \/ Poll!KilledBy(k)
        BY <1>4 DEF Poll!Scan
      <3>2. k \in i..maxi /\ client[k] >= 0 /\ k \in revents
        BY DEF Poll!Flagged
      <3>3. k \in PollSlots /\ k >= i /\ k <= maxi
        BY <1>0, <3>2 DEF PollTable, PollSlots
      <3> QED
        BY <3>1, <3>2, <3>3
    <2>2. pc = "scan"
      BY <1>4 DEF Poll!Scan
    <2>3. PICK f \in Fds : f = client[k] /\ sock[f] # NoConn
      BY <2>1, <2>2, PollSlot
    <2>4. /\ \A l \in PollSlots \ {k} : client[l] # f
          /\ k # 0 /\ 0 \in 0..Room /\ k \in 0..Room /\ PollSlots \subseteq 0..Room
      BY <1>0, <2>1, <2>3 DEF PollTable, PollSlots
    <2>10. PICK top \in 0..Room : PollCount(top)
      BY <1>0, <2>2 DEF PollReady
    <2>11. ASSUME NEW l \in PollNamed(top), l # k
           PROVE  /\ l \in PollSlots /\ client[l] \in Fds \ {f}
                  /\ Readable(client[l]) /\ client[l] # Listenfd
                  /\ sock[client[l]] \in Conns \ {NoConn, sock[f]}
      <3>1. l \in PollSlots /\ client[l] >= 0 /\ Readable(client[l])
        BY <2>10 DEF PollNamed, PollCount
      <3>2. client[l] \in Fds \ {f} /\ client[l] # Listenfd
        BY <1>0, <2>4, <2>11, <3>1, NetAssumption DEF PollTable, NoFd
      <3>3. sock[client[l]] # NoConn
        BY <3>1, <3>2 DEF Readable
      <3>4. sock[client[l]] # sock[f]
        BY <1>0, <3>2, <3>3 DEF NetInv
      <3> QED
        BY <1>0, <3>1, <3>2, <3>3, <3>4 DEF NetTypeOK
    <2>5. CASE Poll!CloseClient(k)
      <3>1. /\ ReadEnd(sock[f]) \/ ReadError(sock[f])
            /\ Close(f)
            /\ client' = [client EXCEPT ![k] = NoFd]
        BY <2>3, <2>5, PollCalls DEF Poll!CloseClient, NoFd, Poll!NoFd, Poll!Close, Close
      <3>2. /\ i' = k + 1 /\ pc' \in {"poll", "scan"} /\ maxi' = maxi /\ revents' = revents
        BY <2>5 DEF Poll!CloseClient, Poll!Handled, Poll!NextTurn
      <3>3. /\ OneProcess' /\ Promised /\ sock'[f] = NoConn
            /\ \A g \in Fds \ {f} : sock'[g] = sock[g]
            /\ UNCHANGED <<unread, left, backlog>>
        BY <1>0, <2>3, <3>1, CloseOne
      <3>4. /\ client' \in [0..Room -> Int] /\ client'[k] = NoFd
            /\ \A l \in 0..Room : l # k => client'[l] = client[l]
            /\ ~(NoFd >= 0)
        BY <1>0, <2>4, <3>1 DEF PollTable, NoFd
      <3>5. PollTable'
        <4>1. client'[0] = Listenfd /\ \A l \in PollSlots : client'[l] \in Fds \union {NoFd}
          BY <1>0, <2>4, <3>4 DEF PollTable
        <4>2. \A l, m \in PollSlots : l # m /\ client'[l] >= 0 => client'[l] # client'[m]
          BY <1>0, <2>4, <3>4 DEF PollTable
        <4>3. maxi' \in 0..Room /\ i' \in 1..Room+1
          BY <1>0, <3>2 DEF PollTable, PollSlots
        <4>4. \A g \in Fds : sock'[g] # NoConn <=> \E l \in PollSlots : client'[l] = g
          <5> TAKE g \in Fds
          <5>1. \A l \in PollSlots : client'[l] = g <=> client[l] = g /\ g # f
            BY <2>1, <2>3, <2>4, <3>4, NetAssumption DEF NoFd
          <5> QED
            BY <1>0, <2>2, <3>3, <5>1 DEF PollTable
        <4> QED
          BY <3>4, <4>1, <4>2, <4>3, <4>4 DEF PollTable
      <3>6. PollReady'
        <4>1. \A l \in PollNamed(top) : l # k => Readable(client[l])'
          <5> SUFFICES ASSUME NEW l \in PollNamed(top), l # k
                       PROVE  Readable(client[l])'
            OBVIOUS
          <5>1. PICK h \in Fds : h = client[l]
            BY <2>11
          <5>2. Readable(h) /\ h # f /\ h # Listenfd /\ client'[l] = h
            BY <2>4, <2>11, <3>4, <5>1
          <5> QED
            BY <3>3, <5>2 DEF Readable
        <4>2. \A l \in PollSlots : l # k => client'[l] = client[l]
          BY <2>4, <3>4
        <4>3. Poll!Handled(k)
          BY <2>5 DEF Poll!CloseClient
        <4> QED
          BY <2>1, <2>2, <2>10, <4>1, <4>2, <4>3, PollOneLess
      <3> QED
        BY <3>3, <3>5, <3>6 DEF PollInv
    <2>6. CASE Poll!EchoClient(k)
      <3>1. ReadAndWrite(sock[f]) \/ WriteFails(sock[f]) \/ ReportError(sock[f])
        BY <2>3, <2>6, PollCalls DEF Poll!EchoClient
      <3>2. /\ i' = k + 1 /\ pc' \in {"poll", "scan"} /\ maxi' = maxi /\ revents' = revents
            /\ client' = client
        BY <2>6 DEF Poll!EchoClient, Poll!Handled, Poll!NextTurn
      <3>3. /\ OneProcess' /\ Promised /\ sock' = sock
            /\ \A d \in Conns \ {sock[f]} : (d \in unread <=> d \in unread') /\ left'[d] = left[d]
        BY <1>0, <2>3, <3>1, EchoOne
      <3>4. PollTable'
        <4>1. i' \in 1..Room+1
          BY <1>0, <3>2 DEF PollTable, PollSlots
        <4> QED
          BY <1>0, <2>2, <3>2, <3>3, <4>1 DEF PollTable
      <3>5. PollReady'
        <4>1. \A l \in PollNamed(top) : l # k => Readable(client[l])'
          <5> SUFFICES ASSUME NEW l \in PollNamed(top), l # k
                       PROVE  Readable(client[l])'
            OBVIOUS
          <5>1. PICK h \in Fds : h = client[l]
            BY <2>11
          <5>2. Readable(h) /\ h # Listenfd /\ client'[l] = h
            BY <2>11, <3>2, <5>1
          <5>3. PICK d \in Conns : d = sock[h] /\ d # sock[f] /\ d # NoConn
            BY <2>11, <5>1
          <5> QED
            BY <3>3, <5>2, <5>3 DEF Readable
        <4>2. Poll!Handled(k)
          BY <2>6 DEF Poll!EchoClient
        <4> QED
          BY <2>1, <2>2, <2>10, <3>2, <4>1, <4>2, PollOneLess
      <3> QED
        BY <3>3, <3>4, <3>5 DEF PollInv
    <2>7. CASE Poll!KilledBy(k)
      <3>1. left[sock[f]] = "rst" /\ Poll!Exit
        BY <2>3, <2>7, PollCalls DEF Poll!KilledBy, Sigpipe, ReadError
      <3> QED
        BY <1>0, <2>3, <3>1, PollDies
    <2> QED
      BY <2>1, <2>5, <2>6, <2>7
  <1>5. CASE Poll!ScanEnds
    <2>1. UNCHANGED <<phase, backlog, sock, unread, left, reported, client, maxi, revents, i>>
          /\ pc' = "poll" /\ pc = "scan"
      BY <1>5 DEF Poll!ScanEnds, Poll!netVars
    <2>2. OneProcess' /\ Promised
      BY <1>0, <2>1 DEF OneProcess, NetInv, NetTypeOK, Served, Held, Promised, Service!vars
    <2>3. PollTable' /\ PollReady'
      BY <1>0, <2>1 DEF PollTable, PollReady
    <2> QED
      BY <2>2, <2>3 DEF PollInv
  <1> QED
    BY <1>1, <1>2, <1>3, <1>4, <1>5 DEF PollStep, Poll!Server

LEMMA PollClientInv ==
    ASSUME PollInv, ClientStep
    PROVE  PollInv' /\ Promised
  <1>0. Client /\ kind' = kind /\ UNCHANGED <<client, maxi, nready, i, revents, pc>>
    BY DEF ClientStep, serverVars, tableVars, pollVars
  <1>1. OneProcess' /\ Promised /\ sock' = sock
    BY <1>0, ClientOne, ClientCall DEF PollInv, OneProcess
  <1>2. PollTable'
    BY <1>0, <1>1 DEF PollInv, PollTable
  <1>3. ASSUME NEW g \in 0..Room, PollCount(g)
        PROVE  PollCount(g)'
    <2>1. PollNamed(g)' = PollNamed(g)
      BY <1>0 DEF PollNamed
    <2>2. ASSUME NEW k \in PollNamed(g)
          PROVE  Readable(client[k])'
      <3>1. PICK f \in Fds : f = client[k]
        BY DEF PollInv, PollTable, PollNamed, NoFd
      <3>2. Readable(f)
        BY <1>3, <3>1 DEF PollCount
      <3>3. Readable(f)'
        BY <1>0, <3>2, StaysReadable DEF PollInv, OneProcess
      <3> QED
        BY <1>0, <3>1, <3>3 DEF Readable
    <2> QED
      BY <1>0, <1>3, <2>1, <2>2 DEF PollCount
  <1>4. Readable(Listenfd) => Readable(Listenfd)'
    BY <1>0, ListenStaysReadable DEF PollInv, OneProcess
  <1>5. PollReady'
    BY <1>0, <1>3, <1>4 DEF PollInv, PollReady
  <1> QED
    BY <1>1, <1>2, <1>5 DEF PollInv

-----------------------------------------------------------------------------
(* epoll *)

LEMMA EpollCalls ==
    ASSUME NEW f
    PROVE  /\ Epoll!Accept(f) <=> Accept(f)
           /\ Epoll!ReadAndWrite(f) <=> ReadAndWrite(f)
           /\ Epoll!WriteFails(f) <=> WriteFails(f)
           /\ Epoll!Sigpipe(f) <=> Sigpipe(f)
           /\ Epoll!ReadEnd(f) <=> ReadEnd(f)
           /\ Epoll!ReadError(f) <=> ReadError(f)
           /\ Epoll!ReportError(f) <=> ReportError(f)
           /\ Epoll!Close(f) <=> Close(f)
           /\ Epoll!Readable(f) <=> Readable(f)
           /\ (Epoll!Die <=> Die) /\ Epoll!FreeFds = FreeFds
  BY DEF Epoll!Accept, Epoll!ReadAndWrite, Epoll!WriteFails, Epoll!Sigpipe, Epoll!ReadEnd,
         Epoll!ReadError, Epoll!ReportError, Epoll!Close, Epoll!Readable, Epoll!Die,
         Epoll!FreeFds, Epoll!Listenfd,
         Accept, ReadAndWrite, WriteFails, Sigpipe, ReadEnd, ReadError, ReportError, Close, Readable, Die, FreeFds, Listenfd

\* The set of epoll is what is open.
EpollTable ==
    /\ efd \subseteq {Listenfd} \union Fds /\ Listenfd \in efd
    /\ pc # "dead" => \A f \in Fds : f \in efd <=> sock[f] # NoConn

EpollInv == OneProcess /\ EpollTable

LEMMA EpollDies ==
    ASSUME EpollInv, kind = "epoll", kind' = kind, Epoll!Exit,
           \/ \E f \in Fds : sock[f] # NoConn /\ left[sock[f]] = "rst"
           \/ FreeFds = {}
           \/ Epoll!Astray
    PROVE  EpollInv' /\ Promised
  <1>1. OneProcess /\ Die
    BY EpollCalls DEF EpollInv, Epoll!Exit
  <1>2. OneProcess' /\ Promised
    BY <1>1, DieOne
  <1>3. EpollTable'
    BY DEF EpollInv, EpollTable, Epoll!Exit
  <1> QED
    BY <1>2, <1>3 DEF EpollInv

LEMMA EpollStepInv ==
    ASSUME EpollInv, EpollStep
    PROVE  EpollInv' /\ Promised
  <1>0. /\ OneProcess /\ EpollTable /\ NetInv /\ NetTypeOK
        /\ kind = "epoll" /\ kind' = kind
    BY DEF EpollInv, OneProcess, NetInv, EpollStep, RestOfEpoll
  <1>1. CASE Epoll!Wait
    <2>1. /\ UNCHANGED <<phase, backlog, sock, unread, left, reported, efd>>
          /\ pc = "wait"
      BY <1>1 DEF Epoll!Wait, Epoll!netVars
    <2>2. OneProcess' /\ Promised
      BY <1>0, <2>1 DEF OneProcess, NetInv, NetTypeOK, Served, Held, Promised, Service!vars
    <2>3. EpollTable'
      BY <1>0, <2>1 DEF EpollTable
    <2> QED
      BY <2>2, <2>3 DEF EpollInv
  <1>2. CASE Epoll!AcceptClient
    <2>1. PICK f \in Fds : Accept(f) /\ efd' = efd \union {f}
      BY <1>2, EpollCalls DEF Epoll!AcceptClient
    <2>2. /\ OneProcess' /\ Promised /\ sock[f] = NoConn /\ sock'[f] # NoConn
          /\ \A g \in Fds \ {f} : sock'[g] = sock[g]
      BY <1>0, <2>1, AcceptOne
    <2>3. pc = "events"
      BY <1>2 DEF Epoll!AcceptClient
    <2>4. EpollTable'
      BY <1>0, <2>1, <2>2, <2>3 DEF EpollTable
    <2> QED
      BY <2>2, <2>4 DEF EpollInv
  <1>3. CASE Epoll!AcceptFails
    <2>1. Epoll!Exit /\ FreeFds = {}
      BY <1>3, EpollCalls DEF Epoll!AcceptFails
    <2> QED
      BY <1>0, <2>1, EpollDies
  <1>4. CASE Epoll!HandleClient
    <2>1. PICK f \in Fds : f = Epoll!Event
      BY <1>4 DEF Epoll!HandleClient
    <2>2. /\ pc = "events"
          /\ Epoll!CloseClient(f) \/ Epoll!EchoClient(f) \/ Epoll!KilledBy(f)
      BY <1>4, <2>1 DEF Epoll!HandleClient
    <2>3. CASE Epoll!CloseClient(f)
      <3>1. /\ ReadEnd(sock[f]) \/ ReadError(sock[f])
            /\ Close(f) /\ efd' = efd \ {f} /\ sock[f] # NoConn
        BY <2>3, EpollCalls DEF Epoll!CloseClient, Epoll!Open
      <3>2. /\ OneProcess' /\ Promised /\ sock'[f] = NoConn
            /\ \A g \in Fds \ {f} : sock'[g] = sock[g]
        BY <1>0, <2>2, <3>1, CloseOne
      <3>3. EpollTable'
        BY <1>0, <2>2, <3>1, <3>2, NetAssumption DEF EpollTable
      <3> QED
        BY <3>2, <3>3 DEF EpollInv
    <2>4. CASE Epoll!EchoClient(f)
      <3>1. /\ ReadAndWrite(sock[f]) \/ WriteFails(sock[f])
            /\ efd' = efd /\ sock[f] # NoConn
        BY <2>4, EpollCalls DEF Epoll!EchoClient, Epoll!Open
      <3>2. OneProcess' /\ Promised /\ sock' = sock
        BY <1>0, <2>2, <3>1, EchoOne
      <3>3. EpollTable'
        BY <1>0, <2>2, <3>1, <3>2 DEF EpollTable
      <3> QED
        BY <3>2, <3>3 DEF EpollInv
    <2>5. CASE Epoll!KilledBy(f)
      <3>1. Epoll!Exit
        BY <2>5 DEF Epoll!KilledBy
      <3>2. CASE sock[f] # NoConn
        <4>1. left[sock[f]] = "rst"
          BY <2>5, <3>2, EpollCalls DEF Epoll!KilledBy, Epoll!Open, Sigpipe
        <4> QED
          BY <1>0, <3>1, <3>2, <4>1, EpollDies
      <3>3. CASE sock[f] = NoConn
        <4>1. Epoll!Astray
          BY <2>1, <2>2, <3>3 DEF Epoll!Astray, Epoll!Open
        <4> QED
          BY <1>0, <3>1, <4>1, EpollDies
      <3> QED
        BY <3>2, <3>3
    <2> QED
      BY <2>2, <2>3, <2>4, <2>5
  <1> QED
    BY <1>1, <1>2, <1>3, <1>4 DEF EpollStep, Epoll!Server

LEMMA EpollClientInv ==
    ASSUME EpollInv, ClientStep
    PROVE  EpollInv' /\ Promised
  <1>0. Client /\ kind' = kind /\ UNCHANGED <<efd, pc>>
    BY DEF ClientStep, serverVars, epollVars
  <1>1. OneProcess' /\ Promised /\ sock' = sock
    BY <1>0, ClientOne, ClientCall DEF EpollInv, OneProcess
  <1> QED
    BY <1>0, <1>1 DEF EpollInv, EpollTable

\* What epoll_wait has returned has something to read until it is handled, wherever
\* the counter goes: each descriptor is there once, and only the one whose event is
\* handled is read from or closed.
EpollReady ==
    pc = "events" =>
        /\ ep \in Seq({Listenfd} \union Fds)
        /\ \A k, l \in 1..Len(ep) : ep[k] = ep[l] => k = l
        /\ i \in Nat /\ i < Len(ep)
        /\ \A k \in 1..Len(ep) : k \notin handled => Readable(ep[k])

\* The events of a turn are different descriptors.
LEMMA EventsOf ==
    ASSUME NEW S \in SUBSET ({Listenfd} \union Fds), S # {}, NEW s \in Epoll!Orders(S)
    PROVE  /\ s \in Seq({Listenfd} \union Fds)
           /\ \A k \in 1..Len(s) : s[k] \in S
           /\ 0 < Len(s)
           /\ \A k, l \in 1..Len(s) : s[k] = s[l] => k = l
  <1>1. IsFiniteSet(S) /\ Cardinality(S) \in Nat /\ Cardinality(S) # 0
    <2>1. IsFiniteSet(Fds \union {Listenfd}) /\ S \subseteq Fds \union {Listenfd}
      BY NetAssumption, FS_AddElement
    <2>2. IsFiniteSet(S)
      BY <2>1, FS_Subset
    <2> QED
      BY <2>2, FS_CardinalityType, FS_EmptySet
  <1>2. /\ s \in [1..Cardinality(S) -> S]
        /\ \A k, l \in 1..Cardinality(S) : k # l => s[k] # s[l]
    <2>1. s \in [1..Cardinality(S) -> S] /\ \A k, l \in DOMAIN s : k # l => s[k] # s[l]
      <3>1. Epoll!Cardinality(S) = Cardinality(S)
        BY DEF Epoll!Cardinality, Cardinality
      <3> QED
        BY <3>1 DEF Epoll!Orders
    <2>2. DOMAIN s = 1..Cardinality(S)
      BY <2>1
    <2> QED
      BY <2>1, <2>2
  <1>3. s \in Seq({Listenfd} \union Fds) /\ Len(s) = Cardinality(S)
    <2>1. s \in Seq(S) /\ Len(s) = Cardinality(S)
      BY <1>1, <1>2
    <2> QED
      BY <2>1
  <1> QED
    BY <1>1, <1>2, <1>3

\* An event is handled, and the loop goes on with event n: the others stay what
\* they are.
LEMMA EpollGoesOn ==
    ASSUME EpollReady, pc = "events", NEW n \in Nat, Epoll!GoOn(n),
           \A k \in 1..Len(ep) : ep[k] # ep[i + 1] /\ Readable(ep[k]) => Readable(ep[k])'
    PROVE  EpollReady'
  <1>1. /\ ep' = ep /\ i' = n /\ handled' = handled \union {i + 1}
        /\ pc' = "events" => n < Len(ep)
    BY DEF Epoll!GoOn
  <1>2. /\ ep \in Seq({Listenfd} \union Fds) /\ Len(ep) \in Nat
        /\ i \in Nat /\ i + 1 \in 1..Len(ep)
        /\ \A k, l \in 1..Len(ep) : ep[k] = ep[l] => k = l
    BY DEF EpollReady
  <1>3. ASSUME NEW k \in 1..Len(ep), k \notin handled'
        PROVE  Readable(ep[k])'
    <2>1. k \notin handled /\ k # i + 1
      BY <1>1, <1>3
    <2>2. Readable(ep[k]) /\ ep[k] # ep[i + 1]
      BY <1>2, <2>1 DEF EpollReady
    <2> QED
      BY <2>2
  <1>4. \A k \in 1..Len(ep') : k \notin handled' => Readable(ep[k])'
    BY <1>1, <1>3
  <1> QED
    BY <1>1, <1>2, <1>4 DEF EpollReady

\* The events that are left stay what they are while one is handled.
LEMMA EpollReadyStep ==
    ASSUME EpollInv, EpollReady, EpollStep
    PROVE  EpollReady'
  <1>0. OneProcess /\ EpollTable /\ NetInv /\ NetTypeOK /\ kind' = kind
    BY DEF EpollInv, OneProcess, NetInv, EpollStep, RestOfEpoll
  <1>1. ASSUME pc = "events"
        PROVE  /\ i \in Nat /\ i + 1 \in Nat
               /\ \A k \in 1..Len(ep) : ep[k] \in {Listenfd} \union Fds
    BY <1>1 DEF EpollReady
  <1>3. CASE Epoll!Wait
    <2> DEFINE S == {f \in efd : Epoll!Readable(f)}
    <2>1. /\ S # {} /\ ep' \in Epoll!Orders(S) /\ i' = 0 /\ handled' = {}
          /\ UNCHANGED <<sock, backlog, unread, left>>
      BY <1>3 DEF Epoll!Wait, Epoll!netVars
    <2>2. S \in SUBSET ({Listenfd} \union Fds)
      BY <1>0 DEF EpollTable
    <2> HIDE DEF S
    <2>3. /\ ep' \in Seq({Listenfd} \union Fds)
          /\ \A k \in 1..Len(ep') : ep'[k] \in S
          /\ 0 < Len(ep')
          /\ \A k, l \in 1..Len(ep') : ep'[k] = ep'[l] => k = l
      BY <2>1, <2>2, EventsOf
    <2>4. \A f \in S : Readable(f) /\ Readable(f)'
      BY <2>1, EpollCalls DEF S, Readable
    <2>5. \A k \in 1..Len(ep') : Readable(ep[k])'
      BY <2>1, <2>3, <2>4 DEF Readable
    <2> QED
      BY <2>1, <2>3, <2>5 DEF EpollReady
  <1>4. CASE Epoll!AcceptClient
    <2>1. pc = "events" /\ ep[i + 1] = Listenfd /\ Epoll!GoOn(i + 1)
      BY <1>4 DEF Epoll!AcceptClient, Epoll!Event, Epoll!Listenfd, Listenfd
    <2>2. PICK f \in Fds : Accept(f)
      BY <1>4, EpollCalls DEF Epoll!AcceptClient
    <2>3. /\ sock[f] = NoConn /\ \A g \in Fds \ {f} : sock'[g] = sock[g]
          /\ UNCHANGED <<unread, left>>
      BY <1>0, <2>2, AcceptCall DEF Accept
    <2>4. ASSUME NEW k \in 1..Len(ep), ep[k] # ep[i + 1], Readable(ep[k])
          PROVE  Readable(ep[k])'
      <3>1. ep' = ep
        BY <2>1 DEF Epoll!GoOn
      <3>2. ep[k] # Listenfd /\ ep[k] \in Fds
        BY <1>1, <2>1, <2>4
      <3>3. sock'[ep[k]] = sock[ep[k]]
        BY <2>3, <2>4, <3>2 DEF Readable
      <3> QED
        BY <2>3, <2>4, <3>1, <3>2, <3>3 DEF Readable
    <2> QED
      BY <1>1, <2>1, <2>4, EpollGoesOn
  <1>5. CASE Epoll!AcceptFails
    BY <1>5 DEF Epoll!AcceptFails, Epoll!Exit, EpollReady
  <1>6. CASE Epoll!HandleClient
    <2>1. PICK f \in Fds : f = Epoll!Event
      BY <1>6 DEF Epoll!HandleClient
    <2>2. /\ pc = "events" /\ f = ep[i + 1] /\ f # Listenfd
          /\ Epoll!CloseClient(f) \/ Epoll!EchoClient(f) \/ Epoll!KilledBy(f)
      BY <1>6, <2>1, NetAssumption DEF Epoll!HandleClient, Epoll!Event
    <2>3. CASE Epoll!CloseClient(f)
      <3>1. Close(f) /\ Epoll!GoOn(i + 1)
        BY <2>3, EpollCalls DEF Epoll!CloseClient
      <3>2. /\ \A g \in Fds \ {f} : sock'[g] = sock[g]
            /\ UNCHANGED <<unread, left, backlog>> /\ ep' = ep
        BY <1>0, <3>1, NetAssumption DEF Close, NetTypeOK, Epoll!GoOn
      <3>3. ASSUME NEW k \in 1..Len(ep), ep[k] # ep[i + 1], Readable(ep[k])
            PROVE  Readable(ep[k])'
        <4>1. ep[k] # f /\ ep[k] \in {Listenfd} \union Fds
          BY <1>1, <2>2, <3>3
        <4> QED
          BY <3>2, <3>3, <4>1 DEF Readable
      <3> QED
        BY <1>1, <2>2, <3>1, <3>3, EpollGoesOn
    <2>4. CASE Epoll!EchoClient(f)
      <3>1. PICK n \in MessageBytes : Epoll!GoOn(n + 1)
        BY <2>4 DEF Epoll!EchoClient
      <3>2. n + 1 \in Nat
        BY ServersAssumption
      <3>3. /\ ReadAndWrite(sock[f]) \/ WriteFails(sock[f])
            /\ ep' = ep /\ sock[f] # NoConn
        BY <2>4, <3>1, EpollCalls DEF Epoll!EchoClient, Epoll!Open, Epoll!GoOn
      <3>4. /\ sock' = sock /\ backlog' = backlog
            /\ \A d \in Conns \ {sock[f]} : (d \in unread <=> d \in unread') /\ left'[d] = left[d]
        BY <1>0, <3>3, EchoOne
      <3>5. ASSUME NEW k \in 1..Len(ep), ep[k] # ep[i + 1], Readable(ep[k])
            PROVE  Readable(ep[k])'
        <4>1. CASE ep[k] = Listenfd
          BY <3>3, <3>4, <3>5, <4>1 DEF Readable
        <4>2. CASE ep[k] # Listenfd
          <5>1. PICK h \in Fds : h = ep[k] /\ h # f /\ h # Listenfd /\ Readable(h)
            BY <1>1, <2>2, <3>5, <4>2
          <5>2. PICK d \in Conns : d = sock[h] /\ d # sock[f] /\ d # NoConn
            BY <1>0, <3>3, <5>1, NetAssumption DEF Readable, NetInv, NetTypeOK
          <5>3. Readable(h)'
            BY <3>4, <5>1, <5>2 DEF Readable
          <5> QED
            BY <3>3, <5>1, <5>3 DEF Readable
        <4> QED
          BY <4>1, <4>2
      <3> QED
        BY <2>2, <3>1, <3>2, <3>5, EpollGoesOn
    <2>5. CASE Epoll!KilledBy(f)
      BY <2>5 DEF Epoll!KilledBy, Epoll!Exit, EpollReady
    <2> QED
      BY <2>2, <2>3, <2>4, <2>5
  <1> QED
    BY <1>3, <1>4, <1>5, <1>6 DEF EpollStep, Epoll!Server

\* No client can take back what epoll_wait has returned.
LEMMA EpollReadyClient ==
    ASSUME EpollInv, EpollReady, ClientStep
    PROVE  EpollReady'
  <1>0. Client /\ kind' = kind /\ UNCHANGED <<efd, pc, ep, i, handled>> /\ NetInv
    BY DEF ClientStep, serverVars, epollVars, EpollInv, OneProcess
  <1>1. ASSUME NEW f \in {Listenfd} \union Fds, Readable(f)
        PROVE  Readable(f)'
    <2>1. CASE f \in Fds
      BY <1>0, <1>1, <2>1, StaysReadable
    <2>2. CASE f = Listenfd
      <3>1. Readable(Listenfd)'
        BY <1>0, <1>1, <2>2, ListenStaysReadable
      <3> QED
        BY <2>2, <3>1
    <2> QED
      BY <2>1, <2>2
  <1>2. ASSUME pc = "events", NEW k \in 1..Len(ep), k \notin handled
        PROVE  Readable(ep[k])'
    <2>1. ep[k] \in {Listenfd} \union Fds /\ Readable(ep[k])
      BY <1>2 DEF EpollReady
    <2>2. PICK f \in {Listenfd} \union Fds : f = ep[k]
      BY <2>1
    <2>3. Readable(f)'
      BY <1>1, <2>1, <2>2
    <2> QED
      BY <1>0, <2>2, <2>3 DEF Readable
  <1> QED
    BY <1>0, <1>2 DEF EpollReady

-----------------------------------------------------------------------------
(* threads *)

LEMMA ThreadCalls ==
    ASSUME NEW f
    PROVE  /\ Thread!Accept(f) <=> Accept(f)
           /\ Thread!ReadAndWrite(f) <=> ReadAndWrite(f)
           /\ Thread!WriteFails(f) <=> WriteFails(f)
           /\ Thread!Sigpipe(f) <=> Sigpipe(f)
           /\ Thread!ReadEnd(f) <=> ReadEnd(f)
           /\ Thread!ReadError(f) <=> ReadError(f)
           /\ Thread!ReportError(f) <=> ReportError(f)
           /\ Thread!Close(f) <=> Close(f)
           /\ Thread!Readable(f) <=> Readable(f)
           /\ (Thread!Die <=> Die) /\ Thread!FreeFds = FreeFds
  BY DEF Thread!Accept, Thread!ReadAndWrite, Thread!WriteFails, Thread!Sigpipe, Thread!ReadEnd,
         Thread!ReadError, Thread!ReportError, Thread!Close, Thread!Readable, Thread!Die,
         Thread!FreeFds, Thread!Listenfd,
         Accept, ReadAndWrite, WriteFails, Sigpipe, ReadEnd, ReadError, ReportError, Close, Readable, Die, FreeFds, Listenfd

Elements == 0..TsSize-1

\* What is open has a thread, or main is about to start one for it; and no two
\* threads have the same descriptor.
ThreadTable ==
    /\ ts \in [Elements -> Fds \union {NoFd}]
    /\ serves \subseteq Elements
    /\ i \in 0..TsSize /\ \A k \in serves : k < i
    /\ \A k \in serves : ts[k] \in Fds /\ sock[ts[k]] # NoConn
    /\ \A k, l \in serves : k # l => ts[k] # ts[l]
    /\ pc = "create" =>
          /\ i \in Elements
          /\ ts[i] \in Fds /\ sock[ts[i]] # NoConn
          /\ \A k \in serves : ts[k] # ts[i]
    /\ \A f \in Fds : sock[f] # NoConn =>
          (\E k \in serves : ts[k] = f) \/ (pc = "create" /\ ts[i] = f)

ThreadInv == OneProcess /\ ThreadTable

LEMMA ThreadDies ==
    ASSUME ThreadInv, kind = "thread", kind' = kind, Thread!Exit,
           \/ \E f \in Fds : sock[f] # NoConn /\ left[sock[f]] = "rst"
           \/ FreeFds = {}
    PROVE  ThreadInv' /\ Promised
  <1>1. OneProcess /\ Die
    BY ThreadCalls DEF ThreadInv, Thread!Exit
  <1>2. OneProcess' /\ Promised /\ \A f \in Fds : sock'[f] = NoConn
    BY <1>1, DieOne
  <1>3. serves' = {} /\ pc' = "dead" /\ ts' = ts /\ i' = i
    BY DEF Thread!Exit
  <1>4. ThreadTable'
    BY <1>2, <1>3 DEF ThreadInv, ThreadTable
  <1> QED
    BY <1>2, <1>4 DEF ThreadInv

LEMMA MainStepInv ==
    ASSUME ThreadInv, MainStep
    PROVE  ThreadInv' /\ Promised
  <1>0. /\ OneProcess /\ ThreadTable /\ NetInv /\ NetTypeOK
        /\ kind = "thread" /\ kind' = kind /\ TsSize \in Nat \ {0}
    BY ServersAssumption DEF ThreadInv, OneProcess, NetInv, MainStep, RestOfThread
  <1>1. CASE Thread!AcceptClient
    <2>1. PICK f \in Fds : Accept(f) /\ ts' = [ts EXCEPT ![i] = f]
      BY <1>1, ThreadCalls DEF Thread!AcceptClient
    <2>2. /\ OneProcess' /\ Promised /\ sock[f] = NoConn /\ sock'[f] # NoConn
          /\ \A g \in Fds \ {f} : sock'[g] = sock[g]
      BY <1>0, <2>1, AcceptOne
    <2>3. pc = "accept" /\ i < TsSize /\ pc' = "create" /\ i' = i /\ serves' = serves
      BY <1>1 DEF Thread!AcceptClient
    <2>4. i \in Elements /\ \A k \in serves : k \in Elements /\ k # i
      BY <1>0, <2>3 DEF ThreadTable, Elements
    <2>5. /\ ts' \in [Elements -> Fds \union {NoFd}] /\ ts'[i] = f
          /\ \A k \in serves : ts'[k] = ts[k] /\ ts[k] \in Fds \ {f}
      BY <1>0, <2>1, <2>2, <2>4 DEF ThreadTable
    <2>6. \A k \in serves : ts'[k] \in Fds /\ sock'[ts'[k]] # NoConn
      BY <1>0, <2>2, <2>5 DEF ThreadTable
    <2>7. \A g \in Fds : sock'[g] # NoConn => (\E k \in serves : ts'[k] = g) \/ ts'[i] = g
      BY <1>0, <2>2, <2>3, <2>5 DEF ThreadTable
    <2>8. ThreadTable'
      BY <1>0, <2>2, <2>3, <2>4, <2>5, <2>6, <2>7 DEF ThreadTable
    <2> QED
      BY <2>2, <2>8 DEF ThreadInv
  <1>2. CASE Thread!AcceptFails
    <2>1. Thread!Exit /\ FreeFds = {}
      BY <1>2, ThreadCalls DEF Thread!AcceptFails
    <2> QED
      BY <1>0, <2>1, ThreadDies
  <1>3. CASE Thread!CreateThread
    <2>1. /\ pc = "create" /\ pc' = "accept" /\ serves' = serves \union {i} /\ i' = i + 1
          /\ UNCHANGED <<phase, backlog, sock, unread, left, reported, ts>>
      BY <1>3 DEF Thread!CreateThread, Thread!IndexRaised, Thread!netVars
    <2>2. OneProcess' /\ Promised
      BY <1>0, <2>1 DEF OneProcess, NetInv, NetTypeOK, Served, Held, Promised, Service!vars
    <2>3. i' \in 0..TsSize /\ \A k \in serves' : k < i'
      BY <1>0, <2>1 DEF ThreadTable, Elements
    <2>4. ThreadTable'
      BY <1>0, <2>1, <2>3 DEF ThreadTable
    <2> QED
      BY <2>2, <2>4 DEF ThreadInv
  <1> QED
    BY <1>1, <1>2, <1>3 DEF MainStep, Thread!Main

LEMMA ThreadStepInv ==
    ASSUME ThreadInv, NEW k \in 0..TsSize-1, ThreadStep(k)
    PROVE  ThreadInv' /\ Promised
  <1>0. /\ OneProcess /\ ThreadTable /\ NetInv /\ NetTypeOK
        /\ kind = "thread" /\ kind' = kind /\ k \in serves
    BY DEF ThreadInv, OneProcess, NetInv, ThreadStep, RestOfThread, Thread!Serve
  <1>1. PICK f \in Fds : f = ts[k] /\ sock[f] # NoConn
    BY <1>0 DEF ThreadTable
  <1>2. \/ /\ ReadAndWrite(sock[f]) \/ WriteFails(sock[f]) \/ ReportError(sock[f])
           /\ UNCHANGED <<pc, ts, i, serves>>
        \/ /\ ReadEnd(sock[f]) /\ Close(f)
           /\ serves' = serves \ {k} /\ UNCHANGED <<pc, ts, i>>
        \/ Sigpipe(sock[f]) /\ Thread!Exit
    BY <1>1, ThreadCalls DEF ThreadStep, Thread!Serve, Thread!serverVars
  <1>3. CASE /\ ReadAndWrite(sock[f]) \/ WriteFails(sock[f]) \/ ReportError(sock[f])
             /\ UNCHANGED <<pc, ts, i, serves>>
    <2>1. OneProcess' /\ Promised /\ sock' = sock
      BY <1>0, <1>1, <1>3, EchoOne
    <2> QED
      BY <1>0, <1>3, <2>1 DEF ThreadInv, ThreadTable
  <1>4. CASE /\ ReadEnd(sock[f]) /\ Close(f)
             /\ serves' = serves \ {k} /\ UNCHANGED <<pc, ts, i>>
    <2>1. /\ OneProcess' /\ Promised /\ sock'[f] = NoConn
          /\ \A g \in Fds \ {f} : sock'[g] = sock[g]
      BY <1>0, <1>1, <1>4, CloseOne
    <2>2. /\ \A l \in serves' : l \in serves /\ ts[l] \in Fds \ {f}
          /\ pc = "create" => ts[i] \in Fds \ {f}
      BY <1>0, <1>1, <1>4 DEF ThreadTable
    <2>3. \A g \in Fds : sock'[g] # NoConn => g # f /\ sock[g] # NoConn
      BY <2>1
    <2>4. \A g \in Fds : sock'[g] # NoConn =>
             (\E l \in serves' : ts[l] = g) \/ (pc = "create" /\ ts[i] = g)
      BY <1>0, <1>1, <1>4, <2>3 DEF ThreadTable
    <2>5. ThreadTable'
      BY <1>0, <1>4, <2>1, <2>2, <2>4 DEF ThreadTable
    <2> QED
      BY <2>1, <2>5 DEF ThreadInv
  <1>5. CASE Sigpipe(sock[f]) /\ Thread!Exit
    BY <1>0, <1>1, <1>5, ThreadDies DEF Sigpipe
  <1> QED
    BY <1>2, <1>3, <1>4, <1>5

LEMMA ThreadClientInv ==
    ASSUME ThreadInv, ClientStep
    PROVE  ThreadInv' /\ Promised
  <1>0. Client /\ kind' = kind /\ UNCHANGED <<ts, i, serves, pc>>
    BY DEF ClientStep, serverVars, threadVars
  <1>1. OneProcess' /\ Promised /\ sock' = sock
    BY <1>0, ClientOne, ClientCall DEF ThreadInv, OneProcess
  <1> QED
    BY <1>0, <1>1 DEF ThreadInv, ThreadTable

-----------------------------------------------------------------------------
(* processes *)

LEMMA ProcessCalls ==
    ASSUME NEW f
    PROVE  /\ Process!Accept(f) <=> Accept(f)
           /\ Process!ReadAndWrite(f) <=> ReadAndWrite(f)
           /\ Process!WriteFails(f) <=> WriteFails(f)
           /\ Process!Sigpipe(f) <=> Sigpipe(f)
           /\ Process!ReadEnd(f) <=> ReadEnd(f)
           /\ Process!ReadError(f) <=> ReadError(f)
           /\ Process!ReportError(f) <=> ReportError(f)
           /\ Process!Close(f) <=> Close(f)
           /\ Process!Readable(f) <=> Readable(f)
           /\ (Process!Die <=> Die) /\ Process!FreeFds = FreeFds
  BY DEF Process!Accept, Process!ReadAndWrite, Process!WriteFails, Process!Sigpipe, Process!ReadEnd,
         Process!ReadError, Process!ReportError, Process!Close, Process!Readable, Process!Die,
         Process!FreeFds, Process!Listenfd,
         Accept, ReadAndWrite, WriteFails, Sigpipe, ReadEnd, ReadError, ReportError, Close, Readable, Die, FreeFds, Listenfd

\* The parent holds at most the connection it has just accepted, a child that
\* runs holds its own and nothing else.  A connection whose child has ended is
\* open only until the parent closes it, and nothing is owed to it.
ProcessTable ==
    /\ child \in [Conns -> {"none", "runs", "zombie", "reaped"}]
    /\ holds = [c \in Conns |-> IF child[c] = "runs" THEN {c} ELSE {}]
    /\ pc \in {"accept", "fork", "parent"}
    /\ pc = "accept" => \A f \in Fds : sock[f] = NoConn
    /\ pc # "accept" => /\ connfd \in Fds /\ sock[connfd] # NoConn
                        /\ \A f \in Fds : sock[f] # NoConn => f = connfd
    /\ \A c \in Conns : phase[c] \in {"new", "queued"} => child[c] = "none"
    /\ \A c \in Conns : child[c] = "runs" => phase[c] = "open"
    /\ \A c \in Conns : phase[c] = "open" /\ child[c] # "runs" =>
          \E f \in Fds : sock[f] = c
    /\ \A f \in Fds : sock[f] # NoConn => (child[sock[f]] = "none" <=> pc = "fork")
    /\ \A f \in Fds : pc = "fork" /\ sock[f] # NoConn => phase[sock[f]] = "open"
    /\ \A c \in Conns : phase[c] = "open" /\ child[c] \in {"zombie", "reaped"} =>
          left[c] # "no" /\ c \notin unread

ProcessInv == NetInv /\ ProcessTable

\* Descriptors are only closed, and connections end.
LEMMA SomeEnd ==
    ASSUME NetInv,
           phase' \in [Conns -> {"new", "queued", "open", "closed", "broken"}],
           sock' \in [Fds -> Conns \union {NoConn}],
           \A c \in Conns : \/ phase'[c] = phase[c]
                            \/ phase[c] = "open" /\ phase'[c] \in {"closed", "broken"},
           \A f \in Fds : sock'[f] # NoConn => sock'[f] = sock[f] /\ phase'[sock[f]] # "closed",
           UNCHANGED <<backlog, unread, left, reported>>
    PROVE  NetInv'
  <1>1. NetTypeOK'
    BY DEF NetInv, NetTypeOK
  <1>2. \A f \in Fds : sock'[f] # NoConn => phase'[sock'[f]] \in {"open", "broken"}
    <2> SUFFICES ASSUME NEW f \in Fds, sock'[f] # NoConn
                 PROVE  phase'[sock[f]] \in {"open", "broken"}
      OBVIOUS
    <2>1. PICK c \in Conns : c = sock[f] /\ phase[c] \in {"open", "broken"}
      BY DEF NetInv, NetTypeOK
    <2> QED
      BY <2>1
  <1>3. \A j \in 1..Len(backlog) : phase'[backlog[j]] = "queued"
    <2> TAKE j \in 1..Len(backlog)
    <2>1. PICK c \in Conns : c = backlog[j] /\ phase[c] = "queued"
      BY DEF NetInv, NetTypeOK
    <2> QED
      BY <2>1
  <1> QED
    BY <1>1, <1>2, <1>3 DEF NetInv

LEMMA ParentStepInv ==
    ASSUME ProcessInv, ParentStep
    PROVE  ProcessInv' /\ Promised
  <1>0. /\ NetInv /\ ProcessTable /\ NetTypeOK /\ kind = "process" /\ kind' = kind
    BY DEF ProcessInv, NetInv, ParentStep, RestOfProcess
  <1>1. CASE Process!AcceptClient
    <2>1. PICK f \in Fds : Accept(f) /\ connfd' = f
      BY <1>1, ProcessCalls DEF Process!AcceptClient
    <2>2. /\ NetInv' /\ Promised
          /\ sock[f] = NoConn /\ sock'[f] \in Conns
          /\ \A g \in Fds \ {f} : sock'[g] = sock[g]
          /\ phase[sock'[f]] = "queued" /\ phase'[sock'[f]] = "open"
          /\ \A c \in Conns : c # sock'[f] => phase'[c] = phase[c]
          /\ UNCHANGED <<unread, left, reported>>
      BY <1>0, <2>1, AcceptCall
    <2>3. pc = "accept" /\ pc' = "fork" /\ child' = child /\ holds' = holds
      BY <1>1 DEF Process!AcceptClient
    <2>4. PICK x \in Conns : /\ x = sock'[f] /\ x # NoConn
                             /\ phase[x] = "queued" /\ phase'[x] = "open"
      BY <2>2, NetAssumption
    <2>5. /\ child[x] = "none"
          /\ \A g \in Fds : sock'[g] # NoConn => g = f
          /\ \A c \in Conns \ {x} : phase'[c] = phase[c]
      BY <1>0, <2>2, <2>3, <2>4 DEF ProcessTable
    <2>6. \A c \in Conns : phase'[c] \in {"new", "queued"} => child[c] = "none"
      BY <1>0, <2>5 DEF ProcessTable
    <2>7. \A c \in Conns : child[c] = "runs" => phase'[c] = "open"
      BY <1>0, <2>5 DEF ProcessTable
    <2>8. \A c \in Conns : phase'[c] = "open" /\ child[c] # "runs" => \E g \in Fds : sock'[g] = c
      BY <1>0, <2>3, <2>4, <2>5, NetAssumption DEF ProcessTable
    <2>9. \A c \in Conns : phase'[c] = "open" /\ child[c] \in {"zombie", "reaped"} =>
             left'[c] # "no" /\ c \notin unread'
      BY <1>0, <2>2, <2>5 DEF ProcessTable
    <2>10. ProcessTable'
      BY <1>0, <2>1, <2>3, <2>4, <2>5, <2>6, <2>7, <2>8, <2>9 DEF ProcessTable
    <2> QED
      BY <2>2, <2>10 DEF ProcessInv
  <1>2. CASE Process!Fork
    <2>1. /\ UNCHANGED <<phase, backlog, sock, unread, left, reported, connfd>>
          /\ pc = "fork" /\ pc' = "parent"
          /\ child' = [child EXCEPT ![sock[connfd]] = "runs"]
          /\ holds' = [holds EXCEPT ![sock[connfd]] = Process!InParent]
      BY <1>2 DEF Process!Fork, Process!netVars
    <2>2. PICK f \in Fds : f = connfd /\ sock[f] # NoConn /\ \A g \in Fds : sock[g] # NoConn => g = f
      BY <1>0, <2>1 DEF ProcessTable
    <2>3. PICK x \in Conns : x = sock[f] /\ phase[x] = "open" /\ x # NoConn
      <3>1. \A g \in Fds : sock[g] # NoConn => sock[g] \in Conns /\ phase[sock[g]] = "open"
        BY <1>0, <2>1 DEF ProcessTable, NetTypeOK
      <3> QED
        BY <2>2, <3>1
    <2>4. Process!InParent = {x}
      BY <2>2, <2>3 DEF Process!InParent
    <2>5. /\ child' \in [Conns -> {"none", "runs", "zombie", "reaped"}]
          /\ child'[x] = "runs" /\ \A c \in Conns \ {x} : child'[c] = child[c]
      BY <1>0, <2>1, <2>2, <2>3 DEF ProcessTable
    <2>6. holds' = [c \in Conns |-> IF child'[c] = "runs" THEN {c} ELSE {}]
      BY <1>0, <2>1, <2>2, <2>3, <2>4, <2>5 DEF ProcessTable
    <2>7. NetInv' /\ Promised
      BY <1>0, <2>1 DEF NetInv, NetTypeOK, Promised, Service!vars
    <2>8. \A g \in Fds : sock[g] # NoConn => sock[g] = x
      BY <2>2, <2>3
    <2>9. ProcessTable'
      <3>1. connfd \in Fds /\ sock[connfd] # NoConn /\ \A g \in Fds : sock[g] # NoConn => g = connfd
        BY <2>2
      <3>2. \A c \in Conns : phase[c] \in {"new", "queued"} => child'[c] = "none"
        BY <1>0, <2>3, <2>5 DEF ProcessTable
      <3>3. \A c \in Conns : child'[c] = "runs" => phase[c] = "open"
        BY <1>0, <2>3, <2>5 DEF ProcessTable
      <3>4. \A c \in Conns : phase[c] = "open" /\ child'[c] # "runs" => \E g \in Fds : sock[g] = c
        BY <1>0, <2>5 DEF ProcessTable
      <3>5. \A g \in Fds : sock[g] # NoConn => child'[sock[g]] # "none"
        BY <2>5, <2>8
      <3>6. \A c \in Conns : phase[c] = "open" /\ child'[c] \in {"zombie", "reaped"} =>
               left[c] # "no" /\ c \notin unread
        BY <1>0, <2>5 DEF ProcessTable
      <3>7. /\ pc' = "parent"
            /\ UNCHANGED <<phase, sock, unread, left, connfd>>
        BY <2>1
      <3> QED
        BY <2>5, <2>6, <3>1, <3>2, <3>3, <3>4, <3>5, <3>6, <3>7 DEF ProcessTable
    <2> QED
      BY <2>7, <2>9 DEF ProcessInv
  <1>3. CASE Process!ParentGoesOn
    <2>1. /\ UNCHANGED <<backlog, unread, left, reported, connfd, child, holds>>
          /\ pc = "parent" /\ pc' = "accept"
          /\ sock' = [sock EXCEPT ![connfd] = NoConn]
          /\ phase' = [c \in Conns |->
                IF phase[c] = "open" /\ c \notin (Process!InParent \ {sock[connfd]}) \union UNION {holds[d] : d \in Conns}
                  THEN "closed" ELSE phase[c]]
      BY <1>3 DEF Process!ParentGoesOn, Process!ParentCloses, Process!Closed
    <2>2. PICK f \in Fds : f = connfd /\ sock[f] # NoConn /\ \A g \in Fds : sock[g] # NoConn => g = f
      BY <1>0, <2>1 DEF ProcessTable
    <2>3. PICK x \in Conns : x = sock[f] /\ x # NoConn /\ child[x] # "none"
      BY <1>0, <2>1, <2>2, NetAssumption DEF ProcessTable, NetTypeOK
    <2>4. Process!InParent \ {x} = {}
      BY <2>2, <2>3 DEF Process!InParent
    <2>5. \A c \in Conns : c \in UNION {holds[d] : d \in Conns} <=> child[c] = "runs"
      BY <1>0 DEF ProcessTable
    <2>6. \A c \in Conns : phase'[c] = IF phase[c] = "open" /\ child[c] # "runs" THEN "closed" ELSE phase[c]
      BY <2>1, <2>2, <2>3, <2>4, <2>5
    <2>7. /\ \A c \in Conns : phase[c] = "open" /\ child[c] # "runs" => c = x
          /\ \A g \in Fds : sock'[g] = NoConn
          /\ sock' \in [Fds -> Conns \union {NoConn}]
          /\ phase' \in [Conns -> {"new", "queued", "open", "closed", "broken"}]
      <3>1. \A c \in Conns : phase[c] = "open" /\ child[c] # "runs" => c = x
        BY <1>0, <2>2, <2>3, NetAssumption DEF ProcessTable
      <3>2. \A g \in Fds : sock'[g] = NoConn
        BY <1>0, <2>1, <2>2 DEF NetTypeOK
      <3>3. sock' \in [Fds -> Conns \union {NoConn}]
        BY <1>0, <2>1, <2>2 DEF NetTypeOK
      <3>4. phase' \in [Conns -> {"new", "queued", "open", "closed", "broken"}]
        BY <1>0, <2>1 DEF NetTypeOK
      <3> QED
        BY <3>1, <3>2, <3>3, <3>4
    <2>8. NetInv'
      BY <1>0, <2>1, <2>6, <2>7, SomeEnd
    <2>9. Promised
      <3>1. CASE phase[x] = "open" /\ child[x] # "runs"
        <4>1. left[x] # "no" /\ x \notin unread
          BY <1>0, <2>3, <3>1 DEF ProcessTable
        <4>2. phase' = [phase EXCEPT ![x] = "closed"]
          BY <1>0, <2>1, <2>6, <2>7, <3>1 DEF NetTypeOK
        <4>3. Service!Close(x)
          BY <1>0, <2>1, <3>1, <4>1, <4>2 DEF Service!Close
        <4> QED
          BY <4>3 DEF Promised, Service!Next
      <3>2. CASE ~(phase[x] = "open" /\ child[x] # "runs")
        <4>1. phase' = phase
          BY <1>0, <2>1, <2>6, <2>7, <3>2 DEF NetTypeOK
        <4> QED
          BY <1>0, <2>1, <4>1 DEF Promised, Service!vars
      <3> QED
        BY <3>1, <3>2
    <2>10. ProcessTable'
      BY <1>0, <2>1, <2>6, <2>7 DEF ProcessTable
    <2> QED
      BY <2>8, <2>9, <2>10 DEF ProcessInv
  <1>4. CASE Process!Sigchld
    <2>1. /\ UNCHANGED <<phase, backlog, sock, unread, left, reported, connfd, pc, holds>>
          /\ child' = [c \in Conns |-> IF child[c] = "zombie" THEN "reaped" ELSE child[c]]
      BY <1>4 DEF Process!Sigchld, Process!ReapAll, Process!netVars
    <2>2. NetInv' /\ Promised
      BY <1>0, <2>1 DEF NetInv, NetTypeOK, Promised, Service!vars
    <2>3. /\ child' \in [Conns -> {"none", "runs", "zombie", "reaped"}]
          /\ \A c \in Conns : /\ child'[c] = "runs" <=> child[c] = "runs"
                              /\ child'[c] = "none" <=> child[c] = "none"
                              /\ child'[c] \in {"zombie", "reaped"} <=> child[c] \in {"zombie", "reaped"}
      BY <1>0, <2>1 DEF ProcessTable
    <2>4. holds' = [c \in Conns |-> IF child'[c] = "runs" THEN {c} ELSE {}]
      BY <1>0, <2>1, <2>3 DEF ProcessTable
    <2>5. \A f \in Fds : sock[f] # NoConn => (child'[sock[f]] = "none" <=> pc = "fork")
      BY <1>0, <2>3 DEF ProcessTable, NetTypeOK
    <2>6. ProcessTable'
      BY <1>0, <2>1, <2>3, <2>4, <2>5 DEF ProcessTable
    <2> QED
      BY <2>2, <2>6 DEF ProcessInv
  <1> QED
    BY <1>1, <1>2, <1>3, <1>4 DEF ParentStep, Process!Parent

\* A child that ends gives up what it holds.
LEMMA ChildEnds ==
    ASSUME ProcessTable, NEW c \in Conns, child[c] = "runs", Process!Ends(c)
    PROVE  /\ child' \in [Conns -> {"none", "runs", "zombie", "reaped"}]
           /\ child'[c] = "zombie" /\ \A d \in Conns \ {c} : child'[d] = child[d]
           /\ holds' = [d \in Conns |-> IF child'[d] = "runs" THEN {d} ELSE {}]
           /\ pc' = pc /\ connfd' = connfd
  BY DEF ProcessTable, Process!Ends

LEMMA ChildStepInv ==
    ASSUME ProcessInv, NEW c \in Conns, ChildStep(c)
    PROVE  ProcessInv' /\ Promised
  <1>0. /\ NetInv /\ ProcessTable /\ NetTypeOK /\ kind = "process" /\ kind' = kind
        /\ child[c] = "runs" /\ phase[c] = "open"
    BY DEF ProcessInv, NetInv, ProcessTable, ChildStep, RestOfProcess, Process!Child,
           Process!ChildEchoes, Process!ChildReturns, Process!ChildKilled
  <1>1. CASE Process!ChildEchoes(c)
    <2>1. /\ ReadAndWrite(c) \/ WriteFails(c) \/ ReportError(c)
          /\ UNCHANGED <<pc, connfd, child, holds>>
      BY <1>1, ProcessCalls DEF Process!ChildEchoes, Process!ReadFails, Process!Stays, Process!serverVars
    <2>2. /\ NetInv' /\ Promised /\ sock' = sock /\ phase' = phase
          /\ \A d \in Conns \ {c} : (d \in unread <=> d \in unread') /\ left'[d] = left[d]
      <3>1. CASE ReadAndWrite(c) \/ WriteFails(c)
        BY <1>0, <3>1, EchoCall
      <3>2. CASE ReportError(c)
        BY <1>0, <3>2, ReportCall
      <3> QED
        BY <2>1, <3>1, <3>2
    <2>3. \A d \in Conns : phase[d] = "open" /\ child[d] \in {"zombie", "reaped"} =>
             left'[d] # "no" /\ d \notin unread'
      BY <1>0, <2>2 DEF ProcessTable
    <2>4. ProcessTable'
      BY <1>0, <2>1, <2>2, <2>3 DEF ProcessTable
    <2> QED
      BY <2>2, <2>4 DEF ProcessInv
  <1>2. CASE Process!ChildReturns(c)
    <2>1. /\ UNCHANGED <<backlog, sock, unread, left, reported>>
          /\ Process!Ends(c)
          /\ ReadEnd(c) \/ ReadError(c)
          /\ phase' = [x \in Conns |->
                IF phase[x] = "open" /\ x \notin Process!InParent \union UNION {[holds EXCEPT ![c] = {}][d] : d \in Conns}
                  THEN "closed" ELSE phase[x]]
      BY <1>2, ProcessCalls DEF Process!ChildReturns, Process!Closed
    <2>2. /\ child' \in [Conns -> {"none", "runs", "zombie", "reaped"}]
          /\ child'[c] = "zombie" /\ \A d \in Conns \ {c} : child'[d] = child[d]
          /\ holds' = [d \in Conns |-> IF child'[d] = "runs" THEN {d} ELSE {}]
          /\ pc' = pc /\ connfd' = connfd
      BY <1>0, <2>1, ChildEnds
    <2>3. \A x \in Conns : x \in UNION {[holds EXCEPT ![c] = {}][d] : d \in Conns}
                               <=> x # c /\ child[x] = "runs"
      <3> DEFINE h == [holds EXCEPT ![c] = {}]
      <3>1. \A d \in Conns : h[d] = IF d # c /\ child[d] = "runs" THEN {d} ELSE {}
        BY <1>0 DEF ProcessTable
      <3>2. \A x \in Conns : x \in UNION {h[d] : d \in Conns} <=> \E d \in Conns : x \in h[d]
        <4> HIDE DEF h
        <4> QED
          OBVIOUS
      <3>3. ASSUME NEW x \in Conns
            PROVE  (\E d \in Conns : x \in h[d]) <=> x # c /\ child[x] = "runs"
        <4> HIDE DEF h
        <4>1. h[x] = IF x # c /\ child[x] = "runs" THEN {x} ELSE {}
          BY <3>1
        <4>2. \A d \in Conns : x \in h[d] => d = x /\ d # c /\ child[d] = "runs"
          BY <3>1
        <4> QED
          BY <4>1, <4>2
      <3> QED
        BY <3>2, <3>3
    <2>4. \A x \in Conns : x \in Process!InParent <=> \E f \in Fds : sock[f] = x
      BY NetAssumption DEF Process!InParent
    <2>5. left[c] # "no" /\ c \notin unread
      BY <2>1 DEF ReadEnd, ReadError
    <2>6. \A x \in Conns \ {c} : phase'[x] = phase[x]
      BY <1>0, <2>1, <2>3, <2>4 DEF ProcessTable
    <2>7. phase'[c] = IF \E f \in Fds : sock[f] = c THEN "open" ELSE "closed"
      BY <1>0, <2>1, <2>3, <2>4
    <2>8. phase' \in [Conns -> {"new", "queued", "open", "closed", "broken"}]
      BY <1>0, <2>1 DEF NetTypeOK
    <2>9. NetInv'
      <3>1. \A f \in Fds : sock[f] # NoConn => phase'[sock[f]] # "closed"
        <4> SUFFICES ASSUME NEW f \in Fds, sock[f] # NoConn
                     PROVE  phase'[sock[f]] # "closed"
          OBVIOUS
        <4>1. PICK x \in Conns : x = sock[f] /\ phase[x] \in {"open", "broken"}
          BY <1>0 DEF NetInv, NetTypeOK
        <4> QED
          BY <2>6, <2>7, <4>1
      <3>2. sock' = sock /\ sock' \in [Fds -> Conns \union {NoConn}]
        BY <1>0, <2>1 DEF NetTypeOK
      <3>3. \A x \in Conns : \/ phase'[x] = phase[x]
                             \/ phase[x] = "open" /\ phase'[x] \in {"closed", "broken"}
        BY <1>0, <2>6, <2>7
      <3> QED
        BY <1>0, <2>1, <2>8, <3>1, <3>2, <3>3, SomeEnd
    <2>10. Promised
      <3>1. CASE \E f \in Fds : sock[f] = c
        <4>1. phase' = phase
          BY <1>0, <2>6, <2>7, <2>8, <3>1 DEF NetTypeOK
        <4> QED
          BY <1>0, <2>1, <4>1 DEF Promised, Service!vars
      <3>2. CASE ~ \E f \in Fds : sock[f] = c
        <4>1. phase' = [phase EXCEPT ![c] = "closed"]
          BY <1>0, <2>6, <2>7, <2>8, <3>2 DEF NetTypeOK
        <4>2. Service!Close(c)
          BY <1>0, <2>1, <2>5, <4>1 DEF Service!Close
        <4> QED
          BY <4>2 DEF Promised, Service!Next
      <3> QED
        BY <3>1, <3>2
    <2>11. ProcessTable'
      <3>1. \A x \in Conns : phase'[x] \in {"new", "queued"} => child'[x] = "none"
        BY <1>0, <2>2, <2>6, <2>7 DEF ProcessTable
      <3>2. \A x \in Conns : child'[x] = "runs" => phase'[x] = "open"
        BY <1>0, <2>2, <2>6 DEF ProcessTable
      <3>3. \A x \in Conns : phase'[x] = "open" /\ child'[x] # "runs" => \E f \in Fds : sock[f] = x
        BY <1>0, <2>2, <2>6, <2>7 DEF ProcessTable
      <3>4. \A f \in Fds : sock[f] # NoConn => (child'[sock[f]] = "none" <=> pc = "fork")
        BY <1>0, <2>2 DEF ProcessTable, NetTypeOK
      <3>5. \A f \in Fds : pc = "fork" /\ sock[f] # NoConn => phase'[sock[f]] = "open"
        BY <1>0, <2>6, <2>7 DEF ProcessTable, NetTypeOK
      <3>6. \A x \in Conns : phase'[x] = "open" /\ child'[x] \in {"zombie", "reaped"} =>
               left[x] # "no" /\ x \notin unread
        BY <1>0, <2>2, <2>5, <2>6 DEF ProcessTable
      <3>7. UNCHANGED <<sock, unread, left>>
        BY <2>1
      <3>8. /\ pc \in {"accept", "fork", "parent"}
            /\ pc = "accept" => \A f \in Fds : sock[f] = NoConn
            /\ pc # "accept" => /\ connfd \in Fds /\ sock[connfd] # NoConn
                                /\ \A f \in Fds : sock[f] # NoConn => f = connfd
        BY <1>0 DEF ProcessTable
      <3> QED
        BY <2>2, <3>1, <3>2, <3>3, <3>4, <3>5, <3>6, <3>7, <3>8 DEF ProcessTable
    <2> QED
      BY <2>9, <2>10, <2>11 DEF ProcessInv
  <1>3. CASE Process!ChildKilled(c)
    <2>1. /\ UNCHANGED <<backlog, sock, unread, left, reported>>
          /\ Process!Ends(c) /\ Sigpipe(c)
          /\ phase' = [phase EXCEPT ![c] = "broken"]
      BY <1>3, ProcessCalls DEF Process!ChildKilled
    <2>2. /\ child' \in [Conns -> {"none", "runs", "zombie", "reaped"}]
          /\ child'[c] = "zombie" /\ \A d \in Conns \ {c} : child'[d] = child[d]
          /\ holds' = [d \in Conns |-> IF child'[d] = "runs" THEN {d} ELSE {}]
          /\ pc' = pc /\ connfd' = connfd
      BY <1>0, <2>1, ChildEnds
    <2>3. /\ phase' \in [Conns -> {"new", "queued", "open", "closed", "broken"}]
          /\ phase'[c] = "broken" /\ \A x \in Conns \ {c} : phase'[x] = phase[x]
      BY <1>0, <2>1 DEF NetTypeOK
    <2>4. NetInv'
      <3>1. \A f \in Fds : sock[f] # NoConn => phase'[sock[f]] # "closed"
        <4> SUFFICES ASSUME NEW f \in Fds, sock[f] # NoConn
                     PROVE  phase'[sock[f]] # "closed"
          OBVIOUS
        <4>1. PICK x \in Conns : x = sock[f] /\ phase[x] \in {"open", "broken"}
          BY <1>0 DEF NetInv, NetTypeOK
        <4> QED
          BY <2>3, <4>1
      <3>2. sock' = sock /\ sock' \in [Fds -> Conns \union {NoConn}]
        BY <1>0, <2>1 DEF NetTypeOK
      <3>3. \A x \in Conns : \/ phase'[x] = phase[x]
                             \/ phase[x] = "open" /\ phase'[x] \in {"closed", "broken"}
        BY <1>0, <2>3
      <3> QED
        BY <1>0, <2>1, <2>3, <3>1, <3>2, <3>3, SomeEnd
    <2>5. Promised
      <3>1. Service!BreakOne(c)
        BY <1>0, <2>1 DEF Service!BreakOne, Sigpipe
      <3> QED
        BY <3>1 DEF Promised, Service!Next
    <2>6. ProcessTable'
      <3>1. \A x \in Conns : phase'[x] \in {"new", "queued"} => child'[x] = "none"
        BY <1>0, <2>2, <2>3 DEF ProcessTable
      <3>2. \A x \in Conns : child'[x] = "runs" => phase'[x] = "open"
        BY <1>0, <2>2, <2>3 DEF ProcessTable
      <3>3. \A x \in Conns : phase'[x] = "open" /\ child'[x] # "runs" => \E f \in Fds : sock[f] = x
        BY <1>0, <2>2, <2>3 DEF ProcessTable
      <3>4. \A f \in Fds : sock[f] # NoConn => (child'[sock[f]] = "none" <=> pc = "fork")
        BY <1>0, <2>2 DEF ProcessTable, NetTypeOK
      <3>5. \A f \in Fds : pc = "fork" /\ sock[f] # NoConn => phase'[sock[f]] = "open"
        BY <1>0, <2>3 DEF ProcessTable, NetTypeOK
      <3>6. \A x \in Conns : phase'[x] = "open" /\ child'[x] \in {"zombie", "reaped"} =>
               left[x] # "no" /\ x \notin unread
        BY <1>0, <2>2, <2>3 DEF ProcessTable
      <3> QED
        BY <1>0, <2>1, <2>2, <3>1, <3>2, <3>3, <3>4, <3>5, <3>6 DEF ProcessTable
    <2> QED
      BY <2>4, <2>5, <2>6 DEF ProcessInv
  <1> QED
    BY <1>1, <1>2, <1>3 DEF ChildStep, Process!Child

LEMMA ProcessClientInv ==
    ASSUME ProcessInv, ClientStep
    PROVE  ProcessInv' /\ Promised
  <1>0. /\ Client /\ kind' = kind /\ UNCHANGED <<pc, connfd, child, holds>>
        /\ NetInv /\ ProcessTable
    BY DEF ProcessInv, ClientStep, serverVars, processVars
  <1>1. /\ NetInv' /\ Promised
        /\ sock' = sock
        /\ \A c \in Conns : /\ phase[c] = "open" <=> phase'[c] = "open"
                            /\ left[c] # "no" =>
                                  left'[c] = left[c] /\ (c \in unread' <=> c \in unread)
                            /\ phase'[c] \in {"new", "queued"} <=> phase[c] \in {"new", "queued"}
    BY <1>0, ClientCall
  <1>2. \A f \in Fds : pc = "fork" /\ sock[f] # NoConn => phase'[sock[f]] = "open"
    BY <1>0, <1>1 DEF ProcessTable, NetInv, NetTypeOK
  <1>3. \A c \in Conns : phase'[c] = "open" /\ child[c] \in {"zombie", "reaped"} =>
           left'[c] # "no" /\ c \notin unread'
    BY <1>0, <1>1 DEF ProcessTable
  <1>4. \A c \in Conns : phase'[c] = "open" /\ child[c] # "runs" => \E f \in Fds : sock[f] = c
    BY <1>0, <1>1 DEF ProcessTable
  <1>5. ProcessTable'
    BY <1>0, <1>1, <1>2, <1>3, <1>4 DEF ProcessTable
  <1> QED
    BY <1>1, <1>5 DEF ProcessInv

-----------------------------------------------------------------------------
(* the beginning, and all five together *)

LEMMA NetStarts ==
    ASSUME NetInit
    PROVE  NetInv /\ OneProcess /\ \A f \in Fds : sock[f] = NoConn
  <1>1. << >> \in Seq(Conns) /\ Len(backlog) = 0
    BY DEF NetInit
  <1>3. NetTypeOK
    BY <1>1 DEF NetInit, NetTypeOK
  <1>4. \A f \in Fds : sock[f] = NoConn
    BY DEF NetInit
  <1>5. 1..Len(backlog) = {}
    BY <1>1
  <1>6. NetInv
    BY <1>3, <1>4, <1>5 DEF NetInv, NetInit
  <1>7. Served /\ Held
    BY <1>4 DEF Served, Held, NetInit
  <1> QED
    BY <1>4, <1>6, <1>7 DEF OneProcess

Inv ==
    /\ kind \in Kinds
    /\ kind = "select" => SelectInv
    /\ kind = "poll" => PollInv
    /\ kind = "epoll" => EpollInv
    /\ kind = "process" => ProcessInv
    /\ kind = "thread" => ThreadInv

LEMMA Begins ==
    ASSUME Init
    PROVE  Inv
  <1>0. kind \in Kinds /\ Room \in Nat \ {0} /\ TsSize \in Nat \ {0}
    BY ServersAssumption DEF Init
  <1>1. CASE kind = "select"
    <2>1. /\ NetInit
          /\ pc = "select" /\ client = [k \in 0..Room-1 |-> NoFd] /\ maxi = -1
          /\ allset = {Listenfd} /\ i = 0
      BY <1>1 DEF Init, Select!Init, Select!NetInit, NetInit, Select!NoFd, NoFd,
                  Select!Listenfd, Listenfd
    <2>2. OneProcess /\ \A f \in Fds : sock[f] = NoConn
      BY <2>1, NetStarts
    <2>3. SelectTable /\ SelectReady
      BY <1>0, <2>1, <2>2, NetAssumption DEF SelectTable, SelectReady, SelectSlots, NoFd, Listenfd
    <2> QED
      BY <1>0, <1>1, <2>2, <2>3 DEF Inv, SelectInv
  <1>2. CASE kind = "poll"
    <2>1. /\ NetInit
          /\ pc = "poll" /\ maxi = 0 /\ i = 1 /\ revents \subseteq DirtyStack
          /\ client = [k \in 0..Room |-> IF k = 0 THEN Listenfd ELSE NoFd]
      <3>1. (Room + 1) - 1 = Room
        BY <1>0
      <3> QED
        BY <1>2, <3>1 DEF Init, Poll!Init, Poll!NetInit, NetInit, Poll!NoFd, NoFd,
                          Poll!Listenfd, Listenfd
    <2>2. OneProcess /\ \A f \in Fds : sock[f] = NoConn
      BY <2>1, NetStarts
    <2>3. PollTable /\ PollReady
      BY <1>0, <2>1, <2>2, NetAssumption DEF PollTable, PollReady, PollSlots, NoFd, Listenfd
    <2> QED
      BY <1>0, <1>2, <2>2, <2>3 DEF Inv, PollInv
  <1>3. CASE kind = "epoll"
    <2>1. NetInit /\ efd = {Listenfd}
      BY <1>3 DEF Init, Epoll!Init, Epoll!NetInit, NetInit, Epoll!Listenfd, Listenfd
    <2>2. OneProcess /\ \A f \in Fds : sock[f] = NoConn
      BY <2>1, NetStarts
    <2>3. EpollTable
      BY <2>1, <2>2, NetAssumption DEF EpollTable
    <2> QED
      BY <1>0, <1>3, <2>2, <2>3 DEF Inv, EpollInv
  <1>4. CASE kind = "process"
    <2>1. /\ NetInit /\ pc = "accept"
          /\ child = [c \in Conns |-> "none"] /\ holds = [c \in Conns |-> {}]
      BY <1>4 DEF Init, Process!Init, Process!NetInit, NetInit
    <2>2. NetInv /\ \A f \in Fds : sock[f] = NoConn
      BY <2>1, NetStarts
    <2>3. \A c \in Conns : phase[c] = "new"
      BY <2>1 DEF NetInit
    <2>4. ProcessTable
      BY <2>1, <2>2, <2>3 DEF ProcessTable
    <2> QED
      BY <1>0, <1>4, <2>2, <2>4 DEF Inv, ProcessInv
  <1>5. CASE kind = "thread"
    <2>1. /\ NetInit
          /\ pc = "accept" /\ ts = [k \in 0..TsSize-1 |-> NoFd] /\ i = 0 /\ serves = {}
      BY <1>5 DEF Init, Thread!Init, Thread!NetInit, NetInit, Thread!NoFd, NoFd
    <2>2. OneProcess /\ \A f \in Fds : sock[f] = NoConn
      BY <2>1, NetStarts
    <2>3. ThreadTable
      BY <1>0, <2>1, <2>2 DEF ThreadTable, Elements
    <2> QED
      BY <1>0, <1>5, <2>2, <2>3 DEF Inv, ThreadInv
  <1> QED
    BY <1>0, <1>1, <1>2, <1>3, <1>4, <1>5, ServersAssumption

LEMMA Steps ==
    ASSUME Inv, Next
    PROVE  Inv' /\ Promised
  <1>1. CASE ClientStep
    <2>1. kind' = kind
      BY <1>1 DEF ClientStep, serverVars
    <2>2. CASE kind = "select"
      BY <1>1, <2>1, <2>2, SelectClientInv DEF Inv
    <2>3. CASE kind = "poll"
      BY <1>1, <2>1, <2>3, PollClientInv DEF Inv
    <2>4. CASE kind = "epoll"
      BY <1>1, <2>1, <2>4, EpollClientInv DEF Inv
    <2>5. CASE kind = "process"
      BY <1>1, <2>1, <2>5, ProcessClientInv DEF Inv
    <2>6. CASE kind = "thread"
      BY <1>1, <2>1, <2>6, ThreadClientInv DEF Inv
    <2> QED
      BY <2>2, <2>3, <2>4, <2>5, <2>6, ServersAssumption DEF Inv
  <1>2. CASE SelectStep
    <2>1. kind = "select" /\ kind' = kind
      BY <1>2 DEF SelectStep, RestOfSelect
    <2> QED
      BY <1>2, <2>1, SelectStepInv DEF Inv
  <1>3. CASE PollStep
    <2>1. kind = "poll" /\ kind' = kind
      BY <1>3 DEF PollStep, RestOfPoll
    <2> QED
      BY <1>3, <2>1, PollStepInv DEF Inv
  <1>4. CASE EpollStep
    <2>1. kind = "epoll" /\ kind' = kind
      BY <1>4 DEF EpollStep, RestOfEpoll
    <2> QED
      BY <1>4, <2>1, EpollStepInv DEF Inv
  <1>5. CASE ParentStep
    <2>1. kind = "process" /\ kind' = kind
      BY <1>5 DEF ParentStep, RestOfProcess
    <2> QED
      BY <1>5, <2>1, ParentStepInv DEF Inv
  <1>6. ASSUME NEW c \in Conns, ChildStep(c)
        PROVE  Inv' /\ Promised
    <2>1. kind = "process" /\ kind' = kind
      BY <1>6 DEF ChildStep, RestOfProcess
    <2> QED
      BY <1>6, <2>1, ChildStepInv DEF Inv
  <1>7. CASE MainStep
    <2>1. kind = "thread" /\ kind' = kind
      BY <1>7 DEF MainStep, RestOfThread
    <2> QED
      BY <1>7, <2>1, MainStepInv DEF Inv
  <1>8. ASSUME NEW k \in 0..TsSize-1, ThreadStep(k)
        PROVE  Inv' /\ Promised
    <2>1. kind = "thread" /\ kind' = kind
      BY <1>8 DEF ThreadStep, RestOfThread
    <2> QED
      BY <1>8, <2>1, ThreadStepInv DEF Inv
  <1> QED
    BY <1>1, <1>2, <1>3, <1>4, <1>5, <1>6, <1>7, <1>8 DEF Next

LEMMA Stutters ==
    ASSUME Inv, UNCHANGED vars
    PROVE  Inv' /\ Promised
  <1>0. /\ UNCHANGED <<phase, backlog, sock, unread, left, reported>>
        /\ UNCHANGED <<kind, pc, client, maxi, nready, i, allset, rset, revents, efd>>
        /\ UNCHANGED <<connfd, child, holds, ts, serves>>
    BY DEF vars, netVars, serverVars, tableVars, selectVars, pollVars, epollVars, processVars,
           threadVars
  <1>1. Promised
    BY <1>0 DEF Promised, Service!vars
  <1>2. /\ NetInv' <=> NetInv
        /\ Served' <=> Served
        /\ Held' <=> Held
    BY <1>0 DEF NetInv, NetTypeOK, Served, Held
  <1>3. /\ SelectTable' <=> SelectTable
        /\ PollTable' <=> PollTable
        /\ EpollTable' <=> EpollTable
        /\ ProcessTable' <=> ProcessTable
        /\ ThreadTable' <=> ThreadTable
    BY <1>0 DEF SelectTable, PollTable, EpollTable, ProcessTable, ThreadTable
  <1>4. /\ SelectReady' <=> SelectReady
        /\ PollReady' <=> PollReady
    BY <1>0 DEF SelectReady, PollReady, PollCount, PollNamed, Readable
  <1> QED
    BY <1>0, <1>1, <1>2, <1>3, <1>4
    DEF Inv, SelectInv, PollInv, EpollInv, ProcessInv, ThreadInv, OneProcess

-----------------------------------------------------------------------------
(* What follows *)

LEMMA InvAlways == Spec => []Inv
  <1>1. Init => Inv
    BY Begins
  <1>2. Inv /\ [Next]_vars => Inv'
    BY Steps, Stutters
  <1> QED
    BY <1>1, <1>2, PTL DEF Spec

\* The types of what the servers share with the kernel and their clients.
THEOREM TypeCorrect == Spec => []TypeOK
  <1>1. Inv => TypeOK
    BY ServersAssumption
    DEF Inv, TypeOK, SelectInv, PollInv, EpollInv, ProcessInv, ThreadInv, OneProcess, NetInv
  <1> QED
    BY <1>1, InvAlways, PTL

\* Every server, whatever the number of connections, descriptors and slots,
\* answers what it is sent, closes what has left and nothing else, and breaks
\* down for the causes of EchoService only.
THEOREM ServiceKept == Spec => KeepsService
  <1>1. Init => Service!Init
    <2> SUFFICES ASSUME Init PROVE Service!Init
      OBVIOUS
    <2>1. NetInit
      BY DEF Init, Select!Init, Select!NetInit, Poll!Init, Poll!NetInit, Epoll!Init, Epoll!NetInit,
             Process!Init, Process!NetInit, Thread!Init, Thread!NetInit, NetInit
    <2>2. Room \in Nat /\ Cardinality(Fds) \in Nat
      BY ServersAssumption, NetAssumption, FS_CardinalityType
    <2>3. (IF kind \in {"select", "poll"} /\ Room < Cardinality(Fds)
             THEN Room ELSE Cardinality(Fds)) \in Nat
      BY <2>2
    <2>4. (kind # "process") \in BOOLEAN
      OBVIOUS
    <2> QED
      BY <2>1, <2>3, <2>4 DEF NetInit, Service!Init
  <1>2. Inv /\ [Next]_vars => [Service!Next]_(Service!vars)
    BY Steps, Stutters DEF Promised
  <1> QED
    BY <1>1, <1>2, InvAlways, PTL DEF Spec, KeepsService, Service!Spec

\* What a server has written down about its connections is what the kernel has
\* open, after any sequence of comings and goings.
THEOREM TablesSafe == Spec => []Tables
  <1>1. ASSUME Inv PROVE Tables
    <2>0. Room \in Nat \ {0} /\ Fds \subseteq Nat \ {0}
      BY ServersAssumption, NetAssumption DEF Listenfd
    <2>1. ASSUME kind = "select" PROVE Select!Tables
      <3>0. SelectTable /\ Listenfd = 0 /\ NoFd = -1
        BY <1>1, <2>1 DEF Inv, SelectInv, Listenfd, NoFd
      <3>1. ASSUME NEW k \in SelectSlots
            PROVE  client[k] >= 0 <=> client[k] \in Fds
        <4>1. client[k] \in Fds \/ client[k] = -1
          BY <3>0 DEF SelectTable
        <4>2. -1 \notin Fds /\ ~ (-1 >= 0) /\ \A f \in Fds : f >= 0
          BY <2>0
        <4>3. CASE client[k] = -1
          BY <4>2, <4>3
        <4>4. CASE client[k] \in Fds
          <5>1. client[k] >= 0
            BY <4>2, <4>4
          <5> QED
            BY <4>4, <5>1
        <4> QED
          BY <4>1, <4>3, <4>4
      <3>2. \A f : f \in allset <=> f = 0 \/ \E k \in SelectSlots : client[k] >= 0 /\ f = client[k]
        BY <2>0, <3>0, <3>1 DEF SelectTable
      <3>3. allset = {0} \union {client[k] : k \in {l \in SelectSlots : client[l] >= 0}}
        BY <3>2
      <3> QED
        BY <3>0, <3>3 DEF Select!Tables, Select!Listenfd, SelectTable, SelectSlots
    <2>2. ASSUME kind = "poll" PROVE Poll!Tables
      <3>0. PollTable /\ NoFd = -1
        BY <1>1, <2>2 DEF Inv, PollInv, NoFd
      <3>1. ASSUME NEW k \in PollSlots
            PROVE  client[k] >= 0 <=> client[k] \in Fds
        <4>1. client[k] \in Fds \/ client[k] = -1
          BY <3>0 DEF PollTable
        <4>2. -1 \notin Fds /\ ~ (-1 >= 0) /\ \A f \in Fds : f >= 0
          BY <2>0
        <4>3. CASE client[k] = -1
          BY <4>2, <4>3
        <4>4. CASE client[k] \in Fds
          <5>1. client[k] >= 0
            BY <4>2, <4>4
          <5> QED
            BY <4>4, <5>1
        <4> QED
          BY <4>1, <4>3, <4>4
      <3>2. pc # "dead" => \A f : (f \in Fds /\ sock[f] # NoConn) <=>
                                  \E k \in PollSlots : client[k] >= 0 /\ f = client[k]
        BY <3>0, <3>1 DEF PollTable
      <3>3. pc # "dead" => {client[k] : k \in {l \in PollSlots : client[l] >= 0}}
                             = {f \in Fds : sock[f] # NoConn}
        BY <3>2
      <3>4. /\ 0..(Room + 1) - 1 = {0} \union PollSlots
            /\ 1..(Room + 1) - 1 = PollSlots
        BY <2>0 DEF PollSlots
      <3>5. ASSUME NEW k \in {0} \union PollSlots, NEW l \in {0} \union PollSlots,
                   k # l, client[k] >= 0
            PROVE  client[k] # client[l]
        <4>1. client[0] = 0
          BY <3>0 DEF PollTable, Listenfd
        <4>2. \A m \in PollSlots : client[m] # 0
          BY <2>0, <3>0 DEF PollTable
        <4>3. CASE k \in PollSlots /\ l \in PollSlots
          BY <3>0, <3>5, <4>3 DEF PollTable
        <4> QED
          BY <3>5, <4>1, <4>2, <4>3
      <3> QED
        BY <3>3, <3>4, <3>5 DEF Poll!Tables
    <2>3. ASSUME kind = "epoll" PROVE Epoll!Tables
      <3>0. EpollTable
        BY <1>1, <2>3 DEF Inv, EpollInv
      <3> QED
        BY <3>0 DEF EpollTable, Epoll!Tables, Epoll!Listenfd, Listenfd
    <2>4. ASSUME kind = "thread" PROVE Thread!Tables
      <3>0. ThreadTable
        BY <1>1, <2>4 DEF Inv, ThreadInv
      <3>1. pc = "accept" => \A f : (f \in Fds /\ sock[f] # NoConn) <=>
                                    \E k \in serves : f = ts[k]
        BY <3>0 DEF ThreadTable
      <3>2. pc = "accept" => {ts[k] : k \in serves} = {f \in Fds : sock[f] # NoConn}
        BY <3>1
      <3> QED
        BY <3>0, <3>2 DEF ThreadTable, Thread!Tables
    <2> QED
      BY <2>1, <2>2, <2>3, <2>4 DEF Tables
  <1> QED
    BY <1>1, InvAlways, PTL

\* The events of a turn of the epoll server, whichever of the servers runs.
TurnInv == Inv /\ (kind = "epoll" => EpollReady)

LEMMA TurnAlways == Spec => []TurnInv
  <1>1. Init => TurnInv
    <2> SUFFICES ASSUME Init PROVE TurnInv
      OBVIOUS
    <2>1. kind = "epoll" => pc = "wait"
      BY DEF Init, Epoll!Init
    <2> QED
      BY <2>1, Begins DEF TurnInv, EpollReady
  <1>2. TurnInv /\ [Next]_vars => TurnInv'
    <2> SUFFICES ASSUME TurnInv, [Next]_vars
                 PROVE  TurnInv'
      OBVIOUS
    <2>1. Inv' /\ Inv
      BY Steps, Stutters DEF TurnInv
    <2>2. ASSUME kind' = "epoll"
          PROVE  EpollReady'
      <3>1. CASE ClientStep
        <4>1. kind = "epoll"
          BY <2>2, <3>1 DEF ClientStep, serverVars
        <4> QED
          BY <2>1, <3>1, <4>1, EpollReadyClient DEF TurnInv, Inv
      <3>2. CASE EpollStep
        <4>1. kind = "epoll"
          BY <3>2 DEF EpollStep
        <4> QED
          BY <2>1, <3>2, <4>1, EpollReadyStep DEF TurnInv, Inv
      <3>3. CASE SelectStep \/ PollStep
        BY <2>2, <3>3 DEF SelectStep, PollStep, RestOfSelect, RestOfPoll
      <3>4. CASE ParentStep \/ \E c \in Conns : ChildStep(c)
        BY <2>2, <3>4 DEF ParentStep, ChildStep, RestOfProcess
      <3>5. CASE MainStep \/ \E k \in 0..TsSize-1 : ThreadStep(k)
        BY <2>2, <3>5 DEF MainStep, ThreadStep, RestOfThread
      <3>6. CASE UNCHANGED vars
        <4>1. /\ UNCHANGED <<sock, backlog, unread, left>>
              /\ UNCHANGED <<kind, pc, i, ep, handled>>
          BY <3>6 DEF vars, netVars, serverVars, epollVars
        <4>2. kind = "epoll" /\ EpollReady
          BY <2>2, <4>1 DEF TurnInv
        <4> QED
          BY <4>1, <4>2 DEF EpollReady, Readable
      <3> QED
        BY <3>1, <3>2, <3>3, <3>4, <3>5, <3>6 DEF Next
    <2> QED
      BY <2>1, <2>2 DEF TurnInv
  <1> QED
    BY <1>1, <1>2, PTL DEF Spec

\* select, poll and epoll never call Accept or Read for a descriptor that they have
\* been told of and that is silent, and so no client makes them deaf to the others:
\* poll whatever the memory of client[] held, as nready ends the scan before a slot
\* that poll has not been given (poll server.c:99), and epoll for the events of a
\* wait that are not handled yet, wherever the counter that its loops share takes it
\* (epoll server.c:91).
THEOREM ReadyRead == Spec => []ReadsReady
  <1>1. ASSUME TurnInv PROVE ReadsReady
    <2>0. Inv /\ Room \in Nat \ {0}
      BY <1>1, ServersAssumption DEF TurnInv
    <2>1. ASSUME kind = "select" PROVE Select!ReadsReady
      <3>0. SelectTable /\ SelectReady
        BY <2>0, <2>1 DEF Inv, SelectInv
      <3>5. pc = "accept" => Select!Readable(0)
        BY <3>0, SelectCalls DEF SelectReady, Listenfd
      <3>1. SUFFICES ASSUME pc = "scan", NEW k \in Select!Flagged
                     PROVE  Select!Readable(client[k])
        BY <3>5 DEF Select!ReadsReady, Select!Listenfd
      <3>2. /\ k \in SelectSlots /\ k >= i /\ client[k] >= 0 /\ client[k] \in rset
            /\ client[k] \in Fds
        BY <2>0, <3>0, <3>1 DEF Select!Flagged, SelectTable, SelectSlots, NoFd
      <3>3. PICK f \in Fds : f = client[k] /\ f \in rset
        BY <3>2
      <3>4. Readable(f)
        BY <3>0, <3>1, <3>2, <3>3 DEF SelectReady
      <3> QED
        BY <3>3, <3>4, SelectCalls
    <2>2. ASSUME kind = "poll" PROVE Poll!ReadsReady
      <3>0. PollTable /\ PollReady
        BY <2>0, <2>2 DEF Inv, PollInv
      <3>1. pc = "accept" => Poll!Readable(0)
        BY <3>0, PollCalls DEF PollReady, Listenfd
      <3>2. ASSUME pc = "scan", NEW k \in Poll!Flagged, Poll!IsNext(k)
            PROVE  Poll!Readable(client[k])
        <4>1. PICK g \in 0..Room : PollCount(g)
          BY <3>0, <3>2 DEF PollReady
        <4>2. PollInv
          BY <2>0, <2>2 DEF Inv
        <4>3. k \in PollNamed(g)
          BY <3>2, <4>1, <4>2, PollNext
        <4>4. Readable(client[k])
          BY <4>1, <4>3 DEF PollCount
        <4> QED
          BY <4>4, PollCalls
      <3> QED
        BY <3>1, <3>2 DEF Poll!ReadsReady, Poll!Listenfd
    <2>3. ASSUME kind = "epoll" PROVE Epoll!ReadsReady
      <3>0. EpollReady
        BY <1>1, <2>0, <2>3 DEF TurnInv, Inv
      <3>1. SUFFICES ASSUME pc = "events", i + 1 \notin handled
                     PROVE  Epoll!Readable(ep[i + 1])
        BY DEF Epoll!ReadsReady, Epoll!Event
      <3>2. /\ \A k \in 1..Len(ep) : k \notin handled => Readable(ep[k])
            /\ i \in Nat /\ i < Len(ep) /\ Len(ep) \in Nat
        BY <3>0, <3>1 DEF EpollReady
      <3>3. i + 1 \in 1..Len(ep)
        BY <3>2
      <3>4. Readable(ep[i + 1])
        BY <3>1, <3>2, <3>3
      <3> QED
        BY <3>4, EpollCalls
    <2> QED
      BY <2>1, <2>2, <2>3 DEF ReadsReady
  <1> QED
    BY <1>1, TurnAlways, PTL
=============================================================================
