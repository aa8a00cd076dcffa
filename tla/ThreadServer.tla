---------------------------- MODULE ThreadServer ----------------------------
(***************************************************************************)
(* mult_thread_concurrent/server.c: the main thread accepts and starts a   *)
(* detached thread for each connection, which finds its descriptor in the  *)
(* table ts.  The index into ts is never taken back (l.79): only as many   *)
(* connections as ts has elements are modelled, because what a write       *)
(* behind its end does is undefined.  pthread_create does not fail here.   *)
(***************************************************************************)
EXTENDS EchoNet

CONSTANTS TsSize    \* elements of ts

VARIABLES
    pc,             \* the main thread: "accept", "create" or "dead"
    ts, i,
    serves          \* the threads, each by its element of ts

serverVars == <<pc, ts, i, serves>>
vars == <<netVars, serverVars>>

Init ==
    /\ NetInit
    /\ pc = "accept"
    /\ ts = [k \in 0..TsSize-1 |-> NoFd]
    /\ i = 0
    /\ serves = {}

Exit == Die /\ pc' = "dead" /\ serves' = {} /\ UNCHANGED <<ts, i>>

AcceptClient ==
    /\ pc = "accept"
    /\ i < TsSize
    /\ \E f \in Fds : Accept(f) /\ ts' = [ts EXCEPT ![i] = f]
    /\ pc' = "create"
    /\ UNCHANGED <<i, serves>>

AcceptFails ==
    /\ pc = "accept"
    /\ backlog # << >>
    /\ FreeFds = {}
    /\ Exit

IndexKept == UNCHANGED i            \* variant: all threads share an element
IndexRaised == i' = i + 1

CreateThread ==
    /\ pc = "create"
    /\ serves' = serves \union {i}
    /\ IndexRaised
    /\ pc' = "accept"
    /\ UNCHANGED <<netVars, ts>>

Serve(k) ==
    /\ k \in serves
    /\ sock[ts[k]] # NoConn
    /\ LET c == sock[ts[k]] IN
       \/ /\ \/ ReadAndWrite(c)
             \/ WriteFails(c)
             \/ ReadError(c) /\ ReportError(c)
          /\ UNCHANGED serverVars
       \/ /\ ReadEnd(c)
          /\ Close(ts[k])
          /\ serves' = serves \ {k}
          /\ UNCHANGED <<pc, ts, i>>
       \/ Sigpipe(c) /\ Exit

Main == AcceptClient \/ AcceptFails \/ CreateThread

Next ==
    \/ Main
    \/ \E k \in 0..TsSize-1 : Serve(k)
    \/ Client /\ UNCHANGED serverVars

Spec == Init /\ [][Next]_vars /\ WF_vars(Main) /\ \A k \in 0..TsSize-1 : WF_vars(Serve(k))

-----------------------------------------------------------------------------
Tables ==
    /\ \A k, l \in serves : k # l => ts[k] # ts[l]
    /\ pc = "accept" => {ts[k] : k \in serves} = {f \in Fds : sock[f] # NoConn}
=============================================================================
