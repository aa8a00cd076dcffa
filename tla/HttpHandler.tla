---------------------------- MODULE HttpHandler ----------------------------
(***************************************************************************)
(* code/utils.hpp and HttpServer::HttpHandler (code/httpserver.hpp): what  *)
(* the threads of the HTTP server do with the sockets they are given, from *)
(* the first recv to the close, and the programs they start for CGI        *)
(* requests.  Threads share the descriptor table of one process, and fork  *)
(* copies all of it, the pipes of other threads included.                  *)
(*                                                                         *)
(* Data is counted in units: of a request's header and body, of a pipe, of *)
(* a program's output.  A step is one system call that another process can *)
(* notice, with the computation that follows it.  Sockets and pipes block; *)
(* SIGPIPE is ignored (httpserver.hpp l.58), so a write nobody can read    *)
(* returns an error.  Clients read what they are sent.                     *)
(***************************************************************************)
EXTENDS Integers, Sequences, FiniteSets

CONSTANTS
    Threads,        \* the threads of the pool
    Conns,          \* connections, each given to one thread
    Requests,       \* what a client may ask: a subset of Request
    MaxHead,        \* MAX_HTTPHEAD
    PipeCap,        \* what fits into a pipe
    OutLen,         \* what a program writes
    MaxFd,          \* descriptors left for pipes and files
    NoConn,
    Leavers,        \* the clients that may close before they have their answer
    MayFail,        \* programs may end early, fork may fail, files may shrink
    LfUnits         \* what pos + 4 takes beyond a header that ends in \n\n

(***************************************************************************)
(* A request: the units of its header and of its body (Content-Length),    *)
(* whether the header ends in bare newlines; whether it parses; what its   *)
(* path leads to; version and method; what FileHandler's conditions and    *)
(* ranges come to, and how many ranges it asks for (0: the whole file).    *)
(***************************************************************************)
Request == [head : Nat \ {0}, body : Nat, lf : BOOLEAN, parses : BOOLEAN,
            path : {"missing", "outside", "file", "directory", "program"},
            version : BOOLEAN, method : {"GET", "POST", "HEAD", "other"},
            query : BOOLEAN, check : {"ok", "304", "412", "416"},
            ranges : Nat]

Server == "server"      \* the process of the server, among its programs

ASSUME HandlerAssumption ==
    /\ Requests \subseteq Request
    /\ MaxHead \in Nat \ {0}
    /\ PipeCap \in Nat \ {0}
    /\ OutLen \in Nat
    /\ MaxFd \in Nat
    /\ LfUnits \in Nat
    /\ Leavers \subseteq Conns
    /\ MayFail \in BOOLEAN
    /\ NoConn \notin Conns
    /\ Server \notin Conns

VARIABLES
    req,            \* what the client of each connection asks
    pc, sock,       \* threads: where they are, and with which socket
    retry,          \* threads: errno still is EINTR or EAGAIN
    err_code,       \* threads: HttpHeader::_err_code
    tlen,           \* threads: units of the body, or ranges, done
    arrived, taken, \* connections: units the client sent, the server consumed
    gone,           \* connections: the client has closed
    heard,          \* connections: the status lines the client has received
    data,           \* connections: units of content the client has received
    closed,         \* connections the server has closed
    ends,           \* kernel: which process holds which end of which pipe
    fill,           \* kernel: units in each pipe
    files,          \* the server's descriptors for files
    prog,           \* the program of each connection
    got, told,      \* programs: units read, units written
    shrunk          \* files have been cut since they were looked at

threadVars == <<pc, sock, retry, err_code, tlen>>
clientVars == <<arrived, gone>>
answerVars == <<heard, data>>
pipeVars == <<ends, fill>>
progVars == <<prog, got, told>>
vars == <<req, threadVars, taken, clientVars, answerVars, closed, pipeVars,
          files, progVars, shrunk>>

Codes == {"200", "206", "304", "400", "403", "404", "405", "412", "413",
          "416", "500"}
NoCode == ""
End == [proc : Conns \union {Server}, of : Conns, pipe : {"in", "out"},
        side : {"r", "w"}]
IsRange(r) == r.ranges > 0
Parts(r) == IF IsRange(r) THEN r.ranges ELSE 1

\* More was forwarded or sent than was asked for.
TooMuch(t) == tlen[t] > req[sock[t]].body /\ tlen[t] > Parts(req[sock[t]])

TypeOK ==
    /\ req \in [Conns -> Requests]
    /\ pc \in [Threads -> {"idle", "recv", "pipe", "fork", "parent", "recvBody",
                           "writePipe", "status", "readPipe", "list", "range",
                           "open", "readFile", "error", "close"}]
    /\ sock \in [Threads -> Conns \union {NoConn}]
    /\ retry \in [Threads -> BOOLEAN]
    /\ err_code \in [Threads -> Codes \union {NoCode}]
    /\ tlen \in [Threads -> Nat]
    /\ \A t \in Threads : sock[t] # NoConn => ~TooMuch(t)
    /\ arrived \in [Conns -> Nat]
    /\ taken \in [Conns -> Nat]
    /\ gone \in [Conns -> {"no", "closed", "reset"}]
    /\ heard \in [Conns -> Seq(Codes \union {NoCode})]
    /\ data \in [Conns -> Nat]
    /\ closed \subseteq Conns
    /\ ends \subseteq End
    /\ fill \in [Conns -> [{"in", "out"} -> 0..PipeCap]]
    /\ files \in 0..MaxFd
    /\ prog \in [Conns -> {"none", "forked", "reads", "writes", "ended"}]
    /\ got \in [Conns -> Nat]
    /\ told \in [Conns -> 0..OutLen]
    /\ shrunk \in BOOLEAN

Init ==
    /\ req \in [Conns -> Requests]
    /\ pc = [t \in Threads |-> "idle"]
    /\ sock = [t \in Threads |-> NoConn]
    /\ retry = [t \in Threads |-> FALSE]
    /\ err_code = [t \in Threads |-> NoCode]
    /\ tlen = [t \in Threads |-> 0]
    /\ arrived = [c \in Conns |-> 0]
    /\ taken = [c \in Conns |-> 0]
    /\ gone = [c \in Conns |-> "no"]
    /\ heard = [c \in Conns |-> << >>]
    /\ data = [c \in Conns |-> 0]
    /\ closed = {}
    /\ ends = {}
    /\ fill = [c \in Conns |-> [p \in {"in", "out"} |-> 0]]
    /\ files = 0
    /\ prog = [c \in Conns |-> "none"]
    /\ got = [c \in Conns |-> 0]
    /\ told = [c \in Conns |-> 0]
    /\ shrunk = FALSE

-----------------------------------------------------------------------------
(* What a request comes to: HttpHeaderParse, HeaderIsLegal, RequestIsCGI,  *)
(* FileIsExecutable, and the tests at the head of the two handlers.        *)

HeaderIsLegal(r) ==
    CASE r.path = "missing"   -> "404"
      [] r.path = "outside"   -> "403"
      [] ~r.version           -> "400"
      [] r.method = "other"   -> "405"
      [] OTHER                -> NoCode

RequestIsCGI(r) == r.method = "POST" \/ (r.method = "GET" /\ r.query)

\* A directory one may enter has the bit as well.
FileIsExecutable(r) == r.path \in {"program", "directory"}

\* The code with which the request is refused before anything is sent.
Refusal(r) ==
    CASE ~r.parses                                   -> "400"
      [] r.parses /\ HeaderIsLegal(r) # NoCode       -> HeaderIsLegal(r)
      [] r.parses /\ HeaderIsLegal(r) = NoCode       ->
           IF RequestIsCGI(r)
             THEN IF FileIsExecutable(r) THEN NoCode ELSE "403"
             ELSE IF r.check = "ok" THEN NoCode ELSE r.check

\* Where HttpHandler goes on with a request that is not refused.
HandlerOf(r) ==
    IF RequestIsCGI(r) THEN "pipe"
                       ELSE IF r.path = "directory" THEN "list" ELSE "range"

-----------------------------------------------------------------------------
(* Steps of a thread.  Each says where the thread goes.                    *)

Goes(t, to) ==
    /\ pc' = [pc EXCEPT ![t] = to]
    /\ UNCHANGED err_code

\* CHECK_OUT and CHECK_RET with an error code, or with the one there is.
Fails(t, code) ==
    /\ pc' = [pc EXCEPT ![t] = "error"]
    /\ err_code' = [err_code EXCEPT ![t] = code]

\* A call that fails with neither EINTR nor EAGAIN.
OtherErrno(t) == retry' = [retry EXCEPT ![t] = FALSE]

\* A send to a client that has gone may fail, or not yet.
SendFails(t) == gone[sock[t]] # "no"

Hears(c, code) ==
    heard' = IF gone[c] = "no" THEN [heard EXCEPT ![c] = Append(@, code)] ELSE heard
Receives(c) ==
    data' = IF gone[c] = "no" THEN [data EXCEPT ![c] = @ + 1] ELSE data

\* recv returns nothing and will not return anything any more.  When it
\* returns 0 errno is what an earlier call has left there (l.285, l.627).
GivesUp(t) ==
    /\ arrived[sock[t]] = taken[sock[t]]
    /\ gone[sock[t]] # "no"
    /\ ~(gone[sock[t]] = "closed" /\ retry[t])
    /\ OtherErrno(t)

StartHandler(t, c) ==
    /\ pc[t] = "idle"
    /\ c \notin closed
    /\ \A u \in Threads : sock[u] # c
    /\ pc' = [pc EXCEPT ![t] = "recv"]
    /\ sock' = [sock EXCEPT ![t] = c]
    /\ err_code' = [err_code EXCEPT ![t] = NoCode]
    /\ tlen' = [tlen EXCEPT ![t] = 0]
    /\ UNCHANGED <<retry, taken, answerVars, closed, pipeVars, files, prog>>

-----------------------------------------------------------------------------
(* RecvHttpHeader: peek until the end of the header is there.  A peek that *)
(* shows no more than the one before changes nothing.                      *)

Least(m, n) == IF m < n THEN m ELSE n
Peeked(c) == Least(arrived[c], MaxHead)

TakesAll(c) == arrived[c]       \* variant: what is there is taken for header
\* pos + 4 is right for \r\n\r\n.
HeaderLen(c) ==
    req[c].head + (IF req[c].lf THEN Least(LfUnits, arrived[c] - req[c].head)
                                ELSE 0)

HeaderWhole(t) ==
    LET c == sock[t]
        r == req[c]
    IN
    /\ pc[t] = "recv"
    /\ r.head <= Peeked(c)
    /\ taken' = [taken EXCEPT ![c] = HeaderLen(c)]
    /\ IF Refusal(r) = NoCode THEN Goes(t, HandlerOf(r)) ELSE Fails(t, Refusal(r))
    /\ UNCHANGED <<sock, retry, tlen, answerVars, closed, pipeVars, files, prog>>

HeaderTooLong(t) ==
    /\ pc[t] = "recv"
    /\ Peeked(sock[t]) = MaxHead
    /\ req[sock[t]].head > MaxHead
    /\ Fails(t, "413")
    /\ UNCHANGED <<sock, retry, tlen, taken, answerVars, closed, pipeVars, files,
                   prog>>

HeaderFails(t) ==
    /\ pc[t] = "recv"
    /\ GivesUp(t)
    /\ Fails(t, "400")
    /\ UNCHANGED <<sock, tlen, taken, answerVars, closed, pipeVars, files, prog>>

-----------------------------------------------------------------------------
(* CGIHandler: two pipes, a child, the body in, the answer out.            *)

PipeEnd(p, c, pipe, side) == [proc |-> p, of |-> c, pipe |-> pipe, side |-> side]
BothEnds(c, pipe) == {PipeEnd(Server, c, pipe, side) : side \in {"r", "w"}}
Open(c, pipe, side) ==
    \E e \in ends : e.of = c /\ e.pipe = pipe /\ e.side = side

ServerEnds == {e \in ends : e.proc = Server}
FreeFds == MaxFd - files - Cardinality(ServerEnds)

CreatePipes(t) ==
    LET c == sock[t] IN
    /\ pc[t] = "pipe"
    /\ IF FreeFds >= 4
         THEN /\ ends' = ends \union BothEnds(c, "in") \union BothEnds(c, "out")
              /\ Goes(t, "fork")
              /\ UNCHANGED retry
         ELSE /\ ends' = IF FreeFds >= 2 THEN ends \union BothEnds(c, "in")
                                         ELSE ends
              /\ Fails(t, "500")
              /\ OtherErrno(t)
    /\ UNCHANGED <<sock, tlen, taken, answerVars, closed, fill, files, prog>>

\* The child gets a copy of every descriptor the server has at that moment.
Copies(c) == {[e EXCEPT !.proc = c] : e \in ServerEnds}

Fork(t) ==
    /\ pc[t] = "fork"
    /\ ends' = ends \union Copies(sock[t])
    /\ prog' = [prog EXCEPT ![sock[t]] = "forked"]
    /\ Goes(t, "parent")
    /\ UNCHANGED <<sock, retry, tlen, taken, answerVars, closed, fill, files>>

\* For want of processes: EAGAIN.
ForkFails(t) ==
    /\ MayFail
    /\ pc[t] = "fork"
    /\ Fails(t, "500")
    /\ retry' = [retry EXCEPT ![t] = TRUE]
    /\ UNCHANGED <<sock, tlen, taken, answerVars, closed, pipeVars, files, prog>>

OutKept(c) == {PipeEnd(Server, c, "in", "r")}      \* variant: out[1] stays open
ChildsEnds(c) == {PipeEnd(Server, c, "in", "r"), PipeEnd(Server, c, "out", "w")}

CloseChildsEnds(t) ==
    /\ pc[t] = "parent"
    /\ ends' = ends \ ChildsEnds(sock[t])
    /\ Goes(t, IF req[sock[t]].body = 0 THEN "status" ELSE "recvBody")
    /\ UNCHANGED <<sock, retry, tlen, taken, answerVars, closed, fill, files, prog>>

RecvContent(t) ==
    LET c == sock[t] IN
    /\ pc[t] = "recvBody"
    /\ \/ /\ arrived[c] > taken[c]
          /\ taken' = [taken EXCEPT ![c] = @ + 1]
          /\ Goes(t, "writePipe")
          /\ UNCHANGED retry
       \/ /\ GivesUp(t)
          /\ Fails(t, NoCode)
          /\ UNCHANGED taken
    /\ UNCHANGED <<sock, tlen, answerVars, closed, pipeVars, files, prog>>

WriteContent(t) ==
    LET c == sock[t] IN
    /\ pc[t] = "writePipe"
    /\ IF Open(c, "in", "r")
         THEN /\ fill[c]["in"] < PipeCap
              /\ fill' = [fill EXCEPT ![c]["in"] = @ + 1]
              /\ tlen' = [tlen EXCEPT ![t] = @ + 1]
              /\ Goes(t, IF tlen[t] + 1 = req[c].body THEN "status" ELSE "recvBody")
              /\ UNCHANGED retry
         ELSE /\ Fails(t, NoCode)
              /\ OtherErrno(t)
              /\ UNCHANGED <<fill, tlen>>
    /\ UNCHANGED <<sock, taken, answerVars, closed, ends, files, prog>>

SendStatus(t) ==
    /\ pc[t] = "status"
    /\ \/ Hears(sock[t], "200") /\ Goes(t, "readPipe") /\ UNCHANGED retry
       \/ SendFails(t) /\ Fails(t, NoCode) /\ OtherErrno(t) /\ UNCHANGED heard
    /\ UNCHANGED <<sock, tlen, taken, data, closed, pipeVars, files, prog>>

ReadAnswer(t) ==
    LET c == sock[t] IN
    /\ pc[t] = "readPipe"
    /\ fill[c]["out"] > 0
    /\ fill' = [fill EXCEPT ![c]["out"] = @ - 1]
    /\ \/ Receives(c) /\ Goes(t, "readPipe") /\ UNCHANGED retry
       \/ SendFails(t) /\ Fails(t, NoCode) /\ OtherErrno(t) /\ UNCHANGED data
    /\ UNCHANGED <<sock, tlen, taken, heard, closed, ends, files, prog>>

EndsLooking(c) == fill[c]["out"] = 0        \* variant: a pause is the end
AnswerOver(c) == fill[c]["out"] = 0 /\ ~Open(c, "out", "w")

OwnEnds(c) == {PipeEnd(Server, c, "in", "w"), PipeEnd(Server, c, "out", "r")}

EndAnswer(t) ==
    LET c == sock[t] IN
    /\ pc[t] = "readPipe"
    /\ AnswerOver(c)
    /\ ends' = ends \ OwnEnds(c)
    /\ Goes(t, "close")
    /\ UNCHANGED <<sock, retry, tlen, taken, answerVars, closed, fill, files, prog>>

-----------------------------------------------------------------------------
(* FileHandler: what ProcessFile and ProcessList return is not looked at.  *)

ProcessList(t) ==
    LET c == sock[t] IN
    /\ pc[t] = "list"
    /\ \/ Hears(c, "200") /\ Receives(c) /\ UNCHANGED retry
       \/ SendFails(t) /\ OtherErrno(t) /\ UNCHANGED answerVars
    /\ Goes(t, "close")
    /\ UNCHANGED <<sock, tlen, taken, closed, pipeVars, files, prog>>

SendHeader(t) ==
    LET c == sock[t] IN
    /\ pc[t] = "range"
    /\ \/ /\ Hears(c, IF IsRange(req[c]) THEN "206" ELSE "200")
          /\ Goes(t, "open")
          /\ UNCHANGED retry
       \/ SendFails(t) /\ Goes(t, "close") /\ OtherErrno(t) /\ UNCHANGED heard
    /\ UNCHANGED <<sock, tlen, taken, data, closed, pipeVars, files, prog>>

AllSent(r, n) == n = Parts(r)

FileRefused(t) == Fails(t, "403")       \* variant: HttpHandler hears of it
OpenFails(t) == Goes(t, "close")

OpenFile(t) ==
    /\ pc[t] = "open"
    /\ IF FreeFds > 0
         THEN files' = files + 1 /\ Goes(t, "readFile") /\ UNCHANGED retry
         ELSE OpenFails(t) /\ OtherErrno(t) /\ UNCHANGED files
    /\ UNCHANGED <<sock, tlen, taken, answerVars, closed, pipeVars, prog>>

\* When the file has become shorter read returns 0 for ever, and the loop
\* goes on.  Nobody closes file_fd.
SendFile(t) ==
    LET c == sock[t] IN
    /\ pc[t] = "readFile"
    /\ ~shrunk
    /\ \/ /\ Receives(c)
          /\ tlen' = [tlen EXCEPT ![t] = @ + 1]
          /\ Goes(t, IF AllSent(req[c], tlen[t] + 1) THEN "close" ELSE "range")
          /\ UNCHANGED retry
       \/ /\ SendFails(t)
          /\ Goes(t, "close")
          /\ OtherErrno(t)
          /\ UNCHANGED <<data, tlen>>
    /\ UNCHANGED <<sock, taken, heard, closed, pipeVars, files, prog>>

-----------------------------------------------------------------------------
(* ErrHandler, and the end of HttpHandler                                  *)

HasPage(code) == code \in {"304", "400", "403", "404", "405", "412", "416", "500"}

\* Without a code StrToDigit leaves num as it is: the switch may go anywhere.
ErrHandler(t) ==
    LET c == sock[t] IN
    /\ pc[t] = "error"
    /\ \/ (HasPage(err_code[t]) \/ err_code[t] = NoCode) /\ Hears(c, err_code[t])
       \/ (~HasPage(err_code[t]) \/ SendFails(t)) /\ UNCHANGED heard
    /\ Goes(t, "close")
    /\ UNCHANGED <<sock, retry, tlen, taken, data, closed, pipeVars, files, prog>>

CloseSocket(t) ==
    /\ pc[t] = "close"
    /\ closed' = closed \union {sock[t]}
    /\ sock' = [sock EXCEPT ![t] = NoConn]
    /\ Goes(t, "idle")
    /\ UNCHANGED <<retry, tlen, taken, answerVars, pipeVars, files, prog>>

HttpHandler(t) ==
    /\ UNCHANGED <<req, clientVars, got, told, shrunk>>
    /\ \/ \E c \in Conns : StartHandler(t, c)
       \/ HeaderWhole(t)
       \/ HeaderTooLong(t)
       \/ HeaderFails(t)
       \/ CreatePipes(t)
       \/ Fork(t)
       \/ ForkFails(t)
       \/ CloseChildsEnds(t)
       \/ RecvContent(t)
       \/ WriteContent(t)
       \/ SendStatus(t)
       \/ ReadAnswer(t)
       \/ EndAnswer(t)
       \/ ProcessList(t)
       \/ SendHeader(t)
       \/ OpenFile(t)
       \/ SendFile(t)
       \/ ErrHandler(t)
       \/ CloseSocket(t)

-----------------------------------------------------------------------------
(* The child between fork and exec, and then the program: it reads the     *)
(* whole body (as code/upload.cpp does), writes its answer and exits.      *)

Without(c) == {e \in ends : e.proc # c}

\* Its own two ends are closed; those of other requests are not.
Exec(c) ==
    /\ prog[c] = "forked"
    /\ IF req[c].path = "program"
         THEN /\ ends' = ends \ {PipeEnd(c, c, "in", "w"), PipeEnd(c, c, "out", "r")}
              /\ prog' = [prog EXCEPT ![c] = IF req[c].body = 0 THEN "writes"
                                                               ELSE "reads"]
         ELSE /\ ends' = Without(c)
              /\ prog' = [prog EXCEPT ![c] = "ended"]
    /\ UNCHANGED <<fill, got, told>>

ProgramReads(c) ==
    /\ prog[c] = "reads"
    /\ fill[c]["in"] > 0
    /\ fill' = [fill EXCEPT ![c]["in"] = @ - 1]
    /\ got' = [got EXCEPT ![c] = @ + 1]
    /\ prog' = [prog EXCEPT ![c] = IF got'[c] = req[c].body THEN "writes" ELSE @]
    /\ UNCHANGED <<ends, told>>

ProgramWrites(c) ==
    /\ prog[c] = "writes"
    /\ told[c] < OutLen
    /\ Open(c, "out", "r")
    /\ fill[c]["out"] < PipeCap
    /\ fill' = [fill EXCEPT ![c]["out"] = @ + 1]
    /\ told' = [told EXCEPT ![c] = @ + 1]
    /\ UNCHANGED <<ends, prog, got>>

ProgramExits(c) ==
    /\ prog[c] = "writes"
    /\ told[c] = OutLen \/ ~Open(c, "out", "r")
    /\ prog' = [prog EXCEPT ![c] = "ended"]
    /\ ends' = Without(c)
    /\ UNCHANGED <<fill, got, told>>

ProgramFrame ==
    UNCHANGED <<req, threadVars, taken, clientVars, answerVars, closed, files,
                shrunk>>

ProgramStep(c) ==
    /\ ProgramFrame
    /\ \/ Exec(c)
       \/ ProgramReads(c)
       \/ ProgramWrites(c)
       \/ ProgramExits(c)

ProgramFails(c) ==
    /\ ProgramFrame
    /\ MayFail
    /\ prog[c] \in {"reads", "writes"}
    /\ prog' = [prog EXCEPT ![c] = "ended"]
    /\ ends' = Without(c)
    /\ UNCHANGED <<fill, got, told>>

-----------------------------------------------------------------------------
(* Clients and files.  What a client does before a thread has its socket   *)
(* nobody can tell from what it does just after.                           *)

Served(c) == \E t \in Threads : sock[t] = c

OutsideFrame ==
    UNCHANGED <<req, threadVars, taken, answerVars, closed, pipeVars, files,
                progVars>>

ClientSends(c) ==
    /\ OutsideFrame
    /\ Served(c)
    /\ gone[c] = "no"
    /\ arrived[c] < req[c].head + req[c].body
    /\ arrived' = [arrived EXCEPT ![c] = @ + 1]
    /\ UNCHANGED <<gone, shrunk>>

ClientLeaves(c) ==
    /\ OutsideFrame
    /\ c \in Leavers
    /\ Served(c)
    /\ gone[c] = "no"
    /\ \E how \in {"closed", "reset"} : gone' = [gone EXCEPT ![c] = how]
    /\ UNCHANGED <<arrived, shrunk>>

FileShrinks ==
    /\ OutsideFrame
    /\ MayFail
    /\ ~shrunk
    /\ shrunk' = TRUE
    /\ UNCHANGED clientVars

Next ==
    \/ \E t \in Threads : HttpHandler(t)
    \/ \E c \in Conns : \/ ProgramStep(c)
                        \/ ProgramFails(c)
                        \/ ClientSends(c)
                        \/ ClientLeaves(c)
    \/ FileShrinks

Spec == Init /\ [][Next]_vars

(***************************************************************************)
(* Threads and programs run, and clients send what they have announced;    *)
(* nobody has to leave or to fail.                                         *)
(***************************************************************************)
FairSpec ==
    /\ Spec
    /\ \A t \in Threads : WF_vars(HttpHandler(t))
    /\ \A c \in Conns : WF_vars(ProgramStep(c)) /\ WF_vars(ClientSends(c))

-----------------------------------------------------------------------------
(* Properties *)

\* A client that stays and is answered by a program has the whole of what the
\* program wrote when its connection is closed, although the end of the answer
\* shows only in that nobody holds the writing end of a pipe any more.
AnswerWhole ==
    \A c \in closed :
        prog[c] # "none" /\ gone[c] = "no" /\ heard[c] = <<"200">> =>
            prog[c] = "ended" /\ data[c] = told[c]

\* A program reads the body of its own request: no unit of it is lost between
\* the socket and the pipe, and nothing of the header is in it.
BodyWhole ==
    \A t \in Threads :
        LET c == sock[t] IN
        pc[t] \in {"recvBody", "status", "readPipe"} /\ prog[c] # "none" =>
            taken[c] = req[c].head + got[c] + fill[c]["in"]

\* No second answer follows the first: when something fails after the status
\* line has gone out, no error page is appended (a request for several ranges
\* is answered in as many parts).
OneAnswer ==
    \A c \in Conns : Len(heard[c]) > 1 =>
        /\ Len(heard[c]) <= Parts(req[c])
        /\ \A i \in 1..Len(heard[c]) : heard[c][i] = "206"

\* As long as no client leaves and no file is cut, every connection that has
\* been taken is closed in the end, although programs hold ends of each
\* other's pipes, pipes fill up, descriptors run out, programs and forks fail.
ClosedInTheEnd ==
    \A c \in Conns :
        Served(c) ~>
            (c \in closed \/ shrunk \/ \E d \in Conns : gone[d] # "no")

\* When a program has done its work the answer ends and the connection is
\* closed (httpserver.hpp l.34), whatever becomes of other requests.
AnswerEnds ==
    \A c \in Conns : (prog[c] = "ended") ~> (c \in closed \/ gone[c] # "no")
=============================================================================
