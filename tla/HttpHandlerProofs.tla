------------------------- MODULE HttpHandlerProofs -------------------------
(***************************************************************************)
(* What HttpHandler.tla guarantees for any number of threads and           *)
(* connections and any sizes: its type, that a request is answered once,   *)
(* that a program gets the body of its request, and that its answer is     *)
(* passed on whole.  A thread and the connection it serves are followed    *)
(* from phase to phase; what other threads and programs do leaves the      *)
(* phase as it is.                                                         *)
(***************************************************************************)
EXTENDS HttpHandler, FiniteSetTheorems, FunctionTheorems, SequenceTheorems,
        TLAPS

\* Nothing has been answered; no program has been started.
Quiet(c) == heard[c] = << >> /\ data[c] = 0
NoProgram(c) ==
    /\ prog[c] = "none" /\ got[c] = 0 /\ told[c] = 0
    /\ fill[c]["in"] = 0 /\ fill[c]["out"] = 0

\* What has been consumed beyond the header is with the program or in its
\* pipe, or in the thread's hands (n); bare newlines are another matter.
BodySoFar(c, n) ==
    LfUnits = 0 \/ ~req[c].lf => taken[c] = req[c].head + got[c] + fill[c]["in"] + n

\* What the program wrote is with the client or in the pipe.
AnswerSoFar(c) == gone[c] = "no" => data[c] + fill[c]["out"] = told[c]

\* At most n parts have been begun.
PartsSoFar(c, n) ==
    /\ Len(heard[c]) <= n
    /\ IsRange(req[c]) => \A i \in 1..Len(heard[c]) : heard[c][i] = "206"

OnlyAnswer(c) ==
    Len(heard[c]) > 1 => /\ Len(heard[c]) <= Parts(req[c])
                         /\ \A i \in 1..Len(heard[c]) : heard[c][i] = "206"
WholeAnswer(c) ==
    prog[c] # "none" /\ gone[c] = "no" /\ heard[c] = <<"200">> =>
        prog[c] = "ended" /\ data[c] = told[c]

\* The writing end of the answer, for the child of a fork and of the program.
ForkReady(c) == PipeEnd(Server, c, "out", "w") \in ends
Writes(c) == PipeEnd(c, c, "out", "w") \in ends

\* What is true of a connection in the hands of a thread that is at p, with n
\* units or parts done.
Phase(c, p, n, err) ==
    /\ p \in {"recv", "pipe", "fork", "parent", "list"} => n = 0
    /\ p \in {"recvBody", "writePipe"} => n < req[c].body
    /\ p \in {"recv", "pipe", "fork", "list"} => Quiet(c) /\ NoProgram(c)
    /\ p \in {"parent", "recvBody", "writePipe", "status"} => Quiet(c)
    /\ p \in {"parent", "recvBody", "writePipe", "status", "readPipe"} =>
          prog[c] # "none" /\ AnswerSoFar(c)
    /\ p \in {"pipe", "fork", "parent", "recvBody", "status", "readPipe"} =>
          BodySoFar(c, 0)
    /\ p = "writePipe" => BodySoFar(c, 1)
    /\ p = "fork" => ForkReady(c)
    /\ p = "readPipe" => Len(heard[c]) <= 1
    /\ p \in {"range", "open", "readFile"} => prog[c] = "none" /\ n < Parts(req[c])
    /\ p = "range" => PartsSoFar(c, n)
    /\ p \in {"open", "readFile"} => PartsSoFar(c, n + 1)
    /\ p = "error" => /\ Len(heard[c]) <= 1 /\ err # "200"
                      /\ heard[c] = << >> \/ gone[c] # "no"
    /\ p = "close" => OnlyAnswer(c) /\ WholeAnswer(c)

\* A thread has a connection of its own while it is not idle.
Hands ==
    /\ \A t \in Threads : pc[t] = "idle" <=> sock[t] = NoConn
    /\ \A t, u \in Threads : sock[t] = sock[u] /\ sock[t] # NoConn => t = u
    /\ \A t \in Threads : sock[t] \notin closed

Phases == \A t \in Threads, c \in Conns : \A p, n, err :
    sock[t] = c /\ pc[t] = p /\ tlen[t] = n /\ err_code[t] = err
        => Phase(c, p, n, err)

\* Nothing has happened to a connection that no thread has taken.
Untouched == \A c \in Conns \ closed : ~Served(c) => Quiet(c) /\ NoProgram(c)

Answered == \A c \in closed : OnlyAnswer(c) /\ WholeAnswer(c)

\* A program holds the writing end of its answer until it ends.
Writers == \A c \in Conns :
    prog[c] \in {"forked", "reads", "writes"} => Writes(c)

ConnInv == Hands /\ Phases /\ Untouched /\ Answered /\ Writers
Inv == TypeOK /\ IsFiniteSet(ends) /\ ConnInv

-----------------------------------------------------------------------------
(* Operators                                                               *)

\* No code is not the code of success.
LEMMA NoCodeIsNone == NoCode # "200"
  BY DEF NoCode

\* A request is refused with a code that says so.
LEMMA RefusalCode ==
    ASSUME NEW r \in Request
    PROVE  Refusal(r) \in (Codes \union {NoCode}) \ {"200"}
  BY DEF Refusal, HeaderIsLegal, Request, Codes, NoCode

\* Free descriptors are counted right.
LEMMA FreeBound ==
    ASSUME IsFiniteSet(ends), files \in 0..MaxFd
    PROVE  FreeFds \in Int /\ FreeFds <= MaxFd - files
  <1>1. IsFiniteSet(ServerEnds)
    BY FS_Subset DEF ServerEnds
  <1>2. Cardinality(ServerEnds) \in Nat
    BY <1>1, FS_CardinalityType
  <1> QED
    BY <1>2, HandlerAssumption DEF FreeFds

\* A fork copies finitely many descriptors.
LEMMA CopiesFinite ==
    ASSUME IsFiniteSet(ends), NEW c
    PROVE  IsFiniteSet(Copies(c))
  <1>1. IsFiniteSet(ServerEnds)
    BY FS_Subset DEF ServerEnds
  <1> DEFINE f == [e \in ServerEnds |-> [e EXCEPT !.proc = c]]
  <1>2. f \in Surjection(ServerEnds, Copies(c))
    <2>1. f \in [ServerEnds -> Copies(c)]
      BY DEF Copies
    <2>2. \A d \in Copies(c) : \E e \in ServerEnds : f[e] = d
      BY DEF Copies
    <2> QED
      BY <2>1, <2>2, Fun_IsSurj
  <1> QED
    BY <1>1, <1>2, FS_Surjection

\* A phase stays what it is when nothing happens to its connection.
LEMMA PhaseKept ==
    ASSUME NEW c \in Conns, NEW p, NEW n, NEW err, Phase(c, p, n, err),
           UNCHANGED <<req, got, told, gone>>,
           taken'[c] = taken[c], heard'[c] = heard[c], data'[c] = data[c],
           fill'[c] = fill[c], prog'[c] = prog[c],
           ForkReady(c) => ForkReady(c)'
    PROVE  Phase(c, p, n, err)'
  BY DEF Phase, Quiet, NoProgram, BodySoFar, AnswerSoFar, PartsSoFar, OnlyAnswer,
         WholeAnswer, IsRange, Parts

-----------------------------------------------------------------------------
(* The steps of a thread                                                   *)

\* A step of thread t in the service of connection c concerns nobody else.
Touches(t, c) ==
    /\ \A u \in Threads \ {t} : /\ pc'[u] = pc[u] /\ sock'[u] = sock[u]
                               /\ err_code'[u] = err_code[u] /\ tlen'[u] = tlen[u]
    /\ \A d \in Conns \ {c} : /\ taken'[d] = taken[d] /\ heard'[d] = heard[d]
                             /\ data'[d] = data[d] /\ fill'[d] = fill[d]
                             /\ prog'[d] = prog[d]
    /\ \A d \in Conns \ {c} : ForkReady(d) => ForkReady(d)'
    /\ UNCHANGED <<req, gone, got, told>>

\* It is enough to look at the thread and its connection.
LEMMA ThreadStep ==
    ASSUME Inv, NEW t \in Threads, NEW c \in Conns, NEW p, NEW n, NEW err,
           Touches(t, c), c \notin closed,
           \A u \in Threads \ {t} : sock[u] # c,
           sock[t] \in {c, NoConn},
           pc'[t] = p, tlen'[t] = n, err_code'[t] = err,
           \/ /\ sock'[t] = c /\ p # "idle" /\ closed' = closed
              /\ Phase(c, p, n, err)'
           \/ /\ sock'[t] = NoConn /\ p = "idle" /\ closed' = closed \union {c}
              /\ OnlyAnswer(c)' /\ WholeAnswer(c)',
           Writers'
    PROVE  ConnInv'
  <1>0. ConnInv
    BY DEF Inv
  <1>1. NoConn \notin Conns /\ c # NoConn /\ closed \subseteq Conns
    BY HandlerAssumption DEF Inv, TypeOK
  <1>2. /\ \A u \in Threads \ {t} : /\ pc'[u] = pc[u] /\ sock'[u] = sock[u]
                                   /\ err_code'[u] = err_code[u] /\ tlen'[u] = tlen[u]
        /\ sock'[t] \in {c, NoConn}
        /\ sock'[t] = NoConn <=> pc'[t] = "idle"
        /\ closed' \subseteq closed \union {c}
        /\ c \in closed' => sock'[t] = NoConn
    BY <1>1 DEF Touches
  <1>3. Hands'
    BY <1>0, <1>1, <1>2 DEF ConnInv, Hands
  <1>4. Phases'
    <2> SUFFICES ASSUME NEW u \in Threads, NEW d \in Conns, NEW q, NEW k, NEW e,
                        sock'[u] = d, pc'[u] = q, tlen'[u] = k, err_code'[u] = e
                 PROVE  Phase(d, q, k, e)'
      BY DEF Phases
    <2>1. CASE u = t
      BY <1>1, <1>2, <2>1
    <2>2. CASE u # t
      <3>1. d # c /\ sock[u] = d /\ pc[u] = q /\ tlen[u] = k /\ err_code[u] = e
        BY <1>2, <2>2
      <3>2. Phase(d, q, k, e)
        BY <1>0, <3>1 DEF ConnInv, Phases
      <3> QED
        BY <3>1, <3>2, PhaseKept DEF Touches
    <2> QED
      BY <2>1, <2>2
  <1>5. Untouched'
    <2> SUFFICES ASSUME NEW d \in Conns, d \notin closed', ~Served(d)'
                 PROVE  (Quiet(d) /\ NoProgram(d))'
      BY DEF Untouched
    <2>1. d # c /\ d \notin closed
      BY DEF Served
    <2>2. ~Served(d)
      BY <1>1, <1>2, <2>1 DEF Served
    <2>3. Quiet(d) /\ NoProgram(d)
      BY <1>0, <2>1, <2>2 DEF ConnInv, Untouched
    <2> QED
      BY <2>1, <2>3 DEF Touches, Quiet, NoProgram
  <1>6. Answered'
    <2> SUFFICES ASSUME NEW d \in closed'
                 PROVE  OnlyAnswer(d)' /\ WholeAnswer(d)'
      BY DEF Answered
    <2>1. CASE d = c
      BY <1>1, <1>2, <2>1
    <2>2. CASE d # c
      <3>1. d \in Conns /\ d \in closed
        BY <1>2, <2>2 DEF Inv, TypeOK
      <3>2. OnlyAnswer(d) /\ WholeAnswer(d)
        BY <1>0, <3>1 DEF ConnInv, Answered
      <3> QED
        BY <2>2, <3>1, <3>2 DEF Touches, OnlyAnswer, WholeAnswer, IsRange, Parts
    <2> QED
      BY <2>1, <2>2
  <1> QED
    BY <1>3, <1>4, <1>5, <1>6 DEF ConnInv

Places == {"idle", "recv", "pipe", "fork", "parent", "recvBody", "writePipe", "status",
           "readPipe", "list", "range", "open", "readFile", "error", "close"}
Answers == Seq(Codes \union {NoCode})
Pipes == [{"in", "out"} -> 0..PipeCap]
Programs == {"none", "forked", "reads", "writes", "ended"}

\* A step of t in the service of c, by what is different afterwards: t is at p
\* with n units done and the code err, and of c taken, heard, data, fill and
\* prog are as given.
Serves(t, c, p, n, err, k, h, m, f, g) ==
    /\ pc' = [pc EXCEPT ![t] = p]
    /\ tlen' = [tlen EXCEPT ![t] = n]
    /\ err_code' = [err_code EXCEPT ![t] = err]
    /\ retry' \in [Threads -> BOOLEAN]
    /\ taken' = [taken EXCEPT ![c] = k]
    /\ heard' = [heard EXCEPT ![c] = h]
    /\ data' = [data EXCEPT ![c] = m]
    /\ fill' = [fill EXCEPT ![c] = f]
    /\ prog' = [prog EXCEPT ![c] = g]

Outside == UNCHANGED <<req, arrived, gone, got, told, shrunk>>

\* Programs keep the ends of pipes they hold, and so do the threads, but for
\* the one that serves c.
PipesKept(c) ==
    /\ ends' \subseteq End /\ IsFiniteSet(ends')
    /\ files' \in 0..MaxFd
    /\ \A d \in Conns : Writes(d) => Writes(d)'
    /\ \A d \in Conns \ {c} : ForkReady(d) => ForkReady(d)'

LEMMA ServeStep ==
    ASSUME Inv, NEW t \in Threads, NEW c \in Conns, NEW p \in Places, NEW n \in Nat,
           NEW err \in Codes \union {NoCode}, NEW k \in Nat, NEW h \in Answers,
           NEW m \in Nat, NEW f \in Pipes, NEW g \in Programs,
           Serves(t, c, p, n, err, k, h, m, f, g), Outside, PipesKept(c),
           c \notin closed,
           \A u \in Threads \ {t} : sock[u] # c,
           sock[t] \in {c, NoConn},
           sock' = [sock EXCEPT ![t] = c], p # "idle", closed' = closed,
           n <= req[c].body \/ n <= Parts(req[c]),
           Phase(c, p, n, err)',
           g \in {prog[c], "none", "ended"} \/ Writes(c)'
    PROVE  Inv'
  <1>0. TypeOK /\ ConnInv
    BY DEF Inv
  <1>1. /\ pc \in [Threads -> Places] /\ tlen \in [Threads -> Nat]
        /\ err_code \in [Threads -> Codes \union {NoCode}]
        /\ sock \in [Threads -> Conns \union {NoConn}]
        /\ taken \in [Conns -> Nat] /\ heard \in [Conns -> Answers]
        /\ data \in [Conns -> Nat] /\ fill \in [Conns -> Pipes]
        /\ prog \in [Conns -> Programs] /\ c # NoConn /\ req \in [Conns -> Requests]
    BY <1>0, HandlerAssumption DEF TypeOK, Places, Answers, Pipes, Programs
  <1>2. /\ pc' \in [Threads -> Places] /\ tlen' \in [Threads -> Nat]
        /\ err_code' \in [Threads -> Codes \union {NoCode}]
        /\ sock' \in [Threads -> Conns \union {NoConn}]
        /\ retry' \in [Threads -> BOOLEAN]
        /\ taken' \in [Conns -> Nat] /\ heard' \in [Conns -> Answers]
        /\ data' \in [Conns -> Nat] /\ fill' \in [Conns -> Pipes]
        /\ prog' \in [Conns -> Programs]
    BY <1>1 DEF Serves
  <1>3. \A u \in Threads : sock'[u] # NoConn => ~TooMuch(u)'
    <2> SUFFICES ASSUME NEW u \in Threads, sock'[u] # NoConn
                 PROVE  ~(/\ tlen'[u] > req[sock'[u]].body
                          /\ tlen'[u] > Parts(req[sock'[u]]))
      BY DEF TooMuch, Outside, Parts, IsRange
    <2>1. CASE u = t
      <3>1. sock'[u] = c /\ tlen'[u] = n
        BY <1>1, <2>1 DEF Serves
      <3>2. req[c].body \in Nat /\ Parts(req[c]) \in Nat
        BY <1>1, HandlerAssumption DEF Request, Parts, IsRange
      <3> QED
        BY <1>1, <3>1, <3>2
    <2>2. CASE u # t
      <3>1. sock'[u] = sock[u] /\ tlen'[u] = tlen[u]
        BY <1>1, <2>2 DEF Serves
      <3> QED
        BY <1>0, <3>1 DEF TypeOK, TooMuch
    <2> QED
      BY <2>1, <2>2
  <1>4. TypeOK'
    <2>1. closed' \subseteq Conns
      BY <1>0 DEF TypeOK
    <2>2. ends' \subseteq End /\ files' \in 0..MaxFd
      BY DEF PipesKept
    <2>3. /\ req' \in [Conns -> Requests] /\ arrived' \in [Conns -> Nat]
          /\ gone' \in [Conns -> {"no", "closed", "reset"}]
          /\ got' \in [Conns -> Nat] /\ told' \in [Conns -> 0..OutLen]
      BY <1>0 DEF TypeOK, Outside
    <2>4. shrunk' \in BOOLEAN
      BY <1>0 DEF TypeOK, Outside
    <2> QED
      BY <1>2, <1>3, <2>1, <2>2, <2>3, <2>4 DEF TypeOK, Places, Answers, Pipes, Programs
  <1>5. Touches(t, c)
    BY <1>1 DEF Touches, Serves, Outside, PipesKept
  <1>6. Writers'
    <2>1. \A d \in Conns \ {c} : prog'[d] = prog[d]
      BY <1>1 DEF Serves
    <2>2. prog'[c] = g
      BY <1>1 DEF Serves
    <2> QED
      BY <1>0, <2>1, <2>2 DEF ConnInv, Writers, PipesKept
  <1>7. pc'[t] = p /\ tlen'[t] = n /\ err_code'[t] = err /\ sock'[t] = c
    BY <1>1 DEF Serves
  <1>8. ConnInv'
    BY <1>5, <1>6, <1>7, ThreadStep
  <1>9. IsFiniteSet(ends)'
    BY DEF PipesKept
  <1> QED
    BY <1>4, <1>8, <1>9 DEF Inv

\* What there is before the step, in the same terms.
Holds(t, c, n, err, k, h, m, f, g) ==
    /\ sock[t] = c /\ tlen[t] = n /\ err_code[t] = err
    /\ taken[c] = k /\ heard[c] = h /\ data[c] = m /\ fill[c] = f /\ prog[c] = g
    /\ sock = [sock EXCEPT ![t] = c] /\ pc \in [Threads -> Places]
    /\ tlen = [tlen EXCEPT ![t] = n] /\ err_code = [err_code EXCEPT ![t] = err]
    /\ taken = [taken EXCEPT ![c] = k] /\ heard = [heard EXCEPT ![c] = h]
    /\ data = [data EXCEPT ![c] = m] /\ fill = [fill EXCEPT ![c] = f]
    /\ prog = [prog EXCEPT ![c] = g]

LEMMA InHand ==
    ASSUME Inv, NEW t \in Threads, pc[t] # "idle"
    PROVE  \E c \in Conns, n \in Nat, err \in Codes \union {NoCode}, k \in Nat,
              h \in Answers, m \in Nat, f \in Pipes, g \in Programs :
                /\ Holds(t, c, n, err, k, h, m, f, g) /\ sock[t] = c /\ prog[c] = g
                /\ c \notin closed /\ req[c] \in Request
                /\ \A u \in Threads \ {t} : sock[u] # c
                /\ n <= req[c].body \/ n <= Parts(req[c])
                /\ Phase(c, pc[t], n, err)
  <1>0. TypeOK /\ ConnInv
    BY DEF Inv
  <1>1. /\ pc \in [Threads -> Places] /\ tlen \in [Threads -> Nat]
        /\ err_code \in [Threads -> Codes \union {NoCode}]
        /\ sock \in [Threads -> Conns \union {NoConn}]
        /\ taken \in [Conns -> Nat] /\ heard \in [Conns -> Answers]
        /\ data \in [Conns -> Nat] /\ fill \in [Conns -> Pipes]
        /\ prog \in [Conns -> Programs] /\ req \in [Conns -> Request]
    BY <1>0, HandlerAssumption DEF TypeOK, Places, Answers, Pipes, Programs
  <1>2. sock[t] # NoConn /\ sock[t] \in Conns /\ sock[t] \notin closed
    BY <1>0, <1>1 DEF ConnInv, Hands
  <1>3. PICK c \in Conns : sock[t] = c
    BY <1>2
  <1>4. PICK n \in Nat, err \in Codes \union {NoCode} : tlen[t] = n /\ err_code[t] = err
    BY <1>1
  <1>5. PICK k \in Nat, h \in Answers, m \in Nat, f \in Pipes, g \in Programs :
            taken[c] = k /\ heard[c] = h /\ data[c] = m /\ fill[c] = f /\ prog[c] = g
    BY <1>1
  <1>6. Holds(t, c, n, err, k, h, m, f, g)
    BY <1>1, <1>3, <1>4, <1>5 DEF Holds
  <1>7. Phase(c, pc[t], n, err) /\ \A u \in Threads \ {t} : sock[u] # c
    <2>1. Phase(c, pc[t], n, err)
      BY <1>0, <1>3, <1>4 DEF ConnInv, Phases
    <2> QED
      BY <1>0, <1>2, <1>3, <2>1 DEF ConnInv, Hands
  <1>8. n <= req[c].body \/ n <= Parts(req[c])
    <2>1. req[c].body \in Nat /\ Parts(req[c]) \in Nat
      BY <1>1 DEF Request, Parts, IsRange
    <2>2. ~(n > req[c].body /\ n > Parts(req[c]))
      BY <1>0, <1>2, <1>3, <1>4 DEF TypeOK, TooMuch
    <2> QED
      BY <2>1, <2>2
  <1>9. sock[t] = c /\ prog[c] = g /\ c \notin closed /\ req[c] \in Request
    BY <1>1, <1>2, <1>3, <1>5
  <1> QED
    BY <1>6, <1>7, <1>8, <1>9

\* No descriptor changes hands.
LEMMA NoPipes ==
    ASSUME Inv, ends' = ends, files' = files, NEW c \in Conns
    PROVE  PipesKept(c)
  BY DEF Inv, TypeOK, PipesKept, ForkReady, Writes, PipeEnd

\* A socket is handed to a thread that has none.
LEMMA StartStep ==
    ASSUME Inv, NEW t \in Threads, NEW c \in Conns, StartHandler(t, c), Outside
    PROVE  Inv'
  <1>0. TypeOK /\ ConnInv
    BY DEF Inv
  <1>1. /\ pc[t] = "idle" /\ c \notin closed /\ \A u \in Threads : sock[u] # c
        /\ sock[t] = NoConn
    BY <1>0 DEF StartHandler, ConnInv, Hands
  <1>2. Quiet(c) /\ NoProgram(c)
    BY <1>0, <1>1 DEF ConnInv, Untouched, Served
  <1>3. PICK k \in Nat, h \in Answers, m \in Nat, f \in Pipes, g \in Programs :
            taken[c] = k /\ heard[c] = h /\ data[c] = m /\ fill[c] = f /\ prog[c] = g
    BY <1>0 DEF TypeOK, Answers, Pipes, Programs
  <1>4. Serves(t, c, "recv", 0, NoCode, k, h, m, f, g)
    BY <1>0, <1>3 DEF StartHandler, Serves, TypeOK, answerVars, pipeVars
  <1>5. sock' = [sock EXCEPT ![t] = c] /\ closed' = closed /\ ends' = ends /\ files' = files
    BY DEF StartHandler, pipeVars
  <1>6. Phase(c, "recv", 0, NoCode)'
    <2>1. (Quiet(c) /\ NoProgram(c))'
      BY <1>2 DEF Quiet, NoProgram, StartHandler, answerVars, pipeVars, Outside
    <2> QED
      BY <2>1 DEF Phase
  <1>7. PipesKept(c) /\ 0 <= Parts(req[c]) /\ "recv" \in Places /\ NoCode \in Codes \union {NoCode}
    <2>1. req[c] \in Request
      BY <1>0, HandlerAssumption DEF TypeOK
    <2> QED
      BY <1>5, <2>1, NoPipes DEF Parts, IsRange, Request, Places
  <1> QED
    BY <1>1, <1>3, <1>4, <1>5, <1>6, <1>7, ServeStep

-----------------------------------------------------------------------------
(* The request                                                             *)

LEMMA HeaderWholeStep ==
    ASSUME Inv, NEW t \in Threads, HeaderWhole(t), Outside
    PROVE  Inv'
  <1>0. TypeOK /\ ConnInv
    BY DEF Inv
  <1>1. PICK c \in Conns, n \in Nat, err \in Codes \union {NoCode}, k \in Nat,
              h \in Answers, m \in Nat, f \in Pipes, g \in Programs :
                /\ Holds(t, c, n, err, k, h, m, f, g) /\ sock[t] = c /\ prog[c] = g
                /\ c \notin closed /\ req[c] \in Request
                /\ \A u \in Threads \ {t} : sock[u] # c
                /\ n <= req[c].body \/ n <= Parts(req[c])
                /\ Phase(c, "recv", n, err)
    BY InHand DEF HeaderWhole
  <1>2. n = 0 /\ Quiet(c) /\ NoProgram(c)
    BY <1>1 DEF Phase
  <1>3. PICK l \in Nat : /\ l = HeaderLen(c)
                         /\ LfUnits = 0 \/ ~req[c].lf => l = req[c].head
    <2>1. /\ arrived[c] \in Nat /\ req[c].head \in Nat /\ req[c].head <= arrived[c]
          /\ MaxHead \in Nat /\ LfUnits \in Nat
      BY <1>0, <1>1, HandlerAssumption DEF TypeOK, Request, HeaderWhole, Holds, Peeked,
                                           Least
    <2>2. HeaderLen(c) \in Nat
      BY <2>1 DEF HeaderLen, Least
    <2>3. LfUnits = 0 \/ ~req[c].lf => HeaderLen(c) = req[c].head
      BY <2>1 DEF HeaderLen, Least
    <2> QED
      BY <2>2, <2>3
  <1>4. PICK code \in (Codes \union {NoCode}) \ {"200"} : code = Refusal(req[c])
    BY <1>1, RefusalCode
  <1>5. PICK p \in Places : p = IF code = NoCode THEN HandlerOf(req[c]) ELSE "error"
    BY DEF HandlerOf, Places
  <1>6. PICK e \in Codes \union {NoCode} : e = IF code = NoCode THEN err ELSE code
    OBVIOUS
  <1>7. Serves(t, c, p, n, e, l, h, m, f, g)
    BY <1>0, <1>1, <1>3, <1>4, <1>5, <1>6
    DEF HeaderWhole, Holds, Goes, Fails, Serves, TypeOK, answerVars, pipeVars
  <1>8. /\ sock' = [sock EXCEPT ![t] = c] /\ closed' = closed /\ ends' = ends
        /\ files' = files /\ p # "idle"
    BY <1>1, <1>5 DEF HeaderWhole, Holds, pipeVars, HandlerOf
  <1>9. Phase(c, p, n, e)'
    <2>1. (Quiet(c) /\ NoProgram(c))'
      BY <1>0, <1>1, <1>2, <1>7 DEF Holds, Serves, Quiet, NoProgram, Outside
    <2>2. /\ req'[c] = req[c] /\ taken'[c] = l /\ got'[c] = 0 /\ fill'[c]["in"] = 0
          /\ heard'[c] = << >> /\ prog'[c] = "none"
      BY <1>0, <1>7, <2>1 DEF Serves, Quiet, NoProgram, Outside, TypeOK
    <2>3. BodySoFar(c, 0)'
      BY <1>1, <1>3, <2>2 DEF BodySoFar, Request
    <2>4. p \in {"pipe", "list", "range", "error"} /\ (p = "error" => e # "200")
      BY <1>4, <1>5, <1>6 DEF HandlerOf
    <2>5. Parts(req[c]) > 0 /\ Len(heard'[c]) = 0
      BY <1>1, <2>2 DEF Parts, IsRange, Request
    <2>6. PartsSoFar(c, 0)'
      BY <2>2, <2>5 DEF PartsSoFar
    <2>7. Parts(req[c])' = Parts(req[c])
      BY <2>2 DEF Parts, IsRange
    <2> QED
      BY <1>2, <2>1, <2>2, <2>3, <2>4, <2>5, <2>6, <2>7 DEF Phase
  <1> QED
    BY <1>1, <1>7, <1>8, <1>9, NoPipes, ServeStep

\* A header that does not come whole is refused.
LEMMA HeaderRefusedStep ==
    ASSUME Inv, NEW t \in Threads, HeaderTooLong(t) \/ HeaderFails(t), Outside
    PROVE  Inv'
  <1>0. TypeOK /\ ConnInv
    BY DEF Inv
  <1>1. PICK c \in Conns, n \in Nat, err \in Codes \union {NoCode}, k \in Nat,
              h \in Answers, m \in Nat, f \in Pipes, g \in Programs :
                /\ Holds(t, c, n, err, k, h, m, f, g) /\ sock[t] = c /\ prog[c] = g
                /\ c \notin closed /\ req[c] \in Request
                /\ \A u \in Threads \ {t} : sock[u] # c
                /\ n <= req[c].body \/ n <= Parts(req[c])
                /\ Phase(c, "recv", n, err)
    BY InHand DEF HeaderTooLong, HeaderFails
  <1>2. PICK e \in {"400", "413"} : Serves(t, c, "error", n, e, k, h, m, f, g)
    BY <1>0, <1>1 DEF HeaderTooLong, HeaderFails, GivesUp, OtherErrno, Holds, Fails,
                      Serves, TypeOK, answerVars, pipeVars
  <1>3. /\ sock' = [sock EXCEPT ![t] = c] /\ closed' = closed /\ ends' = ends
        /\ files' = files
    BY <1>1 DEF HeaderTooLong, HeaderFails, Holds, pipeVars
  <1>4. Phase(c, "error", n, e)'
    <2>1. heard'[c] = << >>
      BY <1>0, <1>1, <1>2 DEF Holds, Serves, Quiet, Phase, TypeOK
    <2> QED
      BY <2>1 DEF Phase
  <1>5. "error" \in Places /\ e \in Codes \union {NoCode}
    BY DEF Places, Codes
  <1> QED
    BY <1>1, <1>2, <1>3, <1>4, <1>5, NoPipes, ServeStep

-----------------------------------------------------------------------------
(* The program                                                             *)

\* Ends of pipes of a connection are ends.
LEMMA EndTypes ==
    ASSUME NEW c \in Conns
    PROVE  /\ BothEnds(c, "in") \subseteq End /\ IsFiniteSet(BothEnds(c, "in"))
           /\ BothEnds(c, "out") \subseteq End /\ IsFiniteSet(BothEnds(c, "out"))
  <1>1. /\ BothEnds(c, "in") = {PipeEnd(Server, c, "in", "r"), PipeEnd(Server, c, "in", "w")}
        /\ BothEnds(c, "out") = {PipeEnd(Server, c, "out", "r"), PipeEnd(Server, c, "out", "w")}
    BY DEF BothEnds
  <1>2. \A x, y : IsFiniteSet({x, y})
    <2> TAKE x, y
    <2>1. IsFiniteSet({} \union {x})
      BY FS_EmptySet, FS_AddElement
    <2>2. IsFiniteSet(({} \union {x}) \union {y})
      BY <2>1, FS_AddElement
    <2>3. ({} \union {x}) \union {y} = {x, y}
      OBVIOUS
    <2> QED
      BY <2>2, <2>3
  <1>3. \A pipe \in {"in", "out"}, side \in {"r", "w"} : PipeEnd(Server, c, pipe, side) \in End
    BY DEF PipeEnd, End
  <1> QED
    BY <1>1, <1>2, <1>3

LEMMA CreatePipesStep ==
    ASSUME Inv, NEW t \in Threads, CreatePipes(t), Outside
    PROVE  Inv'
  <1>0. TypeOK /\ ConnInv
    BY DEF Inv
  <1>1. PICK c \in Conns, n \in Nat, err \in Codes \union {NoCode}, k \in Nat,
              h \in Answers, m \in Nat, f \in Pipes, g \in Programs :
                /\ Holds(t, c, n, err, k, h, m, f, g) /\ sock[t] = c /\ prog[c] = g
                /\ c \notin closed /\ req[c] \in Request
                /\ \A u \in Threads \ {t} : sock[u] # c
                /\ n <= req[c].body \/ n <= Parts(req[c])
                /\ Phase(c, "pipe", n, err)
    BY InHand DEF CreatePipes
  <1>2. PICK p \in {"fork", "error"}, e \in {err, "500"} :
            Serves(t, c, p, n, e, k, h, m, f, g) /\ (p = "error" => e = "500")
    <2>1. CASE FreeFds >= 4
      <3>1. Serves(t, c, "fork", n, err, k, h, m, f, g)
        BY <1>0, <1>1, <2>1 DEF CreatePipes, Holds, Goes, Serves, TypeOK, answerVars
      <3> QED
        BY <3>1
    <2>2. CASE ~(FreeFds >= 4)
      <3>1. retry' \in [Threads -> BOOLEAN]
        BY <1>0, <2>2 DEF CreatePipes, OtherErrno, TypeOK
      <3>2. Serves(t, c, "error", n, "500", k, h, m, f, g)
        BY <1>1, <2>2, <3>1 DEF CreatePipes, Holds, Fails, Serves, answerVars
      <3> QED
        BY <3>2
    <2> QED
      BY <2>1, <2>2
  <1>3. /\ sock' = [sock EXCEPT ![t] = c] /\ closed' = closed /\ files' = files
        /\ ends' \in {ends, ends \union BothEnds(c, "in"),
                     ends \union BothEnds(c, "in") \union BothEnds(c, "out")}
    BY <1>1 DEF CreatePipes, Holds
  <1>4. PipesKept(c)
    <2>1. IsFiniteSet(ends) /\ ends \subseteq End /\ files \in 0..MaxFd
      BY DEF Inv, TypeOK
    <2>2. /\ IsFiniteSet(ends \union BothEnds(c, "in"))
          /\ IsFiniteSet(ends \union BothEnds(c, "in") \union BothEnds(c, "out"))
      BY <2>1, EndTypes, FS_Union
    <2> QED
      BY <1>3, <2>1, <2>2, EndTypes DEF PipesKept, ForkReady, Writes, PipeEnd
  <1>6. p = "fork" => ForkReady(c)'
    <2>1. CASE FreeFds >= 4
      BY <1>1, <2>1 DEF CreatePipes, Holds, BothEnds, ForkReady, PipeEnd
    <2>2. CASE ~(FreeFds >= 4)
      <3>1. pc'[t] = "error" /\ pc'[t] = p
        BY <1>1, <1>2, <2>2 DEF CreatePipes, Holds, Fails, Serves
      <3> QED
        BY <3>1
    <2> QED
      BY <2>1, <2>2
  <1>5. Phase(c, p, n, e)'
    <2>1. Quiet(c) /\ NoProgram(c) /\ BodySoFar(c, 0) /\ n = 0
      BY <1>1 DEF Phase
    <2>2. /\ taken'[c] = taken[c] /\ heard'[c] = heard[c] /\ data'[c] = data[c]
          /\ fill'[c] = fill[c] /\ prog'[c] = prog[c]
      BY <1>0, <1>1, <1>2 DEF Holds, Serves, TypeOK
    <2>3. (Quiet(c) /\ NoProgram(c) /\ BodySoFar(c, 0))'
      BY <2>1, <2>2 DEF Quiet, NoProgram, BodySoFar, Outside
    <2>4. heard'[c] = << >>
      BY <2>3 DEF Quiet
    <2>5. p = "fork" => ForkReady(c)'
      BY <1>2, <1>6
    <2> QED
      BY <1>2, <2>1, <2>3, <2>4, <2>5 DEF Phase
  <1>7. p \in Places /\ p # "idle" /\ e \in Codes \union {NoCode}
    BY DEF Places, Codes
  <1> QED
    BY <1>1, <1>2, <1>3, <1>4, <1>5, <1>7, ServeStep

LEMMA ForkStep ==
    ASSUME Inv, NEW t \in Threads, Fork(t), Outside
    PROVE  Inv'
  <1>0. TypeOK /\ ConnInv
    BY DEF Inv
  <1>1. PICK c \in Conns, n \in Nat, err \in Codes \union {NoCode}, k \in Nat,
              h \in Answers, m \in Nat, f \in Pipes, g \in Programs :
                /\ Holds(t, c, n, err, k, h, m, f, g) /\ sock[t] = c /\ prog[c] = g
                /\ c \notin closed /\ req[c] \in Request
                /\ \A u \in Threads \ {t} : sock[u] # c
                /\ n <= req[c].body \/ n <= Parts(req[c])
                /\ Phase(c, "fork", n, err)
    BY InHand DEF Fork
  <1>2. Serves(t, c, "parent", n, err, k, h, m, f, "forked")
    BY <1>0, <1>1 DEF Fork, Holds, Goes, Serves, TypeOK, answerVars
  <1>3. /\ sock' = [sock EXCEPT ![t] = c] /\ closed' = closed /\ files' = files
        /\ ends' = ends \union Copies(c)
    BY <1>1 DEF Fork, Holds
  <1>4. PipesKept(c)
    <2>1. IsFiniteSet(ends) /\ ends \subseteq End /\ files \in 0..MaxFd
      BY DEF Inv, TypeOK
    <2>2. IsFiniteSet(ends \union Copies(c))
      BY <2>1, CopiesFinite, FS_Union
    <2>3. Copies(c) \subseteq End
      BY <2>1 DEF Copies, ServerEnds, End
    <2> QED
      BY <1>3, <2>1, <2>2, <2>3 DEF PipesKept, ForkReady, Writes, PipeEnd
  <1>5. Phase(c, "parent", n, err)'
    <2>1. Quiet(c) /\ NoProgram(c) /\ BodySoFar(c, 0) /\ n = 0
      BY <1>1 DEF Phase
    <2>2. /\ taken'[c] = taken[c] /\ heard'[c] = heard[c] /\ data'[c] = data[c]
          /\ fill'[c] = fill[c] /\ prog'[c] = "forked"
      BY <1>0, <1>1, <1>2 DEF Holds, Serves, TypeOK
    <2>3. (Quiet(c) /\ BodySoFar(c, 0) /\ AnswerSoFar(c))'
      BY <2>1, <2>2 DEF Quiet, NoProgram, BodySoFar, AnswerSoFar, Outside
    <2> QED
      BY <2>1, <2>2, <2>3 DEF Phase
  <1>6. Writes(c)'
    <2>1. ForkReady(c)
      BY <1>1 DEF Phase
    <2>2. /\ PipeEnd(Server, c, "out", "w").proc = Server
          /\ [PipeEnd(Server, c, "out", "w") EXCEPT !.proc = c] = PipeEnd(c, c, "out", "w")
      BY DEF PipeEnd
    <2>3. PipeEnd(c, c, "out", "w") \in Copies(c)
      BY <2>1, <2>2 DEF Copies, ServerEnds, ForkReady
    <2> QED
      BY <1>3, <2>3 DEF Writes, PipeEnd
  <1>7. "parent" \in Places /\ "forked" \in Programs
    BY DEF Places, Programs
  <1> QED
    BY <1>1, <1>2, <1>3, <1>4, <1>5, <1>6, <1>7, ServeStep

LEMMA ForkFailsStep ==
    ASSUME Inv, NEW t \in Threads, ForkFails(t), Outside
    PROVE  Inv'
  <1>0. TypeOK /\ ConnInv
    BY DEF Inv
  <1>1. PICK c \in Conns, n \in Nat, err \in Codes \union {NoCode}, k \in Nat,
              h \in Answers, m \in Nat, f \in Pipes, g \in Programs :
                /\ Holds(t, c, n, err, k, h, m, f, g) /\ sock[t] = c /\ prog[c] = g
                /\ c \notin closed /\ req[c] \in Request
                /\ \A u \in Threads \ {t} : sock[u] # c
                /\ n <= req[c].body \/ n <= Parts(req[c])
                /\ Phase(c, "fork", n, err)
    BY InHand DEF ForkFails
  <1>2. Serves(t, c, "error", n, "500", k, h, m, f, g)
    BY <1>0, <1>1 DEF ForkFails, Holds, Fails, Serves, TypeOK, answerVars, pipeVars
  <1>3. /\ sock' = [sock EXCEPT ![t] = c] /\ closed' = closed /\ ends' = ends
        /\ files' = files
    BY <1>1 DEF ForkFails, Holds, pipeVars
  <1>4. Phase(c, "error", n, "500")'
    <2>1. heard'[c] = << >>
      BY <1>0, <1>1, <1>2 DEF Holds, Serves, Quiet, Phase, TypeOK
    <2> QED
      BY <2>1 DEF Phase
  <1>5. "error" \in Places /\ "500" \in Codes \union {NoCode}
    BY DEF Places, Codes
  <1> QED
    BY <1>1, <1>2, <1>3, <1>4, <1>5, NoPipes, ServeStep

LEMMA CloseChildsEndsStep ==
    ASSUME Inv, NEW t \in Threads, CloseChildsEnds(t), Outside
    PROVE  Inv'
  <1>0. TypeOK /\ ConnInv
    BY DEF Inv
  <1>1. PICK c \in Conns, n \in Nat, err \in Codes \union {NoCode}, k \in Nat,
              h \in Answers, m \in Nat, f \in Pipes, g \in Programs :
                /\ Holds(t, c, n, err, k, h, m, f, g) /\ sock[t] = c /\ prog[c] = g
                /\ c \notin closed /\ req[c] \in Request
                /\ \A u \in Threads \ {t} : sock[u] # c
                /\ n <= req[c].body \/ n <= Parts(req[c])
                /\ Phase(c, "parent", n, err)
    BY InHand DEF CloseChildsEnds
  <1>2. PICK p \in {"status", "recvBody"} :
            /\ p = IF req[c].body = 0 THEN "status" ELSE "recvBody"
            /\ Serves(t, c, p, n, err, k, h, m, f, g)
    BY <1>0, <1>1 DEF CloseChildsEnds, Holds, Goes, Serves, TypeOK, answerVars
  <1>3. /\ sock' = [sock EXCEPT ![t] = c] /\ closed' = closed /\ files' = files
        /\ ends' = ends \ ChildsEnds(c)
    BY <1>1 DEF CloseChildsEnds, Holds
  <1>4. PipesKept(c)
    <2>1. IsFiniteSet(ends) /\ ends \subseteq End /\ files \in 0..MaxFd
      BY DEF Inv, TypeOK
    <2>2. IsFiniteSet(ends \ ChildsEnds(c))
      BY <2>1, FS_Difference
    <2> QED
      BY <1>3, <2>1, <2>2, HandlerAssumption
      DEF PipesKept, ForkReady, Writes, PipeEnd, ChildsEnds
  <1>5. Phase(c, p, n, err)'
    <2>1. Quiet(c) /\ BodySoFar(c, 0) /\ AnswerSoFar(c) /\ n = 0 /\ prog[c] # "none"
      BY <1>1 DEF Phase
    <2>2. /\ taken'[c] = taken[c] /\ heard'[c] = heard[c] /\ data'[c] = data[c]
          /\ fill'[c] = fill[c] /\ prog'[c] = prog[c] /\ req'[c] = req[c]
      BY <1>0, <1>1, <1>2 DEF Holds, Serves, TypeOK, Outside
    <2>3. (Quiet(c) /\ BodySoFar(c, 0) /\ AnswerSoFar(c))'
      BY <2>1, <2>2 DEF Quiet, BodySoFar, AnswerSoFar, Outside
    <2>4. p = "recvBody" => n < req'[c].body
      BY <1>1, <1>2, <2>1, <2>2 DEF Request
    <2> QED
      BY <2>1, <2>2, <2>3, <2>4 DEF Phase
  <1>6. p \in Places /\ p # "idle"
    BY DEF Places
  <1> QED
    BY <1>1, <1>2, <1>3, <1>4, <1>5, <1>6, ServeStep

LEMMA RecvContentStep ==
    ASSUME Inv, NEW t \in Threads, RecvContent(t), Outside
    PROVE  Inv'
  <1>0. TypeOK /\ ConnInv
    BY DEF Inv
  <1>1. PICK c \in Conns, n \in Nat, err \in Codes \union {NoCode}, k \in Nat,
              h \in Answers, m \in Nat, f \in Pipes, g \in Programs :
                /\ Holds(t, c, n, err, k, h, m, f, g) /\ sock[t] = c /\ prog[c] = g
                /\ c \notin closed /\ req[c] \in Request
                /\ \A u \in Threads \ {t} : sock[u] # c
                /\ n <= req[c].body \/ n <= Parts(req[c])
                /\ Phase(c, "recvBody", n, err)
    BY InHand DEF RecvContent
  <1>2. /\ sock' = [sock EXCEPT ![t] = c] /\ closed' = closed /\ ends' = ends
        /\ files' = files
    BY <1>1 DEF RecvContent, Holds, pipeVars
  <1>3. /\ Quiet(c) /\ BodySoFar(c, 0) /\ AnswerSoFar(c) /\ n < req[c].body
        /\ prog[c] # "none"
    BY <1>1 DEF Phase
  <1>4. CASE arrived[c] > taken[c] /\ pc'[t] = "writePipe"
    <2>1. Serves(t, c, "writePipe", n, err, k + 1, h, m, f, g)
      BY <1>0, <1>1, <1>4 DEF RecvContent, Holds, Goes, Fails, Serves, TypeOK, answerVars,
                              pipeVars
    <2>2. /\ taken'[c] = taken[c] + 1 /\ heard'[c] = heard[c] /\ data'[c] = data[c]
          /\ fill'[c] = fill[c] /\ prog'[c] = prog[c] /\ req'[c] = req[c]
          /\ got'[c] = got[c] /\ told'[c] = told[c] /\ gone'[c] = gone[c]
      BY <1>0, <1>1, <2>1 DEF Holds, Serves, TypeOK, Outside
    <2>3. (Quiet(c) /\ BodySoFar(c, 1) /\ AnswerSoFar(c))'
      BY <1>0, <1>1, <1>3, <2>2 DEF Quiet, BodySoFar, AnswerSoFar, Request, TypeOK
    <2>4. Phase(c, "writePipe", n, err)'
      BY <1>3, <2>2, <2>3 DEF Phase
    <2>5. "writePipe" \in Places /\ k + 1 \in Nat
      BY <1>1 DEF Places
    <2> QED
      BY <1>1, <1>2, <2>1, <2>4, <2>5, NoPipes, ServeStep
  <1>5. CASE ~(arrived[c] > taken[c] /\ pc'[t] = "writePipe")
    <2>1. Serves(t, c, "error", n, NoCode, k, h, m, f, g)
      BY <1>0, <1>1, <1>5 DEF RecvContent, Holds, Goes, Fails, GivesUp, OtherErrno, Serves,
                              TypeOK, answerVars, pipeVars
    <2>2. heard'[c] = << >>
      BY <1>0, <1>1, <1>3, <2>1 DEF Holds, Serves, Quiet, TypeOK
    <2>3. Phase(c, "error", n, NoCode)'
      BY <2>2, NoCodeIsNone DEF Phase
    <2>4. "error" \in Places
      BY DEF Places
    <2> QED
      BY <1>1, <1>2, <2>1, <2>3, <2>4, NoPipes, ServeStep
  <1> QED
    BY <1>4, <1>5

LEMMA WriteContentStep ==
    ASSUME Inv, NEW t \in Threads, WriteContent(t), Outside
    PROVE  Inv'
  <1>0. TypeOK /\ ConnInv
    BY DEF Inv
  <1>1. PICK c \in Conns, n \in Nat, err \in Codes \union {NoCode}, k \in Nat,
              h \in Answers, m \in Nat, f \in Pipes, g \in Programs :
                /\ Holds(t, c, n, err, k, h, m, f, g) /\ sock[t] = c /\ prog[c] = g
                /\ c \notin closed /\ req[c] \in Request
                /\ \A u \in Threads \ {t} : sock[u] # c
                /\ n <= req[c].body \/ n <= Parts(req[c])
                /\ Phase(c, "writePipe", n, err)
    BY InHand DEF WriteContent
  <1>2. /\ sock' = [sock EXCEPT ![t] = c] /\ closed' = closed /\ ends' = ends
        /\ files' = files
    BY <1>1 DEF WriteContent, Holds
  <1>3. /\ Quiet(c) /\ BodySoFar(c, 1) /\ AnswerSoFar(c) /\ n < req[c].body
        /\ prog[c] # "none"
    BY <1>1 DEF Phase
  <1>4. CASE Open(c, "in", "r")
    <2>1. PICK p \in {"status", "recvBody"} :
              p = IF n + 1 = req[c].body THEN "status" ELSE "recvBody"
      OBVIOUS
    <2>2. PICK f1 \in Pipes : /\ f1 = [f EXCEPT !["in"] = @ + 1]
                              /\ f1["in"] = f["in"] + 1 /\ f1["out"] = f["out"]
      <3>1. f["in"] < PipeCap
        BY <1>1, <1>4 DEF WriteContent, Holds
      <3>2. f["in"] + 1 \in 0..PipeCap
        BY <3>1, HandlerAssumption DEF Pipes
      <3>3. [f EXCEPT !["in"] = @ + 1] \in Pipes
        BY <3>2 DEF Pipes
      <3>4. DOMAIN f = {"in", "out"} /\ "in" # "out"
        BY DEF Pipes
      <3>5. /\ [f EXCEPT !["in"] = @ + 1]["in"] = f["in"] + 1
            /\ [f EXCEPT !["in"] = @ + 1]["out"] = f["out"]
        BY <3>4
      <3> QED
        BY <3>3, <3>5
    <2>3. Serves(t, c, p, n + 1, err, k, h, m, f1, g)
      BY <1>0, <1>1, <1>4, <2>1, <2>2 DEF WriteContent, Holds, Goes, Serves, TypeOK,
                                          answerVars
    <2>4. /\ taken'[c] = taken[c] /\ heard'[c] = heard[c] /\ data'[c] = data[c]
          /\ fill'[c]["in"] = fill[c]["in"] + 1 /\ fill'[c]["out"] = fill[c]["out"]
          /\ prog'[c] = prog[c] /\ req'[c] = req[c]
          /\ got'[c] = got[c] /\ told'[c] = told[c] /\ gone'[c] = gone[c]
      BY <1>0, <1>1, <2>2, <2>3 DEF Holds, Serves, TypeOK, Outside
    <2>5. (Quiet(c) /\ BodySoFar(c, 0) /\ AnswerSoFar(c))'
      <3>1. fill[c]["in"] \in Nat /\ got[c] \in Nat /\ req[c].head \in Nat
        BY <1>0, <1>1, HandlerAssumption DEF TypeOK, Request
      <3> QED
        BY <1>3, <2>4, <3>1 DEF Quiet, BodySoFar, AnswerSoFar
    <2>6. Phase(c, p, n + 1, err)'
      <3>1. p = "recvBody" => n + 1 < req'[c].body
        BY <1>1, <1>3, <2>1, <2>4 DEF Request
      <3> QED
        BY <1>3, <2>1, <2>4, <2>5, <3>1 DEF Phase
    <2>7. p \in Places /\ p # "idle" /\ n + 1 \in Nat /\ n + 1 <= req[c].body
      BY <1>1, <1>3 DEF Places, Request
    <2> QED
      BY <1>1, <1>2, <2>1, <2>3, <2>6, <2>7, NoPipes, ServeStep
  <1>5. CASE ~Open(c, "in", "r")
    <2>9. Fails(t, NoCode) /\ OtherErrno(t) /\ fill' = fill /\ tlen' = tlen
      BY <1>1, <1>5 DEF WriteContent, Holds
    <2>0. retry' \in [Threads -> BOOLEAN]
      BY <1>0, <2>9 DEF OtherErrno, TypeOK
    <2>1. Serves(t, c, "error", n, NoCode, k, h, m, f, g)
      BY <1>1, <2>9, <2>0 DEF WriteContent, Holds, Fails, Serves, answerVars
    <2>2. heard'[c] = << >>
      BY <1>0, <1>1, <1>3, <2>1 DEF Holds, Serves, Quiet, TypeOK
    <2>3. Phase(c, "error", n, NoCode)'
      BY <2>2, NoCodeIsNone DEF Phase
    <2>4. "error" \in Places
      BY DEF Places
    <2> QED
      BY <1>1, <1>2, <2>1, <2>3, <2>4, NoPipes, ServeStep
  <1> QED
    BY <1>4, <1>5

-----------------------------------------------------------------------------
(* The answer                                                              *)

\* One more status line.
LEMMA Appended ==
    ASSUME NEW h \in Answers, NEW code \in Codes \union {NoCode}
    PROVE  /\ Append(h, code) \in Answers
           /\ Len(h) \in Nat /\ Len(Append(h, code)) = Len(h) + 1
           /\ \A i \in 1..Len(h) : Append(h, code)[i] = h[i]
           /\ Append(h, code)[Len(h) + 1] = code
  BY AppendProperties DEF Answers

LEMMA SendStatusStep ==
    ASSUME Inv, NEW t \in Threads, SendStatus(t), Outside
    PROVE  Inv'
  <1>0. TypeOK /\ ConnInv
    BY DEF Inv
  <1>1. PICK c \in Conns, n \in Nat, err \in Codes \union {NoCode}, k \in Nat,
              h \in Answers, m \in Nat, f \in Pipes, g \in Programs :
                /\ Holds(t, c, n, err, k, h, m, f, g) /\ sock[t] = c /\ prog[c] = g
                /\ c \notin closed /\ req[c] \in Request
                /\ \A u \in Threads \ {t} : sock[u] # c
                /\ n <= req[c].body \/ n <= Parts(req[c])
                /\ Phase(c, "status", n, err)
    BY InHand DEF SendStatus
  <1>2. /\ sock' = [sock EXCEPT ![t] = c] /\ closed' = closed /\ ends' = ends
        /\ files' = files
    BY <1>1 DEF SendStatus, Holds, pipeVars
  <1>3. Quiet(c) /\ BodySoFar(c, 0) /\ AnswerSoFar(c) /\ prog[c] # "none"
    BY <1>1 DEF Phase
  <1>4. CASE Hears(c, "200") /\ Goes(t, "readPipe") /\ UNCHANGED retry
    <2>1. PICK h1 \in Answers :
              h1 = IF gone[c] = "no" THEN Append(h, "200") ELSE h
      BY Appended DEF Codes
    <2>2. Len(h1) <= 1
      <3>1. h = << >> /\ Len(h) = 0
        BY <1>1, <1>3 DEF Holds, Quiet
      <3>2. Len(Append(h, "200")) = 1
        BY <3>1, Appended DEF Codes
      <3> QED
        BY <2>1, <3>1, <3>2
    <2>3. Serves(t, c, "readPipe", n, err, k, h1, m, f, g)
      BY <1>0, <1>1, <1>4, <2>1 DEF SendStatus, Hears, Holds, Goes, Serves, TypeOK, pipeVars
    <2>4. /\ taken'[c] = taken[c] /\ heard'[c] = h1 /\ data'[c] = data[c]
          /\ fill'[c] = fill[c] /\ prog'[c] = prog[c] /\ req'[c] = req[c]
          /\ got'[c] = got[c] /\ told'[c] = told[c] /\ gone'[c] = gone[c]
      BY <1>0, <1>1, <2>3 DEF Holds, Serves, TypeOK, Outside
    <2>5. (BodySoFar(c, 0) /\ AnswerSoFar(c))'
      BY <1>3, <2>4 DEF BodySoFar, AnswerSoFar
    <2>6. Phase(c, "readPipe", n, err)'
      BY <1>3, <2>2, <2>4, <2>5 DEF Phase
    <2>7. "readPipe" \in Places
      BY DEF Places
    <2> QED
      BY <1>1, <1>2, <2>3, <2>6, <2>7, NoPipes, ServeStep
  <1>5. CASE SendFails(t) /\ Fails(t, NoCode) /\ OtherErrno(t) /\ UNCHANGED heard
    <2>1. retry' \in [Threads -> BOOLEAN]
      BY <1>0, <1>5 DEF OtherErrno, TypeOK
    <2>2. Serves(t, c, "error", n, NoCode, k, h, m, f, g)
      BY <1>1, <1>5, <2>1 DEF SendStatus, Holds, Fails, Serves, pipeVars
    <2>3. heard'[c] = << >>
      BY <1>1, <1>3, <1>5 DEF Quiet
    <2>4. Phase(c, "error", n, NoCode)'
      BY <2>3, NoCodeIsNone DEF Phase
    <2>5. "error" \in Places
      BY DEF Places
    <2> QED
      BY <1>1, <1>2, <2>2, <2>4, <2>5, NoPipes, ServeStep
  <1> QED
    BY <1>1, <1>4, <1>5 DEF SendStatus, Holds

LEMMA ReadAnswerStep ==
    ASSUME Inv, NEW t \in Threads, ReadAnswer(t), Outside
    PROVE  Inv'
  <1>0. TypeOK /\ ConnInv
    BY DEF Inv
  <1>1. PICK c \in Conns, n \in Nat, err \in Codes \union {NoCode}, k \in Nat,
              h \in Answers, m \in Nat, f \in Pipes, g \in Programs :
                /\ Holds(t, c, n, err, k, h, m, f, g) /\ sock[t] = c /\ prog[c] = g
                /\ c \notin closed /\ req[c] \in Request
                /\ \A u \in Threads \ {t} : sock[u] # c
                /\ n <= req[c].body \/ n <= Parts(req[c])
                /\ Phase(c, "readPipe", n, err)
    BY InHand DEF ReadAnswer
  <1>2. /\ sock' = [sock EXCEPT ![t] = c] /\ closed' = closed /\ ends' = ends
        /\ files' = files
    BY <1>1 DEF ReadAnswer, Holds
  <1>3. /\ BodySoFar(c, 0) /\ AnswerSoFar(c) /\ prog[c] # "none" /\ Len(heard[c]) <= 1
        /\ Len(h) <= 1
    BY <1>1 DEF Phase, Holds
  <1>6. PICK f1 \in Pipes : /\ f1 = [f EXCEPT !["out"] = @ - 1]
                            /\ f1["in"] = f["in"] /\ f1["out"] = f["out"] - 1
    <2>1. f["out"] > 0
      BY <1>1 DEF ReadAnswer, Holds
    <2>2. f["out"] - 1 \in 0..PipeCap
      BY <2>1, HandlerAssumption DEF Pipes
    <2>3. [f EXCEPT !["out"] = @ - 1] \in Pipes
      BY <2>2 DEF Pipes
    <2>4. DOMAIN f = {"in", "out"} /\ "in" # "out"
      BY DEF Pipes
    <2>5. /\ [f EXCEPT !["out"] = @ - 1]["out"] = f["out"] - 1
          /\ [f EXCEPT !["out"] = @ - 1]["in"] = f["in"]
      BY <2>4
    <2> QED
      BY <2>3, <2>5
  <1>7. fill' = [fill EXCEPT ![c] = f1]
    BY <1>0, <1>1, <1>6 DEF ReadAnswer, Holds, TypeOK
  <1>4. CASE Receives(c) /\ Goes(t, "readPipe") /\ UNCHANGED retry
    <2>1. PICK m1 \in Nat : m1 = IF gone[c] = "no" THEN m + 1 ELSE m
      OBVIOUS
    <2>3. Serves(t, c, "readPipe", n, err, k, h, m1, f1, g)
      BY <1>0, <1>1, <1>4, <1>7, <2>1 DEF ReadAnswer, Receives, Holds, Goes, Serves, TypeOK
    <2>4. /\ taken'[c] = taken[c] /\ heard'[c] = heard[c] /\ data'[c] = m1
          /\ fill'[c] = f1 /\ prog'[c] = prog[c] /\ req'[c] = req[c]
          /\ got'[c] = got[c] /\ told'[c] = told[c] /\ gone'[c] = gone[c]
      BY <1>0, <1>1, <2>3 DEF Holds, Serves, TypeOK, Outside
    <2>5. f["out"] \in Nat /\ data[c] = m /\ fill[c] = f
      BY <1>1, HandlerAssumption DEF Holds, Pipes
    <2>6. (BodySoFar(c, 0) /\ AnswerSoFar(c))'
      BY <1>3, <1>6, <2>1, <2>4, <2>5 DEF BodySoFar, AnswerSoFar
    <2>7. Phase(c, "readPipe", n, err)'
      BY <1>3, <2>4, <2>6 DEF Phase
    <2>8. "readPipe" \in Places
      BY DEF Places
    <2> QED
      BY <1>1, <1>2, <2>3, <2>7, <2>8, NoPipes, ServeStep
  <1>5. CASE SendFails(t) /\ Fails(t, NoCode) /\ OtherErrno(t) /\ UNCHANGED data
    <2>1. retry' \in [Threads -> BOOLEAN]
      BY <1>0, <1>5 DEF OtherErrno, TypeOK
    <2>2. Serves(t, c, "error", n, NoCode, k, h, m, f1, g)
      BY <1>1, <1>5, <1>7, <2>1 DEF ReadAnswer, Holds, Fails, Serves
    <2>3. heard'[c] = heard[c] /\ gone'[c] # "no"
      BY <1>1, <1>5 DEF ReadAnswer, SendFails, Holds, Outside
    <2>4. Phase(c, "error", n, NoCode)'
      BY <1>3, <2>3, NoCodeIsNone DEF Phase
    <2>5. "error" \in Places
      BY DEF Places
    <2> QED
      BY <1>1, <1>2, <2>2, <2>4, <2>5, NoPipes, ServeStep
  <1> QED
    BY <1>1, <1>4, <1>5 DEF ReadAnswer, Holds

\* The answer is over when its program has ended.
LEMMA EndAnswerStep ==
    ASSUME Inv, NEW t \in Threads, EndAnswer(t), Outside
    PROVE  Inv'
  <1>0. TypeOK /\ ConnInv
    BY DEF Inv
  <1>1. PICK c \in Conns, n \in Nat, err \in Codes \union {NoCode}, k \in Nat,
              h \in Answers, m \in Nat, f \in Pipes, g \in Programs :
                /\ Holds(t, c, n, err, k, h, m, f, g) /\ sock[t] = c /\ prog[c] = g
                /\ c \notin closed /\ req[c] \in Request
                /\ \A u \in Threads \ {t} : sock[u] # c
                /\ n <= req[c].body \/ n <= Parts(req[c])
                /\ Phase(c, "readPipe", n, err)
    BY InHand DEF EndAnswer
  <1>2. Serves(t, c, "close", n, err, k, h, m, f, g)
    BY <1>0, <1>1 DEF EndAnswer, Holds, Goes, Serves, TypeOK, answerVars
  <1>3. /\ sock' = [sock EXCEPT ![t] = c] /\ closed' = closed /\ files' = files
        /\ ends' = ends \ OwnEnds(c)
    BY <1>1 DEF EndAnswer, Holds
  <1>4. PipesKept(c)
    <2>1. IsFiniteSet(ends) /\ ends \subseteq End /\ files \in 0..MaxFd
      BY DEF Inv, TypeOK
    <2>2. IsFiniteSet(ends \ OwnEnds(c))
      BY <2>1, FS_Difference
    <2> QED
      BY <1>3, <2>1, <2>2, HandlerAssumption
      DEF PipesKept, ForkReady, Writes, PipeEnd, OwnEnds
  <1>5. Phase(c, "close", n, err)'
    <2>1. AnswerSoFar(c) /\ prog[c] # "none" /\ Len(heard[c]) <= 1
      BY <1>1 DEF Phase
    <2>2. ~Open(c, "out", "w") /\ fill[c]["out"] = 0
      BY <1>1 DEF EndAnswer, AnswerOver, Holds
    <2>3. ~Writes(c)
      BY <2>2 DEF Open, Writes, PipeEnd
    <2>4. prog[c] = "ended"
      BY <1>0, <2>1, <2>3 DEF ConnInv, Writers, TypeOK
    <2>5. /\ heard'[c] = heard[c] /\ data'[c] = data[c] /\ prog'[c] = prog[c]
          /\ req'[c] = req[c] /\ told'[c] = told[c] /\ gone'[c] = gone[c]
      BY <1>0, <1>1, <1>2 DEF Holds, Serves, TypeOK, Outside
    <2>6. data[c] \in Nat /\ told[c] \in Nat /\ Len(heard[c]) \in Nat
      BY <1>0, HandlerAssumption DEF TypeOK
    <2>7. OnlyAnswer(c)'
      BY <2>1, <2>5, <2>6 DEF OnlyAnswer
    <2>8. WholeAnswer(c)'
      BY <2>1, <2>2, <2>4, <2>5, <2>6 DEF WholeAnswer, AnswerSoFar
    <2> QED
      BY <2>7, <2>8 DEF Phase
  <1>6. "close" \in Places
    BY DEF Places
  <1> QED
    BY <1>1, <1>2, <1>3, <1>4, <1>5, <1>6, ServeStep

-----------------------------------------------------------------------------
(* Files and pages                                                         *)

LEMMA EmptyLength == Len(<< >>) = 0
  OBVIOUS

LEMMA OneLine == <<"200">> # << >> /\ <<"200">>[1] = "200"
  OBVIOUS

\* While no program was started, what was heard so far may be all there is.
LEMMA PartsAreAnswer ==
    ASSUME NEW c \in Conns, NEW n \in Nat, req[c] \in Request, heard[c] \in Answers,
           PartsSoFar(c, n), n <= Parts(req[c])
    PROVE  OnlyAnswer(c)
  <1>1. Len(heard[c]) \in Nat /\ Parts(req[c]) \in Nat
    BY DEF Answers, Parts, IsRange, Request
  <1>2. Len(heard[c]) > 1 => IsRange(req[c])
    BY <1>1 DEF PartsSoFar, Parts
  <1> QED
    BY <1>1, <1>2 DEF PartsSoFar, OnlyAnswer

LEMMA ProcessListStep ==
    ASSUME Inv, NEW t \in Threads, ProcessList(t), Outside
    PROVE  Inv'
  <1>0. TypeOK /\ ConnInv
    BY DEF Inv
  <1>1. PICK c \in Conns, n \in Nat, err \in Codes \union {NoCode}, k \in Nat,
              h \in Answers, m \in Nat, f \in Pipes, g \in Programs :
                /\ Holds(t, c, n, err, k, h, m, f, g) /\ sock[t] = c /\ prog[c] = g
                /\ c \notin closed /\ req[c] \in Request
                /\ \A u \in Threads \ {t} : sock[u] # c
                /\ n <= req[c].body \/ n <= Parts(req[c])
                /\ Phase(c, "list", n, err)
    BY InHand DEF ProcessList
  <1>2. /\ sock' = [sock EXCEPT ![t] = c] /\ closed' = closed /\ ends' = ends
        /\ files' = files
    BY <1>1 DEF ProcessList, Holds, pipeVars
  <1>3. h = << >> /\ m = 0 /\ g = "none"
    BY <1>1 DEF Phase, Quiet, NoProgram, Holds
  <1>4. PICK h1 \in Answers, m1 \in Nat :
            /\ Len(h1) <= 1
            /\ heard' = [heard EXCEPT ![c] = h1] /\ data' = [data EXCEPT ![c] = m1]
            /\ retry' \in [Threads -> BOOLEAN]
    <2>1. CASE Hears(c, "200") /\ Receives(c) /\ UNCHANGED retry
      <3>1. "200" \in Codes \union {NoCode}
        BY DEF Codes
      <3>0. Len(h) = 0
        BY <1>3, EmptyLength
      <3>9. PICK h2 \in Answers : h2 = Append(h, "200") /\ Len(h2) = Len(h) + 1
        BY <3>1, Appended
      <3>2. h2 \in Answers /\ Len(h2) = 1
        BY <3>0, <3>9
      <3>3. heard' = [heard EXCEPT ![c] = IF gone[c] = "no" THEN Append(h, "200") ELSE h]
        BY <1>1, <2>1 DEF Hears, Holds
      <3>4. data' = [data EXCEPT ![c] = IF gone[c] = "no" THEN m + 1 ELSE m]
        BY <1>1, <2>1 DEF Receives, Holds
      <3>5. retry' \in [Threads -> BOOLEAN]
        BY <1>0, <2>1 DEF TypeOK
      <3>6. PICK h1 \in Answers, m1 \in Nat :
                /\ h1 = IF gone[c] = "no" THEN h2 ELSE h
                /\ m1 = IF gone[c] = "no" THEN m + 1 ELSE m
        OBVIOUS
      <3>7. heard' = [heard EXCEPT ![c] = h1] /\ data' = [data EXCEPT ![c] = m1]
        BY <3>3, <3>4, <3>6, <3>9
      <3>8. Len(h1) <= 1
        <4>1. h1 = h2 \/ h1 = h
          BY <3>6
        <4>2. CASE h1 = h2
          <5>1. Len(h1) = 1
            BY <3>2, <4>2, Zenon
          <5> QED
            BY <5>1
        <4>3. CASE h1 = h
          BY <3>0, <4>3
        <4> QED
          BY <4>1, <4>2, <4>3
      <3> QED
        BY <3>5, <3>7, <3>8
    <2>2. CASE SendFails(t) /\ OtherErrno(t) /\ UNCHANGED answerVars
      <3>1. retry' \in [Threads -> BOOLEAN]
        BY <1>0, <2>2 DEF OtherErrno, TypeOK
      <3>2. Len(h) <= 1
        BY <1>3
      <3> QED
        BY <1>1, <2>2, <3>1, <3>2 DEF Holds, answerVars
    <2> QED
      BY <1>1, <2>1, <2>2 DEF ProcessList, Holds
  <1>5. Serves(t, c, "close", n, err, k, h1, m1, f, g)
    BY <1>1, <1>4 DEF ProcessList, Holds, Goes, Serves, pipeVars
  <1>6. Phase(c, "close", n, err)'
    <2>1. heard'[c] = h1 /\ prog'[c] = "none"
      BY <1>0, <1>3, <1>5 DEF Serves, TypeOK
    <2>2. Len(h1) \in Nat
      BY DEF Answers
    <2> QED
      BY <1>4, <2>1, <2>2 DEF Phase, OnlyAnswer, WholeAnswer
  <1>7. "close" \in Places
    BY DEF Places
  <1> QED
    BY <1>1, <1>2, <1>5, <1>6, <1>7, NoPipes, ServeStep

LEMMA SendHeaderStep ==
    ASSUME Inv, NEW t \in Threads, SendHeader(t), Outside
    PROVE  Inv'
  <1>0. TypeOK /\ ConnInv
    BY DEF Inv
  <1>1. PICK c \in Conns, n \in Nat, err \in Codes \union {NoCode}, k \in Nat,
              h \in Answers, m \in Nat, f \in Pipes, g \in Programs :
                /\ Holds(t, c, n, err, k, h, m, f, g) /\ sock[t] = c /\ prog[c] = g
                /\ c \notin closed /\ req[c] \in Request
                /\ \A u \in Threads \ {t} : sock[u] # c
                /\ n <= req[c].body \/ n <= Parts(req[c])
                /\ Phase(c, "range", n, err)
    BY InHand DEF SendHeader
  <1>2. /\ sock' = [sock EXCEPT ![t] = c] /\ closed' = closed /\ ends' = ends
        /\ files' = files
    BY <1>1 DEF SendHeader, Holds, pipeVars
  <1>3. prog[c] = "none" /\ n < Parts(req[c]) /\ PartsSoFar(c, n)
    BY <1>1 DEF Phase
  <1>4. CASE /\ Hears(c, IF IsRange(req[c]) THEN "206" ELSE "200")
             /\ Goes(t, "open") /\ UNCHANGED retry
    <2>1. PICK code \in Codes \union {NoCode} :
              code = IF IsRange(req[c]) THEN "206" ELSE "200"
      BY DEF Codes
    <2>2. PICK h1 \in Answers : h1 = IF gone[c] = "no" THEN Append(h, code) ELSE h
      BY Appended
    <2>3. Serves(t, c, "open", n, err, k, h1, m, f, g)
      BY <1>0, <1>1, <1>4, <2>1, <2>2
      DEF SendHeader, Hears, Holds, Goes, Serves, TypeOK, pipeVars
    <2>4. heard'[c] = h1 /\ prog'[c] = prog[c] /\ req'[c] = req[c]
      BY <1>0, <1>1, <2>3 DEF Holds, Serves, TypeOK, Outside
    <2>5. PartsSoFar(c, n + 1)'
      <3>1. Len(h) <= n /\ (IsRange(req[c]) => \A i \in 1..Len(h) : h[i] = "206")
        BY <1>1, <1>3 DEF PartsSoFar, Holds
      <3>2. CASE h1 = h
        <4>1. Len(h) \in Nat
          BY Appended
        <4> QED
          BY <2>4, <3>1, <3>2, <4>1 DEF PartsSoFar
      <3>3. CASE h1 = Append(h, code)
        <4>1. /\ Len(h) \in Nat /\ Len(h1) = Len(h) + 1
              /\ \A i \in 1..Len(h) : h1[i] = h[i]
              /\ h1[Len(h) + 1] = code
          BY <3>3, Appended
        <4>2. Len(h1) <= n + 1
          BY <3>1, <4>1
        <4>3. IsRange(req[c]) => \A i \in 1..Len(h1) : h1[i] = "206"
          <5> SUFFICES ASSUME IsRange(req[c]), NEW i \in 1..Len(h1)
                       PROVE  h1[i] = "206"
            OBVIOUS
          <5>1. i \in 1..Len(h) \/ i = Len(h) + 1
            BY <4>1
          <5> QED
            BY <2>1, <3>1, <4>1, <5>1
        <4> QED
          BY <2>4, <4>2, <4>3 DEF PartsSoFar, IsRange
      <3> QED
        BY <2>2, <3>2, <3>3
    <2>6. Phase(c, "open", n, err)'
      <3>1. Parts(req[c])' = Parts(req[c])
        BY <2>4 DEF Parts, IsRange
      <3> QED
        BY <1>3, <2>4, <2>5, <3>1 DEF Phase
    <2>7. "open" \in Places
      BY DEF Places
    <2> QED
      BY <1>1, <1>2, <2>3, <2>6, <2>7, NoPipes, ServeStep
  <1>5. CASE SendFails(t) /\ Goes(t, "close") /\ OtherErrno(t) /\ UNCHANGED heard
    <2>1. retry' \in [Threads -> BOOLEAN]
      BY <1>0, <1>5 DEF OtherErrno, TypeOK
    <2>2. Serves(t, c, "close", n, err, k, h, m, f, g)
      BY <1>1, <1>5, <2>1 DEF SendHeader, Holds, Goes, Serves, pipeVars
    <2>3. Phase(c, "close", n, err)'
      <3>1. heard[c] \in Answers
        BY <1>1 DEF Holds
      <3>2. OnlyAnswer(c)
        <4>1. n <= Parts(req[c])
          BY <1>1, <1>3 DEF Parts, IsRange, Request
        <4> QED
          BY <1>1, <1>3, <3>1, <4>1, PartsAreAnswer
      <3>3. heard'[c] = heard[c] /\ prog'[c] = prog[c] /\ req'[c] = req[c]
        BY <1>0, <1>1, <2>2 DEF Holds, Serves, TypeOK, Outside
      <3> QED
        BY <1>3, <3>2, <3>3 DEF Phase, OnlyAnswer, WholeAnswer, Parts, IsRange
    <2>4. "close" \in Places
      BY DEF Places
    <2> QED
      BY <1>1, <1>2, <2>2, <2>3, <2>4, NoPipes, ServeStep
  <1> QED
    BY <1>1, <1>4, <1>5 DEF SendHeader, Holds

LEMMA OpenFileStep ==
    ASSUME Inv, NEW t \in Threads, OpenFile(t), Outside
    PROVE  Inv'
  <1>0. TypeOK /\ ConnInv
    BY DEF Inv
  <1>1. PICK c \in Conns, n \in Nat, err \in Codes \union {NoCode}, k \in Nat,
              h \in Answers, m \in Nat, f \in Pipes, g \in Programs :
                /\ Holds(t, c, n, err, k, h, m, f, g) /\ sock[t] = c /\ prog[c] = g
                /\ c \notin closed /\ req[c] \in Request
                /\ \A u \in Threads \ {t} : sock[u] # c
                /\ n <= req[c].body \/ n <= Parts(req[c])
                /\ Phase(c, "open", n, err)
    BY InHand DEF OpenFile
  <1>2. /\ sock' = [sock EXCEPT ![t] = c] /\ closed' = closed /\ ends' = ends
    BY <1>1 DEF OpenFile, Holds, pipeVars
  <1>3. prog[c] = "none" /\ n < Parts(req[c]) /\ PartsSoFar(c, n + 1)
    BY <1>1 DEF Phase
  <1>4. PICK p \in {"readFile", "close"} : Serves(t, c, p, n, err, k, h, m, f, g)
    <2>1. CASE FreeFds > 0
      BY <1>0, <1>1, <2>1 DEF OpenFile, Holds, Goes, Serves, TypeOK, answerVars, pipeVars
    <2>2. CASE ~(FreeFds > 0)
      <3>1. retry' \in [Threads -> BOOLEAN]
        BY <1>0, <2>2 DEF OpenFile, OtherErrno, TypeOK
      <3> QED
        BY <1>1, <2>2, <3>1 DEF OpenFile, OpenFails, Holds, Goes, Serves, answerVars, pipeVars
    <2> QED
      BY <2>1, <2>2
  <1>5. PipesKept(c)
    <2>1. IsFiniteSet(ends) /\ ends \subseteq End /\ files \in 0..MaxFd
      BY DEF Inv, TypeOK
    <2>2. files' \in 0..MaxFd
      <3>1. CASE FreeFds > 0
        <4>1. files' = files + 1
          BY <3>1 DEF OpenFile
        <4>2. FreeFds \in Int /\ FreeFds <= MaxFd - files
          BY <2>1, FreeBound
        <4> QED
          BY <2>1, <3>1, <4>1, <4>2, HandlerAssumption
      <3>2. CASE ~(FreeFds > 0)
        BY <2>1, <3>2 DEF OpenFile
      <3> QED
        BY <3>1, <3>2
    <2> QED
      BY <1>2, <2>1, <2>2 DEF PipesKept, ForkReady, Writes, PipeEnd
  <1>6. Phase(c, p, n, err)'
    <2>1. heard'[c] = heard[c] /\ prog'[c] = prog[c] /\ req'[c] = req[c]
      BY <1>0, <1>1, <1>4 DEF Holds, Serves, TypeOK, Outside
    <2>2. OnlyAnswer(c)
      <3>1. heard[c] \in Answers
        BY <1>1 DEF Holds
      <3>2. n + 1 \in Nat /\ n + 1 <= Parts(req[c])
        BY <1>1, <1>3 DEF Parts, IsRange, Request
      <3> QED
        BY <1>1, <1>3, <3>1, <3>2, PartsAreAnswer
    <2>3. OnlyAnswer(c)' /\ WholeAnswer(c)' /\ PartsSoFar(c, n + 1)'
      BY <1>3, <2>1, <2>2 DEF OnlyAnswer, WholeAnswer, PartsSoFar, Parts, IsRange
    <2>4. Parts(req[c])' = Parts(req[c])
      BY <2>1 DEF Parts, IsRange
    <2> QED
      BY <1>3, <1>4, <2>1, <2>3, <2>4 DEF Phase
  <1>7. p \in Places /\ p # "idle"
    BY DEF Places
  <1> QED
    BY <1>1, <1>2, <1>4, <1>5, <1>6, <1>7, ServeStep

LEMMA SendFileStep ==
    ASSUME Inv, NEW t \in Threads, SendFile(t), Outside
    PROVE  Inv'
  <1>0. TypeOK /\ ConnInv
    BY DEF Inv
  <1>1. PICK c \in Conns, n \in Nat, err \in Codes \union {NoCode}, k \in Nat,
              h \in Answers, m \in Nat, f \in Pipes, g \in Programs :
                /\ Holds(t, c, n, err, k, h, m, f, g) /\ sock[t] = c /\ prog[c] = g
                /\ c \notin closed /\ req[c] \in Request
                /\ \A u \in Threads \ {t} : sock[u] # c
                /\ n <= req[c].body \/ n <= Parts(req[c])
                /\ Phase(c, "readFile", n, err)
    BY InHand DEF SendFile
  <1>2. /\ sock' = [sock EXCEPT ![t] = c] /\ closed' = closed /\ ends' = ends
        /\ files' = files
    BY <1>1 DEF SendFile, Holds, pipeVars
  <1>3. prog[c] = "none" /\ n < Parts(req[c]) /\ PartsSoFar(c, n + 1)
    BY <1>1 DEF Phase
  <1>4. Parts(req[c]) \in Nat /\ n + 1 <= Parts(req[c]) /\ heard[c] \in Answers
    BY <1>1, <1>3 DEF Parts, IsRange, Request, Holds
  <1>5. OnlyAnswer(c)
    BY <1>1, <1>3, <1>4, PartsAreAnswer
  <1>6. PICK p \in {"close", "range"}, j \in {n, n + 1}, m1 \in Nat :
            /\ p = "range" => j = n + 1 /\ j # Parts(req[c])
            /\ Serves(t, c, p, j, err, k, h, m1, f, g)
    <2>1. CASE /\ Receives(c) /\ tlen' = [tlen EXCEPT ![t] = @ + 1]
               /\ Goes(t, IF AllSent(req[c], tlen[t] + 1) THEN "close" ELSE "range")
               /\ UNCHANGED retry
      <3>1. PICK p \in {"close", "range"} :
                p = IF n + 1 = Parts(req[c]) THEN "close" ELSE "range"
        OBVIOUS
      <3>2. PICK m1 \in Nat : m1 = IF gone[c] = "no" THEN m + 1 ELSE m
        OBVIOUS
      <3>3. data' = [data EXCEPT ![c] = m1]
        BY <1>1, <2>1, <3>2 DEF Receives, Holds
      <3>4. retry' \in [Threads -> BOOLEAN] /\ tlen' = [tlen EXCEPT ![t] = n + 1]
        BY <1>0, <1>1, <2>1 DEF TypeOK, Holds
      <3>5. pc' = [pc EXCEPT ![t] = p] /\ err_code' = err_code
        BY <1>1, <2>1, <3>1 DEF Goes, AllSent, Holds
      <3>6. Serves(t, c, p, n + 1, err, k, h, m1, f, g)
        BY <1>1, <3>3, <3>4, <3>5 DEF SendFile, Holds, Serves, pipeVars
      <3> QED
        BY <3>1, <3>6
    <2>2. CASE SendFails(t) /\ Goes(t, "close") /\ OtherErrno(t) /\ UNCHANGED <<data, tlen>>
      <3>1. retry' \in [Threads -> BOOLEAN]
        BY <1>0, <2>2 DEF OtherErrno, TypeOK
      <3>2. Serves(t, c, "close", n, err, k, h, m, f, g)
        BY <1>1, <2>2, <3>1 DEF SendFile, Holds, Goes, Serves, pipeVars
      <3> QED
        BY <3>2
    <2> QED
      BY <1>1, <2>1, <2>2 DEF SendFile, Holds
  <1>7. Phase(c, p, j, err)'
    <2>1. heard'[c] = heard[c] /\ prog'[c] = prog[c] /\ req'[c] = req[c]
      BY <1>0, <1>1, <1>6 DEF Holds, Serves, TypeOK, Outside
    <2>2. OnlyAnswer(c)' /\ WholeAnswer(c)' /\ PartsSoFar(c, n + 1)'
      BY <1>3, <1>5, <2>1 DEF OnlyAnswer, WholeAnswer, PartsSoFar, Parts, IsRange
    <2>3. p = "range" => j < Parts(req[c]) /\ PartsSoFar(c, j)'
      BY <1>4, <1>6, <2>2
    <2>4. Parts(req[c])' = Parts(req[c])
      BY <2>1 DEF Parts, IsRange
    <2> QED
      BY <1>3, <1>6, <2>1, <2>2, <2>3, <2>4 DEF Phase
  <1>8. p \in Places /\ p # "idle" /\ j \in Nat /\ j <= Parts(req[c])
    BY <1>4 DEF Places
  <1> QED
    BY <1>1, <1>2, <1>6, <1>7, <1>8, NoPipes, ServeStep

LEMMA ErrHandlerStep ==
    ASSUME Inv, NEW t \in Threads, ErrHandler(t), Outside
    PROVE  Inv'
  <1>0. TypeOK /\ ConnInv
    BY DEF Inv
  <1>1. PICK c \in Conns, n \in Nat, err \in Codes \union {NoCode}, k \in Nat,
              h \in Answers, m \in Nat, f \in Pipes, g \in Programs :
                /\ Holds(t, c, n, err, k, h, m, f, g) /\ sock[t] = c /\ prog[c] = g
                /\ c \notin closed /\ req[c] \in Request
                /\ \A u \in Threads \ {t} : sock[u] # c
                /\ n <= req[c].body \/ n <= Parts(req[c])
                /\ Phase(c, "error", n, err)
    BY InHand DEF ErrHandler
  <1>2. /\ sock' = [sock EXCEPT ![t] = c] /\ closed' = closed /\ ends' = ends
        /\ files' = files
    BY <1>1 DEF ErrHandler, Holds, pipeVars
  <1>3. Len(h) <= 1 /\ err # "200" /\ (h = << >> \/ gone[c] # "no")
    BY <1>1 DEF Phase, Holds
  <1>4. PICK h1 \in Answers :
            /\ heard' = [heard EXCEPT ![c] = h1] /\ Len(h1) <= 1
            /\ gone[c] = "no" => h1 # <<"200">>
    <2>1. CASE UNCHANGED heard
      <3>1. h # <<"200">> \/ gone[c] # "no"
        BY <1>3, OneLine
      <3> QED
        BY <1>1, <1>3, <2>1, <3>1 DEF Holds
    <2>2. CASE Hears(c, err) /\ gone[c] = "no"
      <3>1. Append(h, err) \in Answers /\ Len(h) = 0
        BY <1>3, <2>2, Appended, EmptyLength
      <3>2. Len(Append(h, err)) = 1 /\ Append(h, err)[1] = err
        BY <3>1, Appended
      <3>3. Append(h, err) # <<"200">>
        BY <1>3, <3>2, OneLine
      <3>4. heard' = [heard EXCEPT ![c] = Append(h, err)]
        BY <1>1, <2>2 DEF Hears, Holds
      <3>5. Len(Append(h, err)) <= 1
        BY <3>2
      <3> QED
        BY <3>1, <3>3, <3>4, <3>5
    <2>3. CASE Hears(c, err) /\ gone[c] # "no"
      BY <1>1, <1>3, <2>3 DEF Hears, Holds
    <2> QED
      BY <1>1, <2>1, <2>2, <2>3 DEF ErrHandler, Holds
  <1>5. Serves(t, c, "close", n, err, k, h1, m, f, g)
    BY <1>0, <1>1, <1>4 DEF ErrHandler, Holds, Goes, Serves, TypeOK, pipeVars
  <1>6. Phase(c, "close", n, err)'
    <2>1. heard'[c] = h1 /\ gone'[c] = gone[c]
      BY <1>0, <1>5 DEF Serves, TypeOK, Outside
    <2>2. Len(h1) \in Nat
      BY DEF Answers
    <2>3. OnlyAnswer(c)'
      BY <1>4, <2>1, <2>2 DEF OnlyAnswer
    <2>4. WholeAnswer(c)'
      BY <1>4, <2>1 DEF WholeAnswer
    <2> QED
      BY <2>3, <2>4 DEF Phase
  <1>7. "close" \in Places
    BY DEF Places
  <1> QED
    BY <1>1, <1>2, <1>5, <1>6, <1>7, NoPipes, ServeStep

LEMMA CloseSocketStep ==
    ASSUME Inv, NEW t \in Threads, CloseSocket(t), Outside
    PROVE  Inv'
  <1>0. TypeOK /\ ConnInv
    BY DEF Inv
  <1>1. PICK c \in Conns, n \in Nat, err \in Codes \union {NoCode}, k \in Nat,
              h \in Answers, m \in Nat, f \in Pipes, g \in Programs :
                /\ Holds(t, c, n, err, k, h, m, f, g) /\ sock[t] = c /\ prog[c] = g
                /\ c \notin closed /\ req[c] \in Request
                /\ \A u \in Threads \ {t} : sock[u] # c
                /\ n <= req[c].body \/ n <= Parts(req[c])
                /\ Phase(c, "close", n, err)
    BY InHand DEF CloseSocket
  <1>2. OnlyAnswer(c) /\ WholeAnswer(c)
    BY <1>1 DEF Phase
  <1>3. /\ sock' = [sock EXCEPT ![t] = NoConn] /\ closed' = closed \union {c}
        /\ pc' = [pc EXCEPT ![t] = "idle"] /\ err_code' = err_code
        /\ UNCHANGED <<retry, tlen, taken, answerVars, pipeVars, files, prog>>
    BY <1>1 DEF CloseSocket, Goes, Holds
  <1>4. TypeOK'
    <2>1. \A u \in Threads : sock'[u] # NoConn => ~TooMuch(u)'
      <3> SUFFICES ASSUME NEW u \in Threads, sock'[u] # NoConn
                   PROVE  ~TooMuch(u)'
        OBVIOUS
      <3>1. sock'[u] = sock[u] /\ tlen'[u] = tlen[u] /\ sock[u] # NoConn
        BY <1>0, <1>3 DEF TypeOK
      <3> QED
        BY <1>0, <3>1 DEF TypeOK, TooMuch, Outside, Parts, IsRange
    <2>2. /\ pc' \in [Threads -> Places]
          /\ sock' \in [Threads -> Conns \union {NoConn}]
          /\ closed' \subseteq Conns
      BY <1>0, <1>3 DEF TypeOK, Places
    <2>3. retry' \in [Threads -> BOOLEAN] /\ shrunk' \in BOOLEAN
      BY <1>0, <1>3 DEF TypeOK, Outside
    <2>4. /\ err_code' = err_code /\ tlen' = tlen /\ taken' = taken /\ heard' = heard
          /\ data' = data /\ ends' = ends /\ fill' = fill /\ files' = files
          /\ prog' = prog /\ req' = req /\ arrived' = arrived /\ gone' = gone
          /\ got' = got /\ told' = told
      BY <1>3 DEF answerVars, pipeVars, Outside
    <2> QED
      BY <1>0, <2>1, <2>2, <2>3, <2>4 DEF TypeOK, Places
  <1>5. Touches(t, c)
    BY <1>0, <1>1, <1>3 DEF Touches, Outside, answerVars, pipeVars, ForkReady, TypeOK
  <1>6. Writers'
    BY <1>0, <1>3 DEF ConnInv, Writers, Writes, pipeVars
  <1>7. OnlyAnswer(c)' /\ WholeAnswer(c)'
    BY <1>2, <1>3 DEF OnlyAnswer, WholeAnswer, Outside, answerVars, Parts, IsRange
  <1>8. sock[t] = c /\ sock'[t] = NoConn /\ pc'[t] = "idle"
    BY <1>0, <1>1, <1>3 DEF TypeOK, Holds
  <1>9. PICK k1, e1 : tlen'[t] = k1 /\ err_code'[t] = e1
    OBVIOUS
  <1>10. ConnInv'
    BY <1>1, <1>3, <1>5, <1>6, <1>7, <1>8, <1>9, ThreadStep
  <1> QED
    BY <1>3, <1>4, <1>10 DEF Inv, pipeVars

-----------------------------------------------------------------------------
(* Programs, clients and files                                             *)

\* The program of connection c has done something: what it had to read, what
\* it has written, or whether it runs, is different.
ProgramDoes(c) ==
    /\ \A d \in Conns \ {c} : /\ fill'[d] = fill[d] /\ prog'[d] = prog[d]
                             /\ got'[d] = got[d] /\ told'[d] = told[d]
    /\ fill' \in [Conns -> Pipes] /\ prog' \in [Conns -> Programs]
    /\ got' \in [Conns -> Nat] /\ told' \in [Conns -> 0..OutLen]
    /\ prog[c] \in {"forked", "reads", "writes"} /\ prog'[c] # "none"
    /\ got'[c] + fill'[c]["in"] = got[c] + fill[c]["in"]
    /\ told'[c] - fill'[c]["out"] = told[c] - fill[c]["out"]
    /\ ends' \subseteq ends
    /\ \A e \in ends \ ends' : e.proc = c
    /\ prog'[c] # "ended" => (Writes(c) => Writes(c)')

LEMMA ProgramDoesStep ==
    ASSUME Inv, NEW c \in Conns, ProgramFrame, ProgramDoes(c)
    PROVE  Inv'
  <1>0. TypeOK /\ ConnInv
    BY DEF Inv
  <1>1. UNCHANGED <<req, threadVars, taken, clientVars, answerVars, closed, files, shrunk>>
    BY DEF ProgramFrame
  <1>2. /\ req' = req /\ pc' = pc /\ sock' = sock /\ retry' = retry /\ err_code' = err_code
        /\ tlen' = tlen /\ taken' = taken /\ arrived' = arrived /\ gone' = gone
        /\ heard' = heard /\ data' = data /\ closed' = closed /\ files' = files
        /\ shrunk' = shrunk
    BY <1>1 DEF threadVars, clientVars, answerVars
  <1>3. TypeOK'
    <2>1. \A t \in Threads : sock'[t] # NoConn => ~TooMuch(t)'
      BY <1>0, <1>2 DEF TypeOK, TooMuch, Parts, IsRange
    <2>2. ends' \subseteq End
      BY <1>0 DEF ProgramDoes, TypeOK
    <2>3. retry' \in [Threads -> BOOLEAN] /\ shrunk' \in BOOLEAN
      BY <1>0, <1>2 DEF TypeOK
    <2>4. /\ fill' \in [Conns -> Pipes] /\ prog' \in [Conns -> Programs]
          /\ got' \in [Conns -> Nat] /\ told' \in [Conns -> 0..OutLen]
      BY DEF ProgramDoes
    <2> QED
      BY <1>0, <1>2, <2>1, <2>2, <2>3, <2>4 DEF TypeOK, Pipes, Programs
  <1>4. IsFiniteSet(ends)'
    BY FS_Subset DEF Inv, ProgramDoes
  <1>5. /\ taken[c] \in Nat /\ data[c] \in Nat /\ req[c].head \in Nat
        /\ got[c] \in Nat /\ got'[c] \in Nat /\ told[c] \in Nat /\ told'[c] \in Nat
        /\ fill[c]["in"] \in Nat /\ fill'[c]["in"] \in Nat
        /\ fill[c]["out"] \in Nat /\ fill'[c]["out"] \in Nat
    <2>1. req[c] \in Request /\ taken[c] \in Nat /\ data[c] \in Nat /\ got[c] \in Nat
          /\ told[c] \in Nat
      BY <1>0, HandlerAssumption DEF TypeOK
    <2>2. fill[c] \in Pipes /\ fill'[c] \in Pipes
      BY <1>0 DEF ProgramDoes, TypeOK, Pipes
    <2>3. got'[c] \in Nat /\ told'[c] \in Nat
      BY HandlerAssumption DEF ProgramDoes
    <2> QED
      BY <2>1, <2>2, <2>3, HandlerAssumption DEF Pipes, Request
  <1>6. Hands'
    BY <1>0, <1>2 DEF ConnInv, Hands
  <1>7. \A d \in Conns : ForkReady(d) => ForkReady(d)'
    BY HandlerAssumption DEF ProgramDoes, ForkReady, PipeEnd
  <1>8. Phases'
    <2> SUFFICES ASSUME NEW u \in Threads, NEW d \in Conns, NEW q, NEW k, NEW e,
                        sock'[u] = d, pc'[u] = q, tlen'[u] = k, err_code'[u] = e
                 PROVE  Phase(d, q, k, e)'
      BY DEF Phases
    <2>1. Phase(d, q, k, e)
      BY <1>0, <1>2 DEF ConnInv, Phases
    <2>2. CASE d # c
      <3>1. /\ req'[d] = req[d] /\ got'[d] = got[d] /\ told'[d] = told[d]
            /\ gone'[d] = gone[d] /\ taken'[d] = taken[d] /\ heard'[d] = heard[d]
            /\ data'[d] = data[d] /\ fill'[d] = fill[d] /\ prog'[d] = prog[d]
            /\ (ForkReady(d) => ForkReady(d)')
        BY <1>2, <1>7, <2>2 DEF ProgramDoes
      <3> QED
        BY <2>1, <3>1 DEF Phase, Quiet, NoProgram, BodySoFar, AnswerSoFar, PartsSoFar,
                          OnlyAnswer, WholeAnswer, IsRange, Parts
    <2>3. CASE d = c
      <3>1. prog[c] # "none" /\ prog[c] # "ended"
        BY DEF ProgramDoes
      <3>2. q \notin {"recv", "pipe", "fork", "list", "range", "open", "readFile"}
        BY <2>1, <2>3, <3>1 DEF Phase, NoProgram
      <3>3. Quiet(c) => Quiet(c)'
        BY <1>2 DEF Quiet
      <3>4. AnswerSoFar(c) => AnswerSoFar(c)'
        BY <1>2, <1>5 DEF AnswerSoFar, ProgramDoes
      <3>5. BodySoFar(c, 0) => BodySoFar(c, 0)'
        BY <1>2, <1>5 DEF BodySoFar, ProgramDoes
      <3>6. BodySoFar(c, 1) => BodySoFar(c, 1)'
        BY <1>2, <1>5 DEF BodySoFar, ProgramDoes
      <3>7. OnlyAnswer(c) => OnlyAnswer(c)'
        BY <1>2 DEF OnlyAnswer, Parts, IsRange
      <3>8. WholeAnswer(c) => WholeAnswer(c)'
        BY <1>2, <3>1 DEF WholeAnswer
      <3>9. prog'[c] # "none"
        BY DEF ProgramDoes
      <3> QED
        BY <1>2, <2>1, <2>3, <3>1, <3>2, <3>3, <3>4, <3>5, <3>6, <3>7, <3>8, <3>9 DEF Phase
    <2> QED
      BY <2>2, <2>3
  <1>9. Untouched'
    <2> SUFFICES ASSUME NEW d \in Conns, d \notin closed', ~Served(d)'
                 PROVE  (Quiet(d) /\ NoProgram(d))'
      BY DEF Untouched
    <2>1. Quiet(d) /\ NoProgram(d)
      BY <1>0, <1>2 DEF ConnInv, Untouched, Served
    <2>2. d # c
      BY <2>1 DEF ProgramDoes, NoProgram
    <2> QED
      BY <1>2, <2>1, <2>2 DEF ProgramDoes, Quiet, NoProgram
  <1>10. Answered'
    <2> SUFFICES ASSUME NEW d \in closed'
                 PROVE  OnlyAnswer(d)' /\ WholeAnswer(d)'
      BY DEF Answered
    <2>1. OnlyAnswer(d) /\ WholeAnswer(d) /\ d \in Conns
      BY <1>0, <1>2 DEF ConnInv, Answered, TypeOK
    <2>2. d # c => prog'[d] = prog[d] /\ told'[d] = told[d]
      BY <2>1 DEF ProgramDoes
    <2>3. prog[c] # "none" /\ prog[c] # "ended"
      BY DEF ProgramDoes
    <2>4. WholeAnswer(d)'
      BY <1>2, <2>1, <2>2, <2>3 DEF WholeAnswer
    <2>5. OnlyAnswer(d)'
      BY <1>2, <2>1 DEF OnlyAnswer, Parts, IsRange
    <2> QED
      BY <2>4, <2>5
  <1>11. Writers'
    <2> SUFFICES ASSUME NEW d \in Conns, prog'[d] \in {"forked", "reads", "writes"}
                 PROVE  Writes(d)'
      BY DEF Writers
    <2>1. Writes(d)
      BY <1>0 DEF ConnInv, Writers, ProgramDoes
    <2>2. CASE d = c
      BY <2>1, <2>2 DEF ProgramDoes
    <2>3. CASE d # c
      BY <2>1, <2>3 DEF ProgramDoes, Writes, PipeEnd
    <2> QED
      BY <2>2, <2>3
  <1> QED
    BY <1>3, <1>4, <1>6, <1>8, <1>9, <1>10, <1>11 DEF Inv, ConnInv

\* What a unit less or more in one pipe of c comes to.
LEMMA PipeMoves ==
    ASSUME TypeOK, NEW c \in Conns, NEW pipe \in {"in", "out"}, NEW n \in 0..PipeCap,
           fill' = [fill EXCEPT ![c][pipe] = n]
    PROVE  /\ fill' \in [Conns -> Pipes]
           /\ \A d \in Conns \ {c} : fill'[d] = fill[d]
           /\ \A other \in {"in", "out"} :
                fill'[c][other] = IF other = pipe THEN n ELSE fill[c][other]
  <1>1. fill \in [Conns -> Pipes]
    BY DEF TypeOK, Pipes
  <1>2. PICK f \in Pipes : fill[c] = f
    BY <1>1
  <1>3. PICK f1 : f1 = [f EXCEPT ![pipe] = n]
    OBVIOUS
  <1>4. f1 \in Pipes /\ \A other \in {"in", "out"} :
                            f1[other] = IF other = pipe THEN n ELSE f[other]
    BY <1>3 DEF Pipes
  <1>5. fill' = [fill EXCEPT ![c] = f1]
    BY <1>2, <1>3
  <1> QED
    BY <1>1, <1>2, <1>4, <1>5

LEMMA ProgramInv ==
    ASSUME Inv, NEW c \in Conns, ProgramStep(c) \/ ProgramFails(c)
    PROVE  Inv'
  <1>0. TypeOK /\ ProgramFrame
    BY DEF Inv, ProgramStep, ProgramFails
  <1>1. /\ fill \in [Conns -> Pipes] /\ prog \in [Conns -> Programs]
        /\ got \in [Conns -> Nat] /\ told \in [Conns -> 0..OutLen]
    BY <1>0 DEF TypeOK, Pipes, Programs
  <1>2. /\ fill[c]["in"] \in 0..PipeCap /\ fill[c]["out"] \in 0..PipeCap
        /\ got[c] \in Nat /\ told[c] \in 0..OutLen
    BY <1>1 DEF Pipes
  <1>3. PipeCap \in Nat /\ OutLen \in Nat
    BY HandlerAssumption
  <1>4. /\ Without(c) \subseteq ends
        /\ \A e \in ends \ Without(c) : e.proc = c
    BY DEF Without
  <1>5. CASE Exec(c)
    <2>1. /\ prog[c] = "forked" /\ fill' = fill /\ got' = got /\ told' = told
      BY <1>5 DEF Exec
    <2>2. CASE req[c].path = "program"
      <3>1. prog' \in [Conns -> Programs] /\ prog'[c] \in {"writes", "reads"}
            /\ \A d \in Conns \ {c} : prog'[d] = prog[d]
        BY <1>1, <1>5, <2>2 DEF Exec, Programs
      <3>2. ends' = ends \ {PipeEnd(c, c, "in", "w"), PipeEnd(c, c, "out", "r")}
        BY <1>5, <2>2 DEF Exec
      <3>3. Writes(c) => Writes(c)'
        BY <3>2 DEF Writes, PipeEnd
      <3>4. /\ ends' \subseteq ends /\ \A e \in ends \ ends' : e.proc = c
        BY <3>2 DEF PipeEnd
      <3> QED
        BY <1>0, <1>1, <1>2, <2>1, <3>1, <3>3, <3>4, ProgramDoesStep DEF ProgramDoes
    <2>3. CASE req[c].path # "program"
      <3>1. prog' \in [Conns -> Programs] /\ prog'[c] = "ended"
            /\ \A d \in Conns \ {c} : prog'[d] = prog[d]
        BY <1>1, <1>5, <2>3 DEF Exec, Programs
      <3>2. ends' = Without(c)
        BY <1>5, <2>3 DEF Exec
      <3> QED
        BY <1>0, <1>1, <1>2, <1>4, <2>1, <3>1, <3>2, ProgramDoesStep DEF ProgramDoes
    <2> QED
      BY <2>2, <2>3
  <1>6. CASE ProgramReads(c)
    <2>1. /\ prog[c] = "reads" /\ fill[c]["in"] - 1 \in 0..PipeCap /\ ends' = ends
          /\ told' = told
      BY <1>2, <1>3, <1>6 DEF ProgramReads
    <2>2. fill' = [fill EXCEPT ![c]["in"] = fill[c]["in"] - 1]
      BY <1>1, <1>6 DEF ProgramReads
    <2>3. PICK n \in 0..PipeCap : n = fill[c]["in"] - 1
      BY <2>1
    <2>4. /\ fill' \in [Conns -> Pipes]
          /\ \A d \in Conns \ {c} : fill'[d] = fill[d]
          /\ fill'[c]["in"] = n /\ fill'[c]["out"] = fill[c]["out"]
      BY <1>0, <2>2, <2>3, PipeMoves
    <2>5. /\ got' \in [Conns -> Nat] /\ got'[c] = got[c] + 1
          /\ \A d \in Conns \ {c} : got'[d] = got[d]
      BY <1>1, <1>6 DEF ProgramReads
    <2>6. /\ prog' \in [Conns -> Programs] /\ prog'[c] \in {"writes", "reads"}
          /\ \A d \in Conns \ {c} : prog'[d] = prog[d]
      BY <1>1, <1>6, <2>1 DEF ProgramReads, Programs
    <2>7. /\ got'[c] + fill'[c]["in"] = got[c] + fill[c]["in"]
          /\ told'[c] - fill'[c]["out"] = told[c] - fill[c]["out"]
      BY <1>2, <1>3, <2>1, <2>3, <2>4, <2>5
    <2>8. Writes(c) => Writes(c)'
      BY <2>1 DEF Writes
    <2> QED
      BY <1>0, <1>1, <2>1, <2>4, <2>5, <2>6, <2>7, <2>8, ProgramDoesStep DEF ProgramDoes
  <1>7. CASE ProgramWrites(c)
    <2>1. /\ prog[c] = "writes" /\ fill[c]["out"] + 1 \in 0..PipeCap /\ ends' = ends
          /\ got' = got /\ prog' = prog
      BY <1>2, <1>3, <1>7 DEF ProgramWrites
    <2>2. fill' = [fill EXCEPT ![c]["out"] = fill[c]["out"] + 1]
      BY <1>1, <1>7 DEF ProgramWrites
    <2>3. PICK n \in 0..PipeCap : n = fill[c]["out"] + 1
      BY <2>1
    <2>4. /\ fill' \in [Conns -> Pipes]
          /\ \A d \in Conns \ {c} : fill'[d] = fill[d]
          /\ fill'[c]["out"] = n /\ fill'[c]["in"] = fill[c]["in"]
      BY <1>0, <2>2, <2>3, PipeMoves
    <2>5. /\ told' \in [Conns -> 0..OutLen] /\ told'[c] = told[c] + 1
          /\ \A d \in Conns \ {c} : told'[d] = told[d]
      BY <1>1, <1>2, <1>3, <1>7 DEF ProgramWrites
    <2>6. /\ got'[c] + fill'[c]["in"] = got[c] + fill[c]["in"]
          /\ told'[c] - fill'[c]["out"] = told[c] - fill[c]["out"]
      BY <1>2, <1>3, <2>1, <2>3, <2>4, <2>5
    <2>7. Writes(c) => Writes(c)'
      BY <2>1 DEF Writes
    <2> QED
      BY <1>0, <1>1, <2>1, <2>4, <2>5, <2>6, <2>7, ProgramDoesStep DEF ProgramDoes
  <1>8. CASE ProgramExits(c) \/ ProgramFails(c)
    <2>1. /\ prog[c] \in {"reads", "writes"} /\ prog' = [prog EXCEPT ![c] = "ended"]
          /\ ends' = Without(c) /\ fill' = fill /\ got' = got /\ told' = told
      BY <1>8 DEF ProgramExits, ProgramFails
    <2>2. prog' \in [Conns -> Programs] /\ prog'[c] = "ended"
          /\ \A d \in Conns \ {c} : prog'[d] = prog[d]
      BY <1>1, <2>1 DEF Programs
    <2> QED
      BY <1>0, <1>1, <1>2, <1>4, <2>1, <2>2, ProgramDoesStep DEF ProgramDoes
  <1> QED
    BY <1>5, <1>6, <1>7, <1>8 DEF ProgramStep

\* A client that leaves makes fewer promises necessary.
LEMMA ClientInv ==
    ASSUME Inv, OutsideFrame, arrived' \in [Conns -> Nat],
           gone' \in [Conns -> {"no", "closed", "reset"}], shrunk' \in BOOLEAN,
           \A c \in Conns : gone'[c] = gone[c] \/ gone[c] = "no"
    PROVE  Inv'
  <1>0. TypeOK /\ ConnInv
    BY DEF Inv
  <1>1. /\ req' = req /\ pc' = pc /\ sock' = sock /\ retry' = retry /\ err_code' = err_code
        /\ tlen' = tlen /\ taken' = taken /\ heard' = heard /\ data' = data
        /\ closed' = closed /\ ends' = ends /\ fill' = fill /\ files' = files
        /\ prog' = prog /\ got' = got /\ told' = told
    BY DEF OutsideFrame, threadVars, answerVars, pipeVars, progVars
  <1>2. TypeOK'
    <2>1. \A t \in Threads : sock'[t] # NoConn => ~TooMuch(t)'
      BY <1>0, <1>1 DEF TypeOK, TooMuch, Parts, IsRange
    <2>2. retry' \in [Threads -> BOOLEAN]
      BY <1>0, <1>1 DEF TypeOK
    <2> QED
      BY <1>0, <1>1, <2>1, <2>2 DEF TypeOK
  <1>3. Hands' /\ Writers'
    BY <1>0, <1>1 DEF ConnInv, Hands, Writers, Writes
  <1>4. \A c \in Conns : gone'[c] = "no" => gone[c] = "no"
    OBVIOUS
  <1>5. Phases'
    <2> SUFFICES ASSUME NEW u \in Threads, NEW d \in Conns, NEW q, NEW k, NEW e,
                        sock'[u] = d, pc'[u] = q, tlen'[u] = k, err_code'[u] = e
                 PROVE  Phase(d, q, k, e)'
      BY DEF Phases
    <2>1. Phase(d, q, k, e)
      BY <1>0, <1>1 DEF ConnInv, Phases
    <2> QED
      BY <1>1, <1>4, <2>1 DEF Phase, Quiet, NoProgram, BodySoFar, AnswerSoFar, PartsSoFar,
                          OnlyAnswer, WholeAnswer, IsRange, Parts, ForkReady
  <1>6. Untouched'
    BY <1>0, <1>1 DEF ConnInv, Untouched, Served, Quiet, NoProgram
  <1>7. Answered'
    BY <1>0, <1>1, <1>4 DEF ConnInv, Answered, OnlyAnswer, WholeAnswer, Parts, IsRange,
                            TypeOK
  <1> QED
    BY <1>1, <1>2, <1>3, <1>5, <1>6, <1>7 DEF Inv, ConnInv

-----------------------------------------------------------------------------
(* The invariant                                                           *)

LEMMA InvInit ==
    Init => Inv
  <1> SUFFICES ASSUME Init
               PROVE  Inv
    OBVIOUS
  <1>1. TypeOK
    <2>1. /\ retry \in [Threads -> BOOLEAN] /\ shrunk \in BOOLEAN
      BY DEF Init
    <2>2. << >> \in Seq(Codes \union {NoCode})
      OBVIOUS
    <2>3. heard \in [Conns -> Seq(Codes \union {NoCode})]
      BY <2>2 DEF Init
    <2>4. \A t \in Threads : sock[t] = NoConn
      BY DEF Init
    <2>5. fill \in [Conns -> [{"in", "out"} -> 0..PipeCap]]
      BY HandlerAssumption DEF Init
    <2>6. told \in [Conns -> 0..OutLen] /\ files \in 0..MaxFd
      BY HandlerAssumption DEF Init
    <2> QED
      BY <2>1, <2>3, <2>4, <2>5, <2>6 DEF Init, TypeOK
  <1>2. IsFiniteSet(ends)
    BY FS_EmptySet DEF Init
  <1>3. Hands /\ Phases
    BY HandlerAssumption DEF Init, Hands, Phases
  <1>4. Untouched /\ Answered /\ Writers
    BY DEF Init, Untouched, Answered, Writers, Quiet, NoProgram
  <1> QED
    BY <1>1, <1>2, <1>3, <1>4 DEF Inv, ConnInv

LEMMA InvStep ==
    Inv /\ [Next]_vars => Inv'
  <1> SUFFICES ASSUME Inv, [Next]_vars
               PROVE  Inv'
    OBVIOUS
  <1>0. TypeOK
    BY DEF Inv
  <1>1. ASSUME NEW t \in Threads, HttpHandler(t)
        PROVE  Inv'
    <2>0. Outside
      BY <1>1 DEF HttpHandler, Outside, clientVars
    <2>1. ASSUME NEW c \in Conns, StartHandler(t, c)
          PROVE  Inv'
      BY <2>0, <2>1, StartStep
    <2>2. CASE HeaderWhole(t)
      BY <2>0, <2>2, HeaderWholeStep
    <2>3. CASE HeaderTooLong(t) \/ HeaderFails(t)
      BY <2>0, <2>3, HeaderRefusedStep
    <2>4. CASE CreatePipes(t)
      BY <2>0, <2>4, CreatePipesStep
    <2>5. CASE Fork(t)
      BY <2>0, <2>5, ForkStep
    <2>6. CASE ForkFails(t)
      BY <2>0, <2>6, ForkFailsStep
    <2>7. CASE CloseChildsEnds(t)
      BY <2>0, <2>7, CloseChildsEndsStep
    <2>8. CASE RecvContent(t)
      BY <2>0, <2>8, RecvContentStep
    <2>9. CASE WriteContent(t)
      BY <2>0, <2>9, WriteContentStep
    <2>10. CASE SendStatus(t)
      BY <2>0, <2>10, SendStatusStep
    <2>11. CASE ReadAnswer(t)
      BY <2>0, <2>11, ReadAnswerStep
    <2>12. CASE EndAnswer(t)
      BY <2>0, <2>12, EndAnswerStep
    <2>13. CASE ProcessList(t)
      BY <2>0, <2>13, ProcessListStep
    <2>14. CASE SendHeader(t)
      BY <2>0, <2>14, SendHeaderStep
    <2>15. CASE OpenFile(t)
      BY <2>0, <2>15, OpenFileStep
    <2>16. CASE SendFile(t)
      BY <2>0, <2>16, SendFileStep
    <2>17. CASE ErrHandler(t)
      BY <2>0, <2>17, ErrHandlerStep
    <2>18. CASE CloseSocket(t)
      BY <2>0, <2>18, CloseSocketStep
    <2> QED
      BY <1>1, <2>1, <2>2, <2>3, <2>4, <2>5, <2>6, <2>7, <2>8, <2>9, <2>10, <2>11, <2>12,
         <2>13, <2>14, <2>15, <2>16, <2>17, <2>18 DEF HttpHandler
  <1>2. ASSUME NEW c \in Conns, ProgramStep(c) \/ ProgramFails(c)
        PROVE  Inv'
    BY <1>2, ProgramInv
  <1>3. ASSUME NEW c \in Conns, ClientSends(c)
        PROVE  Inv'
    <2>1. arrived' \in [Conns -> Nat] /\ gone' = gone /\ OutsideFrame
      BY <1>0, <1>3 DEF ClientSends, TypeOK
    <2>2. shrunk' \in BOOLEAN /\ gone' \in [Conns -> {"no", "closed", "reset"}]
      BY <1>0, <1>3, <2>1 DEF ClientSends, TypeOK
    <2> QED
      BY <2>1, <2>2, ClientInv
  <1>4. ASSUME NEW c \in Conns, ClientLeaves(c)
        PROVE  Inv'
    <2>1. /\ arrived' \in [Conns -> Nat] /\ OutsideFrame
          /\ gone' \in [Conns -> {"no", "closed", "reset"}]
          /\ \A d \in Conns : gone'[d] = gone[d] \/ gone[d] = "no"
      BY <1>0, <1>4 DEF ClientLeaves, TypeOK
    <2>2. shrunk' \in BOOLEAN
      BY <1>0, <1>4 DEF ClientLeaves, TypeOK
    <2> QED
      BY <2>1, <2>2, ClientInv
  <1>5. ASSUME FileShrinks
        PROVE  Inv'
    BY <1>0, <1>5, ClientInv DEF FileShrinks, clientVars, TypeOK
  <1>6. ASSUME UNCHANGED vars
        PROVE  Inv'
    <2>1. OutsideFrame /\ arrived' = arrived /\ gone' = gone /\ shrunk' = shrunk
      BY <1>6 DEF vars, OutsideFrame, clientVars
    <2>2. shrunk' \in BOOLEAN
      BY <1>0, <2>1 DEF TypeOK
    <2> QED
      BY <1>0, <2>1, <2>2, ClientInv DEF TypeOK
  <1> QED
    BY <1>1, <1>2, <1>3, <1>4, <1>5, <1>6 DEF Next

LEMMA InvAlways ==
    Spec => []Inv
  BY InvInit, InvStep, PTL DEF Spec

-----------------------------------------------------------------------------
(* Theorems                                                                *)

\* The variables of utils.hpp's handlers have their types in every reachable
\* state: no pipe holds more than it can, no table more descriptors than
\* there are, and no thread forwards more of a body, or sends more ranges,
\* than it was asked for.
THEOREM TypeCorrect ==
    Spec => []TypeOK
  <1>1. Inv => TypeOK
    BY DEF Inv
  <1> QED
    BY <1>1, InvAlways, PTL

\* No error page follows the status line of an answer, whatever fails.
THEOREM OneAnswerSafe ==
    Spec => []OneAnswer
  <1>1. Inv => OneAnswer
    <2> SUFFICES ASSUME Inv, NEW c \in Conns
                 PROVE  OnlyAnswer(c)
      BY DEF OneAnswer, OnlyAnswer
    <2>0. TypeOK /\ ConnInv
      BY DEF Inv
    <2>1. CASE c \in closed
      BY <2>0, <2>1 DEF ConnInv, Answered
    <2>2. CASE c \notin closed /\ ~Served(c)
      <3>1. heard[c] = << >>
        BY <2>0, <2>2 DEF ConnInv, Untouched, Quiet
      <3>2. Len(heard[c]) = 0
        BY <3>1, EmptyLength
      <3> QED
        BY <3>2 DEF OnlyAnswer
    <2>3. CASE c \notin closed /\ Served(c)
      <3>1. PICK t \in Threads : sock[t] = c
        BY <2>3 DEF Served
      <3>2. pc[t] # "idle"
        BY <2>0, <3>1, HandlerAssumption DEF ConnInv, Hands
      <3>3. PICK d \in Conns, n \in Nat, err \in Codes \union {NoCode}, k \in Nat,
                  h \in Answers, m \in Nat, f \in Pipes, g \in Programs :
                /\ Holds(t, d, n, err, k, h, m, f, g) /\ req[d] \in Request
                /\ Phase(d, pc[t], n, err)
        BY <3>2, InHand
      <3>4. d = c /\ h = heard[c]
        BY <3>1, <3>3 DEF Holds
      <3>5. Len(heard[c]) \in Nat /\ heard[c] \in Answers
        BY <3>4 DEF Answers
      <3>6. Parts(req[c]) \in Nat
        BY <3>3, <3>4 DEF Parts, IsRange, Request
      <3>7. CASE pc[t] \in {"recv", "pipe", "fork", "parent", "recvBody", "writePipe",
                            "status", "list"}
        <4>1. heard[c] = << >>
          BY <3>3, <3>4, <3>7 DEF Phase, Quiet
        <4>2. Len(heard[c]) = 0
          BY <4>1, EmptyLength
        <4> QED
          BY <4>2 DEF OnlyAnswer
      <3>8. CASE pc[t] \in {"readPipe", "error"}
        BY <3>3, <3>4, <3>5, <3>8 DEF Phase, OnlyAnswer
      <3>9. CASE pc[t] = "close"
        BY <3>3, <3>4, <3>9 DEF Phase
      <3>10. CASE pc[t] = "range"
        <4>1. PartsSoFar(c, n) /\ n < Parts(req[c])
          BY <3>3, <3>4, <3>10 DEF Phase
        <4>2. n <= Parts(req[c])
          BY <3>6, <4>1
        <4> QED
          BY <3>3, <3>4, <3>5, <4>1, <4>2, PartsAreAnswer
      <3>11. CASE pc[t] \in {"open", "readFile"}
        <4>1. PartsSoFar(c, n + 1) /\ n < Parts(req[c])
          BY <3>3, <3>4, <3>11 DEF Phase
        <4>2. n + 1 \in Nat /\ n + 1 <= Parts(req[c])
          BY <3>6, <4>1
        <4> QED
          BY <3>3, <3>4, <3>5, <4>1, <4>2, PartsAreAnswer
      <3>12. pc[t] \in Places
        BY <3>3 DEF Holds
      <3> QED
        BY <3>2, <3>7, <3>8, <3>9, <3>10, <3>11, <3>12 DEF Places
    <2> QED
      BY <2>1, <2>2, <2>3
  <1> QED
    BY <1>1, InvAlways, PTL

\* What a program wrote is passed on whole before its connection is closed:
\* the end of the pipe is seen only when the program has ended, because it
\* holds a writing end until then.
THEOREM AnswerSafe ==
    Spec => []AnswerWhole
  <1>1. Inv => AnswerWhole
    BY DEF Inv, ConnInv, Answered, WholeAnswer, AnswerWhole
  <1> QED
    BY <1>1, InvAlways, PTL

\* When headers end in \r\n\r\n, as pos + 4 supposes, a program gets the body
\* of its request and nothing else.
THEOREM BodySafe ==
    ASSUME LfUnits = 0 \/ \A r \in Requests : ~r.lf
    PROVE  Spec => []BodyWhole
  <1>1. Inv => BodyWhole
    <2> SUFFICES ASSUME Inv, NEW t \in Threads,
                        pc[t] \in {"recvBody", "status", "readPipe"},
                        prog[sock[t]] # "none"
                 PROVE  taken[sock[t]] = req[sock[t]].head + got[sock[t]]
                                            + fill[sock[t]]["in"]
      BY DEF BodyWhole
    <2>1. PICK c \in Conns, n \in Nat, err \in Codes \union {NoCode}, k \in Nat,
                h \in Answers, m \in Nat, f \in Pipes, g \in Programs :
              /\ Holds(t, c, n, err, k, h, m, f, g) /\ req[c] \in Request
              /\ Phase(c, pc[t], n, err)
      BY InHand
    <2>2. sock[t] = c /\ fill[c] = f
      BY <2>1 DEF Holds
    <2>3. BodySoFar(c, 0)
      BY <2>1 DEF Phase
    <2>4. LfUnits = 0 \/ ~req[c].lf
      BY DEF Inv, TypeOK
    <2>5. /\ req[c].head \in Nat /\ got[c] \in Nat /\ fill[c]["in"] \in Nat
      BY <2>1, <2>2, HandlerAssumption DEF Inv, TypeOK, Request, Pipes
    <2> QED
      BY <2>2, <2>3, <2>4, <2>5 DEF BodySoFar
  <1> QED
    BY <1>1, InvAlways, PTL
=============================================================================
